---------------------------- MODULE ChatSession -----------------------------
(* The interactive chat (cli/chat.rs): its sessions, and the commands      *)
(* typed at its prompt.                                                    *)
EXTENDS Integers, SequencesExt, Sequences

CONSTANTS
  Model, DefaultModel,  \* --model and the model of ChatSettings::default
  Torn, None,           \* a settings file cut short, and no file
  MaxExchanges          \* bound: exchanges asked in one session

VARIABLES
  saved,     \* chat_settings.json
  sessionSettings,
  mode,      \* "Local" or "Api"
  at,        \* "off", "prompt", "asking"
  sessionHistory, prompt,
  cleared,   \* history variable: exchanges /clear dropped
  shown,     \* exchanges whose answer reached the terminal
  total_requests,
    typed,     \* the words of the line, the first without its slash
    completed, \* whether the completer wrote it
    understood \* what Enter made of the last line

-----------------------------------------------------------------------------
(* The interactive chat (cli/chat.rs): one session after another over the     *)
(* settings file they leave behind, the conversation history with /clear and  *)
(* /compact, the prompt built from it, and where the answer is printed.  An   *)
(* exchange is its number; a history entry is the set of exchanges it stands  *)
(* for, so a summary holds several.  Another chat may write the same settings *)
(* file; commands that only print are left out.                               *)

sessionVars == <<saved, sessionSettings, mode, at, sessionHistory, prompt, cleared, shown, total_requests>>
conversation == <<sessionHistory, prompt, cleared, shown, total_requests>>

ChatSettings == [model: Model, stream: BOOLEAN]
Default == [model |-> DefaultModel, stream |-> TRUE]
Exchange == 1..MaxExchanges

SessionTypeOK ==
  /\ saved \in ChatSettings \cup {Torn, None}
  /\ sessionSettings \in ChatSettings
  /\ mode \in {"Local", "Api"} /\ at \in {"off", "prompt", "asking"}
  /\ sessionHistory \in Seq(SUBSET Exchange) /\ prompt \in Seq(SUBSET Exchange)
  /\ cleared \subseteq Exchange /\ shown \subseteq Exchange
  /\ total_requests \in 0..MaxExchanges

Forget ==
  sessionHistory' = <<>> /\ prompt' = <<>> /\ cleared' = {} /\ shown' = {} /\ total_requests' = 0

SessionInit ==
  /\ saved = None /\ sessionSettings = Default
  /\ mode = "Local" /\ at = "off"
  /\ sessionHistory = <<>> /\ prompt = <<>> /\ cleared = {} /\ shown = {} /\ total_requests = 0

\* load: anything but a whole file gives the defaults.
Loaded == IF saved \in ChatSettings THEN saved ELSE Default

\* A flag left at its default value cannot be told from one not given.
Merged(model, no_stream) ==
  [model |-> IF model # DefaultModel THEN model ELSE Loaded.model,
   stream |-> Loaded.stream /\ ~no_stream]

\* --standalone or no node that answers /api/status in half a second: Local.
Start ==
  /\ at = "off" /\ at' = "prompt"
  /\ \E model \in Model, no_stream \in BOOLEAN : sessionSettings' = Merged(model, no_stream)
  /\ mode' \in {"Local", "Api"}
  /\ UNCHANGED <<saved, conversation>>

\* save: errors are dropped; a failed write leaves the old file or half a new one.
Save(new) == saved' \in {new, saved, Torn}

\* /model, /stream: the command sets one and saves.
ChangeSettings ==
  /\ at = "prompt"
  /\ \E new \in ChatSettings : new # sessionSettings /\ sessionSettings' = new /\ Save(new)
  /\ UNCHANGED <<mode, at, conversation>>

\* The menu has no entry for stream, and saves whatever was typed.
show_settings_menu ==
  /\ at = "prompt"
  /\ \E model \in Model :
       sessionSettings' = [sessionSettings EXCEPT !.model = model] /\ Save([sessionSettings EXCEPT !.model = model])
  /\ UNCHANGED <<mode, at, conversation>>

Clear ==
  /\ at = "prompt" /\ sessionHistory # <<>>
  /\ sessionHistory' = <<>>
  /\ cleared' = UNION ToSet(sessionHistory) \cup cleared
  /\ UNCHANGED <<saved, sessionSettings, mode, at, prompt, shown, total_requests>>

Keep == 2

\* Mutant: the summary stops one exchange short.
CompactedShort(h) ==
  LET old == Len(h) - Keep
  IN  <<UNION ToSet(SubSeq(h, 1, old - 1))>> \o SubSeq(h, old + 1, Len(h))

\* /compact: one entry for everything but the last two exchanges.
Compacted(h) ==
  LET old == Len(h) - Keep
  IN  <<UNION ToSet(SubSeq(h, 1, old))>> \o SubSeq(h, old + 1, Len(h))
Compact ==
  /\ at = "prompt" /\ Len(sessionHistory) > Keep
  /\ sessionHistory' = Compacted(sessionHistory)
  /\ UNCHANGED <<saved, sessionSettings, mode, at, prompt, cleared, shown, total_requests>>

Window == 5
\* Mutant: the first exchanges instead of the last.
build_prompt_first(h) == SubSeq(h, 1, IF Len(h) > Window THEN Window ELSE Len(h))

build_prompt(h) == SubSeq(h, IF Len(h) > Window THEN Len(h) - Window + 1 ELSE 1, Len(h))

Ask ==
  /\ at = "prompt" /\ total_requests < MaxExchanges
  /\ at' = "asking" /\ prompt' = build_prompt(sessionHistory)
  /\ UNCHANGED <<saved, sessionSettings, mode, sessionHistory, cleared, shown, total_requests>>

\* A runtime in this process prints the tokens as they come; otherwise the text
\* is printed at the end -- unless the stream setting is on.
Answer ==
  LET n == total_requests + 1 IN
  /\ at = "asking" /\ at' = "prompt"
  /\ sessionHistory' = Append(sessionHistory, {n})
  /\ shown' = IF ~sessionSettings.stream \/ mode = "Local" THEN shown \cup {n} ELSE shown
  /\ total_requests' = n /\ prompt' = <<>>
  /\ UNCHANGED <<saved, sessionSettings, mode, cleared>>

\* The runtime, the node or the connection fails: nothing is recorded.
AnswerError ==
  /\ at = "asking" /\ at' = "prompt" /\ prompt' = <<>>
  /\ UNCHANGED <<saved, sessionSettings, mode, sessionHistory, cleared, shown, total_requests>>

\* quit, /quit and end of input.
Quit ==
  /\ at = "prompt" /\ at' = "off"
  /\ Save(sessionSettings) /\ Forget
  /\ UNCHANGED <<sessionSettings, mode>>

\* Killed, or Ctrl+C outside the line editor.
Die ==
  /\ at # "off" /\ at' = "off" /\ Forget
  /\ UNCHANGED <<saved, sessionSettings, mode>>

OtherChatSaves ==
  /\ \E new \in ChatSettings : Save(new)
  /\ UNCHANGED <<sessionSettings, mode, at, conversation>>

SessionNext ==
  \/ Start \/ ChangeSettings \/ show_settings_menu \/ Clear \/ Compact
  \/ Ask \/ Answer \/ AnswerError \/ Quit \/ Die \/ OtherChatSaves

-----------------------------------------------------------------------------
\* Every exchange answered since the last /clear is in the history exactly once
\* and in order, by itself or in a summary, however often it was compacted; the
\* last two are always there word for word.
NothingForgotten ==
  LET kept == (1..total_requests) \ cleared IN
  /\ UNION ToSet(sessionHistory) = kept
  /\ \A i, j \in DOMAIN sessionHistory : i < j =>
       \A m \in sessionHistory[i], n \in sessionHistory[j] : m < n
  /\ \A n \in kept : n > total_requests - Keep => {n} \in ToSet(sessionHistory)

\* A model is asked about the most recent exchanges: one that the prompt leaves
\* out is older than every one it holds, and only a history longer than the
\* window leaves one out.
PromptIsRecent ==
  at = "asking" =>
    LET told == UNION ToSet(prompt)
        kept == UNION ToSet(sessionHistory)
    IN  /\ told \subseteq kept
        /\ kept # told => Len(sessionHistory) > Window
        /\ \A m \in kept \ told, n \in told : m < n

\* "For streaming, text was already printed" (chat.rs:1194): every answer in the
\* history has been on the terminal.
AnswersShown == UNION ToSet(sessionHistory) \subseteq shown

-----------------------------------------------------------------------------
(***************************************************************************)
(* The commands of the chat (cli/chat.rs): a line is typed word by word,   *)
(* the completer offers what goes on from it, and Enter has it parsed.     *)
(* Words are in lower case already; arguments are of two kinds, a number   *)
(* and any other text.                                                     *)
(***************************************************************************)

slashVars == <<typed, completed, understood>>

Argument == {"number", "text", "on"}

\* The first words parse_slash_command knows, by the command they give.
Names == [
    help |-> {"help", "h", "?"}, clear |-> {"clear", "c"}, status |-> {"status", "s"},
    model |-> {"model", "m"}, temperature |-> {"temperature", "temp", "t"},
    max_tokens |-> {"max-tokens", "tokens", "max"}, system |-> {"system", "sys"},
    settings |-> {"settings"}, history |-> {"history", "hist"}, export |-> {"export", "save"},
    distributed |-> {"distributed", "dist", "d"}, stream |-> {"stream"}, cost |-> {"cost"},
    balance |-> {"balance", "bal", "wallet"}, peers |-> {"peers", "p"}, jobs |-> {"jobs", "j"},
    compact |-> {"compact"}, doctor |-> {"doctor", "doc"}, config |-> {"config", "conf"},
    tools |-> {"tools"}, tool |-> {"tool"}, skills |-> {"skills"}, skill |-> {"skill"},
    quit |-> {"quit", "exit", "q"}]

Command == DOMAIN Names

\* SLASH_COMMANDS.
Offered ==
    {<<w>> : w \in {"help", "clear", "status", "settings", "history", "export", "quit", "exit",
                    "model", "temperature", "max-tokens", "system", "stream", "distributed",
                    "cost", "balance", "peers", "jobs", "compact", "doctor", "config", "tools",
                    "skills"}}
    \cup {<<"tool", w>> : w \in {"info", "exec", "list"}}
    \cup {<<"skill", w>> : w \in {"info", "create", "scan"}}

\* The commands of show_help, as they are written there.
Helped ==
    {<<w>> : w \in {"help", "h", "?", "status", "s", "settings", "config", "doctor", "clear",
                    "c", "history", "compact", "tools", "skills", "cost", "balance", "peers",
                    "jobs", "quit", "exit", "q"}}
    \cup {<<w, "text">> : w \in {"export", "model", "system"}}
    \cup {<<w, "number">> : w \in {"temperature", "max-tokens"}}
    \cup {<<w, "on">> : w \in {"stream", "distributed"}}
    \cup {<<"tool", w, "text">> : w \in {"info", "exec"}}
    \cup {<<"skill", w, "text">> : w \in {"info", "create"}} \cup {<<"skill", "scan">>}

Word == UNION {Names[c] : c \in Command} \cup {"info", "exec", "list", "create", "scan"}
            \cup Argument

Nothing == [command |-> "none", argument |-> <<>>]

SlashTypeOK ==
    /\ Range(typed) \subseteq Word /\ Len(typed) <= 3
    /\ completed \in BOOLEAN
    /\ understood.command \in Command \cup {"none", "tool info", "tool exec", "skill info",
                                            "skill create", "skill scan"}

SlashInit == typed = <<>> /\ completed = FALSE /\ understood = Nothing

-----------------------------------------------------------------------------
Parsed(command, argument) == [command |-> command, argument |-> argument]

\* Mutant: the names are those of the list of the completer alone.
OfferedOnly(word) == {c \in Command : word \in Names[c] /\ <<word>> \in Offered}

\* The command a first word stands for.
Named(word) == {c \in Command : word \in Names[c]}

\* Mutant: exec is left out, and an unknown word is an error.
KnownOnly(command, all, words) ==
    CASE words = <<>> \/ words[1] = "list" -> Parsed(all, <<>>)
      [] words # <<>> /\ words[1] \in {"info", "create"} /\ Len(words) > 1 ->
             Parsed(command \o " " \o words[1], Tail(words))
      [] words # <<>> /\ words[1] = "scan" -> Parsed("skill scan", <<>>)
      [] OTHER -> Nothing

\* "tool" and "skill": a second word, and a name for info and create; exec
\* goes without one.  Any other second word gives the list.
Subcommand(command, all, words) ==
    LET word == IF words = <<>> THEN "list" ELSE words[1]
        rest == IF words = <<>> THEN <<>> ELSE Tail(words)
    IN  CASE word = "info" \/ (word = "create" /\ command = "skill") ->
                 IF rest = <<>> THEN Nothing ELSE Parsed(command \o " " \o word, rest)
          [] word = "exec" /\ command = "tool" -> Parsed("tool exec", rest)
          [] word = "scan" /\ command = "skill" -> Parsed("skill scan", <<>>)
          [] OTHER -> Parsed(all, <<>>)

\* parse_slash_command of one word and its argument.
Parse(words) ==
    LET argument == Tail(words)
        OfCommand(c) ==
            CASE c \in {"model", "system", "export"} /\ argument = <<>> -> Nothing
              [] c \in {"temperature", "max_tokens"} /\ argument # <<"number">> -> Nothing
              [] c = "tool" -> Subcommand("tool", "tools", argument)
              [] c = "skill" -> Subcommand("skill", "skills", argument)
              [] c \in {"model", "system", "export", "temperature", "max_tokens", "stream",
                        "distributed"} -> Parsed(c, argument)
              [] OTHER -> Parsed(c, <<>>)
    IN  IF Named(words[1]) = {} THEN Nothing ELSE OfCommand(CHOOSE c \in Named(words[1]) : TRUE)

-----------------------------------------------------------------------------
Type ==
    /\ Len(typed) < 3
    /\ \E w \in Word :
        /\ Len(typed) = 2 => w \in Argument
        /\ typed' = Append(typed, w)
    /\ completed' = FALSE /\ understood' = Nothing

\* ChatHelper::complete.
Complete ==
    /\ \E line \in Offered :
        /\ IsPrefix(typed, line)
        /\ typed' = line
    /\ completed' = TRUE /\ understood' = Nothing

\* Enter; anything else than a command is left to ChatSession.
Enter ==
    /\ typed # <<>>
    /\ understood' = Parse(typed)
    /\ typed' = <<>> /\ completed' = FALSE

SlashNext == Type \/ Complete \/ Enter

-----------------------------------------------------------------------------
\* Properties.

\* What the completer writes is a command, as it stands or with an argument
\* after it.
CompletedIsUnderstood ==
    completed => \E rest \in {<<>>, <<"text">>, <<"number">>} : Parse(typed \o rest) # Nothing

\* A line as the help writes it is understood, and lines whose first words are
\* names of one command mean the same.
HelpedIsUnderstood ==
    /\ typed \in Helped => Parse(typed) # Nothing
    /\ typed # <<>> => \A c \in Named(typed[1]), w \in Word :
           w \in Names[c] => Parse(<<w>> \o Tail(typed)) = Parse(typed)

-----------------------------------------------------------------------------
\* The parts share no state and move one at a time.
vars == <<sessionVars, slashVars>>

Init == SessionInit /\ SlashInit

TypeOK == SessionTypeOK /\ SlashTypeOK

Next ==
    \/ SessionNext /\ UNCHANGED slashVars
    \/ SlashNext /\ UNCHANGED sessionVars

Spec == Init /\ [][Next]_vars
=============================================================================
