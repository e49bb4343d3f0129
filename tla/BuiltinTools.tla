---------------------------- MODULE BuiltinTools ----------------------------
(* Two tools of an agent that reach outside the node: the shell            *)
(* (tools/builtin/shell.rs) and the reader of web pages                    *)
(* (tools/builtin/http.rs).                                                *)
EXTENDS Integers, SequencesExt

CONSTANTS
  PipeCapacity,
  Input,            \* sizes of "stdin"; NoInput when it is not given
  NoInput,
  Output,           \* bound: bytes written to a stream
  MAX_OUTPUT_SIZE,
  Kind,       \* what is removed with its content: "script", "style", "comment"
  MaxPieces,
  Lengths,    \* values of max_length
  Size, MAX_RESPONSE_SIZE

VARIABLES
  shellAt,               \* where execute is
  todo,             \* input still to be written
  stdin, stdinOpen, \* bytes in the pipe; whether execute holds its end
  alive,            \* processes of the call
  holders,          \* per stream: who has its end for writing
  pipe, written, got,
  result,
  page,
  max_length,
  fetchAt,         \* "writing" the page, then "sent", "answered" and the outcome
  declared,   \* the length in the headers, or -1
  actual,     \* the length of the body
  text,       \* the places kept
  part,       \* bytes kept of the piece after them
  text_length, truncated

-----------------------------------------------------------------------------
(* One call of the shell tool (tools/builtin/shell.rs): the child it spawns,  *)
(* the three pipes between them, and the timer that starts only once the      *)
(* input is written.  What the child and the processes it leaves behind do is *)
(* anybody's program: read, write, close, fork, exit, at any time.  A byte    *)
(* stands for as many as the properties do not tell apart.                    *)

shellVars == <<shellAt, todo, stdin, stdinOpen, alive, holders, pipe, written, got, result>>

Stream == {"stdout", "stderr"}
Process == {"child", "grandchild"}
Watched == {"stdout", "stderr", "wait"}   \* what runs under the timeout

ShellTypeOK ==
  /\ shellAt \in {"idle", "write", "done"} \cup Watched
  /\ todo \in 0..10 /\ stdin \in 0..PipeCapacity /\ stdinOpen \in BOOLEAN
  /\ alive \subseteq Process /\ holders \in [Stream -> SUBSET Process]
  /\ pipe \in [Stream -> 0..PipeCapacity]
  /\ written \in [Stream -> 0..Output] /\ got \in [Stream -> 0..Output]
  /\ result \in {"none", "refused", "output", "cut", "timeout", "panic"}

ShellInit ==
  /\ shellAt = "idle" /\ todo = 0 /\ stdin = 0 /\ stdinOpen = FALSE
  /\ alive = {} /\ holders = [s \in Stream |-> {}]
  /\ pipe = [s \in Stream |-> 0] /\ written = pipe /\ got = pipe
  /\ result = "none"

\* A blocked command, or one that cannot be spawned, is refused.
Refuse ==
  /\ shellAt = "idle" /\ shellAt' = "done" /\ result' = "refused"
  /\ UNCHANGED <<todo, stdin, stdinOpen, alive, holders, pipe, written, got>>

Spawn(input) ==
  /\ shellAt = "idle"
  /\ alive' = {"child"} /\ holders' = [s \in Stream |-> {"child"}]
  /\ stdinOpen' = TRUE
  /\ IF input = NoInput THEN shellAt' = "stdout" /\ todo' = 0
                        ELSE shellAt' = "write" /\ todo' = input
  /\ UNCHANGED <<stdin, pipe, written, got, result>>

\* write_all waits for room; it fails, and is ignored, once nobody can read.
WriteInput ==
  /\ shellAt = "write" /\ todo > 0
  /\ IF alive = {} THEN todo' = 0 /\ UNCHANGED stdin
                   ELSE stdin < PipeCapacity /\ stdin' = stdin + 1 /\ todo' = todo - 1
  /\ UNCHANGED <<shellAt, stdinOpen, alive, holders, pipe, written, got, result>>

\* Mutant: the input counts as written when the child has read it.
InputWrittenOnceRead ==
  /\ shellAt = "write" /\ todo = 0 /\ stdin = 0
  /\ stdinOpen' = FALSE /\ shellAt' = "stdout"
  /\ UNCHANGED <<todo, stdin, alive, holders, pipe, written, got, result>>

\* The handle is dropped; the timeout begins.
InputWritten ==
  /\ shellAt = "write" /\ todo = 0
  /\ stdinOpen' = FALSE /\ shellAt' = "stdout"
  /\ UNCHANGED <<todo, stdin, alive, holders, pipe, written, got, result>>

\* read_to_end: stdout to its end, then stderr.
Read(s) ==
  /\ shellAt = s /\ pipe[s] > 0
  /\ pipe' = [pipe EXCEPT ![s] = @ - 1] /\ got' = [got EXCEPT ![s] = @ + 1]
  /\ UNCHANGED <<shellAt, todo, stdin, stdinOpen, alive, holders, written, result>>

\* Mutant: a stream ends with the child.
EndedWithChild(s) == pipe[s] = 0 /\ "child" \notin alive

Ended(s) == pipe[s] = 0 /\ holders[s] = {}

\* wait closes a stdin that is still open before it waits.
StdoutEnds ==
  /\ shellAt = "stdout" /\ Ended("stdout") /\ shellAt' = "stderr"
  /\ UNCHANGED <<todo, stdin, stdinOpen, alive, holders, pipe, written, got, result>>
StderrEnds ==
  /\ shellAt = "stderr" /\ Ended("stderr") /\ shellAt' = "wait" /\ stdinOpen' = FALSE
  /\ UNCHANGED <<todo, stdin, alive, holders, pipe, written, got, result>>

\* from_utf8_lossy leaves text as it is and makes three bytes of one that is none.
LossyLengths(n) == n..(3 * n)

\* truncate_output measures the lossy text and cuts it at a byte: inside a
\* character, one it put in among them, that is a panic.
Return ==
  /\ shellAt = "wait" /\ "child" \notin alive
  /\ shellAt' = "done"
  /\ \E length \in [Stream -> 0..(3 * Output)] :
       /\ \A s \in Stream : length[s] \in LossyLengths(got[s])
       /\ result' \in IF \A s \in Stream : length[s] <= MAX_OUTPUT_SIZE
                      THEN {"output"} ELSE {"cut", "panic"}
  /\ UNCHANGED <<todo, stdin, stdinOpen, alive, holders, pipe, written, got>>

\* Mutant: the timeout covers the reading only.
InTimeWhileReading == {"stdout", "stderr"}
UnderTimeout == Watched

\* The child is killed and waited for, not the processes it left behind.
Timeout ==
  /\ shellAt \in UnderTimeout
  /\ shellAt' = "done" /\ result' = "timeout"
  /\ alive' = alive \ {"child"}
  /\ holders' = [s \in Stream |-> holders[s] \ {"child"}]
  /\ stdinOpen' = FALSE
  /\ UNCHANGED <<todo, stdin, pipe, written, got>>

Running == shellAt \in Watched \cup {"write"}

ProcessReads ==
  /\ Running /\ alive # {} /\ stdin > 0 /\ stdin' = stdin - 1
  /\ UNCHANGED <<shellAt, todo, stdinOpen, alive, holders, pipe, written, got, result>>
ProcessWrites(s) ==
  /\ Running /\ holders[s] # {} /\ pipe[s] < PipeCapacity /\ written[s] < Output
  /\ pipe' = [pipe EXCEPT ![s] = @ + 1] /\ written' = [written EXCEPT ![s] = @ + 1]
  /\ UNCHANGED <<shellAt, todo, stdin, stdinOpen, alive, holders, got, result>>
ProcessCloses(p, s) ==
  /\ Running /\ p \in holders[s]
  /\ holders' = [holders EXCEPT ![s] = @ \ {p}]
  /\ UNCHANGED <<shellAt, todo, stdin, stdinOpen, alive, pipe, written, got, result>>
ChildForks ==
  /\ Running /\ alive = {"child"} /\ alive' = Process
  /\ holders' = [s \in Stream |->
       IF "child" \in holders[s] THEN Process ELSE holders[s]]
  /\ UNCHANGED <<shellAt, todo, stdin, stdinOpen, pipe, written, got, result>>
ProcessExits(p) ==
  /\ Running /\ p \in alive /\ alive' = alive \ {p}
  /\ holders' = [s \in Stream |-> holders[s] \ {p}]
  /\ UNCHANGED <<shellAt, todo, stdin, stdinOpen, pipe, written, got, result>>

Execute == WriteInput \/ InputWritten \/ StdoutEnds \/ StderrEnds \/ Return
           \/ \E s \in Stream : Read(s)

ShellNext ==
  \/ Refuse \/ Timeout \/ Execute
  \/ \E input \in Input \cup {NoInput} : Spawn(input)
  \/ ProcessReads \/ ChildForks
  \/ \E s \in Stream : ProcessWrites(s) \/ \E p \in Process : ProcessCloses(p, s)
  \/ \E p \in Process : ProcessExits(p)

ShellSpec == ShellInit /\ [][ShellNext]_shellVars

\* tokio polls the call and its timer; no process owes the tool anything.
FairSpec == ShellSpec /\ WF_shellVars(Execute) /\ WF_shellVars(Timeout)

-----------------------------------------------------------------------------
\* What a call returns is all that was ever written to the streams, whichever
\* process wrote it and however late, or is cut from all of that, and the child
\* is over.  More than MAX_OUTPUT_SIZE is cut, or a panic, and no output is of
\* which a third fits: what is no text counts three times (shell.rs:352), where
\* stdout_truncated counts it once (shell.rs:302).
OutputWhole ==
  /\ result \in {"output", "cut", "panic"} =>
       got = written /\ \A s \in Stream : holders[s] = {}
  /\ result \in {"output", "cut", "timeout", "panic"} => "child" \notin alive
  /\ result = "output" => \A s \in Stream : written[s] <= MAX_OUTPUT_SIZE
  /\ result \in {"cut", "panic"} => \E s \in Stream : 3 * written[s] > MAX_OUTPUT_SIZE

\* A call whose input fits the pipe comes back, whatever the child does: only
\* the writing of a longer input is not under the timeout.
FittingCallReturns ==
  (shellAt # "idle" /\ shellAt # "done" /\ (shellAt = "write" => todo + stdin <= PipeCapacity))
    ~> (shellAt = "done")

-----------------------------------------------------------------------------
(* The web tools (tools/builtin/http.rs): the answer of a server, its length  *)
(* checked where the server declares it, and html_to_text, whose passes over  *)
(* a page drop scripts, styles, comments and tags one kind after the other    *)
(* and cut what is left.  A page is a sequence of pieces; a text is the       *)
(* sequence of the places in the page of the pieces it keeps.                 *)

fetchVars == <<page, max_length, fetchAt, declared, actual, text, part, text_length, truncated>>

Piece ==
  [kind : {"word"}, wide : BOOLEAN] \cup [kind : {"blank", "tag", "block"}]
  \cup [kind : {"open", "close"}, of : Kind]
Bytes == [word |-> 2, blank |-> 1, block |-> 1, open |-> 4, close |-> 3]

FetchTypeOK ==
  /\ page \in Seq(Piece) /\ Len(page) <= MaxPieces
  /\ max_length \in Lengths
  /\ fetchAt \in {"writing", "sent", "answered", "refused", "failed", "too large", "panic",
             "fetched", "got"}
  /\ declared \in Size \cup {-1} /\ actual \in Size
  /\ ToSet(text) \subseteq DOMAIN page /\ part \in 0..3
  /\ text_length \in Nat /\ truncated \in BOOLEAN

FetchInit ==
  /\ page = <<>> /\ max_length = CHOOSE n \in Lengths : TRUE
  /\ fetchAt = "writing" /\ declared = -1 /\ actual = CHOOSE n \in Size : TRUE
  /\ text = <<>> /\ part = 0 /\ text_length = 0 /\ truncated = FALSE

Write ==
  /\ fetchAt = "writing" /\ Len(page) < MaxPieces
  /\ \E p \in Piece : page' = Append(page, p)
  /\ UNCHANGED <<max_length, fetchAt, declared, actual, text, part, text_length, truncated>>

\* The http tool, which gives a body as it came.  It refuses an address that is
\* no URL, or that it does not go to, and an unknown method.
Send ==
  /\ fetchAt = "writing" /\ page = <<>> /\ fetchAt' \in {"sent", "refused"}
  /\ UNCHANGED <<page, max_length, declared, actual, text, part, text_length, truncated>>

\* send: an answer, with or without a length, or an error, a timeout among them.
Answered ==
  /\ fetchAt = "sent"
  /\ \/ fetchAt' = "failed" /\ UNCHANGED <<declared, actual>>
     \/ \E n \in Size :
          fetchAt' = "answered" /\ actual' = n /\ declared' \in {n, -1}
  /\ UNCHANGED <<page, max_length, text, part, text_length, truncated>>

TooLarge == declared > MAX_RESPONSE_SIZE

\* The http tool: a length nobody declared counts as zero.
ReadBody ==
  /\ fetchAt = "answered"
  /\ \/ TooLarge /\ fetchAt' = "too large"
     \/ ~TooLarge /\ fetchAt' \in {"got", "failed"}
  /\ UNCHANGED <<page, max_length, declared, actual, text, part, text_length, truncated>>

Is(i, k, kind) == page[i].kind = k /\ page[i].of = kind

\* Mutant: the marks are left to the pass over tags, and the content stays.
ContentKept(s, kind) == s

\* replace_all of an opening, the shortest content and its end; without an end
\* the opening stays.
Dropped(s, kind) ==
  LET Ends(j) == Is(j, "close", kind)
      Step(state, i) ==
        IF state[2] THEN <<state[1], ~Ends(i)>>
        ELSE IF Is(i, "open", kind) /\ \E j \in ToSet(s) : j > i /\ Ends(j)
          THEN <<state[1], TRUE>>
        ELSE <<Append(state[1], i), FALSE>>
  IN FoldLeft(Step, <<<<>>, FALSE>>, s)[1]

\* A "<" that is left, and what follows up to the next ">": a tag, or the start
\* of a comment without an end and all that comes before the end of a tag.
WithoutTags(s) ==
  LET Starts(i) == page[i].kind \in {"tag", "open", "close"} /\ ~Is(i, "close", "comment")
      Ends(i) == page[i].kind \in {"tag", "open", "close"} /\ ~Is(i, "open", "comment")
      Step(state, i) ==
        IF state[2] THEN <<state[1], ~Ends(i)>>
        ELSE IF Starts(i) /\ Ends(i) THEN state
        ELSE IF Starts(i) /\ \E j \in ToSet(s) : j > i /\ Ends(j)
          THEN <<state[1], TRUE>>
        ELSE <<Append(state[1], i), FALSE>>
  IN FoldLeft(Step, <<<<>>, FALSE>>, s)[1]

IsBlank(i) == page[i].kind \in {"blank", "block"}

\* One blank for several, none at the ends.
Tidied(s) ==
  LET one == FoldLeft(LAMBDA done, i :
               IF IsBlank(i) /\ (done = <<>> \/ IsBlank(Last(done))) THEN done ELSE Append(done, i),
               <<>>, s)
  IN IF one # <<>> /\ IsBlank(Last(one)) THEN Front(one) ELSE one

Kept ==
  LET all == [i \in DOMAIN page |-> i]
  IN Tidied(WithoutTags(Dropped(Dropped(Dropped(all, "script"), "style"), "comment")))

Length(s) == FoldLeft(LAMBDA n, i : n + Bytes[page[i].kind], 0, s)
Fitting(s) == CHOOSE k \in 0..Len(s) :
                /\ Length(SubSeq(s, 1, k)) <= max_length'
                /\ k < Len(s) => Length(SubSeq(s, 1, k + 1)) > max_length'

\* Mutant: only a text of the very length counts as cut.
ToldIfEqual(t, n) == t = n

\* The flag is the length of the text, cut or not, compared with the limit.
ToldByLength(t, n) == t >= n

\* web_fetch: the text is cut at a byte, which must not be inside a character,
\* and then at the last blank.
Fetch ==
  /\ fetchAt = "writing"
  /\ \E n \in Lengths :
       /\ max_length' = n
       /\ LET s == Kept
              k == Fitting(s)
              rest == n - Length(SubSeq(s, 1, k))
              blanks == {i \in 1..k : IsBlank(s[i])}
              Told(t, p, more) ==
                /\ text' = t /\ part' = p /\ text_length' = Length(t) + p + more
                /\ truncated' = ToldByLength(text_length', n) /\ fetchAt' = "fetched"
          IN IF Length(s) <= n THEN Told(s, 0, 0)
             ELSE IF rest % 2 = 1 /\ page[s[k + 1]] = [kind |-> "word", wide |-> TRUE]
               THEN fetchAt' = "panic" /\ UNCHANGED <<text, part, text_length, truncated>>
             ELSE IF blanks # {}
               THEN Told(SubSeq(s, 1, (CHOOSE i \in blanks : \A j \in blanks : j <= i) - 1), 0, 3)
             ELSE Told(SubSeq(s, 1, k), rest, 3)
  /\ UNCHANGED <<page, declared, actual>>

FetchNext == Write \/ Send \/ Answered \/ ReadBody \/ Fetch
\* A page in which what is opened is closed before anything else is opened.
Simple ==
  \A i \in DOMAIN page :
    /\ page[i].kind = "open" =>
         \E j \in i+1..Len(page) :
           /\ Is(j, "close", page[i].of) /\ \A k \in i+1..j-1 : page[k].kind # "open"
    /\ page[i].kind = "close" =>
         \E j \in 1..i-1 :
           /\ Is(j, "open", page[i].of) /\ \A k \in j+1..i-1 : page[k].kind # "close"

Visible(i) ==
  /\ page[i].kind = "word"
  /\ ~\E a \in 1..i, b \in i..Len(page) :
        /\ page[a].kind = "open" /\ page[b].kind = "close"
        /\ \A k \in a+1..b-1 : page[k].kind \notin {"open", "close"}

\* What a simple page shows is in the text, in order and whole, up to where it
\* was cut, and nothing of its scripts, styles and comments is.
TextIsVisible ==
  fetchAt = "fetched" /\ Simple =>
    LET words == SelectSeq(text, LAMBDA i : page[i].kind = "word")
        shown == SelectSeq([i \in DOMAIN page |-> i], Visible)
    IN /\ IsPrefix(words, shown)
       /\ Len(words) < Len(shown) => text_length > Length(text) + part
       /\ ToSet(text) \ ToSet(words) \subseteq {i \in DOMAIN page : IsBlank(i)}

\* A text is longer than max_length by its dots at most, and one that was cut
\* is reported so unless the cut went back to a blank (http.rs:411, 324).
CutsTold ==
  fetchAt = "fetched" =>
    /\ text_length <= max_length + 3
    /\ text_length > Length(text) + part /\ ~truncated =>
         part = 0 /\ Length(text) + 3 < max_length

-----------------------------------------------------------------------------
\* The parts share no state and move one at a time.
vars == <<shellVars, fetchVars>>

Init == ShellInit /\ FetchInit

TypeOK == ShellTypeOK /\ FetchTypeOK

Next ==
    \/ ShellNext /\ UNCHANGED fetchVars
    \/ FetchNext /\ UNCHANGED shellVars

Spec == Init /\ [][Next]_vars
=============================================================================
