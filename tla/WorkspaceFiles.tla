--------------------------- MODULE WorkspaceFiles ---------------------------
(* The workspace of an agent (workspace/): its files, and IDENTITY.md      *)
(* among them.                                                             *)
EXTENDS Integers, Sequences, FiniteSets, Naturals, SequencesExt

CONSTANTS
  Handle,        \* the processes that hold a Workspace
  NoFile, Newline,
  max_file_size,
  MaxCalls,       \* bound: calls made by all handles
  Known,      \* the sections with a list of their own: traits, style, values
  Custom,     \* other sections
  Value, Default,
  Item, WithColon, \* texts of list items, and those of them with a colon
  MaxLines

VARIABLES
  file,      \* NoFile, or what is in it: Newline, Default or the number of the call
  pageAt,
  mine,      \* the call a handle is making
  opened,    \* handles whose open file is still the one of that name
  calls,     \* calls made
  kept,      \* appends whose file no write or delete took since they opened it
  outcome,    \* of the last call of each handle
  lines,   \* read so far, trimmed, blank ones dropped
  section, \* current_section
  identity

-----------------------------------------------------------------------------
(* One default file of the workspace (workspace/mod.rs), MEMORY.md say, in    *)
(* the hands of several processes: each opens the workspace, which writes the *)
(* defaults that are missing, then reads, writes, appends and deletes.  The   *)
(* checks of a call, the opening of the file and each write to it are steps   *)
(* of their own.  A text and a newline are one unit of length each.           *)

pageVars == <<file, pageAt, mine, opened, calls, kept, outcome>>

PageDefault == 0
Text == 0..MaxCalls
OnDisk == IF file = NoFile THEN <<>> ELSE file

PageTypeOK ==
  /\ file = NoFile \/ \A i \in DOMAIN file : file[i] \in Text \cup {Newline}
  /\ pageAt \in [Handle -> {"closed", "ready", "append", "text", "newline", "write", "fill", "delete"}]
  /\ mine \in [Handle -> Text] /\ calls \in Text
  /\ opened \subseteq Handle /\ kept \subseteq Text
  /\ outcome \in [Handle -> {"none", "ok", "too_large", "not_found"}]

PageInit ==
  /\ file \in {NoFile, <<PageDefault>>} /\ pageAt = [h \in Handle |-> "closed"]
  /\ mine = [h \in Handle |-> PageDefault] /\ opened = {} /\ calls = 0 /\ kept = {}
  /\ outcome = [h \in Handle |-> "none"]

Goes(h, stage) == pageAt' = [pageAt EXCEPT ![h] = stage]
Returns(h, o) == Goes(h, "ready") /\ outcome' = [outcome EXCEPT ![h] = o]
Begins(h) ==
  /\ pageAt[h] = "ready" /\ calls < MaxCalls
  /\ calls' = calls + 1 /\ mine' = [mine EXCEPT ![h] = calls']

\* Workspace::new: ensure_defaults looks, and then writes what was missing.
OpenWorkspace(h) ==
  /\ pageAt[h] = "closed"
  /\ Goes(h, IF file = NoFile THEN "write" ELSE "ready")
  /\ mine' = [mine EXCEPT ![h] = PageDefault]
  /\ UNCHANGED <<file, opened, calls, kept, outcome>>

PageRead(h) ==
  /\ pageAt[h] = "ready"
  /\ outcome' = [outcome EXCEPT ![h] =
       IF file = NoFile THEN "not_found"
       ELSE IF Len(file) > max_file_size THEN "too_large" ELSE "ok"]
  /\ UNCHANGED <<file, pageAt, mine, opened, calls, kept>>

\* Mutant: the size on disk is not added.
FitsAlone(size) == size <= max_file_size
\* The newline that goes behind the text is not in the sum.
Fits(size) == Len(OnDisk) + size <= max_file_size

\* append: the size on disk and the text must fit; the file is opened for
\* appending; writeln! writes the text and then the newline.
AppendLooks(h) ==
  /\ Begins(h)
  /\ IF Fits(1) THEN Goes(h, "append") /\ UNCHANGED outcome ELSE Returns(h, "too_large")
  /\ UNCHANGED <<file, opened, kept>>
AppendOpens(h) ==
  /\ pageAt[h] = "append" /\ Goes(h, "text")
  /\ file' = OnDisk /\ opened' = opened \cup {h} /\ kept' = kept \cup {mine[h]}
  /\ UNCHANGED <<mine, calls, outcome>>
Puts(h, unit) == file' = IF h \in opened THEN Append(file, unit) ELSE file
\* Mutant: the file is opened for writing, not for appending.
AppendTextOver(h) ==
  /\ pageAt[h] = "text" /\ Goes(h, "newline")
  /\ file' = IF h \in opened THEN <<mine[h]>> \o SubSeq(file, 2, Len(file)) ELSE file
  /\ UNCHANGED <<mine, opened, calls, kept, outcome>>
AppendText(h) ==
  /\ pageAt[h] = "text" /\ Goes(h, "newline")
  /\ Puts(h, mine[h])
  /\ UNCHANGED <<mine, opened, calls, kept, outcome>>
AppendNewline(h) ==
  /\ pageAt[h] = "newline" /\ Returns(h, "ok")
  /\ Puts(h, Newline) /\ opened' = opened \ {h}
  /\ UNCHANGED <<mine, calls, kept>>

\* write, of a text that fits: std::fs::write truncates the file and writes from
\* its start.
WriteLooks(h) ==
  /\ Begins(h) /\ Goes(h, "write")
  /\ UNCHANGED <<file, opened, kept, outcome>>
WriteTruncates(h) ==
  /\ pageAt[h] = "write" /\ Goes(h, "fill")
  /\ file' = <<>> /\ opened' = opened \cup {h} /\ kept' = {}
  /\ UNCHANGED <<mine, calls, outcome>>
WriteFills(h) ==
  /\ pageAt[h] = "fill" /\ Returns(h, "ok")
  /\ file' = IF h \in opened THEN <<mine[h]>> \o SubSeq(file, 2, Len(file)) ELSE file
  /\ opened' = opened \ {h} /\ kept' = {}
  /\ UNCHANGED <<mine, calls>>

\* delete
DeleteLooks(h) ==
  /\ Begins(h)
  /\ IF file = NoFile THEN Returns(h, "not_found") ELSE Goes(h, "delete") /\ UNCHANGED outcome
  /\ UNCHANGED <<file, opened, kept>>
Deletes(h) ==
  /\ pageAt[h] = "delete" /\ Returns(h, IF file = NoFile THEN "not_found" ELSE "ok")
  /\ file' = NoFile /\ opened' = {} /\ kept' = {}
  /\ UNCHANGED <<mine, calls>>

\* The process ends; a call in the middle goes no further.
Closes(h) ==
  /\ pageAt[h] # "closed" /\ Goes(h, "closed")
  /\ opened' = opened \ {h}
  /\ kept' = IF pageAt[h] = "text" THEN kept \ {mine[h]} ELSE kept
  /\ UNCHANGED <<file, mine, calls, outcome>>

PageNext == \E h \in Handle :
  \/ OpenWorkspace(h) \/ PageRead(h)
  \/ AppendLooks(h) \/ AppendOpens(h) \/ AppendText(h) \/ AppendNewline(h)
  \/ WriteLooks(h) \/ WriteTruncates(h) \/ WriteFills(h)
  \/ DeleteLooks(h) \/ Deletes(h) \/ Closes(h)

-----------------------------------------------------------------------------
\* The appends past their check that have still to write their text.
Owing == Cardinality({h \in Handle : pageAt[h] \in {"append", "text"}})

\* The text of an append is in the file once it is written, once and no more,
\* until a write or a delete takes its place; and the file goes above the limit by a newline for the append that
\* passed the check last, and by a text and a newline for each one that looked
\* while it was under way.
AppendsKept ==
  /\ \A c \in kept :
       Cardinality({i \in DOMAIN OnDisk : OnDisk[i] = c})
         = IF \E h \in Handle : pageAt[h] = "text" /\ mine[h] = c THEN 0 ELSE 1
  /\ Len(OnDisk) + 2 * Owing <= max_file_size + 1 + 2 * (Cardinality(Handle) - 1)

-----------------------------------------------------------------------------
(* IDENTITY.md (workspace/identity.rs): its lines are read one after the      *)
(* other into an identity, and an identity is written as lines again.  A      *)
(* title is the words of a section's name, joined by one underscore in its    *)
(* key; one written with two blanks keeps two underscores.                    *)

identityVars == <<lines, section, identity>>
Field == {"name", "nature", "vibe"}
Section == [words : Known \cup Custom, doubled : BOOLEAN]
NoSection == [words |-> Default, doubled |-> FALSE]

Line ==
  [kind : {"pair"}, key : Field, value : Value] \cup [kind : {"header"}, section : Section]
  \cup [kind : {"dash", "star"}, item : Item] \cup {[kind |-> "text"]}

Identity == [fields : [Field -> Value \cup {Default}], lists : [Section -> Seq(Item)]]

IdentityTypeOK ==
  /\ lines \in Seq(Line) /\ Len(lines) <= MaxLines
  /\ section \in Section \cup {NoSection}
  /\ identity.fields \in [Field -> Value \cup {Default}]
  /\ \A s \in Section : identity.lists[s] \in Seq(Item)

Unwritten == [fields |-> [f \in Field |-> Default], lists |-> [s \in Section |-> <<>>]]

IdentityInit == lines = <<>> /\ section = NoSection /\ identity = Unwritten

\* Mutant: a list item with a colon is taken for a pair, whatever its mark.
AnyPair(l) == l.kind = "pair" \/ (l.kind \in {"dash", "star"} /\ l.item \in WithColon)

\* A colon makes a pair of a line unless it begins with # or -: a list item
\* marked by a star is one too, of a key nobody knows.
IsPair(l) == l.kind = "pair" \/ (l.kind = "star" /\ l.item \in WithColon)

\* What one line does to <<section, identity>>.
ParseLine(state, l) ==
  LET at == state[1]  id == state[2] IN
  IF IsPair(l)
    THEN IF l.kind = "pair" THEN <<at, [id EXCEPT !.fields[l.key] = l.value]>> ELSE state
  ELSE IF l.kind = "header" THEN <<l.section, id>>
  ELSE IF l.kind \in {"dash", "star"} /\ at # NoSection
    THEN <<at, [id EXCEPT !.lists[at] = Append(@, l.item)]>>
  ELSE state

IdentityRead ==
  /\ Len(lines) < MaxLines
  /\ \E l \in Line :
       /\ lines' = Append(lines, l)
       /\ LET next == ParseLine(<<section, identity>>, l) IN
            section' = next[1] /\ identity' = next[2]

IdentityNext == IdentityRead
Parsed(text) == FoldLeft(ParseLine, <<NoSection, Unwritten>>, text)[2]

\* Mutant: the title keeps its blanks as they came.
TitleAsKept(s) == s

\* A title is written with one blank between the words of the key.
Title(s) == [s EXCEPT !.doubled = FALSE]

Listed(id, s) ==
  IF id.lists[s] = <<>> THEN <<>>
  ELSE <<[kind |-> "header", section |-> Title(s)]>>
       \o [i \in DOMAIN id.lists[s] |-> [kind |-> "dash", item |-> id.lists[s][i]]]

IsOwn(s) == s.words \in Known /\ ~s.doubled

\* The known lists come first, the others in the order of a hash map.
ToMarkdown(id) ==
  LET head == [i \in 1..3 |-> LET f == <<"name", "nature", "vibe">>[i] IN
                 [kind |-> "pair", key |-> f, value |-> id.fields[f]]]
      IdentityText(order) == FoldLeft(LAMBDA done, s : done \o Listed(id, s), <<>>, order)
      own == SetToSeq({s \in Section : IsOwn(s)})
      used == {s \in Section : ~IsOwn(s) /\ id.lists[s] # <<>>}
  IN {head \o IdentityText(own) \o IdentityText(order) : order \in SetToSeqs(used)}

\* An item under a header is in the identity, in its place, unless it is marked
\* by a star and has a colon (identity.rs:87); fields hold the last value given.
ItemsRead ==
  LET HeaderOf(i) == {h \in 1..i : lines[h].kind = "header" /\
                                   \A k \in h+1..i : lines[k].kind # "header"}
      Under(s) == {i \in DOMAIN lines :
                     /\ lines[i].kind \in {"dash", "star"}
                     /\ lines[i].kind = "star" => lines[i].item \notin WithColon
                     /\ \E h \in HeaderOf(i) : lines[h].section = s}
  IN /\ \A s \in Section :
          identity.lists[s] = [k \in 1..Cardinality(Under(s)) |->
            lines[CHOOSE i \in Under(s) : Cardinality({j \in Under(s) : j <= i}) = k].item]
     /\ \A f \in Field : \A i \in DOMAIN lines :
          /\ lines[i].kind = "pair" /\ lines[i].key = f
          /\ \A k \in i+1..Len(lines) : lines[k].kind = "pair" => lines[k].key # f
          => identity.fields[f] = lines[i].value

\* An identity written and read again is the same, but for the sections whose
\* title had a blank too many: their items are then under the plain title.
WrittenIsRead ==
  \A text \in ToMarkdown(identity) :
    LET again == Parsed(text) IN
      /\ again.fields = identity.fields
      /\ \A s \in Section :
           LET twin == [s EXCEPT !.doubled = TRUE] IN
           IF s.doubled THEN again.lists[s] = <<>>
           ELSE again.lists[s] \in {identity.lists[s] \o identity.lists[twin],
                                    identity.lists[twin] \o identity.lists[s]}

-----------------------------------------------------------------------------
\* The parts share no state and move one at a time.
vars == <<pageVars, identityVars>>

Init == PageInit /\ IdentityInit

TypeOK == PageTypeOK /\ IdentityTypeOK

Next ==
    \/ PageNext /\ UNCHANGED identityVars
    \/ IdentityNext /\ UNCHANGED pageVars

Spec == Init /\ [][Next]_vars
=============================================================================
