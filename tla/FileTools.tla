----------------------------- MODULE FileTools ------------------------------
(* The file tools of an agent (tools/builtin/file.rs): concurrent calls on *)
(* one file, and the list of a tree.                                       *)
EXTENDS Integers, Sequences, FiniteSets, SequencesExt

CONSTANTS
  Reader, Overwriter, Appender,   \* the calls: each is made once
  Offset, Limit,                  \* arguments of a read
  Length,                         \* bytes a writer writes
  Buffer,                         \* bytes tokio hands to one write, and reads at once
  MAX_READ_SIZE,
  Top,              \* the directory asked for
  Entry, Directory, \* what is below it, and which of these are directories
  ParentOf,
  Hidden,           \* names that start with a dot
  Limits            \* values of "limit"

VARIABLES
  file,       \* its bytes; NoFile before it is there
  fileAt, arg,    \* where each call is, the arguments of a read
  size,       \* what a read saw in the metadata
  left,       \* bytes of an appender not yet handed over
  background, \* bytes handed over and not yet written
  got,        \* what a read returned
  spoilt,      \* calls whose file was overwritten, or whose write failed, after they began
  recursive, include_hidden, listLimit,
  present,          \* entries that are on disk
  stack, entries,   \* of list_recursive
  current, unread,  \* the directory being read, what next_entry has yet to give
  batch,            \* its entries so far: [entry, directory]
  listAt

-----------------------------------------------------------------------------
(* Calls of the file tools on one path (tools/builtin/file.rs), interleaved   *)
(* wherever they wait for the disk.  A byte is the call that wrote it and its *)
(* place in what that call writes.  An overwrite truncates first and writes   *)
(* from the start; an append hands its bytes to a background task of tokio    *)
(* and returns; a read looks at the size, opens, and reads once.              *)

Call == Reader \cup Overwriter \cup Appender


callVars == <<file, fileAt, arg, size, left, background, got, spoilt>>

NoFile == <<"no", "file">>
Byte == Call \X (1..Length)
BytesOf(c) == [i \in 1..Length |-> <<c, i>>]
Least(a, b) == IF a <= b THEN a ELSE b
OnDisk == IF file = NoFile THEN <<>> ELSE file
Argument == [offset: Offset, limit: Limit]

CallTypeOK ==
  /\ file = NoFile \/ file \in Seq(Byte)
  /\ fileAt \in [Call -> {"idle", "open", "read", "truncated", "append", "ok", "error", "panic"}]
  /\ arg \in [Reader -> Argument \cup {<<>>}]
  /\ size \in [Reader -> 0..MAX_READ_SIZE]
  /\ left \in [Appender -> 0..Length]
  /\ background \in [Appender -> SUBSET (1..Length)]
  /\ got \in [Reader -> Seq(Byte)]
  /\ spoilt \subseteq Call

CallInit ==
  /\ file = NoFile /\ fileAt = [c \in Call |-> "idle"]
  /\ arg = [r \in Reader |-> <<>>] /\ size = [r \in Reader |-> 0]
  /\ left = [a \in Appender |-> 0] /\ background = [a \in Appender |-> {}]
  /\ got = [r \in Reader |-> <<>>] /\ spoilt = {}

Begun == {c \in Call : fileAt[c] # "idle"}
Goes(c, stage) == fileAt' = [fileAt EXCEPT ![c] = stage]

\* FileReadTool: the metadata.  No file, or one above the limit, is refused
\* whatever part of it was asked for.
Stat(r, a) ==
  /\ fileAt[r] = "idle"
  /\ arg' = [arg EXCEPT ![r] = a]
  /\ IF file = NoFile \/ Len(OnDisk) > MAX_READ_SIZE
     THEN Goes(r, "error") /\ UNCHANGED size
     ELSE Goes(r, "open") /\ size' = [size EXCEPT ![r] = Len(file)]
  /\ UNCHANGED <<file, left, background, got, spoilt>>

\* Open and seek.  size - offset below zero is a panic where overflow is
\* checked, and wraps to more than any limit where it is not.
Open(r) ==
  /\ fileAt[r] = "open"
  /\ Goes(r, "read") \/ (arg[r].offset > size[r] /\ Goes(r, "panic"))
  /\ UNCHANGED <<file, arg, size, left, background, got, spoilt>>

\* Mutant: the offset is not taken off the size.
BufferLengthOfSize(r) == Least(arg[r].limit, size[r])

BufferLength(r) ==
  IF arg[r].offset > size[r] THEN arg[r].limit
                             ELSE Least(arg[r].limit, size[r] - arg[r].offset)

\* Mutant: the file is read from its start.
PieceFromStart(r) == SubSeq(file, 1, Least(Len(file), Least(BufferLength(r), Buffer)))

\* One read from the offset fills what the buffer and tokio let it.
Piece(r) ==
  SubSeq(file, arg[r].offset + 1,
         Least(Len(file), arg[r].offset + Least(BufferLength(r), Buffer)))

\* A piece that begins or ends inside a character is no text, and an error
\* unless base64 was asked for.
ReadOnce(r) ==
  /\ fileAt[r] = "read"
  /\ \/ Goes(r, "ok") /\ got' = [got EXCEPT ![r] = Piece(r)]
     \/ Piece(r) # <<>> /\ Goes(r, "error") /\ UNCHANGED got
  /\ UNCHANGED <<file, arg, size, left, background, spoilt>>

\* FileWriteTool, overwriting: fs::write creates or truncates, then writes.
Truncate(w) ==
  /\ fileAt[w] = "idle"
  /\ file' = <<>> /\ Goes(w, "truncated")
  /\ spoilt' = spoilt \cup Begun
  /\ UNCHANGED <<arg, size, left, background, got>>
Overwritten(w) == BytesOf(w) \o SubSeq(OnDisk, Length + 1, Len(OnDisk))
WriteAll(w) ==
  /\ fileAt[w] = "truncated"
  /\ file' = Overwritten(w) /\ Goes(w, "ok")
  /\ spoilt' = spoilt \cup (Begun \ {w})
  /\ UNCHANGED <<arg, size, left, background, got>>

\* FileWriteTool, appending.
OpenAppend(a) ==
  /\ fileAt[a] = "idle"
  /\ file' = OnDisk /\ Goes(a, "append")
  /\ left' = [left EXCEPT ![a] = Length]
  /\ UNCHANGED <<arg, size, background, got, spoilt>>

NextBytes(a, n) == (Length - left[a] + 1)..(Length - left[a] + n)

\* Mutant: a buffer is handed over while the one before it is being written.
HandOverAtOnce(a) ==
  /\ fileAt[a] = "append" /\ left[a] > 0
  /\ LET n == Least(left[a], Buffer) IN
       /\ background' = [background EXCEPT ![a] = NextBytes(a, n)]
       /\ left' = [left EXCEPT ![a] = @ - n]
  /\ UNCHANGED <<file, fileAt, arg, size, got, spoilt>>

\* write_all gives tokio one buffer after the other and returns with the last
\* one handed over, not written: nothing flushes.
HandOver(a) ==
  /\ fileAt[a] = "append" /\ left[a] > 0 /\ background[a] = {}
  /\ LET n == Least(left[a], Buffer) IN
       /\ background' = [background EXCEPT ![a] = NextBytes(a, n)]
       /\ left' = [left EXCEPT ![a] = @ - n]
  /\ UNCHANGED <<file, fileAt, arg, size, got, spoilt>>
AppendReturns(a) ==
  /\ fileAt[a] = "append" /\ left[a] = 0
  /\ Goes(a, "ok")
  /\ UNCHANGED <<file, arg, size, left, background, got, spoilt>>

Run(bytes, a) ==
  [i \in 1..Cardinality(bytes) |-> <<a, i - 1 + (CHOOSE b \in bytes : \A x \in bytes : b <= x)>>]
BackgroundWrites(a) ==
  /\ background[a] # {}
  /\ file' = file \o Run(background[a], a)
  /\ background' = [background EXCEPT ![a] = {}]
  /\ UNCHANGED <<fileAt, arg, size, left, got, spoilt>>
\* The disk is full: the next hand-over reports it, if there is one.
BackgroundFails(a) ==
  /\ background[a] # {}
  /\ background' = [background EXCEPT ![a] = {}]
  /\ IF fileAt[a] = "append" /\ left[a] > 0 THEN Goes(a, "error") ELSE UNCHANGED fileAt
  /\ spoilt' = spoilt \cup {a}
  /\ UNCHANGED <<file, arg, size, left, got>>

CallNext ==
  \/ \E r \in Reader : Open(r) \/ ReadOnce(r) \/ \E a \in Argument : Stat(r, a)
  \/ \E w \in Overwriter : Truncate(w) \/ WriteAll(w)
  \/ \E a \in Appender :
       OpenAppend(a) \/ HandOver(a) \/ AppendReturns(a) \/ BackgroundWrites(a) \/ BackgroundFails(a)

-----------------------------------------------------------------------------
Positions(c) == {i \in 1..Len(OnDisk) : OnDisk[i][1] = c}

\* What a call wrote is in the file once and in its order, and an append that
\* returned is all there, or its last buffer is on its way, unless an
\* overwrite came after it began or the disk failed.
WritesKept ==
  /\ \A c \in Call : \A i, j \in Positions(c) : i < j => OnDisk[i][2] < OnDisk[j][2]
  /\ \A a \in Appender : fileAt[a] = "ok" /\ a \notin spoilt =>
       Cardinality(Positions(a)) + Cardinality(background[a]) = Length

\* A read returns no more than its limit, and, if nobody overwrote the file
\* meanwhile, what the file has from the offset on, as far as it went when the
\* call began and one read of tokio reaches: appends do not disturb it.
ReadsTrue ==
  \A r \in Reader : fileAt[r] = "ok" =>
    /\ Len(got[r]) <= arg[r].limit
    /\ r \notin spoilt /\ arg[r].offset <= size[r] =>
         LET n == Least(Buffer, Least(arg[r].limit, size[r] - arg[r].offset)) IN
         got[r] = SubSeq(OnDisk, arg[r].offset + 1, arg[r].offset + n)

-----------------------------------------------------------------------------
(* One call of the file_list tool (tools/builtin/file.rs): the walk over a    *)
(* tree that others may be removing things from, with its limit, its stack of *)
(* directories and the hidden entries it passes over.                         *)

listVars == <<recursive, include_hidden, listLimit, present, stack, entries, current, unread, batch, listAt>>

Listed == [entry: Entry, directory: BOOLEAN]
In(d) == {e \in present : ParentOf[e] = d}

ListTypeOK ==
  /\ {recursive, include_hidden} \subseteq BOOLEAN /\ listLimit \in Limits
  /\ present \subseteq Entry /\ unread \subseteq Entry /\ batch \subseteq Listed
  /\ stack \in Seq(Directory \cup {Top}) /\ entries \in Seq(Listed)
  /\ current \in Directory \cup {Top}
  /\ listAt \in {"pop", "read", "done", "error"}

ListInit ==
  /\ recursive \in BOOLEAN /\ include_hidden \in BOOLEAN /\ listLimit \in Limits
  /\ present = Entry /\ stack = <<Top>> /\ entries = <<>>
  /\ current = Top /\ unread = {} /\ batch = {} /\ listAt = "pop"

\* The loop of list_recursive up to read_dir; list_directory starts there too.
\* A directory that is gone by now fails the whole call.
Pop ==
  /\ listAt = "pop" /\ stack # <<>> /\ Len(entries) < listLimit
  /\ current' = Last(stack) /\ stack' = Front(stack)
  /\ batch' = {}
  /\ IF current' \in present \cup {Top}
     THEN unread' = In(current') /\ listAt' = "read"
     ELSE unread' = {} /\ listAt' = "error"
  /\ UNCHANGED <<recursive, include_hidden, listLimit, present, entries>>

Room == listLimit - Len(entries)

\* next_entry, in any order.  An entry whose metadata are gone is shown as a file.
NextEntry(e) ==
  /\ listAt = "read" /\ e \in unread /\ Cardinality(batch) < Room
  /\ unread' = unread \ {e}
  /\ batch' = IF e \in Hidden /\ ~include_hidden THEN batch
              ELSE batch \cup {[entry |-> e, directory |-> e \in Directory \cap present]}
  /\ UNCHANGED <<recursive, include_hidden, listLimit, present, stack, entries, current, listAt>>

\* Directories sort before files.
Sorted(b) == SetToSeq({x \in b : x.directory}) \o SetToSeq({x \in b : ~x.directory})
Directories(b) == SetToSeq({x.entry : x \in {y \in b : y.directory}})

\* Mutant: every entry is pushed, whether or not it is listed.
PushedAll(b) == stack \o SetToSeq(In(current) \cap Directory)
Pushed(b) == stack \o Directories(b)

DirectoryRead ==
  /\ listAt = "read" /\ (unread = {} \/ Cardinality(batch) >= Room)
  /\ entries' = entries \o Sorted(batch)
  /\ IF recursive THEN stack' = Pushed(batch) /\ listAt' = "pop"
                  ELSE listAt' = "done" /\ UNCHANGED stack
  /\ UNCHANGED <<recursive, include_hidden, listLimit, present, current, unread, batch>>

Finish ==
  /\ listAt = "pop" /\ (stack = <<>> \/ Len(entries) >= listLimit)
  /\ listAt' = "done"
  /\ UNCHANGED <<recursive, include_hidden, listLimit, present, stack, entries, current, unread, batch>>

\* Somebody removes an entry, a directory after what is in it.
Vanish(e) ==
  /\ listAt \in {"pop", "read"} /\ e \in present /\ In(e) = {}
  /\ present' = present \ {e}
  /\ UNCHANGED <<recursive, include_hidden, listLimit, stack, entries, current, unread, batch, listAt>>

ListNext == Pop \/ DirectoryRead \/ Finish \/ \E e \in Entry : NextEntry(e) \/ Vanish(e)

-----------------------------------------------------------------------------
Names == {entries[i].entry : i \in 1..Len(entries)}
Shown(e) == e \notin Hidden \/ include_hidden

\* A list keeps its limit and names nothing twice; one that was not cut short,
\* of a tree nobody touched, holds every entry a walk over shown directories
\* comes to, and no other.
ListWhole ==
  /\ Len(entries) <= listLimit /\ Cardinality(Names) = Len(entries)
  /\ listAt = "done" /\ present = Entry /\ Len(entries) < listLimit =>
       \A e \in Entry : e \in Names <=>
         /\ Shown(e)
         /\ ParentOf[e] = Top \/ (recursive /\ ParentOf[e] \in Names)

-----------------------------------------------------------------------------
\* The parts share no state and move one at a time.
vars == <<callVars, listVars>>

Init == CallInit /\ ListInit

TypeOK == CallTypeOK /\ ListTypeOK

Next ==
    \/ CallNext /\ UNCHANGED listVars
    \/ ListNext /\ UNCHANGED callVars

Spec == Init /\ [][Next]_vars
=============================================================================
