---------------------------- MODULE ChatChannels ----------------------------
(* The interactive channels of a node (channels/): the manager with its    *)
(* console and webhook, and the event stream.                              *)
EXTENDS Naturals, Sequences, FiniteSets

CONSTANTS
  QueueSize,                 \* of the channel to the agent
  MaxLines, MaxReaders,       \* bounds on the lines typed and on the starts
  Subscriber,
  Capacity,            \* of the broadcast channel
  MaxEvents, MaxStarts \* bounds on the events and on the starts of the keepalive

VARIABLES
  channels,  \* registered, by name
  entered,   \* the lines typed: "text", "blank" or "exit"
  taken,     \* lines read so far
  consoleRunning,   \* of the console
  at, line,  \* of each reader: step and line
  queue,     \* positions of the lines on their way to the agent
  heard,     \* and of those it got
  unanswered, \* of those, the ones it has not answered
  response_buffer, printed, \* answers to the lines at these positions
  pending_responses, fetched, \* answers of the webhook, by message
  ignored,    \* lines read when the console had been stopped
  sent,        \* events so far
  joined,      \* of each subscriber: events sent when it subscribed, or "absent"
  next,        \* the event its receiver is at
  got,         \* events that recv returned to it
  lagged,      \* events it lost for being too far behind
  ended,       \* subscribers whose stream ended
  open,        \* the manager, and with it the sender, exists
  keepaliveOn,
  loops,       \* keepalive loops: each by its start, and whether it sleeps
  stopped,     \* loops there were at the last stop
  late         \* heartbeats since

-----------------------------------------------------------------------------
(* The manager of the interactive channels (channels/manager.rs) with the two *)
(* it comes with: the console (channels/repl.rs), whose reader prints the     *)
(* responses it finds after each line, and the webhook (channels/webhook.rs), *)
(* which keeps its responses until they are fetched.  Starting again leaves   *)
(* the reader there is, which holds stdin as long as it runs.                 *)

consoleVars == <<channels, entered, taken, consoleRunning, at, line, queue, heard, unanswered,
          response_buffer, printed, pending_responses, fetched, ignored>>
console == <<consoleRunning, at, line, response_buffer, printed, taken, ignored>>
webhook == <<pending_responses, fetched>>

Position == 1..MaxLines
Reader == 1..MaxReaders

ConsoleTypeOK ==
  /\ channels \subseteq {"repl", "webhook"}
  /\ entered \in Seq({"text", "blank", "exit"}) /\ Len(entered) <= MaxLines
  /\ taken \in 0..MaxLines /\ consoleRunning \in BOOLEAN
  /\ at \in [Reader -> {"none", "reading", "sending", "sleeping", "ended"}]
  /\ line \in [Reader -> 0..MaxLines]
  /\ {queue, heard, response_buffer, printed} \subseteq Seq(Position)
  /\ unanswered \subseteq Position /\ ignored \subseteq Position
  /\ pending_responses \subseteq Position /\ fetched \in Seq(Position)

ConsoleInit ==
  /\ channels = {} /\ entered = <<>> /\ taken = 0 /\ consoleRunning = FALSE
  /\ at = [r \in Reader |-> "none"] /\ line = [r \in Reader |-> 0]
  /\ queue = <<>> /\ heard = <<>> /\ unanswered = {}
  /\ response_buffer = <<>> /\ printed = <<>>
  /\ pending_responses = {} /\ fetched = <<>> /\ ignored = {}

register(name) ==
  /\ channels' = channels \cup {name} /\ channels' # channels
  /\ UNCHANGED <<entered, console, queue, heard, unanswered, webhook>>
unregister(name) ==
  /\ name \in channels /\ channels' = channels \ {name}
  /\ UNCHANGED <<entered, console, queue, heard, unanswered, webhook>>

Type ==
  /\ Len(entered) < MaxLines
  /\ \E l \in {"text", "blank", "exit"} : entered' = Append(entered, l)
  /\ UNCHANGED <<channels, console, queue, heard, unanswered, webhook>>

\* start_all; the webhook has nothing to start.
start_all(r) ==
  /\ "repl" \in channels /\ at[r] = "none" /\ \A q \in 1..(r - 1) : at[q] # "none"
  /\ consoleRunning' = TRUE /\ at' = [at EXCEPT ![r] = "reading"]
  /\ UNCHANGED <<channels, entered, taken, line, queue, heard, unanswered,
                 response_buffer, printed, webhook, ignored>>

stop_all ==
  /\ "repl" \in channels /\ consoleRunning /\ consoleRunning' = FALSE
  /\ UNCHANGED <<channels, entered, taken, at, line, queue, heard, unanswered,
                 response_buffer, printed, webhook, ignored>>

\* stdin is locked by the reader that started first.
HasStdin(r) == \A q \in 1..(r - 1) : at[q] \in {"none", "ended"}

\* A line is read before running is looked at.
ReadLine(r) ==
  /\ at[r] = "reading" /\ HasStdin(r) /\ taken < Len(entered)
  /\ taken' = taken + 1 /\ line' = [line EXCEPT ![r] = taken']
  /\ LET text == entered[taken'] IN
       \/ /\ ~consoleRunning /\ at' = [at EXCEPT ![r] = "ended"]
          /\ ignored' = ignored \cup {taken'} /\ UNCHANGED consoleRunning
       \/ /\ consoleRunning /\ text = "blank" /\ UNCHANGED <<at, consoleRunning, ignored>>
       \/ /\ consoleRunning /\ text = "exit" /\ consoleRunning' = FALSE
          /\ at' = [at EXCEPT ![r] = "ended"] /\ UNCHANGED ignored
       \/ /\ consoleRunning /\ text = "text" /\ at' = [at EXCEPT ![r] = "sending"]
          /\ UNCHANGED <<consoleRunning, ignored>>
  /\ UNCHANGED <<channels, entered, queue, heard, unanswered, response_buffer, printed, webhook>>

\* blocking_send.
SendLine(r) ==
  /\ at[r] = "sending" /\ Len(queue) < QueueSize
  /\ queue' = Append(queue, line[r]) /\ at' = [at EXCEPT ![r] = "sleeping"]
  /\ UNCHANGED <<channels, entered, taken, consoleRunning, line, heard, unanswered,
                 response_buffer, printed, webhook, ignored>>

\* Mutant: what has been printed stays in the buffer.
PrintAll(r) ==
  /\ at[r] = "sleeping" /\ at' = [at EXCEPT ![r] = "reading"]
  /\ printed' = printed \o response_buffer
  /\ UNCHANGED <<channels, entered, taken, consoleRunning, line, queue, heard, unanswered,
                 response_buffer, webhook, ignored>>

\* What there is after a tenth of a second is printed; what comes later, after
\* the next line.
PrintResponses(r) ==
  /\ at[r] = "sleeping" /\ at' = [at EXCEPT ![r] = "reading"]
  /\ printed' = printed \o response_buffer /\ response_buffer' = <<>>
  /\ UNCHANGED <<channels, entered, taken, consoleRunning, line, queue, heard, unanswered,
                 webhook, ignored>>

AgentHears ==
  /\ queue # <<>> /\ queue' = Tail(queue)
  /\ heard' = Append(heard, Head(queue)) /\ unanswered' = unanswered \cup {Head(queue)}
  /\ UNCHANGED <<channels, entered, console, webhook>>

\* send looks the channel up by the name in the response; without one it fails.
send(p, name) ==
  /\ p \in unanswered /\ unanswered' = unanswered \ {p}
  /\ response_buffer' = IF name = "repl" /\ name \in channels
                        THEN Append(response_buffer, p) ELSE response_buffer
  /\ pending_responses' = IF name = "webhook" /\ name \in channels
                          THEN pending_responses \cup {p} ELSE pending_responses
  /\ UNCHANGED <<channels, entered, taken, consoleRunning, at, line, queue, heard,
                 printed, fetched, ignored>>

get_response(p) ==
  /\ p \in pending_responses /\ pending_responses' = pending_responses \ {p}
  /\ fetched' = Append(fetched, p)
  /\ UNCHANGED <<channels, entered, console, queue, heard, unanswered>>

ConsoleNext ==
  \/ \E name \in {"repl", "webhook"} : register(name) \/ unregister(name)
  \/ Type \/ stop_all \/ AgentHears
  \/ \E r \in Reader : start_all(r) \/ ReadLine(r) \/ SendLine(r) \/ PrintResponses(r)
  \/ \E p \in Position : get_response(p) \/ \E name \in {"repl", "webhook"} : send(p, name)
-----------------------------------------------------------------------------
In(q) == {q[i] : i \in DOMAIN q}
Distinct(q) == Cardinality(In(q)) = Len(q)
Increasing(q) == \A i, j \in DOMAIN q : i < j => q[i] < q[j]

\* The agent gets the lines in the order they were typed, each once, whichever
\* reader took them; one that was taken does not come only if the console had
\* been stopped (channels/repl.rs:67).
LinesHeard ==
  /\ Increasing(heard \o queue)
  /\ \A p \in 1..taken : entered[p] = "text" =>
       \/ p \in In(heard) \cup In(queue) \cup ignored
       \/ \E r \in Reader : at[r] = "sending" /\ line[r] = p

\* A response is given once: printed or waiting to be, fetched or waiting.
ResponsesOnce == Distinct(printed \o response_buffer) /\ Distinct(fetched)

-----------------------------------------------------------------------------
(* Events to the clients of an interactive channel (channels/sse.rs): one     *)
(* broadcast channel of fixed capacity for answers in chunks, what tools do,  *)
(* and heartbeats; a subscriber that is too far behind skips to the oldest    *)
(* event that is still there.                                                 *)

streamVars == <<sent, joined, next, got, lagged, ended, open, keepaliveOn, loops, stopped, late>>
streams == <<joined, next, got, lagged, ended>>
keepalive == <<keepaliveOn, loops, stopped, late>>
Event == 1..MaxEvents
Absent == MaxEvents + 1

StreamTypeOK ==
  /\ sent \in 0..MaxEvents
  /\ joined \in [Subscriber -> 0..Absent] /\ next \in [Subscriber -> 0..Absent]
  /\ got \in [Subscriber -> Seq(Event)] /\ lagged \in [Subscriber -> SUBSET Event]
  /\ ended \subseteq Subscriber /\ open \in BOOLEAN /\ keepaliveOn \in BOOLEAN
  /\ loops \in SUBSET ((1..MaxStarts) \X {"check", "sleep"})
  /\ {stopped, late} \subseteq 0..MaxEvents + MaxStarts

StreamInit ==
  /\ sent = 0 /\ open = TRUE
  /\ joined = [s \in Subscriber |-> Absent] /\ next = [s \in Subscriber |-> 0]
  /\ got = [s \in Subscriber |-> <<>>] /\ lagged = [s \in Subscriber |-> {}]
  /\ ended = {}
  /\ keepaliveOn = FALSE /\ loops = {} /\ stopped = 0 /\ late = 0

Subscribe(s) ==
  /\ open /\ joined[s] = Absent
  /\ joined' = [joined EXCEPT ![s] = sent] /\ next' = [next EXCEPT ![s] = sent + 1]
  /\ UNCHANGED <<sent, got, lagged, ended, open, keepalive>>

\* Whether anybody listens does not matter.
Broadcast ==
  /\ open /\ sent < MaxEvents /\ sent' = sent + 1
  /\ UNCHANGED <<streams, open, keepalive>>

Behind(s) == sent - next[s] + 1 > Capacity

\* Mutant: a subscriber that lags is taken for one whose stream has ended.
RecvLagEnds(s) ==
  /\ joined[s] # Absent /\ s \notin ended /\ next[s] <= sent /\ Behind(s)
  /\ ended' = ended \cup {s}
  /\ UNCHANGED <<sent, joined, next, got, lagged, open, keepalive>>

\* recv: the receiver moves to the oldest event and the loop goes on.
RecvLag(s) ==
  /\ joined[s] # Absent /\ s \notin ended /\ next[s] <= sent /\ Behind(s)
  /\ next' = [next EXCEPT ![s] = sent - Capacity + 1]
  /\ lagged' = [lagged EXCEPT ![s] = @ \cup next[s]..(sent - Capacity)]
  /\ UNCHANGED <<sent, joined, got, ended, open, keepalive>>

Recv(s) ==
  /\ joined[s] # Absent /\ next[s] <= sent /\ ~Behind(s)
  /\ got' = [got EXCEPT ![s] = Append(@, next[s])]
  /\ next' = [next EXCEPT ![s] = @ + 1]
  /\ UNCHANGED <<sent, joined, lagged, ended, open, keepalive>>

\* What is there is received before the end is.
RecvEnd(s) ==
  /\ joined[s] # Absent /\ s \notin ended /\ next[s] > sent /\ ~open /\ loops = {}
  /\ ended' = ended \cup {s}
  /\ UNCHANGED <<sent, joined, next, got, lagged, open, keepalive>>

\* The last owner drops the manager; sleeping loops keep their senders.
Close ==
  /\ open /\ open' = FALSE
  /\ UNCHANGED <<sent, streams, keepalive>>

\* start does not look for a loop that sleeps since before a stop.
Start(g) ==
  /\ open /\ \A l \in loops : l[1] < g
  /\ keepaliveOn' = TRUE /\ loops' = loops \cup {<<g, "check">>}
  /\ UNCHANGED <<sent, streams, open, stopped, late>>

Stop ==
  /\ open /\ keepaliveOn /\ keepaliveOn' = FALSE
  /\ stopped' = Cardinality(loops) /\ late' = 0
  /\ UNCHANGED <<sent, streams, open, loops>>

LoopChecks(l) ==
  /\ l[2] = "check"
  /\ loops' = (loops \ {l}) \cup (IF keepaliveOn THEN {<<l[1], "sleep">>} ELSE {})
  /\ UNCHANGED <<sent, streams, open, keepaliveOn, stopped, late>>

Heartbeat(l) ==
  /\ l[2] = "sleep" /\ sent < MaxEvents /\ sent' = sent + 1
  /\ loops' = (loops \ {l}) \cup {<<l[1], "check">>}
  /\ late' = IF keepaliveOn THEN late ELSE late + 1
  /\ UNCHANGED <<streams, open, keepaliveOn, stopped>>

StreamNext ==
  \/ Broadcast \/ Close \/ Stop
  \/ \E g \in 1..MaxStarts : Start(g)
  \/ \E l \in loops : LoopChecks(l) \/ Heartbeat(l)
  \/ \E s \in Subscriber : Subscribe(s) \/ RecvLag(s) \/ Recv(s) \/ RecvEnd(s)
-----------------------------------------------------------------------------
Got(s) == {got[s][i] : i \in DOMAIN got[s]}

\* A subscriber gets the events from its subscription on in order, all but those
\* it was too far behind for, and its stream ends after the last of them
\* (channels/sse.rs:227).
StreamInOrder ==
  \A s \in Subscriber : joined[s] # Absent =>
    /\ \A i, j \in DOMAIN got[s] : i < j => got[s][i] < got[s][j]
    /\ Got(s) \cup lagged[s] = (joined[s] + 1)..(next[s] - 1)
    /\ s \in ended => next[s] = sent + 1

\* After a stop every loop that was there sends one heartbeat at most
\* (channels/sse.rs:113).
StopQuietens == ~keepaliveOn => late <= stopped

-----------------------------------------------------------------------------
\* The parts share no state and move one at a time.
vars == <<consoleVars, streamVars>>

Init == ConsoleInit /\ StreamInit

TypeOK == ConsoleTypeOK /\ StreamTypeOK

Next ==
    \/ ConsoleNext /\ UNCHANGED streamVars
    \/ StreamNext /\ UNCHANGED consoleVars

Spec == Init /\ [][Next]_vars
=============================================================================
