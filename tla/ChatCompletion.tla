----------------------------- MODULE ChatCompletion ----------------------------
(* One request to /v1/chat/completions (web/openai.rs): the wait for room in  *)
(* the channel of the inference loop, which other requests fill too and which *)
(* no timer covers, the wait for the answer with its two minutes, and, if the *)
(* client asked for a stream, the task that cuts the answer into words and    *)
(* sends them as events through a bounded channel to a client that may read   *)
(* slowly or go.                                                              *)
EXTENDS Integers, SequencesExt

CONSTANTS
  Words,     \* numbers of words of an answer
  RequestCapacity,   \* of the channel of requests (32, serve.rs:145)
  Capacity   \* of the channel of events

VARIABLES
  stream,    \* what the client asked for
  loop,      \* the receiver of the requests: it may be gone, or never there
  requests,  \* in the channel of requests: "own", and those of others
  call,      \* where the handler is, and how it ended
  answer,    \* words of the answer, -1 until there is one
  task,      \* the next event the task sends; 0 before, Over after
  channel,   \* events on their way
  client,    \* whether it is still there
  received

vars == <<stream, loop, requests, call, answer, task, channel, client, received>>

Ended == {"unavailable", "not_sent", "timeout", "cancelled", "answered"}
Events(n) == <<"role">> \o [i \in 1..n |-> i] \o <<"finish", "DONE">>
Over == 100
Event == {"role", "finish", "DONE"} \cup (1..10)

TypeOK ==
  /\ stream \in BOOLEAN /\ loop \in {"none", "there", "gone"} /\ client \in BOOLEAN
  /\ call \in {"idle", "send", "wait"} \cup Ended
  /\ answer \in {-1} \cup Words
  /\ task \in 0..Over
  /\ requests \in Seq({"own", "other"}) /\ Len(requests) <= RequestCapacity
  /\ Len(channel) <= Capacity

Init ==
  /\ stream \in BOOLEAN /\ loop \in {"none", "there"} /\ client = TRUE
  /\ call = "idle" /\ answer = -1 /\ task = 0
  /\ requests = <<>> /\ channel = <<>> /\ received = <<>>

\* inference_tx is there if the node was started with it.
Begin ==
  /\ call = "idle"
  /\ call' = IF loop = "none" THEN "unavailable" ELSE "send"
  /\ UNCHANGED <<stream, loop, requests, answer, task, channel, client, received>>

Room == Len(requests) < RequestCapacity

\* inference_tx.send waits for room, or fails once the loop is gone.
Send ==
  /\ call = "send"
  /\ IF loop = "gone" THEN call' = "not_sent" /\ UNCHANGED requests
     ELSE Room /\ call' = "wait" /\ requests' = Append(requests, "own")
  /\ UNCHANGED <<stream, loop, answer, task, channel, client, received>>

\* Other requests take places in the channel.
OthersSend ==
  /\ loop = "there" /\ Room /\ requests' = Append(requests, "other")
  /\ UNCHANGED <<stream, loop, call, answer, task, channel, client, received>>

\* The loop takes a request whenever it does.
LoopTakes ==
  /\ loop = "there" /\ requests # <<>> /\ requests' = Tail(requests)
  /\ UNCHANGED <<stream, loop, call, answer, task, channel, client, received>>

\* It answers what it took, or drops it with all the others.
Answer(n) ==
  /\ call \in {"wait", "timeout"} /\ answer = -1 /\ loop = "there"
  /\ ~Contains(requests, "own")
  /\ answer' = n
  /\ UNCHANGED <<stream, loop, requests, call, task, channel, client, received>>
LoopEnds ==
  /\ loop = "there" /\ call # "idle" /\ loop' = "gone" /\ requests' = <<>>
  /\ UNCHANGED <<stream, call, answer, task, channel, client, received>>

Timeout ==
  /\ call = "wait" /\ answer = -1 /\ call' = "timeout"
  /\ UNCHANGED <<stream, loop, requests, answer, task, channel, client, received>>
Cancelled ==
  /\ call = "wait" /\ answer = -1 /\ loop = "gone" /\ call' = "cancelled"
  /\ UNCHANGED <<stream, loop, requests, answer, task, channel, client, received>>
Answered ==
  /\ call = "wait" /\ answer # -1 /\ call' = "answered"
  /\ task' = IF stream THEN 1 ELSE Over
  /\ received' = IF stream \/ ~client THEN received ELSE Events(answer)
  /\ UNCHANGED <<stream, loop, requests, answer, channel, client>>

\* Whichever comes first ends the call.
Settle == Timeout \/ Cancelled \/ Answered

Following == IF task = Len(Events(answer)) THEN Over ELSE task + 1

\* Mutant: a full channel loses the event.
SendEventTries ==
  /\ task \in 1..(Over - 1)
  /\ channel' = IF client /\ Len(channel) < Capacity
                THEN Append(channel, Events(answer)[task]) ELSE channel
  /\ task' = Following
  /\ UNCHANGED <<stream, loop, requests, call, answer, client, received>>

\* Mutant: the words wait for a client that went away.
SendEventKeepsWaiting ==
  /\ task \in 1..(Over - 1)
  /\ client /\ Len(channel) < Capacity /\ channel' = Append(channel, Events(answer)[task])
  /\ task' = Following
  /\ UNCHANGED <<stream, loop, requests, call, answer, client, received>>

\* tx.send waits for room, and returns at once when the client is gone: the
\* task goes on through the words all the same.
SendEvent ==
  /\ task \in 1..(Over - 1)
  /\ IF client THEN Len(channel) < Capacity /\ channel' = Append(channel, Events(answer)[task])
               ELSE UNCHANGED channel
  /\ task' = Following
  /\ UNCHANGED <<stream, loop, requests, call, answer, client, received>>

ClientReads ==
  /\ client /\ channel # <<>>
  /\ channel' = Tail(channel) /\ received' = Append(received, Head(channel))
  /\ UNCHANGED <<stream, loop, requests, call, answer, task, client>>
ClientGoes ==
  /\ client /\ call # "idle" /\ client' = FALSE /\ channel' = <<>>
  /\ call' = IF call \in {"send", "wait"} THEN "cancelled" ELSE call
  /\ UNCHANGED <<stream, loop, requests, answer, task, received>>

Next ==
  \/ Begin \/ Send \/ OthersSend \/ LoopTakes \/ LoopEnds \/ Settle \/ SendEvent
  \/ ClientReads \/ ClientGoes \/ \E n \in Words : Answer(n)

Spec == Init /\ [][Next]_vars

\* tokio runs the handler, its timer and the task, and gives room in a channel
\* to those who wait for it in turn; a client reads or goes.
FairSpec ==
  /\ Spec
  /\ SF_vars(Send) /\ WF_vars(Settle) /\ WF_vars(SendEvent)
  /\ WF_vars(ClientReads)

-----------------------------------------------------------------------------
\* A client is sent the events of one answer in their order and none twice,
\* however full the channel was, and one that stayed to the end has them all.
AnswerInOrder ==
  /\ received # <<>> => call = "answered"
  /\ answer # -1 =>
       \E i \in 0..Len(Events(answer)) : received \o channel = SubSeq(Events(answer), 1, i)
  /\ client /\ call = "answered" /\ task = Over /\ channel = <<>> => received = Events(answer)

\* A request in the channel ends and its stream too: neither a loop that never
\* answers nor a client that went away keeps a task.  One that waits for a place
\* in the channel ends if there is room again and again: the two minutes do not
\* count there (openai.rs:298, 361), and with a loop that takes no more requests
\* the wait lasts until the client goes.
Finished == call \in Ended /\ task \in {0, Over}
RequestEnds ==
  /\ call = "wait" ~> Finished
  /\ []<>(Room \/ loop # "there") => (call = "send" ~> Finished)
=============================================================================
