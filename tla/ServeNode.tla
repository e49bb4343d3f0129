----------------------------- MODULE ServeNode -----------------------------
(***************************************************************************)
(* The event loop of `peerclaw serve` (cli/serve.rs) with the web server   *)
(* (web/mod.rs, web/openai.rs) that shares its state.  One task polls the  *)
(* network, answers one inference and one job submission a turn, looks for *)
(* Ctrl+C, and copies the figures the web pages show.  Web handlers wait   *)
(* in two bounded channels and give up after a timeout.                    *)
(***************************************************************************)
EXTENDS P2pNetwork

CONSTANTS
    Chat,         \* calls of /api/chat or /v1/chat/completions, one each
    Submission,   \* calls of /api/jobs/submit, one each
    Unknown,      \* the submissions of an unknown job type
    ChannelSize   \* capacity of inference_tx and job_submit_tx (32)

VARIABLES
    stage,        \* where the loop is
    current,      \* the event between poll, process and handling
    webPeers,     \* WebState.connected_peers
    inference_rx, job_submit_rx,
    call,         \* where each web call is
    answer,       \* what it returned
    jobs,         \* the submissions that made a job, each time they did
    interrupt     \* "none", "pressed", "heard"

vars == <<connections, swarmQueue, connected_peers, cutOff, stage, current, webPeers,
          inference_rx, job_submit_rx, call, answer, jobs, interrupt>>

webVars == <<inference_rx, job_submit_rx, call, answer, jobs>>

Call == Chat \cup Submission

Stage == {"poll", "process", "handle", "inference", "jobs", "signal", "stats", "stopped"}

Answer == {"none", "success", "error", "timeout"}

TypeOK ==
    /\ NetTypeOK
    /\ stage \in Stage
    /\ current \in {NoEvent} \cup SwarmEvents \cup NetworkEvents
    /\ webPeers \in Seq(Peer)
    /\ inference_rx \in Seq(Chat) /\ Len(inference_rx) <= ChannelSize
    /\ job_submit_rx \in Seq(Submission) /\ Len(job_submit_rx) <= ChannelSize
    /\ call \in [Call -> {"new", "queued", "running", "returned"}]
    /\ answer \in [Call -> Answer]
    /\ jobs \in Seq(Submission)
    /\ interrupt \in {"none", "pressed", "heard"}

Init ==
    /\ NetInit
    /\ stage = "poll" /\ current = NoEvent
    /\ webPeers = <<>>
    /\ inference_rx = <<>> /\ job_submit_rx = <<>>
    /\ call = [c \in Call |-> "new"]
    /\ answer = [c \in Call |-> "none"]
    /\ jobs = <<>>
    /\ interrupt = "none"

-----------------------------------------------------------------------------
(* Web handlers. *)

\* api_chat, handle_non_streaming and handle_streaming up to the wait for the
\* answer; send waits while the channel is full.
SendChat(c) ==
    /\ call[c] = "new" /\ Len(inference_rx) < ChannelSize
    /\ inference_rx' = Append(inference_rx, c)
    /\ call' = [call EXCEPT ![c] = "queued"]
    /\ UNCHANGED <<netVars, stage, current, webPeers, job_submit_rx, answer, jobs, interrupt>>

SendSubmission(c) ==
    /\ call[c] = "new" /\ Len(job_submit_rx) < ChannelSize
    /\ job_submit_rx' = Append(job_submit_rx, c)
    /\ call' = [call EXCEPT ![c] = "queued"]
    /\ UNCHANGED <<netVars, stage, current, webPeers, inference_rx, answer, jobs, interrupt>>

\* The handler has waited 30, 60 or 120 seconds; its request stays where it is.
GiveUp(c) ==
    /\ call[c] \in {"queued", "running"} /\ answer[c] = "none"
    /\ answer' = [answer EXCEPT ![c] = "timeout"]
    /\ UNCHANGED <<netVars, stage, current, webPeers, inference_rx, job_submit_rx, call,
                   jobs, interrupt>>

\* The user presses Ctrl+C.  Each turn makes a new ctrl_c future and drops it
\* after one poll; only a signal between the two is heard.
PressCtrlC ==
    /\ interrupt = "none" /\ stage # "stopped"
    /\ interrupt' \in {"pressed"} \cup {"heard" : s \in {stage} \cap {"signal"}}
    /\ UNCHANGED <<netVars, stage, current, webPeers, webVars>>

-----------------------------------------------------------------------------
(* The turns of the loop. *)

\* select_next_some against a sleep of 10 ms, biased to the event.
Poll ==
    /\ stage = "poll"
    /\ IF swarmQueue = <<>>
       THEN stage' = "inference" /\ UNCHANGED <<swarmQueue, current>>
       ELSE /\ stage' = "process"
            /\ current' = Head(swarmQueue)
            /\ swarmQueue' = Tail(swarmQueue)
    /\ UNCHANGED <<connections, connected_peers, cutOff, webPeers, webVars, interrupt>>

Process ==
    /\ stage = "process"
    /\ connected_peers' = PeersAfter(current) /\ cutOff' = CutOffAfter(current)
    /\ current' = Translate(current)
    /\ stage' = "handle"
    /\ UNCHANGED <<connections, swarmQueue, webPeers, webVars, interrupt>>

\* Mutant: only the first entry of the peer is taken out.
HandleRemovesOne ==
    /\ stage = "handle"
    /\ webPeers' = CASE current.kind = "connected" -> Append(webPeers, current.peer)
                     [] current.kind = "disconnected" /\ current.peer \in Range(webPeers) ->
                            RemoveAt(webPeers, SelectInSeq(webPeers, LAMBDA p : p = current.peer))
                     [] OTHER -> webPeers
    /\ current' = NoEvent
    /\ stage' = "inference"
    /\ UNCHANGED <<netVars, webVars, interrupt>>

\* Mutant: events are drained before anything else is served.
HandleDrainsEvents ==
    /\ stage = "handle"
    /\ webPeers' = CASE current.kind = "connected" -> Append(webPeers, current.peer)
                     [] current.kind = "disconnected" ->
                            SelectSeq(webPeers, LAMBDA p : p # current.peer)
                     [] OTHER -> webPeers
    /\ current' = NoEvent
    /\ stage' = "poll"
    /\ UNCHANGED <<netVars, webVars, interrupt>>

\* The list of the web pages, then handle_network_event, which only logs.
Handle ==
    /\ stage = "handle"
    /\ webPeers' = CASE current.kind = "connected" -> Append(webPeers, current.peer)
                     [] current.kind = "disconnected" ->
                            SelectSeq(webPeers, LAMBDA p : p # current.peer)
                     [] OTHER -> webPeers
    /\ current' = NoEvent
    /\ stage' = "inference"
    /\ UNCHANGED <<netVars, webVars, interrupt>>

\* Sends on the oneshot; a handler that gave up has dropped its end.
Respond(c, a) ==
    /\ call' = [call EXCEPT ![c] = "returned"]
    /\ answer' = [answer EXCEPT ![c] = IF @ = "none" THEN a ELSE @]

\* try_recv: takes a request and runs it inline, or finds none.
TakeChat ==
    /\ stage = "inference"
    /\ \A c \in Chat : call[c] # "running"
    /\ IF inference_rx = <<>>
       THEN stage' = "jobs" /\ UNCHANGED <<inference_rx, call>>
       ELSE /\ call' = [call EXCEPT ![Head(inference_rx)] = "running"]
            /\ inference_rx' = Tail(inference_rx)
            /\ UNCHANGED stage
    /\ UNCHANGED <<netVars, current, webPeers, job_submit_rx, answer, jobs, interrupt>>

\* execute_task returns; every result, an error too, is put into a response.
FinishChat(c) ==
    /\ stage = "inference" /\ call[c] = "running"
    /\ \E a \in {"success", "error"} : Respond(c, a)
    /\ stage' = "jobs"
    /\ UNCHANGED <<netVars, current, webPeers, inference_rx, job_submit_rx, jobs, interrupt>>

\* Mutant: success is reported although create_request failed.
SubmitJobIgnoresFailure ==
    /\ stage = "jobs"
    /\ stage' = "signal"
    /\ IF job_submit_rx = <<>>
       THEN UNCHANGED <<job_submit_rx, call, answer, jobs>>
       ELSE LET c == Head(job_submit_rx) IN
            /\ job_submit_rx' = Tail(job_submit_rx)
            /\ Respond(c, IF c \in Unknown THEN "error" ELSE "success")
            /\ jobs' \in {jobs} \cup {Append(jobs, d) : d \in {c} \ Unknown}
    /\ UNCHANGED <<netVars, current, webPeers, inference_rx, interrupt>>

\* handle_job_submit: an unknown type fails; the request may be refused;
\* a broadcast that fails is only logged.
SubmitJob ==
    /\ stage = "jobs"
    /\ stage' = "signal"
    /\ IF job_submit_rx = <<>>
       THEN UNCHANGED <<job_submit_rx, call, answer, jobs>>
       ELSE LET c == Head(job_submit_rx) IN
            /\ job_submit_rx' = Tail(job_submit_rx)
            /\ \/ Respond(c, "error") /\ UNCHANGED jobs
               \/ c \notin Unknown /\ Respond(c, "success") /\ jobs' = Append(jobs, c)
    /\ UNCHANGED <<netVars, current, webPeers, inference_rx, interrupt>>

CheckSignal ==
    /\ stage = "signal"
    /\ stage' = IF interrupt = "heard" THEN "stopped" ELSE "stats"
    /\ UNCHANGED <<netVars, current, webPeers, webVars, interrupt>>

\* The figures of the web pages are copied, and auto_accept_bids (module
\* Marketplace) runs, when their intervals are due.
UpdateStats ==
    /\ stage = "stats"
    /\ stage' = "poll"
    /\ UNCHANGED <<netVars, current, webPeers, webVars, interrupt>>

Loop ==
    \/ Poll \/ Process \/ Handle \/ TakeChat \/ SubmitJob \/ CheckSignal \/ UpdateStats
    \/ \E c \in Chat : FinishChat(c)

Network ==
    /\ Libp2p
    /\ UNCHANGED <<stage, current, webPeers, webVars, interrupt>>

Next ==
    \/ Network
    \/ \E c \in Chat : SendChat(c)
    \/ \E c \in Submission : SendSubmission(c)
    \/ \E c \in Call : GiveUp(c)
    \/ PressCtrlC
    \/ Loop

Spec == Init /\ [][Next]_vars

\* tokio keeps polling the loop's task, and an inference ends.
FairSpec == Spec /\ WF_vars(Loop)

-----------------------------------------------------------------------------
\* Properties.

\* connected_peers is kept by events, one per connection: as far as the events
\* handled so far tell, a peer is in it if it has an open connection, with one
\* exception: when one of several connections closes, the peer is out, connected
\* as it is, until it connects once more (p2p/mod.rs:144-145).
ConnectedButCutOff ==
    LET handling == IF stage = "process" THEN <<current>> ELSE <<>>
    IN  \A p \in Peer : p \in connected_peers <=> Told(p, handling) > 0 /\ p \notin cutOff

\* The list the web pages show and connected_peers are kept apart, one a step
\* after the other; they name the same peers outside that step.
WebPeersAgree ==
    stage # "handle" => Range(webPeers) = connected_peers

\* A submission makes one job at most, and one that was reported as accepted
\* did make it, whatever timed out; an unknown job type makes none.
SubmissionsAccounted ==
    \A c \in Submission :
        LET made == Len(SelectSeq(jobs, LAMBDA d : d = c))
        IN  /\ made <= 1
            /\ answer[c] = "success" => made = 1
            /\ c \in Unknown => made = 0

\* What is in the channels is served although peers keep coming and going.
EveryCallServed ==
    \A c \in Call : (call[c] = "queued") ~> (call[c] = "returned" \/ stage = "stopped")

=============================================================================
