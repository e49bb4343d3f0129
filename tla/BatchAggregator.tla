-------------------------- MODULE BatchAggregator --------------------------
(***************************************************************************)
(* Batched inference (inference/batch.rs): calls of submit put requests    *)
(* into a bounded queue and wait; one BatchProcessor collects a batch,     *)
(* groups it by model, runs inference on each group and answers every      *)
(* request of the group.  shutdown may come at any moment, and a caller    *)
(* may stop waiting (its future is dropped).                               *)
(***************************************************************************)
EXTENDS Integers, FiniteSets, Sequences, Functions

CONSTANTS
    Inference,        \* calls of submit, one each
    Model, ModelOf,   \* the model a request asks for
    min_batch_size, max_batch_size, max_queue_depth

ASSUME BatchAssumption ==
    /\ IsFiniteSet(Inference)
    /\ ModelOf \in [Inference -> Model]
    /\ min_batch_size \in Nat /\ max_batch_size \in Nat /\ max_queue_depth \in Nat

VARIABLES
    batchCall,  \* where the call of a request is
    reply,      \* what was put into its oneshot channel
    batchQueue, \* the mpsc channel
    batch,      \* the requests the processor has taken and not yet answered
    processor,  \* where the loop of run is
    shutdown,
    depth       \* stats.queue_depth

batchVars == <<batchCall, reply, batchQueue, batch, processor, shutdown, depth>>

\* "checked": has seen no shutdown; "sent": in the queue, not yet counted in
\* depth; "waiting": on the oneshot; "dropped": the caller has gone, before
\* ("uncounted") or after its request was counted.
CallStage == {"new", "checked", "sent", "waiting", "returned", "dropped", "uncounted"}

Reply == {"none", "Ok", "InferenceFailed", "Shutdown", "QueueFull"}

\* "top": before the shutdown check; "first": waits for a first request;
\* "filling": within the batch window; "inferring": has groups left;
\* "stopped": left the loop; "gone": dropped with its end of the queue.
ProcessorStage == {"top", "first", "filling", "inferring", "stopped", "gone"}

BatchTypeOK ==
    /\ batchCall \in [Inference -> CallStage]
    /\ reply \in [Inference -> Reply]
    /\ batchQueue \in Seq(Inference) /\ Len(batchQueue) <= max_queue_depth
    /\ batch \subseteq Inference /\ (Cardinality(batch) <= max_batch_size \/ Cardinality(batch) = 1)
    /\ processor \in ProcessorStage
    /\ shutdown \in BOOLEAN
    /\ depth \in 0..Cardinality(Inference)

BatchInit ==
    /\ batchCall = [r \in Inference |-> "new"]
    /\ reply = [r \in Inference |-> "none"]
    /\ batchQueue = <<>> /\ batch = {}
    /\ processor = "top"
    /\ shutdown = FALSE
    /\ depth = 0

-----------------------------------------------------------------------------
(* submit *)

processorVars == <<batch, processor, shutdown>>

Moves(r, from, to) == batchCall[r] = from /\ batchCall' = [batchCall EXCEPT ![r] = to]

CheckShutdown(r) ==
    /\ IF shutdown
       THEN Moves(r, "new", "returned") /\ reply' = [reply EXCEPT ![r] = "Shutdown"]
       ELSE Moves(r, "new", "checked") /\ UNCHANGED reply
    /\ UNCHANGED <<batchQueue, processorVars, depth>>

\* send: waits while the queue is full, fails when the receiver is gone.
SendRequest(r) ==
    /\ IF processor = "gone"
       THEN /\ Moves(r, "checked", "returned")
            /\ reply' = [reply EXCEPT ![r] = "QueueFull"]
            /\ UNCHANGED batchQueue
       ELSE /\ Len(batchQueue) < max_queue_depth
            /\ Moves(r, "checked", "sent")
            /\ batchQueue' = Append(batchQueue, r)
            /\ UNCHANGED reply
    /\ UNCHANGED <<processorVars, depth>>

\* The processor may have taken the request before this.
CountIn(r) ==
    /\ Moves(r, "sent", "waiting")
    /\ depth' = depth + 1
    /\ UNCHANGED <<reply, batchQueue, processorVars>>

ReceiveReply(r) ==
    /\ reply[r] # "none"
    /\ Moves(r, "waiting", "returned")
    /\ UNCHANGED <<reply, batchQueue, processorVars, depth>>

\* The caller's future is dropped at an await of submit; what is queued stays.
DropCall(r) ==
    /\ \/ Moves(r, "checked", "dropped")
       \/ Moves(r, "sent", "uncounted")
       \/ Moves(r, "waiting", "dropped")
    /\ UNCHANGED <<reply, batchQueue, processorVars, depth>>

ShutDown ==
    /\ ~shutdown
    /\ shutdown' = TRUE
    /\ UNCHANGED <<batchCall, reply, batchQueue, batch, processor, depth>>

-----------------------------------------------------------------------------
(* BatchProcessor::run *)

\* reply' when every request of rs is answered, in one of the ways in `how`.
AnswerAll(rs, how) ==
    \E answer \in [rs -> how] :
        reply' = [r \in Inference |-> IF r \in rs THEN answer[r] ELSE reply[r]]

\* Shutdown: what is still queued is answered, then the loop ends.
LeaveLoop ==
    /\ processor' = "stopped"
    /\ AnswerAll(Range(batchQueue), {"Shutdown"})
    /\ batchQueue' = <<>>

LoopTop ==
    /\ processor = "top"
    /\ IF shutdown THEN LeaveLoop ELSE processor' = "first" /\ UNCHANGED <<reply, batchQueue>>
    /\ UNCHANGED <<batchCall, batch, shutdown, depth>>

\* recv with a timeout of 100 ms, after which the shutdown check comes again.
TakeFirst ==
    /\ processor = "first"
    /\ batchQueue # <<>>
    /\ batch' = {Head(batchQueue)}
    /\ batchQueue' = Tail(batchQueue)
    /\ processor' = "filling"
    /\ UNCHANGED <<batchCall, reply, shutdown, depth>>

\* A mutation: recv without the timeout.
FirstTimesOut_Never == FALSE /\ UNCHANGED batchVars

FirstTimesOut ==
    /\ processor = "first"
    /\ batchQueue = <<>>
    /\ processor' = "top"
    /\ UNCHANGED <<batchCall, reply, batchQueue, batch, shutdown, depth>>

\* max_batch_size bounds a batch, min_batch_size ends the wait early.
BatchFull == Cardinality(batch) >= max_batch_size \/ Cardinality(batch) >= min_batch_size

TakeMore ==
    /\ processor = "filling"
    /\ ~BatchFull
    /\ batchQueue # <<>>
    /\ batch' = batch \cup {Head(batchQueue)}
    /\ batchQueue' = Tail(batchQueue)
    /\ UNCHANGED <<batchCall, reply, processor, shutdown, depth>>

\* A mutation: the subtraction does not saturate.
CountedOut_Unchecked(n) == depth - n

\* A mutation: a full batch is counted out, whatever was taken.
CountedOut_Full(n) == IF depth > max_batch_size THEN depth - max_batch_size ELSE 0

\* queue_depth.saturating_sub(batch.len())
CountedOut(n) == IF depth > n THEN depth - n ELSE 0

\* The batch is full or its window is over.
CloseBatch ==
    /\ processor = "filling"
    /\ depth' = CountedOut(Cardinality(batch))
    /\ processor' = "inferring"
    /\ UNCHANGED <<batchCall, reply, batchQueue, batch, shutdown>>

Group(m) == {r \in batch : ModelOf[r] = m}

\* A mutation: the requests without a result are not answered.
InferGroup_SomeAnswered(m) ==
    /\ processor = "inferring"
    /\ Group(m) # {}
    /\ \E answered \in SUBSET Group(m) : AnswerAll(answered, {"Ok", "InferenceFailed"})
    /\ batch' = batch \ Group(m)
    /\ processor' = IF batch' = {} THEN "top" ELSE "inferring"
    /\ UNCHANGED <<batchCall, batchQueue, shutdown, depth>>

\* Inference on one group.  A request it returns no result for is answered
\* InferenceFailed.
InferGroup(m) ==
    /\ processor = "inferring"
    /\ Group(m) # {}
    /\ AnswerAll(Group(m), {"Ok", "InferenceFailed"})
    /\ batch' = batch \ Group(m)
    /\ processor' = IF batch' = {} THEN "top" ELSE "inferring"
    /\ UNCHANGED <<batchCall, batchQueue, shutdown, depth>>

\* The task that ran the loop ends and drops the processor with the receiver:
\* senders of requests queued since the drain are dropped, their callers get
\* Shutdown.
DropProcessor ==
    /\ processor = "stopped"
    /\ processor' = "gone"
    /\ AnswerAll(Range(batchQueue), {"Shutdown"})
    /\ batchQueue' = <<>>
    /\ UNCHANGED <<batchCall, batch, shutdown, depth>>

RunProcessor ==
    \/ LoopTop \/ TakeFirst \/ FirstTimesOut \/ TakeMore \/ CloseBatch \/ DropProcessor
    \/ \E m \in Model : InferGroup(m)

BatchNext ==
    \/ \E r \in Inference :
         CheckShutdown(r) \/ SendRequest(r) \/ CountIn(r) \/ ReceiveReply(r) \/ DropCall(r)
    \/ ShutDown
    \/ RunProcessor

BatchSpec == BatchInit /\ [][BatchNext]_batchVars

\* Tasks run, and inference ends.
BatchFairness ==
    /\ \A r \in Inference :
         WF_batchVars(SendRequest(r)) /\ WF_batchVars(CountIn(r)) /\ WF_batchVars(ReceiveReply(r))
    /\ WF_batchVars(RunProcessor)

BatchFairSpec == BatchSpec /\ BatchFairness

-----------------------------------------------------------------------------
(* Properties *)

InFlight == Range(batchQueue) \cup batch

\* A request is in one place: in the queue, in the batch or answered, and never
\* in two of them, whenever the shutdown comes and whoever stops waiting.
RequestInOnePlace ==
    /\ Range(batchQueue) \cap batch = {}
    /\ IsInjective(batchQueue)
    /\ \A r \in Inference :
          batchCall[r] \in {"sent", "waiting", "uncounted"} => (r \in InFlight) # (reply[r] # "none")

\* The requests queued and not counted, whose caller has yet to or is gone.
NotCounted == {r \in Inference : batchCall[r] \in {"sent", "uncounted"}}

\* The statistic counts a request after it was queued and may miss one whose
\* caller left in between: with those, it is never below what is queued.
DepthCoversQueue == depth + Cardinality(NotCounted) >= Len(batchQueue)

\* A request for a batched inference is in one place or answered, and the depth
\* shown covers the queue (inference/batch.rs).
BatchesAccounted == RequestInOnePlace /\ DepthCoversQueue

\* Every call of submit returns, unless its caller drops it: no order of
\* batches, failed inferences and shutdown forgets a request.
EveryCallReturns ==
    \A r \in Inference :
        batchCall[r] = "checked" ~> batchCall[r] \in {"returned", "dropped", "uncounted"}

\* After shutdown the loop ends: requests cannot keep it alive.
ShutdownEnds == shutdown ~> processor = "gone"
=============================================================================
