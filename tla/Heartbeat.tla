----------------------------- MODULE Heartbeat -----------------------------
(***************************************************************************)
(* The heartbeat (routines/heartbeat.rs): a loop calls back at each tick   *)
(* and sends the result into a bounded channel; each call of subscribe     *)
(* spawns a forwarder that locks the channel's one receiver and copies     *)
(* results to its subscriber.                                              *)
(***************************************************************************)
EXTENDS Integers, Sequences, Functions

CONSTANTS
    Subscriber,
    Capacity,     \* of the result channel (10)
    MaxBeats      \* bound: callbacks made

ASSUME HeartbeatAssumption == Capacity \in Nat /\ MaxBeats \in Nat

VARIABLES
    heartRunning, \* running
    loop,         \* "off", "top", "tick", "calling", "sending"
    beats,        \* results made so far; a result is its number
    failures,     \* consecutive_failures
    failed,       \* the results that were not ok
    last,         \* last_result, 0 for None
    channel,      \* result_tx to result_rx
    forwarder,    \* where each subscription is: [at, result]
    delivered     \* what each subscriber has been sent

heartbeatVars == <<heartRunning, loop, beats, failures, failed, last, channel, forwarder, delivered>>

NoForwarder == [at |-> "none", result |-> 0]

HeartbeatTypeOK ==
    /\ heartRunning \in BOOLEAN
    /\ loop \in {"off", "top", "tick", "calling", "sending"}
    /\ beats \in 0..MaxBeats /\ failures \in 0..MaxBeats /\ last \in 0..MaxBeats
    /\ failed \subseteq 1..MaxBeats
    /\ channel \in Seq(1..MaxBeats) /\ Len(channel) <= Capacity
    /\ forwarder \in [Subscriber -> [at : {"none", "lock", "check", "receive", "send", "gone", "ended"},
                                     result : 0..MaxBeats]]
    /\ delivered \in [Subscriber -> Seq(1..MaxBeats)]

HeartbeatInit ==
    /\ heartRunning = FALSE /\ loop = "off"
    /\ beats = 0 /\ failures = 0 /\ failed = {} /\ last = 0
    /\ channel = <<>>
    /\ forwarder = [s \in Subscriber |-> NoForwarder]
    /\ delivered = [s \in Subscriber |-> <<>>]

loopVars == <<loop, beats, failures, failed, last>>
subVars == <<forwarder, delivered>>

-----------------------------------------------------------------------------
StartBeats == heartRunning' = TRUE /\ UNCHANGED <<loopVars, channel, subVars>>

StopBeats == heartRunning' = FALSE /\ UNCHANGED <<loopVars, channel, subVars>>

RunBeats ==
    /\ loop = "off" /\ loop' = "top"
    /\ UNCHANGED <<heartRunning, beats, failures, failed, last, channel, subVars>>

\* The check before the wait, and the one after it.
CheckBeats ==
    /\ \/ loop = "top" /\ loop' = IF heartRunning THEN "tick" ELSE "off"
       \/ loop = "tick" /\ beats < MaxBeats /\ loop' = IF heartRunning THEN "calling" ELSE "off"
    /\ UNCHANGED <<heartRunning, beats, failures, failed, last, channel, subVars>>

\* Mutant: a good result does not reset the count.
CallBackNoReset ==
    /\ loop = "calling"
    /\ beats' = beats + 1 /\ last' = beats + 1
    /\ \/ UNCHANGED <<failures, failed>>
       \/ failures' = failures + 1 /\ failed' = failed \cup {beats + 1}
    /\ loop' = "sending"
    /\ UNCHANGED <<heartRunning, channel, subVars>>

CallBack ==
    /\ loop = "calling"
    /\ beats' = beats + 1 /\ last' = beats + 1
    /\ \/ failures' = 0 /\ UNCHANGED failed
       \/ failures' = failures + 1 /\ failed' = failed \cup {beats + 1}
    /\ loop' = "sending"
    /\ UNCHANGED <<heartRunning, channel, subVars>>

\* Mutant: try_send, which drops the result when the channel is full.
SendResultTries ==
    /\ loop = "sending"
    /\ channel' = IF Len(channel) < Capacity THEN Append(channel, beats) ELSE channel
    /\ loop' = "top"
    /\ UNCHANGED <<heartRunning, beats, failures, failed, last, subVars>>

\* send waits while the channel is full.
SendResult ==
    /\ loop = "sending" /\ Len(channel) < Capacity
    /\ channel' = Append(channel, beats)
    /\ loop' = "top"
    /\ UNCHANGED <<heartRunning, beats, failures, failed, last, subVars>>

-----------------------------------------------------------------------------
(* The forwarder of a subscription. *)

ForwarderTo(s, at) == forwarder' = [forwarder EXCEPT ![s].at = at]

Subscribe(s) ==
    /\ forwarder[s].at = "none" /\ ForwarderTo(s, "lock")
    /\ UNCHANGED <<heartRunning, loopVars, channel, delivered>>

LockResults(s) ==
    /\ forwarder[s].at = "lock"
    /\ \A t \in Subscriber : forwarder[t].at \notin {"check", "receive", "send", "gone"}
    /\ ForwarderTo(s, "check")
    /\ UNCHANGED <<heartRunning, loopVars, channel, delivered>>

CheckRunning(s) ==
    /\ forwarder[s].at = "check"
    /\ ForwarderTo(s, IF heartRunning THEN "receive" ELSE "ended")
    /\ UNCHANGED <<heartRunning, loopVars, channel, delivered>>

\* recv has no timeout: after stop it waits with the lock.  The subscriber may
\* drop its receiver meanwhile ("gone"), which only the next send notices.
Receive(s) ==
    /\ forwarder[s].at = "receive" /\ channel # <<>>
    /\ \E gone \in BOOLEAN :
        forwarder' = [forwarder EXCEPT ![s] =
            [at |-> IF gone THEN "gone" ELSE "send", result |-> Head(channel)]]
    /\ channel' = Tail(channel)
    /\ UNCHANGED <<heartRunning, loopVars, delivered>>

Forward(s) ==
    /\ \/ /\ forwarder[s].at = "send"
          /\ delivered' = [delivered EXCEPT ![s] = Append(@, forwarder[s].result)]
          /\ ForwarderTo(s, "check")
       \/ /\ forwarder[s].at = "gone" /\ ForwarderTo(s, "ended")
          /\ UNCHANGED delivered
    /\ UNCHANGED <<heartRunning, loopVars, channel>>

BeatStep == CheckBeats \/ CallBack \/ SendResult

ForwarderStep(s) == LockResults(s) \/ CheckRunning(s) \/ Receive(s) \/ Forward(s)

HeartbeatNext ==
    \/ StartBeats \/ StopBeats \/ RunBeats \/ BeatStep
    \/ \E s \in Subscriber : Subscribe(s) \/ ForwarderStep(s)

HeartbeatSpec == HeartbeatInit /\ [][HeartbeatNext]_heartbeatVars

-----------------------------------------------------------------------------
\* Properties.

Sent == UNION {Range(delivered[s]) : s \in Subscriber}
Taken == {s \in Subscriber : forwarder[s].at \in {"send", "gone"}}
Held == {forwarder[s].result : s \in Taken}
Waiting == Range(channel) \cup IF loop = "sending" THEN {beats} ELSE {}
Ended == {s \in Subscriber : forwarder[s].at = "ended"}
Lost == {forwarder[s].result : s \in Ended} \ Sent

\* Results reach the subscribers in order and no result reaches two; what is
\* missing was taken by a subscription whose receiver had gone, one for each.
ResultsAccounted ==
    /\ 1..beats \subseteq Sent \cup Held \cup Waiting \cup Lost
    /\ \A s, t \in Subscriber : s # t => Range(delivered[s]) \cap Range(delivered[t]) = {}
    /\ \A s \in Subscriber : \A i \in 2..Len(delivered[s]) :
          delivered[s][i - 1] < delivered[s][i]

\* consecutive_failures counts the results since the last one that was ok.
FailuresAreConsecutive ==
    /\ failures <= beats
    /\ (beats - failures + 1)..beats \subseteq failed
    /\ beats - failures \notin failed

\* No result of a heartbeat is lost or doubled on its way, blocked channel or
\* not, and the failures counted are the latest ones in a row
\* (routines/heartbeat.rs).
BeatsAccounted == ResultsAccounted /\ FailuresAreConsecutive

=============================================================================
