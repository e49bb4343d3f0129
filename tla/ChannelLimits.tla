---------------------------- MODULE ChannelLimits ----------------------------
(* What bounds the users of an interactive channel: RateLimiter::             *)
(* check_and_increment (channels/channel.rs), whose two counters are atomics  *)
(* beside two locks, and the subscriptions of SseManager (channels/sse.rs).   *)
(* Threads are in either at any of their steps.                               *)
EXTENDS Integers, FiniteSets

CONSTANTS
  Thread,
  Limit,             \* [Window -> Nat]: messages_per_minute, messages_per_hour
  Period,            \* [Window -> Nat]: 60 s and 3600 s
  max_connections,
  MaxTime            \* bound of the clock

VARIABLES
  time,
  count, last_reset,   \* per window
  thread,              \* [at, now] of each thread
  connection_count,
  active               \* threads that hold a subscription

vars == <<time, count, last_reset, thread, connection_count, active>>
limiter == <<count, last_reset>>
subscriptions == <<connection_count, active>>

Window == {"minute", "hour"}
At == {"idle", "resetMinute", "resetHour", "check", "incMinute", "incHour", "refused",
       "counted", "full"}

TypeOK ==
  /\ time \in 0..MaxTime
  /\ count \in [Window -> Nat]
  /\ last_reset \in [Window -> 0..MaxTime]
  /\ thread \in [Thread -> [at: At, now: 0..MaxTime]]
  /\ connection_count \in 0..Cardinality(Thread) /\ active \subseteq Thread

Init ==
  /\ time = 0
  /\ count = [w \in Window |-> 0] /\ last_reset = count
  /\ thread = [t \in Thread |-> [at |-> "idle", now |-> 0]]
  /\ connection_count = 0 /\ active = {}

Tick ==
  /\ time < MaxTime /\ time' = time + 1
  /\ UNCHANGED <<limiter, subscriptions, thread>>

Move(t, at) == thread' = [thread EXCEPT ![t].at = at]

Begin(t) ==
  /\ thread[t].at = "idle"
  /\ thread' = [thread EXCEPT ![t] = [at |-> "resetMinute", now |-> time]]
  /\ UNCHANGED <<time, limiter, subscriptions>>

\* Under the lock of the window; a reset by a thread that read its clock later
\* makes the difference zero.
Reset(t, w) ==
  IF thread[t].now - last_reset[w] >= Period[w]
  THEN /\ count' = [count EXCEPT ![w] = 0]
       /\ last_reset' = [last_reset EXCEPT ![w] = thread[t].now]
  ELSE UNCHANGED limiter

ResetMinute(t) ==
  /\ thread[t].at = "resetMinute" /\ Reset(t, "minute") /\ Move(t, "resetHour")
  /\ UNCHANGED <<time, subscriptions>>
ResetHour(t) ==
  /\ thread[t].at = "resetHour" /\ Reset(t, "hour") /\ Move(t, "check")
  /\ UNCHANGED <<time, subscriptions>>

Full(w) == count[w] >= Limit[w]
\* Mutant: only the limit itself refuses.
CheckAt(t) ==
  /\ thread[t].at = "check"
  /\ Move(t, IF \E w \in Window : count[w] = Limit[w] THEN "refused" ELSE "incMinute")
  /\ UNCHANGED <<time, limiter, subscriptions>>
Check(t) ==
  /\ thread[t].at = "check"
  /\ Move(t, IF \E w \in Window : Full(w) THEN "refused" ELSE "incMinute")
  /\ UNCHANGED <<time, limiter, subscriptions>>

Increment(t, w) ==
  /\ count' = [count EXCEPT ![w] = @ + 1]
  /\ UNCHANGED <<time, last_reset, subscriptions>>
IncMinute(t) == thread[t].at = "incMinute" /\ Increment(t, "minute") /\ Move(t, "incHour")
IncHour(t) == thread[t].at = "incHour" /\ Increment(t, "hour") /\ Move(t, "idle")

Refuse(t) ==
  /\ thread[t].at = "refused" /\ Move(t, "idle")
  /\ UNCHANGED <<time, limiter, subscriptions>>

\* subscribe: counted first, taken back when that was one too many.
Subscribe(t) ==
  /\ thread[t].at = "idle" /\ t \notin active
  /\ connection_count' = connection_count + 1
  /\ IF connection_count >= max_connections
     THEN Move(t, "full") /\ UNCHANGED active
     ELSE active' = active \cup {t} /\ UNCHANGED thread
  /\ UNCHANGED <<time, limiter>>
\* Mutant: a refused subscription stays counted.
TurnAwayCounted(t) ==
  /\ thread[t].at = "full" /\ Move(t, "idle")
  /\ UNCHANGED <<time, limiter, subscriptions>>
TurnAway(t) ==
  /\ thread[t].at = "full" /\ Move(t, "idle")
  /\ connection_count' = connection_count - 1
  /\ UNCHANGED <<time, limiter, active>>
Drop(t) ==
  /\ t \in active /\ thread[t].at = "idle"
  /\ active' = active \ {t} /\ connection_count' = connection_count - 1
  /\ UNCHANGED <<time, limiter, thread>>

Next ==
  \/ Tick
  \/ \E t \in Thread :
       \/ Begin(t) \/ ResetMinute(t) \/ ResetHour(t) \/ Check(t) \/ IncMinute(t) \/ IncHour(t)
       \/ Refuse(t) \/ Subscribe(t) \/ TurnAway(t) \/ Drop(t)

Spec == Init /\ [][Next]_vars

-----------------------------------------------------------------------------
\* Between two resets of a window no more messages pass than its limit and one
\* for each other thread that had checked before and not yet counted, those
\* included that checked against the counter before it was reset.
AdmittedBounded ==
  \A w \in Window : count[w] < Limit[w] + Cardinality(Thread)

\* The counter holds the subscriptions and the calls about to be turned away,
\* so the limit is kept and no place is lost, whatever the order of the steps.
PlacesAccounted ==
  /\ connection_count = Cardinality(active) + Cardinality({t \in Thread : thread[t].at = "full"})
  /\ Cardinality(active) <= max_connections
=============================================================================
