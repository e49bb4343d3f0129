---------------------------- MODULE RoutineProofs ----------------------------
(***************************************************************************)
(* Proofs about RoutineEngine, for any routines and any number of calls of *)
(* start and stop, and about Heartbeat, for any number of subscriptions    *)
(* and any size of the result channel.  That two loops never serve one     *)
(* start rests on where a call of start is: until it spawns its loops,     *)
(* none is of its generation.  That results of the heartbeat come in order *)
(* rests on the way they take: what was delivered comes before what a      *)
(* forwarder holds, that before what is in the channel, and that before    *)
(* the result the loop is sending.                                         *)
(***************************************************************************)
EXTENDS RoutineEngine, Heartbeat, FiniteSetTheorems, SequenceTheorems, TLAPS

(* The routine engine. *)

Holding(g) == listeners[g] \in {"top", "receive"}

OneHolder == \A g, h \in 1..MaxStarts : Holding(g) /\ Holding(h) => g = h

LoopsOnce == \A l, m \in loops : l.routine = m.routine /\ l.gen = m.gen => l = m

Generations ==
    /\ \A l \in loops : l.gen <= starts
    /\ starting.at # "no" => starts >= 1 /\ \A l \in loops : l.gen # starts

IInv == TypeOK /\ ShownRunningRuns /\ OneHolder /\ LoopsOnce /\ Generations

-----------------------------------------------------------------------------
(* The invariant is inductive. *)

LEMMA InitIInv == Init => IInv
<1> SUFFICES ASSUME Init PROVE IInv
  OBVIOUS
<1>1. TypeOK
  <2>1. NotStarting \in [left : SUBSET Startup, at : {"no", "startup", "executing"},
                         routine : Startup \cup {"none"}]
    BY DEF NotStarting
  <2>2. 0 \in 0..MaxStarts /\ 0 \in 0..MaxEvents
    BY RoutineAssumption
  <2>3. QED
    BY <2>1, <2>2 DEF Init, TypeOK
<1>2. ShownRunningRuns /\ OneHolder /\ LoopsOnce /\ Generations
  BY DEF Init, ShownRunningRuns, OneHolder, Holding, LoopsOnce, Generations, NotStarting
<1>3. QED
  BY <1>1, <1>2 DEF IInv

\* Steps of the routines' status only.
LEMMA StatusStep ==
    ASSUME IInv, TypeOK', UNCHANGED <<starting, starts, loops, listeners, runs>>,
           \A r \in Routine : status'[r] = "Running" => status[r] = "Running"
    PROVE  IInv'
BY DEF IInv, ShownRunningRuns, Executing, OneHolder, Holding, LoopsOnce, Generations

LEMMA RegisterIInv ==
    ASSUME IInv, NEW r \in Routine, Register(r) \/ Unregister(r)
    PROVE  IInv'
<1>1. PICK s \in {"Idle", "none"} : status' = [status EXCEPT ![r] = s]
  BY DEF Register, Unregister, SetStatus
<1>2. routines' \subseteq Routine
  BY DEF Register, Unregister, IInv, TypeOK
<1>3. UNCHANGED <<running, starting, starts, loops, listeners, events, runs>>
  BY DEF Register, Unregister
<1>4. TypeOK'
  BY <1>1, <1>2, <1>3 DEF IInv, TypeOK
<1>5. \A k \in Routine : status'[k] = "Running" => status[k] = "Running"
  BY <1>1 DEF IInv, TypeOK
<1>6. QED
  BY <1>3, <1>4, <1>5, StatusStep

LEMMA SendEventIInv ==
    ASSUME IInv, SendEvent
    PROVE  IInv'
<1>1. TypeOK'
  BY RoutineAssumption DEF SendEvent, IInv, TypeOK
<1>2. QED
  BY <1>1, StatusStep DEF SendEvent

LEMMA StopIInv ==
    ASSUME IInv, Stop
    PROVE  IInv'
<1>1. TypeOK'
  BY DEF Stop, IInv, TypeOK
<1>2. QED
  BY <1>1, StatusStep DEF Stop

\* A new call of start has a generation that no loop is of.
LEMMA StartIInv ==
    ASSUME IInv, Start
    PROVE  IInv'
<1>1. /\ starting.at = "no" /\ starts < MaxStarts /\ starts' = starts + 1 /\ running' = TRUE
      /\ starting' = [left |-> routines \cap Startup, at |-> "startup", routine |-> "none"]
      /\ UNCHANGED <<routines, status, loops, listeners, events, runs>>
  BY DEF Start
<1>2. starts \in 0..MaxStarts
  BY DEF IInv, TypeOK
<1>3. TypeOK'
  <2>1. starting' \in [left : SUBSET Startup, at : {"no", "startup", "executing"},
                       routine : Startup \cup {"none"}]
    BY <1>1
  <2>2. starts' \in 0..MaxStarts
    BY <1>1, <1>2, RoutineAssumption
  <2>3. QED
    BY <1>1, <2>1, <2>2 DEF IInv, TypeOK
<1>4. ShownRunningRuns'
  BY <1>1 DEF IInv, ShownRunningRuns, Executing
<1>5. Generations'
  <2>1. \A l \in loops : l.gen \in Nat /\ l.gen <= starts
    BY RoutineAssumption DEF IInv, TypeOK, Generations
  <2>2. \A l \in loops : l.gen <= starts + 1 /\ l.gen # starts + 1
    BY <1>2, <2>1, RoutineAssumption
  <2>3. QED
    BY <1>1, <1>2, <2>2, RoutineAssumption DEF Generations
<1>6. QED
  BY <1>1, <1>3, <1>4, <1>5 DEF IInv, OneHolder, Holding, LoopsOnce

LEMMA BeginStartupIInv ==
    ASSUME IInv, BeginStartup
    PROVE  IInv'
<1>1. PICK r \in starting.left :
        /\ starting.at = "startup"
        /\ starting' = [left |-> starting.left \ {r}, at |-> "executing", routine |-> r]
        /\ status' = [status EXCEPT ![r] = "Running"]
        /\ UNCHANGED <<routines, running, starts, loops, listeners, events, runs>>
  BY DEF BeginStartup, SetStatus
<1>2. starting.left \subseteq Startup /\ r \in Startup /\ r \in Routine
  BY RoutineAssumption DEF IInv, TypeOK
<1>3. TypeOK'
  <2>1. starting' \in [left : SUBSET Startup, at : {"no", "startup", "executing"},
                       routine : Startup \cup {"none"}]
    BY <1>1, <1>2
  <2>2. QED
    BY <1>1, <2>1 DEF IInv, TypeOK
<1>4. ShownRunningRuns'
  <2> SUFFICES ASSUME NEW k \in Routine, status'[k] = "Running" PROVE Executing(k)'
    BY DEF ShownRunningRuns
  <2>1. CASE k = r
    BY <1>1, <2>1 DEF Executing
  <2>2. CASE k # r
    BY <1>1, <2>2 DEF IInv, TypeOK, ShownRunningRuns, Executing
  <2>3. QED
    BY <2>1, <2>2
<1>5. QED
  BY <1>1, <1>3, <1>4 DEF IInv, OneHolder, Holding, LoopsOnce, Generations

LEMMA EndStartupIInv ==
    ASSUME IInv, EndStartup
    PROVE  IInv'
<1>1. /\ starting.at = "executing"
      /\ status' = [status EXCEPT ![starting.routine] = "Finished"]
      /\ starting' = [starting EXCEPT !.at = "startup"]
      /\ UNCHANGED <<routines, running, starts, loops, listeners, events, runs>>
  BY DEF EndStartup, SetStatus
<1>2. TypeOK'
  BY <1>1 DEF IInv, TypeOK
<1>3. starting'.at = "startup"
  BY <1>1 DEF IInv, TypeOK
<1>4. ShownRunningRuns'
  <2> SUFFICES ASSUME NEW k \in Routine, status'[k] = "Running" PROVE Executing(k)'
    BY DEF ShownRunningRuns
  <2>1. k # starting.routine /\ status[k] = "Running"
    BY <1>1 DEF IInv, TypeOK
  <2>2. QED
    BY <1>1, <2>1 DEF IInv, ShownRunningRuns, Executing
<1>5. QED
  BY <1>1, <1>2, <1>3, <1>4 DEF IInv, OneHolder, Holding, LoopsOnce, Generations

LEMMA SpawnLoopsIInv ==
    ASSUME IInv, SpawnLoops
    PROVE  IInv'
<1> DEFINE Fresh == [routine : routines \cap Timed, gen : {starts}, at : {"top"}]
<1>1. /\ starting.at = "startup" /\ loops' = loops \cup Fresh
      /\ listeners' = [listeners EXCEPT ![starts] = "lock"] /\ starting' = NotStarting
      /\ UNCHANGED <<routines, status, running, starts, events, runs>>
  BY DEF SpawnLoops
<1>2. starts \in 1..MaxStarts
  BY <1>1, RoutineAssumption DEF IInv, TypeOK, Generations
<1>3. \A l \in Fresh : l.gen = starts /\ l.at = "top"
  OBVIOUS
<1>4. TypeOK'
  <2>1. Fresh \subseteq [routine : Timed, gen : 1..MaxStarts, at : LoopStage]
    BY <1>2 DEF LoopStage
  <2>2. starting' \in [left : SUBSET Startup, at : {"no", "startup", "executing"},
                       routine : Startup \cup {"none"}]
    BY <1>1 DEF NotStarting
  <2>3. listeners' \in [1..MaxStarts -> {"none", "lock", "top", "receive"}]
    BY <1>1 DEF IInv, TypeOK
  <2>4. QED
    BY <1>1, <2>1, <2>2, <2>3 DEF IInv, TypeOK
<1>5. ShownRunningRuns'
  BY <1>1 DEF IInv, ShownRunningRuns, Executing
<1>6. OneHolder'
  BY <1>1 DEF IInv, TypeOK, OneHolder, Holding
<1>7. LoopsOnce'
  <2> SUFFICES ASSUME NEW l \in loops', NEW m \in loops', l.routine = m.routine, l.gen = m.gen
               PROVE  l = m
    BY DEF LoopsOnce
  <2>1. \A k \in loops : k.gen # starts
    BY <1>1 DEF IInv, Generations
  <2>2. CASE l \in loops /\ m \in loops
    BY <2>2 DEF IInv, LoopsOnce
  <2>3. CASE l \in Fresh /\ m \in Fresh
    BY <2>3
  <2>4. QED
    BY <1>1, <1>3, <2>1, <2>2, <2>3
<1>8. Generations'
  BY <1>1, <1>2, <1>3 DEF IInv, Generations, NotStarting
<1>9. QED
  BY <1>4, <1>5, <1>6, <1>7, <1>8 DEF IInv

\* A loop that moves keeps its routine and generation.
LEMMA MoveLoop ==
    ASSUME IInv, NEW l \in loops, NEW at \in LoopStage, Move(l, at), UNCHANGED <<starts, starting>>
    PROVE  /\ loops' \subseteq [routine : Timed, gen : 1..MaxStarts, at : LoopStage]
           /\ LoopsOnce' /\ Generations'
           /\ [l EXCEPT !.at = at] \in loops' /\ [l EXCEPT !.at = at].at = at
           /\ [l EXCEPT !.at = at].routine = l.routine
           /\ \A m \in loops : m # l => m \in loops'
<1> DEFINE n == [l EXCEPT !.at = at]
<1>1. l \in [routine : Timed, gen : 1..MaxStarts, at : LoopStage]
  BY DEF IInv, TypeOK
<1>2. /\ n \in [routine : Timed, gen : 1..MaxStarts, at : LoopStage]
      /\ n.routine = l.routine /\ n.gen = l.gen /\ n.at = at
  BY <1>1
<1> HIDE DEF n
<1>3. loops' = (loops \ {l}) \cup {n}
  BY DEF Move, n
<1>4. LoopsOnce'
  <2> SUFFICES ASSUME NEW x \in loops', NEW y \in loops', x.routine = y.routine, x.gen = y.gen
               PROVE  x = y
    BY DEF LoopsOnce
  <2>1. \A x1, y1 \in loops : x1.routine = y1.routine /\ x1.gen = y1.gen => x1 = y1
    BY DEF IInv, LoopsOnce
  <2>2. QED
    BY <1>2, <1>3, <2>1
<1>5. Generations'
  BY <1>2, <1>3 DEF IInv, Generations
<1>6. QED
  BY <1>2, <1>3, <1>4, <1>5 DEF IInv, TypeOK, n

LEMMA LoopStepIInv ==
    ASSUME IInv, NEW l \in loops, LoopStep(l)
    PROVE  IInv'
<1>1. UNCHANGED <<routines, running, starting, starts, listeners, events, runs>>
  BY DEF LoopStep, CheckLoop, TickLoop, EndLoopRun
<1>2. OneHolder' /\ l.routine \in Routine
  BY <1>1, RoutineAssumption DEF IInv, TypeOK, OneHolder, Holding
<1>3. CASE loops' = loops \ {l} /\ l.at # "executing" /\ UNCHANGED status
  <2>1. TypeOK'
    BY <1>1, <1>3 DEF IInv, TypeOK
  <2>2. LoopsOnce' /\ Generations' /\ ShownRunningRuns'
    BY <1>1, <1>3 DEF IInv, LoopsOnce, Generations, ShownRunningRuns, Executing
  <2>3. QED
    BY <1>2, <2>1, <2>2 DEF IInv
<1>4. CASE l.at = "top" /\ Move(l, "tick") /\ UNCHANGED status
  <2>1. "tick" \in LoopStage
    BY DEF LoopStage
  <2>2. /\ loops' \subseteq [routine : Timed, gen : 1..MaxStarts, at : LoopStage]
        /\ LoopsOnce' /\ Generations' /\ \A m \in loops : m # l => m \in loops'
    BY <1>1, <1>4, <2>1, MoveLoop
  <2>3. TypeOK'
    BY <1>1, <1>4, <2>2 DEF IInv, TypeOK
  <2>4. ShownRunningRuns'
    BY <1>1, <1>4, <2>2 DEF IInv, ShownRunningRuns, Executing
  <2>5. QED
    BY <1>2, <2>2, <2>3, <2>4 DEF IInv
<1>5. CASE l.at = "tick" /\ Move(l, "executing") /\ SetStatus(l.routine, "Running")
  <2>1. "executing" \in LoopStage
    BY DEF LoopStage
  <2>2. PICK n : n = [l EXCEPT !.at = "executing"]
    OBVIOUS
  <2>3. /\ loops' \subseteq [routine : Timed, gen : 1..MaxStarts, at : LoopStage]
        /\ LoopsOnce' /\ Generations' /\ \A m \in loops : m # l => m \in loops'
        /\ n \in loops' /\ n.at = "executing" /\ n.routine = l.routine
    BY <1>1, <1>5, <2>1, <2>2, MoveLoop
  <2>4. TypeOK'
    BY <1>1, <1>5, <2>3 DEF IInv, TypeOK, SetStatus
  <2>5. ShownRunningRuns'
    <3> SUFFICES ASSUME NEW k \in Routine, status'[k] = "Running" PROVE Executing(k)'
      BY DEF ShownRunningRuns
    <3>1. CASE k = l.routine
      BY <2>3, <3>1 DEF Executing
    <3>2. CASE k # l.routine
      <4>1. status[k] = "Running"
        BY <1>5, <3>2 DEF IInv, TypeOK, SetStatus
      <4>2. QED
        BY <1>1, <1>5, <2>3, <4>1 DEF IInv, ShownRunningRuns, Executing
    <3>3. QED
      BY <3>1, <3>2
  <2>6. QED
    BY <1>2, <2>3, <2>4, <2>5 DEF IInv
<1>6. CASE l.at = "executing" /\ SetStatus(l.routine, "Finished") /\ Move(l, "top")
  <2>1. "top" \in LoopStage
    BY DEF LoopStage
  <2>2. /\ loops' \subseteq [routine : Timed, gen : 1..MaxStarts, at : LoopStage]
        /\ LoopsOnce' /\ Generations' /\ \A m \in loops : m # l => m \in loops'
    BY <1>1, <1>6, <2>1, MoveLoop
  <2>3. TypeOK'
    BY <1>1, <1>6, <2>2 DEF IInv, TypeOK, SetStatus
  <2>4. ShownRunningRuns'
    <3> SUFFICES ASSUME NEW k \in Routine, status'[k] = "Running" PROVE Executing(k)'
      BY DEF ShownRunningRuns
    <3>1. k # l.routine /\ status[k] = "Running"
      BY <1>2, <1>6 DEF IInv, TypeOK, SetStatus
    <3>2. QED
      BY <1>1, <2>2, <3>1 DEF IInv, ShownRunningRuns, Executing
  <2>5. QED
    BY <1>2, <2>2, <2>3, <2>4 DEF IInv
<1>7. QED
  BY <1>3, <1>4, <1>5, <1>6 DEF LoopStep, CheckLoop, TickLoop, EndLoopRun

LEMMA ListenerStepIInv ==
    ASSUME IInv, NEW g \in 1..MaxStarts, ListenerStep(g)
    PROVE  IInv'
<1>1. UNCHANGED <<routines, status, running, starting, starts, loops>>
  BY DEF ListenerStep, LockReceiver, CheckListener, ReceiveEvent, ReceiveTimesOut
<1>2. PICK s \in {"none", "top", "receive"} :
        /\ listeners' = [listeners EXCEPT ![g] = s]
        /\ s # "none" => \/ \A h \in 1..MaxStarts : ~Holding(h)
                         \/ Holding(g)
  BY DEF ListenerStep, LockReceiver, CheckListener, ReceiveEvent, ReceiveTimesOut, Holding
<1>3. /\ events' \in 0..MaxEvents /\ runs \subseteq runs'
      /\ runs' \subseteq [id : 1..MaxEvents, routine : Evented, at : {"spawned", "executing"}]
  <2>1. CASE UNCHANGED <<events, runs>>
    BY <2>1 DEF IInv, TypeOK
  <2>2. CASE ReceiveEvent(g)
    <3>1. PICK id \in 1..MaxEvents :
            runs' = runs \cup [id : {id}, routine : routines \cap Evented, at : {"spawned"}]
      BY <2>2 DEF ReceiveEvent
    <3>2. events' \in 0..MaxEvents
      BY <2>2, RoutineAssumption DEF ReceiveEvent, IInv, TypeOK
    <3>3. QED
      BY <3>1, <3>2 DEF IInv, TypeOK
  <2>3. QED
    BY <2>1, <2>2 DEF ListenerStep, LockReceiver, CheckListener, ReceiveTimesOut
<1>4. TypeOK'
  BY <1>1, <1>2, <1>3 DEF IInv, TypeOK
<1>5. OneHolder'
  BY <1>2 DEF IInv, TypeOK, OneHolder, Holding
<1>6. ShownRunningRuns'
  BY <1>1, <1>3 DEF IInv, ShownRunningRuns, Executing
<1>7. QED
  BY <1>1, <1>4, <1>5, <1>6 DEF IInv, LoopsOnce, Generations

LEMMA StepRunIInv ==
    ASSUME IInv, NEW x \in runs, StepRun(x)
    PROVE  IInv'
<1>1. UNCHANGED <<routines, running, starting, starts, loops, listeners, events>>
  BY DEF StepRun
<1>2. /\ x \in [id : 1..MaxEvents, routine : Evented, at : {"spawned", "executing"}]
      /\ x.routine \in Routine /\ status \in [Routine -> {"none", "Idle", "Running", "Finished"}]
  BY RoutineAssumption DEF IInv, TypeOK
<1>3. OneHolder' /\ LoopsOnce' /\ Generations'
  BY <1>1 DEF IInv, OneHolder, Holding, LoopsOnce, Generations
<1>4. CASE /\ x.at = "spawned" /\ runs' = (runs \ {x}) \cup {[x EXCEPT !.at = "executing"]}
           /\ SetStatus(x.routine, "Running")
  <2>1. PICK y : y = [x EXCEPT !.at = "executing"]
    OBVIOUS
  <2>2. /\ y \in [id : 1..MaxEvents, routine : Evented, at : {"spawned", "executing"}]
        /\ y.at = "executing" /\ y.routine = x.routine
    BY <1>2, <2>1
  <2>3. runs' = (runs \ {x}) \cup {y}
    BY <1>4, <2>1
  <2>4. TypeOK'
    BY <1>1, <1>2, <1>4, <2>2, <2>3 DEF IInv, TypeOK, SetStatus
  <2>5. ShownRunningRuns'
    <3> SUFFICES ASSUME NEW k \in Routine, status'[k] = "Running" PROVE Executing(k)'
      BY DEF ShownRunningRuns
    <3>1. CASE k = x.routine
      BY <2>2, <2>3, <3>1 DEF Executing
    <3>2. CASE k # x.routine
      <4>1. status[k] = "Running"
        BY <1>2, <1>4, <3>2 DEF SetStatus
      <4>2. QED
        BY <1>1, <1>4, <2>3, <4>1 DEF IInv, ShownRunningRuns, Executing
    <3>3. QED
      BY <3>1, <3>2
  <2>6. QED
    BY <1>3, <2>4, <2>5 DEF IInv
<1>5. CASE x.at = "executing" /\ runs' = runs \ {x} /\ SetStatus(x.routine, "Finished")
  <2>1. TypeOK'
    BY <1>1, <1>2, <1>5 DEF IInv, TypeOK, SetStatus
  <2>2. ShownRunningRuns'
    <3> SUFFICES ASSUME NEW k \in Routine, status'[k] = "Running" PROVE Executing(k)'
      BY DEF ShownRunningRuns
    <3>1. k # x.routine /\ status[k] = "Running"
      BY <1>2, <1>5 DEF SetStatus
    <3>2. QED
      BY <1>1, <1>5, <3>1 DEF IInv, ShownRunningRuns, Executing
  <2>3. QED
    BY <1>3, <2>1, <2>2 DEF IInv
<1>6. QED
  BY <1>4, <1>5 DEF StepRun

LEMMA StepIInv == IInv /\ [Next]_vars => IInv'
<1> SUFFICES ASSUME IInv, [Next]_vars PROVE IInv'
  OBVIOUS
<1>1. CASE UNCHANGED vars
  <2>1. UNCHANGED <<routines, status, running, starting, starts, loops, listeners, events, runs>>
    BY <1>1 DEF vars
  <2>2. TypeOK'
    BY <2>1 DEF IInv, TypeOK
  <2>3. QED
    BY <2>1, <2>2, StatusStep
<1>2. QED
  BY <1>1, RegisterIInv, SendEventIInv, StartIInv, BeginStartupIInv, EndStartupIInv,
     SpawnLoopsIInv, StopIInv, LoopStepIInv, ListenerStepIInv, StepRunIInv DEF Next, StartStep

LEMMA Invariance == Spec => []IInv
BY InitIInv, StepIInv, PTL DEF Spec

-----------------------------------------------------------------------------
(* The theorems. *)

\* Every state of the engine is well formed (routines/mod.rs).
THEOREM TypeCorrect == Spec => []TypeOK
<1>1. IInv => TypeOK
  BY DEF IInv
<1>2. QED
  BY <1>1, Invariance, PTL

\* A routine is shown as running only while a run of it lasts, the loops of a
\* routine are of different calls of start, and at most one listener holds the
\* event receiver (start, start_interval_routines, start_event_listener).
THEOREM RunsAndLoops == Spec => []RoutinesApart
<1>1. IInv => RoutinesApart
  <2> SUFFICES ASSUME IInv PROVE Cardinality({g \in 1..MaxStarts : Holding(g)}) <= 1
    BY DEF IInv, RoutinesApart, LoopsApart, LoopsOnce, Holding
  <2>1. CASE \A g \in 1..MaxStarts : ~Holding(g)
    <3>1. {g \in 1..MaxStarts : Holding(g)} = {}
      BY <2>1
    <3>2. QED
      BY <3>1, FS_EmptySet
  <2>2. CASE \E g \in 1..MaxStarts : Holding(g)
    <3>1. PICK g \in 1..MaxStarts : Holding(g)
      BY <2>2
    <3>2. {h \in 1..MaxStarts : Holding(h)} = {g}
      BY <3>1 DEF IInv, OneHolder
    <3>3. QED
      BY <3>2, FS_Singleton
  <2>3. QED
    BY <2>1, <2>2
<1>2. QED
  BY <1>1, Invariance, PTL

-----------------------------------------------------------------------------
(* The heartbeat. *)

Increasing(q) == \A i, j \in 1..Len(q) : i < j => q[i] < q[j]

HasReceiver(s) == forwarder[s].at \in {"check", "receive", "send", "gone"}

OneReceiver == \A s, t \in Subscriber : HasReceiver(s) /\ HasReceiver(t) => s = t

\* A result that left the loop is not the one being sent.
Left(n) == 1 <= n /\ n <= beats /\ (loop = "sending" => n < beats)

InOrder ==
    /\ Increasing(channel)
    /\ \A c \in Range(channel) : Left(c)
    /\ \A n \in Sent \cup Held : Left(n) /\ \A c \in Range(channel) : n < c
    /\ \A n \in Sent, h \in Held : n < h
    /\ \A s \in Subscriber : Increasing(delivered[s])

NoneMissing == 1..beats \subseteq Sent \cup Held \cup Waiting \cup Lost

NoneTwice == \A s, t \in Subscriber : s # t => Range(delivered[s]) \cap Range(delivered[t]) = {}

FailedBefore == failed \subseteq 1..beats

LoopOK == /\ loop = "calling" => beats < MaxBeats
          /\ loop = "sending" => beats >= 1

BeatsIInv == /\ HeartbeatTypeOK /\ LoopOK /\ OneReceiver /\ InOrder /\ NoneMissing /\ NoneTwice
        /\ FailedBefore /\ FailuresAreConsecutive

-----------------------------------------------------------------------------
(* Sequences. *)

LEMMA AppendInOrder ==
    ASSUME NEW S, NEW q \in Seq(S), NEW e \in S, S \subseteq Nat
    PROVE  /\ Append(q, e) \in Seq(S) /\ Len(Append(q, e)) = Len(q) + 1
           /\ Range(Append(q, e)) = Range(q) \cup {e}
           /\ Increasing(q) /\ (\A c \in Range(q) : c < e) => Increasing(Append(q, e))
<1> DEFINE a == Append(q, e)
<1>1. /\ a \in Seq(S) /\ Len(a) = Len(q) + 1 /\ Len(q) \in Nat
      /\ \A i \in 1..Len(q) : a[i] = q[i]
      /\ a[Len(q) + 1] = e
  BY AppendProperties, LenProperties
<1>2. DOMAIN a = 1..(Len(q) + 1) /\ DOMAIN q = 1..Len(q)
  BY <1>1, LenProperties
<1> HIDE DEF a
<1>3. Range(a) = Range(q) \cup {e}
  BY <1>1, <1>2 DEF Range
<1>4. ASSUME Increasing(q), \A c \in Range(q) : c < e PROVE Increasing(a)
  <2> SUFFICES ASSUME NEW i \in 1..(Len(q) + 1), NEW j \in 1..(Len(q) + 1), i < j
               PROVE  a[i] < a[j]
    BY <1>1 DEF Increasing
  <2>1. i \in 1..Len(q) /\ a[i] = q[i]
    BY <1>1
  <2>2. CASE j \in 1..Len(q)
    BY <1>1, <1>4, <2>1, <2>2 DEF Increasing
  <2>3. CASE j = Len(q) + 1
    BY <1>1, <1>2, <1>4, <2>1, <2>3 DEF Range
  <2>4. QED
    BY <1>1, <2>2, <2>3
<1>5. QED
  BY <1>1, <1>3, <1>4 DEF a

LEMMA TailInOrder ==
    ASSUME NEW S, NEW q \in Seq(S), q # <<>>, S \subseteq Nat
    PROVE  /\ Head(q) \in S /\ Tail(q) \in Seq(S) /\ Len(Tail(q)) = Len(q) - 1
           /\ Range(q) = {Head(q)} \cup Range(Tail(q))
           /\ Increasing(q) => Increasing(Tail(q)) /\ \A c \in Range(Tail(q)) : Head(q) < c
<1> DEFINE r == Tail(q)
<1>1. /\ Head(q) \in S /\ r \in Seq(S) /\ Len(r) = Len(q) - 1 /\ Len(q) \in Nat \ {0}
      /\ \A i \in 1..Len(r) : r[i] = q[i + 1]
      /\ Head(q) = q[1]
  BY HeadTailProperties, EmptySeq
<1>2. DOMAIN r = 1..(Len(q) - 1) /\ DOMAIN q = 1..Len(q)
  BY <1>1, LenProperties
<1> HIDE DEF r
<1>3. Range(q) = {Head(q)} \cup Range(r)
  <2>1. \A i \in 1..Len(q) : i = 1 \/ (i - 1 \in 1..(Len(q) - 1) /\ r[i - 1] = q[i])
    BY <1>1
  <2>2. \A i \in 1..(Len(q) - 1) : i + 1 \in 1..Len(q) /\ r[i] = q[i + 1]
    BY <1>1
  <2>3. 1 \in 1..Len(q)
    BY <1>1
  <2>4. Range(r) \subseteq Range(q) /\ Head(q) \in Range(q)
    BY <1>1, <1>2, <2>2, <2>3 DEF Range
  <2>5. \A c \in Range(q) : c = Head(q) \/ c \in Range(r)
    <3> SUFFICES ASSUME NEW i \in 1..Len(q) PROVE q[i] = Head(q) \/ q[i] \in Range(r)
      BY <1>2 DEF Range
    <3>1. CASE i = 1
      BY <1>1, <3>1
    <3>2. CASE i - 1 \in 1..(Len(q) - 1) /\ r[i - 1] = q[i]
      BY <1>2, <3>2 DEF Range
    <3>3. QED
      BY <2>1, <3>1, <3>2
  <2>6. QED
    BY <2>4, <2>5
<1>4. ASSUME Increasing(q) PROVE Increasing(r) /\ \A c \in Range(r) : Head(q) < c
  BY <1>1, <1>2, <1>4 DEF Increasing, Range
<1>5. QED
  BY <1>1, <1>3, <1>4 DEF r

\* The results on their way are numbers.
LEMMA Numbers ==
    ASSUME HeartbeatTypeOK
    PROVE  /\ beats \in Nat /\ Range(channel) \subseteq 1..MaxBeats
           /\ Sent \subseteq 1..MaxBeats /\ Held \subseteq 0..MaxBeats /\ Lost \subseteq 0..MaxBeats
<1>1. \A q \in Seq(1..MaxBeats) : Range(q) \subseteq 1..MaxBeats
  <2> SUFFICES ASSUME NEW q \in Seq(1..MaxBeats) PROVE Range(q) \subseteq 1..MaxBeats
    OBVIOUS
  <2>1. q \in [1..Len(q) -> 1..MaxBeats]
    BY LenProperties
  <2>2. QED
    BY <2>1 DEF Range
<1>2. \A s \in Subscriber : Range(delivered[s]) \subseteq 1..MaxBeats
  <2>1. \A s \in Subscriber : delivered[s] \in Seq(1..MaxBeats)
    BY DEF HeartbeatTypeOK
  <2>2. QED
    BY <1>1, <2>1
<1>3. \A s \in Subscriber : forwarder[s].result \in 0..MaxBeats
  BY DEF HeartbeatTypeOK
<1>4. Held \subseteq 0..MaxBeats /\ Lost \subseteq 0..MaxBeats
  BY <1>3 DEF Held, Taken, Lost, Ended
<1>5. beats \in Nat /\ Range(channel) \subseteq 1..MaxBeats
  BY <1>1, HeartbeatAssumption DEF HeartbeatTypeOK
<1>6. QED
  BY <1>2, <1>4, <1>5 DEF Sent

-----------------------------------------------------------------------------
(* The invariant is inductive. *)

LEMMA HeartbeatInitIInv == HeartbeatInit => BeatsIInv
<1> SUFFICES ASSUME HeartbeatInit PROVE BeatsIInv
  OBVIOUS
<1>1. HeartbeatTypeOK
  <2>1. NoForwarder \in [at : {"none", "lock", "check", "receive", "send", "gone", "ended"},
                         result : 0..MaxBeats]
    BY HeartbeatAssumption DEF NoForwarder
  <2>2. <<>> \in Seq(1..MaxBeats) /\ Len(<<>>) <= Capacity /\ 0 \in 0..MaxBeats
    BY HeartbeatAssumption, EmptySeq
  <2>3. QED
    BY <2>1, <2>2 DEF HeartbeatInit, HeartbeatTypeOK
<1>2. Len(<<>>) = 0 /\ Range(<<>>) = {}
  BY DEF Range
<1>3. Sent = {} /\ Taken = {} /\ Held = {}
  BY <1>2 DEF HeartbeatInit, Sent, Taken, Held, NoForwarder
<1>4. InOrder
  BY <1>2, <1>3 DEF HeartbeatInit, InOrder, Increasing
<1>5. OneReceiver /\ NoneMissing /\ NoneTwice
  BY <1>2 DEF HeartbeatInit, OneReceiver, HasReceiver, NoForwarder, NoneMissing, NoneTwice
<1>6. FailedBefore /\ FailuresAreConsecutive /\ LoopOK
  BY DEF HeartbeatInit, FailedBefore, FailuresAreConsecutive, LoopOK
<1>7. QED
  BY <1>1, <1>4, <1>5, <1>6 DEF BeatsIInv

\* Steps of the loop that neither make a result nor send one.
LEMMA LoopOnlyIInv ==
    ASSUME BeatsIInv, HeartbeatTypeOK', UNCHANGED <<beats, failures, failed, channel, subVars>>,
           loop' = "sending" <=> loop = "sending", loop' = "calling" => beats < MaxBeats
    PROVE  BeatsIInv'
<1>1. UNCHANGED <<Sent, Held, Taken, Waiting, Lost, Ended>>
  BY DEF subVars, Sent, Held, Taken, Waiting, Lost, Ended
<1>2. InOrder' /\ NoneMissing' /\ NoneTwice' /\ OneReceiver'
  BY <1>1 DEF BeatsIInv, subVars, InOrder, Left, NoneMissing, NoneTwice, OneReceiver, HasReceiver
<1>3. FailedBefore' /\ FailuresAreConsecutive' /\ LoopOK'
  BY DEF BeatsIInv, FailedBefore, FailuresAreConsecutive, LoopOK
<1>4. QED
  BY <1>2, <1>3 DEF BeatsIInv

LEMMA CheckBeatsIInv ==
    ASSUME BeatsIInv, CheckBeats
    PROVE  BeatsIInv'
<1>1. /\ loop \in {"top", "tick"} /\ loop' \in {"tick", "calling", "off"}
      /\ loop' = "calling" => beats < MaxBeats
      /\ UNCHANGED <<heartRunning, beats, failures, failed, last, channel, subVars>>
  BY DEF CheckBeats
<1>2. HeartbeatTypeOK'
  BY <1>1 DEF BeatsIInv, HeartbeatTypeOK, subVars
<1>3. QED
  BY <1>1, <1>2, LoopOnlyIInv

LEMMA StartStopRunIInv ==
    ASSUME BeatsIInv, StartBeats \/ StopBeats \/ RunBeats \/ UNCHANGED heartbeatVars
    PROVE  BeatsIInv'
<1>1. /\ UNCHANGED <<beats, failures, failed, last, channel, subVars>>
      /\ \/ UNCHANGED loop
         \/ loop = "off" /\ loop' = "top"
      /\ heartRunning' \in BOOLEAN
  BY DEF StartBeats, StopBeats, RunBeats, heartbeatVars, loopVars, subVars, BeatsIInv, HeartbeatTypeOK
<1>2. HeartbeatTypeOK'
  BY <1>1 DEF BeatsIInv, HeartbeatTypeOK, subVars
<1>3. /\ loop' = "sending" <=> loop = "sending"
      /\ loop' = "calling" => beats < MaxBeats
  BY <1>1 DEF BeatsIInv, LoopOK
<1>4. QED
  BY <1>1, <1>2, <1>3, LoopOnlyIInv

\* A new result comes after all there are.
LEMMA CallBackIInv ==
    ASSUME BeatsIInv, CallBack
    PROVE  BeatsIInv'
<1>1. /\ loop = "calling" /\ loop' = "sending" /\ beats' = beats + 1 /\ last' = beats + 1
      /\ UNCHANGED <<heartRunning, channel, subVars>>
  BY DEF CallBack
<1>2. /\ beats \in Nat /\ failures \in Nat /\ failures <= beats /\ failed \subseteq 1..beats
      /\ beats - failures \notin failed /\ (beats - failures + 1)..beats \subseteq failed
      /\ beats + 1 \in 1..MaxBeats
  BY <1>1, HeartbeatAssumption DEF LoopOK, BeatsIInv, HeartbeatTypeOK, FailuresAreConsecutive, FailedBefore
<1>3. FailedBefore' /\ FailuresAreConsecutive'
  <2>1. CASE failures' = 0 /\ UNCHANGED failed
    BY <1>1, <1>2, <2>1 DEF FailedBefore, FailuresAreConsecutive
  <2>2. CASE failures' = failures + 1 /\ failed' = failed \cup {beats + 1}
    <3>1. beats' - failures' = beats - failures /\ failures' <= beats'
      BY <1>1, <1>2, <2>2
    <3>2. \A n \in (beats - failures + 1)..(beats + 1) : n \in failed \/ n = beats + 1
      BY <1>2
    <3>3. beats - failures # beats + 1
      BY <1>2
    <3>4. failed' \subseteq 1..beats'
      BY <1>1, <1>2, <2>2
    <3>5. QED
      BY <1>1, <1>2, <2>2, <3>1, <3>2, <3>3, <3>4 DEF FailedBefore, FailuresAreConsecutive
  <2>3. QED
    BY <2>1, <2>2 DEF CallBack
<1>4. HeartbeatTypeOK'
  <2>1. beats' \in 0..MaxBeats /\ last' \in 0..MaxBeats
    BY <1>1, <1>2, HeartbeatAssumption
  <2>2. failures' \in 0..MaxBeats
    <3>1. failures' = 0 \/ failures' = failures + 1
      BY DEF CallBack
    <3>2. QED
      BY <1>2, <3>1, HeartbeatAssumption
  <2>3. failed' \subseteq 1..MaxBeats
    <3>1. failed' = failed \/ failed' = failed \cup {beats + 1}
      BY DEF CallBack
    <3>2. failed \subseteq 1..MaxBeats
      BY DEF BeatsIInv, HeartbeatTypeOK
    <3>3. QED
      BY <1>2, <3>1, <3>2
  <2>4. QED
    BY <1>1, <2>1, <2>2, <2>3 DEF BeatsIInv, HeartbeatTypeOK, subVars
<1>5. UNCHANGED <<Sent, Held, Taken, Lost, Ended>>
  BY <1>1 DEF subVars, Sent, Held, Taken, Lost, Ended
<1>6. InOrder'
  <2>1. \A n \in Sent \cup Held \cup Range(channel) : n \in Nat /\ 1 <= n /\ n <= beats
    BY Numbers, HeartbeatAssumption DEF BeatsIInv, InOrder, Left
  <2>2. \A n \in Sent \cup Held \cup Range(channel) : Left(n)'
    BY <1>1, <1>2, <2>1 DEF Left
  <2>3. QED
    BY <1>1, <1>5, <2>2 DEF BeatsIInv, InOrder, subVars
<1>7. NoneMissing'
  <2>1. Waiting = Range(channel) /\ Waiting' = Range(channel) \cup {beats + 1}
    BY <1>1 DEF Waiting
  <2>2. \A n \in 1..beats' : n \in 1..beats \/ n = beats + 1
    BY <1>1, <1>2
  <2>3. QED
    BY <1>5, <2>1, <2>2 DEF BeatsIInv, NoneMissing
<1>8. NoneTwice' /\ OneReceiver' /\ LoopOK'
  BY <1>1, <1>2 DEF BeatsIInv, subVars, NoneTwice, OneReceiver, HasReceiver, LoopOK
<1>9. QED
  BY <1>3, <1>4, <1>6, <1>7, <1>8 DEF BeatsIInv


LEMMA SendResultIInv ==
    ASSUME BeatsIInv, SendResult
    PROVE  BeatsIInv'
<1>1. /\ loop = "sending" /\ Len(channel) < Capacity /\ channel' = Append(channel, beats)
      /\ loop' = "top" /\ UNCHANGED <<heartRunning, beats, failures, failed, last, subVars>>
  BY DEF SendResult
<1>2. channel \in Seq(1..MaxBeats) /\ beats \in 1..MaxBeats /\ Len(channel) \in Nat
  BY <1>1, HeartbeatAssumption, LenProperties DEF BeatsIInv, HeartbeatTypeOK, LoopOK
<1>3. \A n \in Sent \cup Held \cup Range(channel) : n \in Nat /\ 1 <= n /\ n < beats
  BY <1>1, Numbers, HeartbeatAssumption DEF BeatsIInv, InOrder, Left
<1>4. /\ channel' \in Seq(1..MaxBeats) /\ Len(channel') = Len(channel) + 1
      /\ Range(channel') = Range(channel) \cup {beats} /\ Increasing(channel')
  <2>1. Increasing(channel) /\ \A c \in Range(channel) : c < beats
    BY <1>3 DEF BeatsIInv, InOrder
  <2>2. 1..MaxBeats \subseteq Nat
    OBVIOUS
  <2>3. QED
    BY <1>1, <1>2, <2>1, <2>2, AppendInOrder
<1>5. HeartbeatTypeOK'
  BY <1>1, <1>2, <1>4, HeartbeatAssumption DEF BeatsIInv, HeartbeatTypeOK, subVars
<1>6. UNCHANGED <<Sent, Held, Taken, Lost, Ended>>
  BY <1>1 DEF subVars, Sent, Held, Taken, Lost, Ended
<1>7. InOrder'
  <2>1. \A n \in Sent \cup Held \cup Range(channel) \cup {beats} : Left(n)'
    BY <1>1, <1>2, <1>3 DEF Left
  <2>2. \A n \in Sent \cup Held, c \in Range(channel') : n < c
    BY <1>3, <1>4 DEF BeatsIInv, InOrder
  <2>3. QED
    BY <1>1, <1>4, <1>6, <2>1, <2>2 DEF BeatsIInv, InOrder, subVars
<1>8. NoneMissing'
  <2>1. Waiting' = Waiting
    BY <1>1, <1>4 DEF Waiting
  <2>2. QED
    BY <1>1, <1>6, <2>1 DEF BeatsIInv, NoneMissing
<1>9. NoneTwice' /\ OneReceiver' /\ LoopOK' /\ FailedBefore' /\ FailuresAreConsecutive'
  BY <1>1 DEF BeatsIInv, subVars, NoneTwice, OneReceiver, HasReceiver, LoopOK, FailedBefore,
              FailuresAreConsecutive
<1>10. QED
  BY <1>5, <1>7, <1>8, <1>9 DEF BeatsIInv

-----------------------------------------------------------------------------
(* The forwarders. *)

Stages == {"none", "lock", "check", "receive", "send", "gone", "ended"}

\* A forwarder that holds no result moves on, and no other one has the receiver.
LEMMA ForwarderMoves ==
    ASSUME BeatsIInv, NEW s \in Subscriber, NEW at \in Stages,
           ForwarderTo(s, at), UNCHANGED <<heartRunning, loopVars, channel, delivered>>,
           forwarder[s].at \in {"none", "lock", "check"}, at \notin {"send", "gone"},
           at \in {"check", "receive"} =>
              HasReceiver(s) \/ \A t \in Subscriber : ~HasReceiver(t)
    PROVE  BeatsIInv'
<1> DEFINE f == [forwarder[s] EXCEPT !.at = at]
<1>1. /\ forwarder \in [Subscriber -> [at : Stages, result : 0..MaxBeats]]
      /\ forwarder' = [forwarder EXCEPT ![s] = f]
      /\ UNCHANGED <<heartRunning, loop, beats, failures, failed, last, channel, delivered>>
  BY DEF BeatsIInv, HeartbeatTypeOK, ForwarderTo, loopVars, Stages
<1>2. f \in [at : Stages, result : 0..MaxBeats] /\ f.at = at /\ f.result = forwarder[s].result
  BY <1>1
<1> HIDE DEF f
<1>3. /\ forwarder' \in [Subscriber -> [at : Stages, result : 0..MaxBeats]]
      /\ forwarder'[s] = f /\ \A t \in Subscriber : t # s => forwarder'[t] = forwarder[t]
  BY <1>1, <1>2
<1>4. HeartbeatTypeOK'
  BY <1>1, <1>3 DEF BeatsIInv, HeartbeatTypeOK, Stages
<1>5. Sent' = Sent /\ Waiting' = Waiting
  BY <1>1 DEF Sent, Waiting
<1>6. Taken' = Taken /\ Held' = Held
  <2>1. Taken' = Taken
    BY <1>2, <1>3 DEF Taken
  <2>2. \A t \in Taken : forwarder'[t] = forwarder[t]
    BY <1>3 DEF Taken
  <2>3. QED
    BY <2>1, <2>2 DEF Held
<1>7. Lost \subseteq Lost'
  <2>1. \A t \in Ended : t \in Ended' /\ forwarder'[t] = forwarder[t]
    BY <1>3 DEF Ended
  <2>2. QED
    BY <1>5, <2>1 DEF Lost
<1>8. InOrder' /\ NoneMissing' /\ NoneTwice'
  BY <1>1, <1>5, <1>6, <1>7 DEF BeatsIInv, InOrder, Left, NoneMissing, NoneTwice
<1>9. OneReceiver'
  BY <1>2, <1>3 DEF BeatsIInv, OneReceiver, HasReceiver
<1>10. LoopOK' /\ FailedBefore' /\ FailuresAreConsecutive'
  BY <1>1 DEF BeatsIInv, LoopOK, FailedBefore, FailuresAreConsecutive
<1>11. QED
  BY <1>4, <1>8, <1>9, <1>10 DEF BeatsIInv

LEMMA SubscribeIInv ==
    ASSUME BeatsIInv, NEW s \in Subscriber, Subscribe(s)
    PROVE  BeatsIInv'
<1>1. "lock" \in Stages
  BY DEF Stages
<1>2. QED
  BY <1>1, ForwarderMoves DEF Subscribe

LEMMA LockResultsIInv ==
    ASSUME BeatsIInv, NEW s \in Subscriber, LockResults(s)
    PROVE  BeatsIInv'
<1>1. "check" \in Stages /\ \A t \in Subscriber : ~HasReceiver(t)
  BY DEF Stages, LockResults, HasReceiver
<1>2. QED
  BY <1>1, ForwarderMoves DEF LockResults

LEMMA CheckRunningIInv ==
    ASSUME BeatsIInv, NEW s \in Subscriber, CheckRunning(s)
    PROVE  BeatsIInv'
<1>1. PICK at : at = IF heartRunning THEN "receive" ELSE "ended"
  OBVIOUS
<1>2. /\ at \in Stages /\ at \notin {"send", "gone"} /\ HasReceiver(s)
      /\ forwarder[s].at = "check" /\ ForwarderTo(s, at)
      /\ UNCHANGED <<heartRunning, loopVars, channel, delivered>>
  BY <1>1 DEF Stages, CheckRunning, HasReceiver
<1>3. QED
  BY <1>2, ForwarderMoves

\* The receiver's holder takes the first of the channel: nothing is held then.
LEMMA ReceiveIInv ==
    ASSUME BeatsIInv, NEW s \in Subscriber, Receive(s)
    PROVE  BeatsIInv'
<1>1. PICK at \in {"send", "gone"} :
        forwarder' = [forwarder EXCEPT ![s] = [at |-> at, result |-> Head(channel)]]
  BY DEF Receive
<1>2. /\ forwarder[s].at = "receive" /\ channel # <<>> /\ channel' = Tail(channel)
      /\ UNCHANGED <<heartRunning, loop, beats, failures, failed, last, delivered>>
  BY DEF Receive, loopVars
<1>3. /\ channel \in Seq(1..MaxBeats) /\ Len(channel) \in Nat
      /\ forwarder \in [Subscriber -> [at : Stages, result : 0..MaxBeats]]
  BY LenProperties DEF BeatsIInv, HeartbeatTypeOK, Stages
<1>4. PICK h : h = Head(channel)
  OBVIOUS
<1>5. /\ h \in 1..MaxBeats /\ channel' \in Seq(1..MaxBeats) /\ Len(channel') = Len(channel) - 1
      /\ Range(channel) = {h} \cup Range(channel')
      /\ Increasing(channel') /\ \A c \in Range(channel') : h < c
  <2>1. 1..MaxBeats \subseteq Nat /\ Increasing(channel)
    BY DEF BeatsIInv, InOrder
  <2>2. QED
    BY <1>2, <1>3, <1>4, <2>1, TailInOrder
<1>6. /\ forwarder' \in [Subscriber -> [at : Stages, result : 0..MaxBeats]]
      /\ forwarder'[s].at = at /\ forwarder'[s].result = h
      /\ \A t \in Subscriber : t # s => forwarder'[t] = forwarder[t]
  <2>1. [at |-> at, result |-> h] \in [at : Stages, result : 0..MaxBeats]
    BY <1>5 DEF Stages
  <2>2. QED
    BY <1>1, <1>3, <1>4, <2>1
<1>7. HeartbeatTypeOK'
  BY <1>2, <1>3, <1>5, <1>6, HeartbeatAssumption DEF BeatsIInv, HeartbeatTypeOK, Stages
<1>8. Sent' = Sent
  BY <1>2 DEF Sent
<1>9. Held' = {h}
  <2>1. \A t \in Subscriber : t # s => t \notin Taken
    BY <1>2 DEF BeatsIInv, OneReceiver, HasReceiver, Taken
  <2>2. Taken' = {s}
    BY <1>6, <2>1 DEF Taken
  <2>3. QED
    BY <1>6, <2>2 DEF Held
<1>10. Held = {}
  BY <1>2 DEF BeatsIInv, OneReceiver, HasReceiver, Taken, Held
<1>11. Lost \subseteq Lost'
  <2>1. \A t \in Ended : t \in Ended' /\ forwarder'[t] = forwarder[t]
    BY <1>2, <1>6 DEF Ended
  <2>2. QED
    BY <1>8, <2>1 DEF Lost
<1>12. InOrder'
  <2>1. \A n \in Sent \cup Range(channel) : Left(n)' /\ h \in Range(channel)
    BY <1>2, <1>5 DEF BeatsIInv, InOrder, Left
  <2>2. \A n \in Sent : n < h /\ \A c \in Range(channel') : n < c
    BY <1>5 DEF BeatsIInv, InOrder
  <2>3. QED
    BY <1>2, <1>5, <1>8, <1>9, <2>1, <2>2 DEF BeatsIInv, InOrder
<1>13. NoneMissing'
  BY <1>2, <1>5, <1>8, <1>9, <1>10, <1>11 DEF BeatsIInv, NoneMissing, Waiting
<1>14. OneReceiver'
  BY <1>2, <1>6 DEF BeatsIInv, OneReceiver, HasReceiver
<1>15. NoneTwice' /\ LoopOK' /\ FailedBefore' /\ FailuresAreConsecutive'
  BY <1>2 DEF BeatsIInv, NoneTwice, LoopOK, FailedBefore, FailuresAreConsecutive
<1>16. QED
  BY <1>7, <1>12, <1>13, <1>14, <1>15 DEF BeatsIInv

\* What the holder holds comes after all that was delivered, to anyone.
LEMMA ForwardIInv ==
    ASSUME BeatsIInv, NEW s \in Subscriber, Forward(s)
    PROVE  BeatsIInv'
<1>1. PICK at \in {"check", "ended"} :
        /\ forwarder' = [forwarder EXCEPT ![s] = [forwarder[s] EXCEPT !.at = at]]
        /\ \/ /\ forwarder[s].at = "send"
              /\ delivered' = [delivered EXCEPT ![s] = Append(delivered[s], forwarder[s].result)]
           \/ forwarder[s].at = "gone" /\ at = "ended" /\ UNCHANGED delivered
  BY DEF Forward, ForwarderTo
<1>2. UNCHANGED <<heartRunning, loop, beats, failures, failed, last, channel>>
  BY DEF Forward, loopVars
<1>3. PICK h : h = forwarder[s].result
  OBVIOUS
<1>4. /\ forwarder \in [Subscriber -> [at : Stages, result : 0..MaxBeats]]
      /\ delivered \in [Subscriber -> Seq(1..MaxBeats)]
  BY DEF BeatsIInv, HeartbeatTypeOK, Stages
<1>5. /\ forwarder' \in [Subscriber -> [at : Stages, result : 0..MaxBeats]]
      /\ forwarder'[s].at = at /\ forwarder'[s].result = h
      /\ \A t \in Subscriber : t # s => forwarder'[t] = forwarder[t]
  <2>1. PICK f : f = [forwarder[s] EXCEPT !.at = at]
    OBVIOUS
  <2>2. f \in [at : Stages, result : 0..MaxBeats] /\ f.at = at /\ f.result = h
    BY <1>3, <1>4, <2>1 DEF Stages
  <2>3. QED
    BY <1>1, <1>4, <2>1, <2>2
<1>6. s \in Taken /\ h \in Held /\ Held = {h} /\ Held' = {}
  <2>1. forwarder[s].at \in {"send", "gone"}
    BY <1>1
  <2>2. Taken = {s}
    BY <2>1 DEF BeatsIInv, OneReceiver, HasReceiver, Taken
  <2>3. Taken' = {}
    BY <1>5, <2>2 DEF Taken
  <2>4. QED
    BY <1>3, <2>2, <2>3 DEF Held
<1>7. Left(h) /\ (\A c \in Range(channel) : h < c) /\ \A n \in Sent : n < h
  BY <1>6 DEF BeatsIInv, InOrder
<1>8. OneReceiver'
  BY <1>1, <1>5 DEF BeatsIInv, OneReceiver, HasReceiver
<1>9. LoopOK' /\ FailedBefore' /\ FailuresAreConsecutive' /\ Waiting' = Waiting
  BY <1>2 DEF BeatsIInv, LoopOK, FailedBefore, FailuresAreConsecutive, Waiting
<1>10. \A t \in Ended : t \in Ended' /\ forwarder'[t] = forwarder[t]
  BY <1>1, <1>5 DEF Ended
<1>11. CASE forwarder[s].at = "gone" /\ at = "ended" /\ UNCHANGED delivered
  <2>1. Sent' = Sent
    BY <1>11 DEF Sent
  <2>2. Lost \subseteq Lost' /\ (h \in Sent' \/ h \in Lost')
    <3>1. s \in Ended'
      BY <1>5, <1>11 DEF Ended
    <3>2. QED
      BY <1>5, <1>10, <2>1, <3>1 DEF Lost
  <2>3. HeartbeatTypeOK'
    BY <1>2, <1>5, <1>11 DEF BeatsIInv, HeartbeatTypeOK, Stages
  <2>4. InOrder' /\ NoneTwice'
    BY <1>2, <1>6, <1>11, <2>1 DEF BeatsIInv, InOrder, Left, NoneTwice
  <2>5. NoneMissing'
    BY <1>2, <1>6, <1>9, <2>1, <2>2 DEF BeatsIInv, NoneMissing
  <2>6. QED
    BY <1>8, <1>9, <2>3, <2>4, <2>5 DEF BeatsIInv
<1>12. CASE delivered' = [delivered EXCEPT ![s] = Append(delivered[s], forwarder[s].result)]
  <2>1. h \in 1..MaxBeats
    <3>1. beats \in 0..MaxBeats /\ h \in 0..MaxBeats
      BY <1>3, <1>4 DEF BeatsIInv, HeartbeatTypeOK
    <3>2. QED
      BY <1>7, <3>1, HeartbeatAssumption DEF Left
  <2>2. /\ delivered'[s] \in Seq(1..MaxBeats) /\ Range(delivered'[s]) = Range(delivered[s]) \cup {h}
        /\ Increasing(delivered'[s])
    <3>1. 1..MaxBeats \subseteq Nat /\ Increasing(delivered[s]) /\ Range(delivered[s]) \subseteq Sent
      BY DEF BeatsIInv, InOrder, Sent
    <3>2. delivered'[s] = Append(delivered[s], h)
      BY <1>3, <1>4, <1>12
    <3>3. PICK q \in Seq(1..MaxBeats) : q = delivered[s]
      BY <1>4
    <3>4. Increasing(q) /\ \A c \in Range(q) : c < h
      BY <1>7, <3>1, <3>3 DEF Increasing
    <3>5. /\ Append(q, h) \in Seq(1..MaxBeats) /\ Range(Append(q, h)) = Range(q) \cup {h}
          /\ Increasing(Append(q, h))
      BY <2>1, <3>1, <3>4, AppendInOrder
    <3>6. PICK d : d = Append(q, h)
      OBVIOUS
    <3>7. d = delivered'[s]
      BY <3>2, <3>3, <3>6
    <3>8. QED
      BY <3>3, <3>5, <3>6, <3>7 DEF Increasing
  <2>3. delivered' \in [Subscriber -> Seq(1..MaxBeats)]
        /\ \A t \in Subscriber : t # s => delivered'[t] = delivered[t]
    BY <1>4, <1>12, <2>2
  <2>4. HeartbeatTypeOK'
    BY <1>2, <1>5, <2>3 DEF BeatsIInv, HeartbeatTypeOK, Stages
  <2>5. Sent' = Sent \cup {h}
    BY <2>2, <2>3 DEF Sent
  <2>6. InOrder'
    <3>1. \A n \in Sent' : Left(n)' /\ \A c \in Range(channel) : n < c
      BY <1>2, <1>7, <2>5 DEF BeatsIInv, InOrder, Left
    <3>2. \A c \in Range(channel) : Left(c)'
      BY <1>2 DEF BeatsIInv, InOrder, Left
    <3>3. \A t \in Subscriber : Increasing(delivered'[t])
      BY <2>2, <2>3 DEF BeatsIInv, InOrder
    <3>4. Increasing(channel)
      BY DEF BeatsIInv, InOrder
    <3>5. QED
      BY <1>2, <1>6, <3>1, <3>2, <3>3, <3>4 DEF InOrder, Increasing
  <2>7. NoneTwice'
    <3> SUFFICES ASSUME NEW t \in Subscriber, t # s
                 PROVE  Range(delivered'[s]) \cap Range(delivered'[t]) = {}
      BY <2>3 DEF BeatsIInv, NoneTwice
    <3>1. Range(delivered[t]) \subseteq Sent /\ Range(delivered[s]) \cap Range(delivered[t]) = {}
      BY DEF Sent, BeatsIInv, NoneTwice
    <3>2. h \notin Sent
      BY <1>7, <2>1
    <3>3. QED
      BY <2>2, <2>3, <3>1, <3>2
  <2>8. NoneMissing'
    <3>1. \A n \in Lost : n \in Lost' \/ n \in Sent'
      BY <1>10, <2>5 DEF Lost
    <3>2. QED
      BY <1>2, <1>6, <1>9, <2>5, <3>1 DEF BeatsIInv, NoneMissing
  <2>9. QED
    BY <1>8, <1>9, <2>4, <2>6, <2>7, <2>8 DEF BeatsIInv
<1>13. QED
  BY <1>1, <1>11, <1>12

LEMMA HeartbeatStepIInv == BeatsIInv /\ [HeartbeatNext]_heartbeatVars => BeatsIInv'
BY StartStopRunIInv, CheckBeatsIInv, CallBackIInv, SendResultIInv, SubscribeIInv,
   LockResultsIInv, CheckRunningIInv, ReceiveIInv, ForwardIInv
   DEF HeartbeatNext, BeatStep, ForwarderStep

LEMMA HeartbeatInvariance == HeartbeatSpec => []BeatsIInv
BY HeartbeatInitIInv, HeartbeatStepIInv, PTL DEF HeartbeatSpec

-----------------------------------------------------------------------------
(* The theorems. *)

\* Every state of the heartbeat is well formed (routines/heartbeat.rs).
THEOREM HeartbeatTypeCorrect == HeartbeatSpec => []HeartbeatTypeOK
<1>1. BeatsIInv => HeartbeatTypeOK
  BY DEF BeatsIInv
<1>2. QED
  BY <1>1, HeartbeatInvariance, PTL

\* Whatever subscribes, starts, stops and is slow: no result is lost but one to
\* each subscriber that is gone, none comes twice or out of order, and the
\* failures counted are the latest ones in a row (run, subscribe).
THEOREM BeatsAreAccounted == HeartbeatSpec => []BeatsAccounted
<1>1. BeatsIInv => BeatsAccounted
  <2> SUFFICES ASSUME BeatsIInv PROVE ResultsAccounted
    BY DEF BeatsIInv, BeatsAccounted
  <2>1. ASSUME NEW s \in Subscriber, NEW i \in 2..Len(delivered[s])
        PROVE  delivered[s][i - 1] < delivered[s][i]
    <3>1. Len(delivered[s]) \in Nat
      BY LenProperties DEF BeatsIInv, HeartbeatTypeOK
    <3>2. i - 1 \in 1..Len(delivered[s]) /\ i \in 1..Len(delivered[s]) /\ i - 1 < i
      BY <3>1
    <3>3. QED
      BY <3>2 DEF BeatsIInv, InOrder, Increasing
  <2>2. QED
    BY <2>1 DEF BeatsIInv, NoneMissing, NoneTwice, ResultsAccounted
<1>2. QED
  BY <1>1, HeartbeatInvariance, PTL
=============================================================================
