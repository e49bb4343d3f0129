--------------------------- MODULE RoutineEngine ---------------------------
(***************************************************************************)
(* The routine engine (routines/mod.rs).  start runs the startup routines, *)
(* then spawns one loop for each interval or cron routine and one event    *)
(* listener; the loops look at `running` between runs.  Each run writes    *)
(* the routine's status at its begin and its end.  start and stop may be   *)
(* called again at any time.                                               *)
(***************************************************************************)
EXTENDS Integers, FiniteSets, FiniteSetsExt

CONSTANTS
    Routine,
    Startup, Timed, Evented,   \* the routines by trigger: startup, interval or cron, event
    MaxStarts,                 \* bound: calls of start
    MaxEvents                  \* bound: events, and runs they spawn, at a time

ASSUME RoutineAssumption ==
    /\ Startup \subseteq Routine /\ Timed \subseteq Routine /\ Evented \subseteq Routine
    /\ MaxStarts \in Nat /\ MaxEvents \in Nat

VARIABLES
    routines,    \* the registered ones
    status,      \* "none" without an entry; "Finished": any result
    running,
    starting,    \* [left: startup routines to run, at, routine]: the call of start
    starts,      \* calls of start so far
    loops,       \* the loops of timed routines: [routine, gen, at]
    listeners,   \* the event listeners: where each generation's is
    events,      \* events in the channel
    runs         \* runs spawned by events: [id, routine, at]

vars == <<routines, status, running, starting, starts, loops, listeners, events, runs>>

LoopStage == {"top", "tick", "executing"}

NotStarting == [left |-> {}, at |-> "no", routine |-> "none"]

TypeOK ==
    /\ routines \subseteq Routine
    /\ status \in [Routine -> {"none", "Idle", "Running", "Finished"}]
    /\ running \in BOOLEAN
    /\ starting \in [left : SUBSET Startup, at : {"no", "startup", "executing"},
                    routine : Startup \cup {"none"}]
    /\ starts \in 0..MaxStarts
    /\ loops \subseteq [routine : Timed, gen : 1..MaxStarts, at : LoopStage]
    /\ listeners \in [1..MaxStarts -> {"none", "lock", "top", "receive"}]
    /\ events \in 0..MaxEvents
    /\ runs \subseteq [id : 1..MaxEvents, routine : Evented, at : {"spawned", "executing"}]

Init ==
    /\ routines = {} /\ status = [r \in Routine |-> "none"]
    /\ running = FALSE
    /\ starting = NotStarting /\ starts = 0
    /\ loops = {} /\ listeners = [g \in 1..MaxStarts |-> "none"]
    /\ events = 0 /\ runs = {}

SetStatus(r, s) == status' = [status EXCEPT ![r] = s]

-----------------------------------------------------------------------------
\* Both maps are locked together.
Register(r) ==
    /\ routines' = routines \cup {r}
    /\ SetStatus(r, "Idle")
    /\ UNCHANGED <<running, starting, starts, loops, listeners, events, runs>>

Unregister(r) ==
    /\ r \in routines
    /\ routines' = routines \ {r}
    /\ SetStatus(r, "none")
    /\ UNCHANGED <<running, starting, starts, loops, listeners, events, runs>>

SendEvent ==
    /\ events < MaxEvents
    /\ events' = events + 1
    /\ UNCHANGED <<routines, status, running, starting, starts, loops, listeners, runs>>

-----------------------------------------------------------------------------
(* start: the startup routines one after the other, then the loops. *)

Start ==
    /\ starting.at = "no" /\ starts < MaxStarts
    /\ starts' = starts + 1
    /\ running' = TRUE
    /\ starting' = [left |-> routines \cap Startup, at |-> "startup", routine |-> "none"]
    /\ UNCHANGED <<routines, status, loops, listeners, events, runs>>

BeginStartup ==
    /\ starting.at = "startup"
    /\ \E r \in starting.left :
        /\ starting' = [left |-> starting.left \ {r}, at |-> "executing", routine |-> r]
        /\ SetStatus(r, "Running")
    /\ UNCHANGED <<routines, running, starts, loops, listeners, events, runs>>

EndStartup ==
    /\ starting.at = "executing"
    /\ SetStatus(starting.routine, "Finished")
    /\ starting' = [starting EXCEPT !.at = "startup"]
    /\ UNCHANGED <<routines, running, starts, loops, listeners, events, runs>>

\* start_interval_routines, start_event_listener, start_cron_routines: the
\* loops keep copies of the routines registered now.  The three look at
\* routines of different kinds, so one moment stands for theirs.
SpawnLoops ==
    /\ starting.at = "startup" /\ starting.left = {}
    /\ loops' = loops \cup [routine : routines \cap Timed, gen : {starts}, at : {"top"}]
    /\ listeners' = [listeners EXCEPT ![starts] = "lock"]
    /\ starting' = NotStarting
    /\ UNCHANGED <<routines, status, running, starts, events, runs>>

Stop ==
    /\ running' = FALSE
    /\ UNCHANGED <<routines, status, starting, starts, loops, listeners, events, runs>>

-----------------------------------------------------------------------------
(* One loop: check, wait, check, Running, execute, result. *)

Move(l, at) == loops' = (loops \ {l}) \cup {[l EXCEPT !.at = at]}

CheckLoop(l) ==
    /\ l.at = "top"
    /\ IF running THEN Move(l, "tick") ELSE loops' = loops \ {l}
    /\ UNCHANGED <<routines, status, running, starting, starts, listeners, events, runs>>

TickLoop(l) ==
    /\ l.at = "tick"
    /\ IF running
       THEN Move(l, "executing") /\ SetStatus(l.routine, "Running")
       ELSE loops' = loops \ {l} /\ UNCHANGED status
    /\ UNCHANGED <<routines, running, starting, starts, listeners, events, runs>>

\* Mutant: a loop that is stopped while its routine runs leaves at once.
EndLoopRunLeaves(l) ==
    /\ l.at = "executing"
    /\ IF running THEN SetStatus(l.routine, "Finished") ELSE UNCHANGED status
    /\ Move(l, "top")
    /\ UNCHANGED <<routines, running, starting, starts, listeners, events, runs>>

EndLoopRun(l) ==
    /\ l.at = "executing"
    /\ SetStatus(l.routine, "Finished")
    /\ Move(l, "top")
    /\ UNCHANGED <<routines, running, starting, starts, listeners, events, runs>>

-----------------------------------------------------------------------------
(* The listener keeps the receiver's mutex until its loop ends. *)

\* Mutant: the receiver is shared without the mutex.
LockReceiverShared(g) ==
    /\ listeners[g] = "lock"
    /\ listeners' = [listeners EXCEPT ![g] = "top"]
    /\ UNCHANGED <<routines, status, running, starting, starts, loops, events, runs>>

LockReceiver(g) ==
    /\ listeners[g] = "lock"
    /\ \A h \in 1..MaxStarts : listeners[h] \notin {"top", "receive"}
    /\ listeners' = [listeners EXCEPT ![g] = "top"]
    /\ UNCHANGED <<routines, status, running, starting, starts, loops, events, runs>>

\* Mutant: `loop` in place of `while running`.
CheckListenerForever(g) ==
    /\ listeners[g] = "top"
    /\ listeners' = [listeners EXCEPT ![g] = "receive"]
    /\ UNCHANGED <<routines, status, running, starting, starts, loops, events, runs>>

CheckListener(g) ==
    /\ listeners[g] = "top"
    /\ listeners' = [listeners EXCEPT ![g] = IF running THEN "receive" ELSE "none"]
    /\ UNCHANGED <<routines, status, running, starting, starts, loops, events, runs>>

\* An event spawns a run for each routine registered now that waits for it.
ReceiveEvent(g) ==
    /\ listeners[g] = "receive" /\ events > 0
    /\ \E id \in 1..MaxEvents :
        /\ \A x \in runs : x.id # id
        /\ runs' = runs \cup [id : {id}, routine : routines \cap Evented, at : {"spawned"}]
    /\ events' = events - 1
    /\ listeners' = [listeners EXCEPT ![g] = "top"]
    /\ UNCHANGED <<routines, status, running, starting, starts, loops>>

ReceiveTimesOut(g) ==
    /\ listeners[g] = "receive"
    /\ listeners' = [listeners EXCEPT ![g] = "top"]
    /\ UNCHANGED <<routines, status, running, starting, starts, loops, events, runs>>

StepRun(x) ==
    /\ \/ /\ x.at = "spawned"
          /\ runs' = (runs \ {x}) \cup {[x EXCEPT !.at = "executing"]}
          /\ SetStatus(x.routine, "Running")
       \/ /\ x.at = "executing"
          /\ runs' = runs \ {x}
          /\ SetStatus(x.routine, "Finished")
    /\ UNCHANGED <<routines, running, starting, starts, loops, listeners, events>>

StartStep == BeginStartup \/ EndStartup \/ SpawnLoops

LoopStep(l) == CheckLoop(l) \/ TickLoop(l) \/ EndLoopRun(l)

ListenerStep(g) ==
    LockReceiver(g) \/ CheckListener(g) \/ ReceiveEvent(g) \/ ReceiveTimesOut(g)

Next ==
    \/ \E r \in Routine : Register(r) \/ Unregister(r)
    \/ SendEvent \/ Start \/ StartStep \/ Stop
    \/ \E l \in loops : LoopStep(l)
    \/ \E g \in 1..MaxStarts : ListenerStep(g)
    \/ \E x \in runs : StepRun(x)

Spec == Init /\ [][Next]_vars

LoopOf(r, g) == \E l \in loops : l.routine = r /\ l.gen = g /\ LoopStep(l)

\* Intervals and timeouts pass, executors return, and tokio polls each task.
FairSpec ==
    /\ Spec
    /\ WF_vars(StartStep)
    /\ \A g \in 1..MaxStarts : WF_vars(ListenerStep(g))
    /\ \A r \in Timed, g \in 1..MaxStarts : WF_vars(LoopOf(r, g))

-----------------------------------------------------------------------------
\* Properties.

Executing(r) ==
    \/ starting.at = "executing" /\ starting.routine = r
    \/ \E l \in loops : l.at = "executing" /\ l.routine = r
    \/ \E x \in runs : x.at = "executing" /\ x.routine = r

\* A routine shown as Running does run, however many runs of it overlap and
\* whoever registers it anew meanwhile: no run leaves Running behind.  (The
\* converse fails: the first of two overlapping runs to end shows its result.)
ShownRunningRuns == \A r \in Routine : status[r] = "Running" => Executing(r)

\* The loops of one routine are of different calls of start, and one call's
\* listener at a time holds the receiver: a restart may leave an old loop
\* beside the new one, but no start makes two, and no event is taken twice.
LoopsApart ==
    /\ \A l, m \in loops : l.routine = m.routine /\ l.gen = m.gen => l = m
    /\ Cardinality({g \in 1..MaxStarts : listeners[g] \in {"top", "receive"}}) <= 1

\* A routine shown as running does run, and neither two loops of a routine
\* nor two listeners serve one start (routines/mod.rs).
RoutinesApart == ShownRunningRuns /\ LoopsApart

Quiet ==
    /\ loops = {} /\ starting = NotStarting
    /\ \A g \in 1..MaxStarts : listeners[g] = "none"

\* After stop every loop comes to its end and releases the receiver, unless
\* the engine is started again before.
StopEndsLoops == ~running ~> (running \/ Quiet)

=============================================================================
