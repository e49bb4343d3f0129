---------------------------- MODULE TaskExecutor ----------------------------
(***************************************************************************)
(* Routing and local execution of tasks (executor/mod.rs, router.rs,       *)
(* resource.rs).  A call routes on a copy of the resource state and raises *)
(* the counter of its kind only later; its future may be dropped at any    *)
(* await.  Remote execution falls back to local.                           *)
(***************************************************************************)
EXTENDS Integers, FiniteSets, FiniteSetsExt

CONSTANTS
    Task, KindOf,               \* calls of execute, and their kind of task
    Streamed,                   \* inferences run by execute_inference_streaming_print
    allow_network_offload,
    max_concurrent_inference, max_concurrent_wasm

Kind == {"inference", "web", "wasm"}

ASSUME ExecutorAssumption == IsFiniteSet(Task) /\ KindOf \in [Task -> Kind]

\* Utilization against local_utilization_threshold and offload_threshold.
Utilization == {"low", "busy", "overloaded"}

Decision == {"none", "ExecuteLocally", "OffloadToNetwork", "InsufficientResources"}

VARIABLES
    utilization,   \* 1 - available_capacity
    enoughRam,     \* for any task
    active,        \* active_inference_tasks, active_web_tasks, active_wasm_tasks
    at,            \* where each call is
    decision

executorVars == <<utilization, enoughRam, active, at, decision>>

TaskStage == {"new", "routed", "running", "data", "error", "streaming", "done", "refused", "dropped", "leaked"}

ExecutorTypeOK ==
    /\ utilization \in Utilization /\ enoughRam \in BOOLEAN
    /\ active \in [Kind -> 0..Cardinality(Task)]
    /\ at \in [Task -> TaskStage]
    /\ decision \in [Task -> Decision]

\* Before the first background update the state is the default one: no RAM,
\* and nothing of it in use, so a capacity of one half.
ExecutorInit ==
    /\ utilization = "low" /\ enoughRam = FALSE
    /\ active = [k \in Kind |-> 0]
    /\ at = [t \in Task |-> "new"]
    /\ decision = [t \in Task |-> "none"]

-----------------------------------------------------------------------------
\* start_background_updates: the counters stay.
BackgroundUpdate ==
    /\ utilization' \in Utilization /\ enoughRam' \in BOOLEAN
    /\ UNCHANGED <<active, at, decision>>

\* An inference asks for VRAM of the size of its model, a web task and a tool for
\* some RAM only.
NeedsVram(kind) == kind = "inference"

\* vram_available_mb is None: nothing sets it.
can_handle(t) == enoughRam /\ ~NeedsVram(KindOf[t])

\* What an InsufficientResources error names; for nothing of it, "unknown
\* resource constraint".
Reasons(t) ==
    (IF enoughRam THEN {} ELSE {"RAM"})
    \cup (IF NeedsVram(KindOf[t]) THEN {"GPU"} ELSE {})
    \cup (IF allow_network_offload THEN {} ELSE {"offload disabled"})

AtLimit(t) ==
    CASE KindOf[t] = "inference" -> active["inference"] >= max_concurrent_inference
      [] KindOf[t] = "wasm" -> active["wasm"] >= max_concurrent_wasm
      [] OTHER -> FALSE

should_execute_locally(t) == can_handle(t) /\ utilization = "low" /\ ~AtLimit(t)

\* Mutant: only a busy node offloads.
should_offload_when_busy(t) ==
    allow_network_offload /\ can_handle(t) /\ utilization = "overloaded"

should_offload(t) ==
    allow_network_offload /\ (~can_handle(t) \/ utilization = "overloaded")

route(t) ==
    CASE should_execute_locally(t) -> "ExecuteLocally"
      [] ~should_execute_locally(t) /\ should_offload(t) -> "OffloadToNetwork"
      [] OTHER -> "InsufficientResources"

Route(t) ==
    /\ at[t] = "new" /\ t \notin Streamed
    /\ decision' = [decision EXCEPT ![t] = route(t)]
    /\ at' = [at EXCEPT ![t] =
                IF route(t) = "InsufficientResources" THEN "refused" ELSE "routed"]
    /\ UNCHANGED <<utilization, enoughRam, active>>

task_started(kind) == active' = [active EXCEPT ![kind] = @ + 1]
task_completed(kind) == active' = [active EXCEPT ![kind] = Max({@ - 1, 0})]

Begins(t) ==
    /\ at' = [at EXCEPT ![t] = "running"]
    /\ task_started(KindOf[t])
    /\ UNCHANGED <<utilization, enoughRam, decision>>

ExecuteLocal(t) ==
    /\ at[t] = "routed" /\ decision[t] = "ExecuteLocally" /\ Begins(t)

\* execute_remote has a job manager and falls back to execute_local.
ExecuteRemote(t) ==
    /\ at[t] = "routed" /\ decision[t] = "OffloadToNetwork" /\ Begins(t)

\* An inference fails without a model file, or when it does not load or the
\* generation fails; a fetch fails or times out, though any response is data; a
\* WASM task is "not_implemented", as data.
Outcomes(kind) == IF kind = "wasm" THEN {"data"} ELSE {"data", "error"}

RunTask(t) ==
    /\ at[t] = "running"
    /\ \E o \in Outcomes(KindOf[t]) : at' = [at EXCEPT ![t] = o]
    /\ UNCHANGED <<utilization, enoughRam, active, decision>>

\* Mutant: an error leaves execute_local before task_completed.
TaskCompletedUnlessError(t) ==
    /\ at[t] \in {"data", "error"}
    /\ at' = [at EXCEPT ![t] = "done"]
    /\ IF at[t] = "error" THEN UNCHANGED active ELSE task_completed(KindOf[t])
    /\ UNCHANGED <<utilization, enoughRam, decision>>

\* An error becomes TaskData::Error in an Ok.
TaskCompleted(t) ==
    /\ at[t] \in {"data", "error"}
    /\ at' = [at EXCEPT ![t] = "done"]
    /\ task_completed(KindOf[t])
    /\ UNCHANGED <<utilization, enoughRam, decision>>

Counted == {"running", "data", "error"}

\* The caller drops the future: what is after the await never runs.
DropFuture(t) ==
    /\ at[t] \in {"routed"} \cup Counted
    /\ at' = [at EXCEPT ![t] = IF @ \in Counted THEN "leaked" ELSE "dropped"]
    /\ UNCHANGED <<utilization, enoughRam, active, decision>>

\* Streaming to stdout neither routes nor counts.
Stream(t) ==
    /\ t \in Streamed
    /\ \/ at[t] = "new" /\ at' = [at EXCEPT ![t] = "streaming"]
       \/ at[t] = "streaming" /\ at' = [at EXCEPT ![t] = "done"]
    /\ UNCHANGED <<utilization, enoughRam, active, decision>>

ExecutorNext ==
    \/ BackgroundUpdate
    \/ \E t \in Task :
        \/ Route(t) \/ ExecuteLocal(t) \/ ExecuteRemote(t) \/ RunTask(t)
        \/ TaskCompleted(t) \/ DropFuture(t) \/ Stream(t)

ExecutorSpec == ExecutorInit /\ [][ExecutorNext]_executorVars

-----------------------------------------------------------------------------
\* Properties.

\* The tasks of a kind that run, or were dropped while they ran.
Occupying(k) == {t \in Task : KindOf[t] = k /\ at[t] \in Counted \cup {"leaked"}}

\* The counters are what is running plus what was dropped while it ran: no
\* error path misses its decrement, and saturating_sub never hides one too many.
CountersMatch == \A k \in Kind : active[k] = Cardinality(Occupying(k))

\* A node that could reach the network refuses a task for one reason only: it
\* is busy or at a limit but not yet overloaded, and had the resources; this is
\* also the one refusal that cannot name its reason (router.rs:138).
RefusedInTheGapOnly ==
    [][\A t \in Task : at'[t] = "refused" /\ at[t] # "refused" =>
          LET gap == can_handle(t) /\ (utilization = "busy" \/ AtLimit(t))
          IN  (~allow_network_offload \/ gap) /\ (Reasons(t) = {} => gap)]_executorVars

\* The counter of a task kind is the tasks of it that run or were dropped, and
\* a node that can offload refuses a task only in the gap between its two
\* thresholds or at a limit (executor/mod.rs, router.rs).
TasksCounted == []CountersMatch /\ RefusedInTheGapOnly

=============================================================================
