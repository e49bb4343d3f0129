--------------------------- MODULE InferenceProofs ----------------------------
(***************************************************************************)
(* What a task of inference meets, for every value of the constants: the   *)
(* token loop of inference/gguf.rs (GgufGeneration), the counters and the  *)
(* refusals of the executor (TaskExecutor), what concurrent loads keep of  *)
(* the promises of the model cache (ModelCache), and that the files and    *)
(* the metadata of a downloaded model agree (ModelDistribution).           *)
(***************************************************************************)
EXTENDS GgufGeneration, TaskExecutor, ModelCache, ModelDistribution, TotalsProofs, FiniteSetTheorems, TLAPS

(* The token loop: for every context size, batch capacity, prompt and token limit. *)

Natural == n_ctx \in Nat /\ BatchCapacity \in Nat /\ Prompts \subseteq Nat /\ MaxTokens \subseteq Nat

\* Between the sampling of a token and its decoding the context is one cell
\* behind the count; everywhere else in the loop it holds prompt and tokens.
LoopInv ==
  /\ phase \in {"found", "loaded"} => kv = 0 /\ token_count = 0 /\ text = 0
  /\ phase = "sampling" => kv = prompt + token_count /\ prompt <= BatchCapacity
  /\ phase = "decoding" => kv + 1 = prompt + token_count /\ prompt <= BatchCapacity

Counts ==
  /\ n_cur = kv /\ streamed = text
  /\ token_count <= max_tokens /\ text <= token_count
  /\ phase = "done" => (finish_reason = "Length" <=> token_count = max_tokens)

LoopIInv == TypeOK /\ LoopInv /\ Counts /\ SmallEnoughSucceeds

\* What the initial state and each step do to the invariant.
LEMMA LoopInitIInv ==
  ASSUME Natural, Init
  PROVE  LoopIInv
BY DEF Natural, Init, LoopIInv, TypeOK, LoopInv, Counts, SmallEnoughSucceeds, Phase, Reason

LEMMA LoopStepIInv ==
  ASSUME Natural, LoopIInv, [Next]_vars
  PROVE  LoopIInv'
<1> USE DEF Natural, LoopIInv, TypeOK, LoopInv, Counts, SmallEnoughSucceeds, Phase, Reason
<1>1. CASE ModelsChange
  BY <1>1 DEF ModelsChange, request
<1>2. CASE Ask
  <2>1. files \cap Exact \subseteq File /\ files \cap Similar \subseteq File
    OBVIOUS
  <2>2. Candidates \subseteq File
    BY <2>1 DEF Candidates
  <2>3. prompt' \in Nat /\ max_tokens' \in Nat /\ files' \subseteq File
    BY <1>2 DEF Ask
  <2>4. path' \in File \cup {None} /\ phase' \in {"noModel", "found"}
    BY <1>2, <2>2 DEF Ask
  <2>5. kv' = 0 /\ n_cur' = 0 /\ token_count' = 0 /\ text' = 0 /\ streamed' = 0
          /\ finish_reason' = "none"
    BY <1>2 DEF Ask
  <2>6. TypeOK'
    BY <2>3, <2>4, <2>5
  <2>7. LoopInv'
    BY <2>4, <2>5
  <2>8. Counts'
    BY <2>3, <2>4, <2>5
  <2>9. SmallEnoughSucceeds'
    BY <2>4
  <2> QED
    BY <2>6, <2>7, <2>8, <2>9
<1>3. CASE load_model
  BY <1>3 DEF load_model, Fail, request
<1>4. CASE DecodePrompt
  BY <1>4 DEF DecodePrompt, Fail, CanDecode, request
<1>5. CASE Sample
  BY <1>5 DEF Sample
<1>6. CASE DecodeToken
  BY <1>6 DEF DecodeToken, Fail, CanDecode, request
<1>7. CASE LoopEnds
  BY <1>7 DEF LoopEnds, Finish
<1>8. CASE EndOfGeneration
  BY <1>8 DEF EndOfGeneration, Finish
<1>9. CASE UNCHANGED vars
  BY <1>9 DEF vars, request
<1> QED
  BY <1>1, <1>2, <1>3, <1>4, <1>5, <1>6, <1>7, <1>8, <1>9 DEF Next

\* The invariant of the loop holds in every run of the back end.
THEOREM GenerationInvariant ==
  ASSUME Natural
  PROVE  Spec => []LoopIInv
<1>1. Init => LoopIInv
  BY LoopInitIInv
<1>2. LoopIInv /\ [Next]_vars => LoopIInv'
  BY LoopStepIInv
<1> QED
  BY <1>1, <1>2, PTL DEF Spec

\* Whatever the sizes: a request within the batch and the context is answered.
THEOREM GenerationSucceeds ==
  ASSUME Natural
  PROVE  Spec => []SmallEnoughSucceeds
<1>1. LoopIInv => SmallEnoughSucceeds
  BY DEF LoopIInv
<1> QED
  BY <1>1, GenerationInvariant, PTL

\* Whatever the sizes: positions are cells, and the answer is counted.
THEOREM GenerationCounted ==
  ASSUME Natural
  PROVE  Spec => []AnswerCounted
<1>1. LoopIInv => AnswerCounted
  BY DEF LoopIInv, TypeOK, Counts, AnswerCounted
<1> QED
  BY <1>1, GenerationInvariant, PTL

-------------------------------------------------------------------------------
(* The executor: for any finite set of calls and any limits, what the counters stand
   for, and why a call is refused. *)

ExecutorIInv == ExecutorTypeOK /\ CountersMatch

\* saturating_sub takes one from a counter that is not zero.
LEMMA OneLess ==
    ASSUME NEW n \in Nat, n > 0
    PROVE  Max({n - 1, 0}) = n - 1
<1>1. n - 1 \in {n - 1, 0} /\ \A y \in {n - 1, 0} : n - 1 >= y
  OBVIOUS
<1>2. \A x \in {n - 1, 0} : (\A y \in {n - 1, 0} : x >= y) => x = n - 1
  OBVIOUS
<1>3. QED
  BY <1>1, <1>2 DEF Max

LEMMA OccupyingFinite ==
    ASSUME NEW k
    PROVE  /\ IsFiniteSet(Occupying(k)) /\ Cardinality(Occupying(k)) \in Nat
           /\ Cardinality(Occupying(k)) <= Cardinality(Task) /\ Cardinality(Task) \in Nat
<1>1. Occupying(k) \in SUBSET Task
  BY DEF Occupying
<1>2. QED
  BY <1>1, ExecutorAssumption, FS_Subset, FS_CardinalityType

\* After a step too, a kind has no more calls than there are.
LEMMA OccupyingFiniteAfter ==
    ASSUME NEW k
    PROVE  /\ IsFiniteSet(Occupying(k)') /\ Cardinality(Occupying(k)') \in Nat
           /\ Cardinality(Occupying(k)') <= Cardinality(Task)
<1>1. Occupying(k)' \in SUBSET Task
  BY DEF Occupying
<1>2. QED
  BY <1>1, ExecutorAssumption, FS_Subset, FS_CardinalityType

LEMMA ExecutorInitIInv == ExecutorInit => ExecutorIInv
<1> SUFFICES ASSUME ExecutorInit PROVE ExecutorIInv
  OBVIOUS
<1>1. \A k \in Kind : Occupying(k) = {}
  BY DEF ExecutorInit, Occupying, Counted
<1>2. CountersMatch
  BY <1>1, FS_EmptySet DEF CountersMatch, ExecutorInit
<1>3. ExecutorTypeOK
  <2>1. 0 \in 0..Cardinality(Task)
    BY ExecutorAssumption, FS_CardinalityType
  <2>2. QED
    BY <2>1 DEF ExecutorInit, ExecutorTypeOK, Utilization, TaskStage, Decision
<1>4. QED
  BY <1>2, <1>3 DEF ExecutorIInv

\* Steps that change neither a counter nor whether a task occupies a place.
LEMMA NotCountedIInv ==
    ASSUME ExecutorIInv, UNCHANGED active, ExecutorTypeOK',
           \A t \in Task : at'[t] \in Counted \cup {"leaked"} <=> at[t] \in Counted \cup {"leaked"}
    PROVE  ExecutorIInv'
<1>1. \A k \in Kind : Occupying(k)' = Occupying(k)
  BY DEF Occupying, Counted
<1>2. CountersMatch'
  BY <1>1 DEF ExecutorIInv, CountersMatch
<1>3. QED
  BY <1>2 DEF ExecutorIInv

\* A task goes into execute_local: it occupies a place and is counted.
LEMMA BeginsIInv ==
    ASSUME ExecutorIInv, NEW t \in Task, at[t] = "routed", Begins(t)
    PROVE  ExecutorIInv'
<1> DEFINE kind == KindOf[t]
<1>1. /\ kind \in Kind /\ active \in [Kind -> 0..Cardinality(Task)] /\ at \in [Task -> TaskStage]
  BY ExecutorAssumption DEF ExecutorIInv, ExecutorTypeOK
<1>2. /\ at' = [at EXCEPT ![t] = "running"]
      /\ active' = [active EXCEPT ![kind] = active[kind] + 1]
      /\ UNCHANGED <<utilization, enoughRam, decision>>
  BY DEF Begins, task_started
<1>3. \A k \in Kind : Occupying(k)' = IF k = kind THEN Occupying(k) \cup {t} ELSE Occupying(k)
  BY <1>1, <1>2 DEF Occupying, Counted
<1>4. t \notin Occupying(kind)
  BY DEF Occupying, Counted
<1>5. Cardinality(Occupying(kind) \cup {t}) = Cardinality(Occupying(kind)) + 1
  BY <1>4, OccupyingFinite, FS_AddElement
<1>6. \A k \in Kind : active'[k] = Cardinality(Occupying(k)')
  BY <1>1, <1>2, <1>3, <1>5 DEF ExecutorIInv, CountersMatch
<1>7. active' \in [Kind -> 0..Cardinality(Task)]
  <2>1. \A k \in Kind : Cardinality(Occupying(k)') \in 0..Cardinality(Task)
    BY OccupyingFiniteAfter, OccupyingFinite
  <2>2. active' = [k \in Kind |-> active'[k]]
    BY <1>1, <1>2
  <2>3. QED
    BY <1>6, <2>1, <2>2
<1>8. at' \in [Task -> TaskStage]
  BY <1>1, <1>2 DEF TaskStage
<1>9. QED
  BY <1>2, <1>6, <1>7, <1>8 DEF ExecutorIInv, ExecutorTypeOK, CountersMatch

\* task_completed takes the task's own place back, so the counter is not zero.
LEMMA TaskCompletedIInv ==
    ASSUME ExecutorIInv, NEW t \in Task, TaskCompleted(t)
    PROVE  ExecutorIInv'
<1> DEFINE kind == KindOf[t]
<1>1. /\ kind \in Kind /\ active \in [Kind -> 0..Cardinality(Task)] /\ at \in [Task -> TaskStage]
  BY ExecutorAssumption DEF ExecutorIInv, ExecutorTypeOK
<1>2. /\ at[t] \in {"data", "error"} /\ at' = [at EXCEPT ![t] = "done"]
      /\ active' = [active EXCEPT ![kind] = Max({active[kind] - 1, 0})]
      /\ UNCHANGED <<utilization, enoughRam, decision>>
  BY DEF TaskCompleted, task_completed
<1>3. \A k \in Kind : Occupying(k)' = IF k = kind THEN Occupying(k) \ {t} ELSE Occupying(k)
  BY <1>1, <1>2 DEF Occupying, Counted
<1>4. t \in Occupying(kind)
  BY <1>2 DEF Occupying, Counted
<1>5. /\ Cardinality(Occupying(kind) \ {t}) = Cardinality(Occupying(kind)) - 1
      /\ Cardinality(Occupying(kind)) \in Nat /\ Cardinality(Occupying(kind)) > 0
  <2>1. Cardinality(Occupying(kind)) # 0
    BY <1>4, OccupyingFinite, FS_EmptySet
  <2>2. Cardinality(Occupying(kind)) \in Nat
    BY OccupyingFinite
  <2>3. Cardinality(Occupying(kind) \ {t}) = Cardinality(Occupying(kind)) - 1
    BY <1>4, OccupyingFinite, FS_RemoveElement
  <2>4. QED
    BY <2>1, <2>2, <2>3
<1>6. Max({active[kind] - 1, 0}) = active[kind] - 1
  BY <1>1, <1>5, OneLess DEF ExecutorIInv, CountersMatch
<1>7. \A k \in Kind : active'[k] = Cardinality(Occupying(k)')
  BY <1>1, <1>2, <1>3, <1>5, <1>6 DEF ExecutorIInv, CountersMatch
<1>8. active' \in [Kind -> 0..Cardinality(Task)]
  <2>1. \A k \in Kind : Cardinality(Occupying(k)') \in 0..Cardinality(Task)
    BY OccupyingFiniteAfter, OccupyingFinite
  <2>2. active' = [k \in Kind |-> active'[k]]
    BY <1>1, <1>2
  <2>3. QED
    BY <1>7, <2>1, <2>2
<1>9. at' \in [Task -> TaskStage]
  BY <1>1, <1>2 DEF TaskStage
<1>10. QED
  BY <1>2, <1>7, <1>8, <1>9 DEF ExecutorIInv, ExecutorTypeOK, CountersMatch

\* A call whose stage moves without a counter: what both its stages occupy.
LEMMA ExecutorMovesIInv ==
    ASSUME ExecutorIInv, NEW t \in Task, NEW s \in TaskStage,
           at' = [at EXCEPT ![t] = s], UNCHANGED <<utilization, enoughRam, active>>,
           decision' \in [Task -> Decision],
           s \in Counted \cup {"leaked"} <=> at[t] \in Counted \cup {"leaked"}
    PROVE  ExecutorIInv'
<1>1. at \in [Task -> TaskStage]
  BY DEF ExecutorIInv, ExecutorTypeOK
<1>2. ExecutorTypeOK'
  BY <1>1 DEF ExecutorIInv, ExecutorTypeOK
<1>3. \A u \in Task : at'[u] \in Counted \cup {"leaked"} <=> at[u] \in Counted \cup {"leaked"}
  BY <1>1
<1>4. QED
  BY <1>2, <1>3, NotCountedIInv

LEMMA ExecutorStepIInv == ExecutorIInv /\ [ExecutorNext]_executorVars => ExecutorIInv'
<1> SUFFICES ASSUME ExecutorIInv, [ExecutorNext]_executorVars PROVE ExecutorIInv'
  OBVIOUS
<1>1. at \in [Task -> TaskStage] /\ decision \in [Task -> Decision]
  BY DEF ExecutorIInv, ExecutorTypeOK
<1>2. CASE BackgroundUpdate
  <2>1. ExecutorTypeOK'
    BY <1>2 DEF BackgroundUpdate, ExecutorIInv, ExecutorTypeOK
  <2>2. UNCHANGED <<active, at>>
    BY <1>2 DEF BackgroundUpdate
  <2>3. QED
    BY <2>1, <2>2, NotCountedIInv
<1>3. ASSUME NEW t \in Task, Route(t) PROVE ExecutorIInv'
  <2>1. route(t) \in Decision
    BY DEF route, Decision
  <2>2. PICK s : s = IF route(t) = "InsufficientResources" THEN "refused" ELSE "routed"
    OBVIOUS
  <2>3. /\ s \in TaskStage /\ s \notin Counted \cup {"leaked"}
        /\ at' = [at EXCEPT ![t] = s] /\ at[t] = "new" /\ at[t] \notin Counted \cup {"leaked"}
        /\ decision' \in [Task -> Decision] /\ UNCHANGED <<utilization, enoughRam, active>>
    BY <1>1, <1>3, <2>1, <2>2 DEF Route, TaskStage, Counted
  <2>4. QED
    BY <2>3, ExecutorMovesIInv
<1>4. ASSUME NEW t \in Task, ExecuteLocal(t) PROVE ExecutorIInv'
  BY <1>4, BeginsIInv DEF ExecuteLocal
<1>5. ASSUME NEW t \in Task, ExecuteRemote(t) PROVE ExecutorIInv'
  BY <1>5, BeginsIInv DEF ExecuteRemote
<1>6. ASSUME NEW t \in Task, RunTask(t) PROVE ExecutorIInv'
  <2>1. PICK s \in {"data", "error"} : at' = [at EXCEPT ![t] = s]
    BY <1>6 DEF RunTask, Outcomes
  <2>2. /\ at[t] = "running" /\ UNCHANGED <<utilization, enoughRam, active, decision>>
        /\ s \in TaskStage /\ s \in Counted \cup {"leaked"} /\ at[t] \in Counted \cup {"leaked"}
    BY <1>6, <2>1 DEF RunTask, TaskStage, Counted
  <2>3. QED
    BY <1>1, <2>1, <2>2, ExecutorMovesIInv
<1>7. ASSUME NEW t \in Task, TaskCompleted(t) PROVE ExecutorIInv'
  BY <1>7, TaskCompletedIInv
<1>8. ASSUME NEW t \in Task, DropFuture(t) PROVE ExecutorIInv'
  <2>1. PICK s : s = IF at[t] \in Counted THEN "leaked" ELSE "dropped"
    OBVIOUS
  <2>2. /\ at' = [at EXCEPT ![t] = s] /\ UNCHANGED <<utilization, enoughRam, active, decision>>
        /\ s \in TaskStage
        /\ s \in Counted \cup {"leaked"} <=> at[t] \in Counted \cup {"leaked"}
    BY <1>8, <2>1 DEF DropFuture, TaskStage, Counted
  <2>3. QED
    BY <1>1, <2>2, ExecutorMovesIInv
<1>9. ASSUME NEW t \in Task, Stream(t) PROVE ExecutorIInv'
  <2>1. PICK s \in {"streaming", "done"} : at' = [at EXCEPT ![t] = s]
    BY <1>9 DEF Stream
  <2>2. /\ UNCHANGED <<utilization, enoughRam, active, decision>> /\ s \in TaskStage
        /\ s \notin Counted \cup {"leaked"} /\ at[t] \notin Counted \cup {"leaked"}
    BY <1>9, <2>1 DEF Stream, TaskStage, Counted
  <2>3. QED
    BY <1>1, <2>1, <2>2, ExecutorMovesIInv
<1>10. CASE UNCHANGED executorVars
  <2>1. UNCHANGED <<utilization, enoughRam, active, at, decision>>
    BY <1>10 DEF executorVars
  <2>2. ExecutorTypeOK'
    BY <2>1 DEF ExecutorIInv, ExecutorTypeOK
  <2>3. QED
    BY <2>1, <2>2, NotCountedIInv
<1>11. QED
  BY <1>2, <1>3, <1>4, <1>5, <1>6, <1>7, <1>8, <1>9, <1>10 DEF ExecutorNext

LEMMA ExecutorInvariance == ExecutorSpec => []ExecutorIInv
BY ExecutorInitIInv, ExecutorStepIInv, PTL DEF ExecutorSpec

-----------------------------------------------------------------------------
(* The theorems. *)

\* Every state of the executor is well formed, and no counter passes the calls
\* there are (resource.rs:16).
THEOREM ExecutorTypeCorrect == ExecutorSpec => []ExecutorTypeOK
<1>1. ExecutorIInv => ExecutorTypeOK
  BY DEF ExecutorIInv
<1>2. QED
  BY <1>1, ExecutorInvariance, PTL

\* A call is refused by route, and only in the gap between what it may run
\* locally and what it may offload.
LEMMA RefusedByRoute ==
    ASSUME ExecutorIInv, [ExecutorNext]_executorVars, NEW t \in Task,
           at'[t] = "refused", at[t] # "refused"
    PROVE  LET gap == can_handle(t) /\ (utilization = "busy" \/ AtLimit(t))
           IN  (~allow_network_offload \/ gap) /\ (Reasons(t) = {} => gap)
<1>1. at \in [Task -> TaskStage] /\ utilization \in Utilization
  BY DEF ExecutorIInv, ExecutorTypeOK
<1>2. \A u \in Task : ~(\/ ExecuteLocal(u) \/ ExecuteRemote(u) \/ RunTask(u)
                        \/ TaskCompleted(u) \/ DropFuture(u) \/ Stream(u))
  BY <1>1 DEF ExecuteLocal, ExecuteRemote, Begins, RunTask, Outcomes,
              TaskCompleted, DropFuture, Stream
<1>3. ~BackgroundUpdate /\ ~UNCHANGED executorVars
  BY DEF BackgroundUpdate, executorVars
<1>4. PICK u \in Task : Route(u)
  BY <1>2, <1>3 DEF ExecutorNext
<1>5. u = t /\ route(t) = "InsufficientResources"
  BY <1>1, <1>4 DEF Route
<1>6. ~should_execute_locally(t) /\ ~should_offload(t)
  BY <1>5 DEF route
<1>7. QED
  BY <1>1, <1>6 DEF should_execute_locally, should_offload, Reasons, can_handle, Utilization

\* The counter of a kind is, at every moment, the calls of that kind that run
\* or were dropped while they ran; and a node that may offload refuses a call only
\* when it is busy or at a limit and not yet overloaded (executor/mod.rs,
\* router.rs, resource.rs).
THEOREM CountersAndRefusals == ExecutorSpec => TasksCounted
<1>1. ExecutorIInv => CountersMatch
  BY DEF ExecutorIInv
<1>2. ExecutorIInv /\ [ExecutorNext]_executorVars =>
        [\A t \in Task : at'[t] = "refused" /\ at[t] # "refused" =>
            LET gap == can_handle(t) /\ (utilization = "busy" \/ AtLimit(t))
            IN  (~allow_network_offload \/ gap) /\ (Reasons(t) = {} => gap)]_executorVars
  BY RefusedByRoute
<1>3. QED
  BY <1>1, <1>2, ExecutorInvariance, PTL DEF ExecutorSpec, TasksCounted, RefusedInTheGapOnly

-------------------------------------------------------------------------------
(* The model cache: for any number of tasks and models and any limits. *)

\* Past the look at the count, before the insert.
Admitted == {t \in CacheTask : cacheTask[t].pc \in {"shrinking", "tight", "fits"}}

LoadsNamed == \A t \in CacheTask : cacheTask[t].pc # "idle" => cacheTask[t].model \in Model

\* An entry in use has a reference, so evict_lru passes over it.
UsersCounted ==
    \A t \in CacheTask : (At(t, "using") /\ ~cacheTask[t].orphan) =>
        cacheTask[t].model \in loaded /\ ref_count[cacheTask[t].model] >= 1

\* Whoever is past the look at the count may still insert a model.
RoomBounded ==
    /\ IsFiniteSet(loaded) /\ IsFiniteSet(Admitted)
    /\ Cardinality(loaded) + Cardinality(Admitted) <= max_models + Cardinality(CacheTask) - 1

SizesFinite ==
    /\ IsFiniteSet(Tokens(SizeOf, loaded)) /\ IsFiniteSet(Tokens(Adding, CacheTask))
    /\ MemoryNotUnderestimated

CacheIInv == CacheTypeOK /\ LoadsNamed /\ UsersCounted /\ RoomBounded /\ SizesFinite

-----------------------------------------------------------------------------
LEMMA OneMore ==
    ASSUME NEW S, NEW x, IsFiniteSet(S)
    PROVE  /\ IsFiniteSet(S \cup {x}) /\ Cardinality(S \cup {x}) \in Nat
           /\ Cardinality(S \cup {x}) <= Cardinality(S) + 1
<1>1. Cardinality(S) \in Nat
  BY FS_CardinalityType
<1>2. CASE x \in S
  <2>1. S \cup {x} = S
    BY <1>2
  <2>2. Cardinality(S) <= Cardinality(S) + 1
    BY <1>1
  <2>3. QED
    BY <1>1, <2>1, <2>2, Zenon
<1>3. CASE x \notin S
  <2>1. IsFiniteSet(S \cup {x}) /\ Cardinality(S \cup {x}) = Cardinality(S) + 1
    BY <1>3, FS_AddElement
  <2>2. QED
    BY <1>1, <2>1
<1>4. QED
  BY <1>2, <1>3

\* The steps by what they change: a task moves on (to a stage where it is not
\* admitted), is admitted, evicts, inserts, accounts, gets or ends.
LEMMA CacheTypes ==
    ASSUME CacheIInv
    PROVE  /\ loaded \subseteq Model /\ ref_count \in [Model -> 0..MaxUses] /\ current \in Nat
           /\ cacheTask \in [CacheTask -> TaskState] /\ SizeOf \in [Model -> Nat]
           /\ MaxUses \in Nat /\ max_models \in Nat
           /\ \A t \in CacheTask : /\ cacheTask[t].pc \in LoadStage /\ cacheTask[t].seen \in Nat
                                   /\ cacheTask[t].pc # "idle" => cacheTask[t].model \in Model
                                   /\ cacheTask[t] \in TaskState
BY CacheAssumption DEF CacheIInv, CacheTypeOK, TaskState, LoadsNamed

LEMMA IdleLoadType == IdleLoad \in TaskState
BY DEF IdleLoad, TaskState, LoadStage

\* What a change of one task does to the types.
LEMMA TaskMoves ==
    ASSUME CacheIInv, NEW t \in CacheTask, NEW c \in TaskState,
           c.pc # "idle" => c.model \in Model,
           cacheTask' = [cacheTask EXCEPT ![t] = c],
           loaded' \subseteq Model, ref_count' \in [Model -> 0..MaxUses], current' \in Nat
    PROVE  CacheTypeOK' /\ LoadsNamed'
BY DEF CacheIInv, CacheTypeOK, LoadsNamed

\* The sum of what insert is about to add, when one task changes.
LEMMA AddingChanges ==
    ASSUME CacheIInv, NEW t \in CacheTask, NEW c \in TaskState,
           c.pc # "idle" => c.model \in Model,
           cacheTask' = [cacheTask EXCEPT ![t] = c]
    PROVE  DifferAt(Adding, Adding', CacheTask, t)
<1>1. Adding[t] \in Nat /\ Adding'[t] \in Nat /\ \A u \in CacheTask \ {t} : Adding[u] = Adding'[u]
  BY CacheTypes DEF Adding, At
<1>2. IsFiniteSet(Tokens(Adding, CacheTask))
  BY DEF CacheIInv, SizesFinite
<1>3. ASSUME NEW g, g[t] \in Nat, \A u \in CacheTask \ {t} : Adding[u] = g[u]
      PROVE  DifferAt(Adding, g, CacheTask, t)
  BY <1>1, <1>2, <1>3, TotalChange
<1>4. QED
  BY <1>1, <1>3

\* A step that only moves one task, admitted only below the limit.
LEMMA LoadMovesIInv ==
    ASSUME CacheIInv, NEW t \in CacheTask, NEW c \in TaskState,
           c.pc # "idle" => c.model \in Model,
           cacheTask' = [cacheTask EXCEPT ![t] = c],
           c.pc \notin {"inserted", "using"}, cacheTask[t].pc # "inserted",
           c.pc \in {"shrinking", "tight", "fits"} => t \in Admitted \/ ~AtModelLimit,
           UNCHANGED cacheState
    PROVE  CacheIInv'
<1>1. loaded' = loaded /\ ref_count' = ref_count /\ current' = current
  BY DEF cacheState
<1>2. CacheTypeOK' /\ LoadsNamed'
  BY <1>1, CacheTypes, TaskMoves
<1>3. UsersCounted'
  BY <1>1, CacheTypes DEF CacheIInv, UsersCounted, At
<1>4. RoomBounded'
  <2>1. /\ Cardinality(loaded) \in Nat /\ Cardinality(Admitted) \in Nat
        /\ Cardinality(CacheTask) \in Nat /\ max_models \in Nat
        /\ IsFiniteSet(loaded) /\ IsFiniteSet(Admitted) /\ IsFiniteSet(CacheTask)
    BY FS_CardinalityType, CacheAssumption DEF CacheIInv, RoomBounded
  <2>2. CASE Admitted' \subseteq Admitted
    <3>1. IsFiniteSet(Admitted') /\ Cardinality(Admitted') <= Cardinality(Admitted)
      BY <2>1, <2>2, FS_Subset
    <3>2. Cardinality(Admitted') \in Nat
      BY <3>1, FS_CardinalityType
    <3>3. QED
      BY <1>1, <2>1, <3>1, <3>2 DEF CacheIInv, RoomBounded
  <2>3. CASE ~AtModelLimit
    <3>1. Admitted' \subseteq CacheTask
      BY DEF Admitted
    <3>2. IsFiniteSet(Admitted') /\ Cardinality(Admitted') <= Cardinality(CacheTask)
      BY <2>1, <3>1, FS_Subset
    <3>3. Cardinality(Admitted') \in Nat
      BY <3>2, FS_CardinalityType
    <3>4. QED
      BY <1>1, <2>1, <2>3, <3>2, <3>3 DEF RoomBounded, AtModelLimit
  <2>4. Admitted' \subseteq Admitted \/ ~AtModelLimit
    BY CacheTypes DEF Admitted
  <2>5. QED
    BY <2>2, <2>3, <2>4
<1>5. SizesFinite'
  <2>1. \A u \in CacheTask : Adding'[u] = Adding[u]
    BY CacheTypes DEF Adding, At
  <2>2. Tokens(Adding', CacheTask) = Tokens(Adding, CacheTask)
    BY <2>1, TotalSame
  <2>3. Tokens(Adding, CacheTask)' = Tokens(Adding, CacheTask)
    BY <2>2 DEF Tokens
  <2>4. Total(Adding, CacheTask)' = Total(Adding, CacheTask)
    BY <2>3 DEF Total
  <2>5. /\ Tokens(SizeOf, loaded)' = Tokens(SizeOf, loaded)
        /\ Total(SizeOf, loaded)' = Total(SizeOf, loaded)
    BY <1>1 DEF Tokens, Total
  <2>6. QED
    BY <1>1, <2>3, <2>4, <2>5, Zenon DEF CacheIInv, SizesFinite, MemoryNotUnderestimated
<1>6. QED
  BY <1>2, <1>3, <1>4, <1>5 DEF CacheIInv

\* An eviction: one model nobody uses goes, and the estimate falls by no more
\* than its size; who evicted for the count is admitted in its place.
LEMMA EvictIInv ==
    ASSUME CacheIInv, NEW t \in CacheTask, NEW m \in Unused, NEW next \in LoadStage,
           cacheTask[t].pc \in {"full", "tight"}, next \in {"shrinking", "fits"},
           loaded' = loaded \ {m}, current' = Lowered(SizeOf[m]), Moves(t, next),
           UNCHANGED ref_count
    PROVE  CacheIInv'
<1> DEFINE c == [cacheTask[t] EXCEPT !.pc = next]
<1>0. m \in loaded /\ ref_count[m] = 0 /\ m \in Model /\ SizeOf[m] \in Nat
  BY CacheTypes DEF Unused
<1>1. /\ c \in TaskState /\ c.pc = next /\ c.model \in Model
      /\ cacheTask' = [cacheTask EXCEPT ![t] = c]
  BY CacheTypes DEF Moves, TaskState
<1> HIDE DEF c
<1>2. CacheTypeOK' /\ LoadsNamed'
  <2>1. current' \in Nat
    BY <1>0, CacheTypes DEF Lowered
  <2>2. loaded' \subseteq Model /\ ref_count' \in [Model -> 0..MaxUses]
    BY CacheTypes
  <2>3. QED
    BY <1>1, <2>1, <2>2, TaskMoves
<1>3. UsersCounted'
  <2> SUFFICES ASSUME NEW u \in CacheTask, At(u, "using")', ~cacheTask'[u].orphan
               PROVE  /\ cacheTask'[u].model \in loaded'
                      /\ ref_count'[cacheTask'[u].model] >= 1
    BY DEF UsersCounted, At
  <2>1. u # t /\ cacheTask'[u] = cacheTask[u]
    BY <1>1, CacheTypes DEF At
  <2>2. cacheTask[u].model \in loaded /\ ref_count[cacheTask[u].model] >= 1
    BY <2>1 DEF CacheIInv, UsersCounted, At
  <2>3. QED
    BY <1>0, <2>1, <2>2
<1>4. RoomBounded'
  <2>1. /\ Cardinality(loaded) \in Nat /\ Cardinality(Admitted) \in Nat
        /\ Cardinality(CacheTask) \in Nat /\ max_models \in Nat
        /\ IsFiniteSet(loaded) /\ IsFiniteSet(Admitted)
    BY FS_CardinalityType, CacheAssumption DEF CacheIInv, RoomBounded
  <2>2. IsFiniteSet(loaded') /\ Cardinality(loaded') = Cardinality(loaded) - 1
    BY <1>0, <2>1, FS_RemoveElement
  <2>3. Admitted' \subseteq Admitted \cup {t}
    BY <1>1, CacheTypes DEF Admitted
  <2>4. /\ IsFiniteSet(Admitted \cup {t})
        /\ Cardinality(Admitted \cup {t}) <= Cardinality(Admitted) + 1
    BY <2>1, OneMore
  <2>5. IsFiniteSet(Admitted') /\ Cardinality(Admitted') <= Cardinality(Admitted \cup {t})
    BY <2>3, <2>4, FS_Subset
  <2>6. Cardinality(Admitted') \in Nat /\ Cardinality(Admitted \cup {t}) \in Nat
    BY <2>4, <2>5, FS_CardinalityType
  <2>7. QED
    BY <2>1, <2>2, <2>4, <2>5, <2>6 DEF CacheIInv, RoomBounded
<1>5. SizesFinite'
  <2>1. \A u \in CacheTask : Adding'[u] = Adding[u]
    BY <1>1, CacheTypes DEF Adding, At
  <2>2. /\ Tokens(Adding', CacheTask) = Tokens(Adding, CacheTask)
        /\ Total(Adding', CacheTask) = Total(Adding, CacheTask)
    BY <2>1, TotalSame
  <2>3. /\ IsFiniteSet(Tokens(SizeOf, loaded \ {m})) /\ Total(SizeOf, loaded \ {m}) \in Nat
        /\ Total(SizeOf, loaded) = Total(SizeOf, loaded \ {m}) + SizeOf[m]
    <3>1. IsFiniteSet(Tokens(SizeOf, loaded))
      BY DEF CacheIInv, SizesFinite
    <3>2. QED
      BY <1>0, <3>1, TotalRemove
  <2>4. IsFiniteSet(Tokens(Adding, CacheTask)) /\ Total(Adding, CacheTask) \in Nat
    BY TotalType DEF CacheIInv, SizesFinite
  <2>5. current' + Total(Adding, CacheTask) >= Total(SizeOf, loaded \ {m})
    <3>1. current' \in Nat /\ current' >= current - SizeOf[m] /\ current \in Nat
      BY <1>0, CacheTypes DEF Lowered
    <3>2. current + Total(Adding, CacheTask) >= Total(SizeOf, loaded)
      BY DEF CacheIInv, SizesFinite, MemoryNotUnderestimated
    <3>3. QED
      BY <1>0, <2>3, <2>4, <3>1, <3>2
  <2>6. /\ Tokens(Adding, CacheTask)' = Tokens(Adding, CacheTask)
        /\ Total(Adding, CacheTask)' = Total(Adding, CacheTask)
    BY <2>2 DEF Tokens, Total
  <2>7. /\ Tokens(SizeOf, loaded)' = Tokens(SizeOf, loaded \ {m})
        /\ Total(SizeOf, loaded)' = Total(SizeOf, loaded \ {m})
    BY DEF Tokens, Total
  <2>8. QED
    BY <2>3, <2>4, <2>5, <2>6, <2>7, Zenon DEF SizesFinite, MemoryNotUnderestimated
<1>6. QED
  BY <1>2, <1>3, <1>4, <1>5 DEF CacheIInv

\* An insert: the task is not admitted any more, and what the map has one more
\* of is now about to be added to the estimate.
LEMMA InsertIInv ==
    ASSUME CacheIInv, NEW t \in CacheTask, Insert(t)
    PROVE  CacheIInv'
<1> DEFINE m == cacheTask[t].model
<1>1. /\ cacheTask[t].pc = "fits" /\ m \in Model /\ SizeOf[m] \in Nat
      /\ loaded' = loaded \cup {m} /\ ref_count' = [ref_count EXCEPT ![m] = 0]
      /\ current' = current
  BY CacheTypes DEF Insert, At
<1>2. /\ cacheTask' \in [CacheTask -> TaskState]
      /\ cacheTask'[t].pc = "inserted" /\ cacheTask'[t].model = m
      /\ \A u \in CacheTask \ {t} :
            /\ cacheTask'[u].pc = cacheTask[u].pc /\ cacheTask'[u].model = cacheTask[u].model
            /\ cacheTask'[u].orphan =
                 (cacheTask[u].orphan \/ (cacheTask[u].pc = "using" /\ cacheTask[u].model = m))
  <2>1. cacheTask' = [u \in CacheTask |->
                        IF u = t THEN [cacheTask[u] EXCEPT !.pc = "inserted"]
                        ELSE [cacheTask[u] EXCEPT !.orphan = @ \/
                                (cacheTask[u].pc = "using" /\ cacheTask[u].model = m)]]
    BY DEF Insert
  <2>2. \A u \in CacheTask : cacheTask[u] \in TaskState
    BY CacheTypes
  <2> HIDE DEF m
  <2>3. QED
    BY <2>1, <2>2 DEF TaskState, LoadStage, m
<1> HIDE DEF m
<1>3. CacheTypeOK'
  <2>1. ref_count' \in [Model -> 0..MaxUses]
    BY <1>1, CacheTypes
  <2>2. QED
    BY <1>1, <1>2, <2>1, CacheTypes DEF CacheTypeOK
<1>4. LoadsNamed'
  BY <1>1, <1>2, CacheTypes DEF LoadsNamed
<1>5. UsersCounted'
  <2> SUFFICES ASSUME NEW u \in CacheTask, At(u, "using")', ~cacheTask'[u].orphan
               PROVE  /\ cacheTask'[u].model \in loaded'
                      /\ ref_count'[cacheTask'[u].model] >= 1
    BY DEF UsersCounted, At
  <2>1. u # t
    BY <1>2 DEF At
  <2>2. /\ cacheTask[u].pc = "using" /\ cacheTask'[u].model = cacheTask[u].model
        /\ ~cacheTask[u].orphan /\ cacheTask[u].model # m
    BY <1>2, <2>1 DEF At
  <2>3. cacheTask[u].model \in loaded /\ ref_count[cacheTask[u].model] >= 1
    BY <2>2 DEF CacheIInv, UsersCounted, At
  <2>4. QED
    BY <1>1, <2>2, <2>3, CacheTypes
<1>6. RoomBounded'
  <2>1. /\ Cardinality(loaded) \in Nat /\ Cardinality(Admitted) \in Nat
        /\ Cardinality(CacheTask) \in Nat /\ max_models \in Nat
        /\ IsFiniteSet(loaded) /\ IsFiniteSet(Admitted)
    BY FS_CardinalityType, CacheAssumption DEF CacheIInv, RoomBounded
  <2>2. /\ IsFiniteSet(loaded') /\ Cardinality(loaded') \in Nat
        /\ Cardinality(loaded') <= Cardinality(loaded) + 1
    BY <1>1, <2>1, OneMore
  <2>3. Admitted' = Admitted \ {t} /\ t \in Admitted
    BY <1>1, <1>2 DEF Admitted
  <2>4. IsFiniteSet(Admitted') /\ Cardinality(Admitted') = Cardinality(Admitted) - 1
    BY <2>1, <2>3, FS_RemoveElement
  <2>5. QED
    BY <2>1, <2>2, <2>4 DEF CacheIInv, RoomBounded
<1>7. SizesFinite'
  <2>1. /\ Adding[t] = 0 /\ Adding'[t] = SizeOf[m]
        /\ \A u \in CacheTask \ {t} : Adding[u] = Adding'[u]
    BY <1>1, <1>2 DEF Adding, At
  <2>2. IsFiniteSet(Tokens(Adding, CacheTask)) /\ IsFiniteSet(Tokens(SizeOf, loaded))
    BY DEF CacheIInv, SizesFinite
  <2>3. DifferAt(Adding, Adding', CacheTask, t)
    <3>1. ASSUME NEW g, g[t] \in Nat, \A u \in CacheTask \ {t} : Adding[u] = g[u]
          PROVE  DifferAt(Adding, g, CacheTask, t)
      BY <2>1, <2>2, <3>1, TotalChange
    <3>2. QED
      BY <1>1, <2>1, <3>1
  <2>4. /\ IsFiniteSet(Tokens(Adding', CacheTask))
        /\ Total(Adding, CacheTask) \in Nat
        /\ Total(Adding', CacheTask) = Total(Adding, CacheTask) + SizeOf[m]
    BY <1>1, <2>1, <2>3 DEF DifferAt
  <2>5. /\ IsFiniteSet(Tokens(SizeOf, loaded \cup {m})) /\ Total(SizeOf, loaded \cup {m}) \in Nat
        /\ Total(SizeOf, loaded \cup {m}) <= Total(SizeOf, loaded) + SizeOf[m]
    <3>1. Total(SizeOf, loaded) \in Nat
      BY <2>2, TotalType
    <3>2. CASE m \in loaded
      <4>1. loaded \cup {m} = loaded
        BY <3>2
      <4>2. Total(SizeOf, loaded) <= Total(SizeOf, loaded) + SizeOf[m]
        BY <1>1, <3>1
      <4>3. QED
        BY <2>2, <3>1, <4>1, <4>2, Zenon
    <3>3. CASE m \notin loaded
      <4>1. /\ IsFiniteSet(Tokens(SizeOf, loaded \cup {m}))
            /\ Total(SizeOf, loaded \cup {m}) = Total(SizeOf, loaded) + SizeOf[m]
        BY <1>1, <2>2, <3>3, TotalAdd
      <4>2. QED
        BY <1>1, <3>1, <4>1
    <3>4. QED
      BY <3>2, <3>3
  <2>6. current + Total(Adding', CacheTask) >= Total(SizeOf, loaded \cup {m})
    <3>1. current + Total(Adding, CacheTask) >= Total(SizeOf, loaded) /\ current \in Nat
      BY CacheTypes DEF CacheIInv, SizesFinite, MemoryNotUnderestimated
    <3>2. Total(SizeOf, loaded) \in Nat
      BY <2>2, TotalType
    <3>3. QED
      BY <1>1, <2>4, <2>5, <3>1, <3>2
  <2>7. /\ Tokens(Adding, CacheTask)' = Tokens(Adding', CacheTask)
        /\ Total(Adding, CacheTask)' = Total(Adding', CacheTask)
    BY DEF Tokens, Total
  <2>8. /\ Tokens(SizeOf, loaded)' = Tokens(SizeOf, loaded \cup {m})
        /\ Total(SizeOf, loaded)' = Total(SizeOf, loaded \cup {m})
    BY <1>1 DEF Tokens, Total
  <2>9. QED
    BY <1>1, <2>4, <2>5, <2>6, <2>7, <2>8, Zenon DEF SizesFinite, MemoryNotUnderestimated
<1>8. QED
  BY <1>3, <1>4, <1>5, <1>6, <1>7 DEF CacheIInv

\* The estimate catches up: what was about to be added is added.
LEMMA AccountIInv ==
    ASSUME CacheIInv, NEW t \in CacheTask, Account(t)
    PROVE  CacheIInv'
<1> DEFINE c == [cacheTask[t] EXCEPT !.pc = "ready"]
           m == cacheTask[t].model
<1>1. /\ cacheTask[t].pc = "inserted" /\ m \in Model /\ SizeOf[m] \in Nat
      /\ loaded' = loaded /\ ref_count' = ref_count /\ current' = current + SizeOf[m]
  BY CacheTypes DEF Account, At
<1>2. /\ c \in TaskState /\ c.pc = "ready" /\ c.model = m
      /\ cacheTask' = [cacheTask EXCEPT ![t] = c]
  BY CacheTypes DEF Account, Moves, TaskState, LoadStage
<1> HIDE DEF c, m
<1>3. CacheTypeOK' /\ LoadsNamed'
  <2>1. /\ loaded' \subseteq Model /\ ref_count' \in [Model -> 0..MaxUses] /\ current' \in Nat
        /\ c.pc # "idle" => c.model \in Model
    BY <1>1, <1>2, CacheTypes
  <2>2. QED
    BY <1>2, <2>1, TaskMoves
<1>4. UsersCounted'
  BY <1>1, <1>2, CacheTypes DEF CacheIInv, UsersCounted, At
<1>5. RoomBounded'
  <2>1. Admitted' = Admitted
    BY <1>1, <1>2, CacheTypes DEF Admitted
  <2>2. QED
    BY <1>1, <2>1 DEF CacheIInv, RoomBounded
<1>6. SizesFinite'
  <2>1. Adding[t] = SizeOf[m] /\ Adding'[t] = 0
    BY <1>1, <1>2, CacheTypes DEF Adding, At, m
  <2>2. DifferAt(Adding, Adding', CacheTask, t)
    BY <1>1, <1>2, AddingChanges
  <2>3. /\ IsFiniteSet(Tokens(Adding', CacheTask))
        /\ Total(Adding', CacheTask) \in Nat
        /\ Total(Adding, CacheTask) = Total(Adding', CacheTask) + SizeOf[m]
    BY <1>1, <2>1, <2>2 DEF DifferAt
  <2>4. current' + Total(Adding', CacheTask) >= Total(SizeOf, loaded)
    <3>1. current + Total(Adding, CacheTask) >= Total(SizeOf, loaded) /\ current \in Nat
      BY CacheTypes DEF CacheIInv, SizesFinite, MemoryNotUnderestimated
    <3>2. current' + Total(Adding', CacheTask) = current + Total(Adding, CacheTask)
      BY <1>1, <2>3, <3>1
    <3>3. QED
      BY <3>1, <3>2
  <2>5. /\ Tokens(Adding, CacheTask)' = Tokens(Adding', CacheTask)
        /\ Total(Adding, CacheTask)' = Total(Adding', CacheTask)
        /\ Tokens(SizeOf, loaded)' = Tokens(SizeOf, loaded)
        /\ Total(SizeOf, loaded)' = Total(SizeOf, loaded)
    BY <1>1 DEF Tokens, Total
  <2>6. QED
    BY <2>3, <2>4, <2>5, Zenon DEF CacheIInv, SizesFinite, MemoryNotUnderestimated
<1>7. QED
  BY <1>3, <1>4, <1>5, <1>6 DEF CacheIInv

\* Get of a model that is there takes a reference to its entry.
LEMMA GetIInv ==
    ASSUME CacheIInv, NEW t \in CacheTask, At(t, "ready"), cacheTask[t].model \in loaded,
           ref_count[cacheTask[t].model] < MaxUses,
           ref_count' = [ref_count EXCEPT ![cacheTask[t].model] = @ + 1],
           Moves(t, "using"), UNCHANGED <<loaded, current>>
    PROVE  CacheIInv'
<1> DEFINE c == [cacheTask[t] EXCEPT !.pc = "using"]
           m == cacheTask[t].model
<1>1. cacheTask[t].pc = "ready" /\ m \in Model /\ loaded' = loaded /\ current' = current
  BY CacheTypes DEF At
<1>2. /\ c \in TaskState /\ c.pc = "using" /\ c.model = m
      /\ cacheTask' = [cacheTask EXCEPT ![t] = c]
  BY CacheTypes DEF Moves, TaskState, LoadStage
<1>3. /\ m \in loaded /\ ref_count[m] \in Nat /\ ref_count' = [ref_count EXCEPT ![m] = @ + 1]
      /\ ref_count' \in [Model -> 0..MaxUses]
  BY <1>1, CacheTypes
<1> HIDE DEF c, m
<1>4. CacheTypeOK' /\ LoadsNamed'
  BY <1>1, <1>2, <1>3, CacheTypes, TaskMoves
<1>5. UsersCounted'
  <2> SUFFICES ASSUME NEW u \in CacheTask, At(u, "using")', ~cacheTask'[u].orphan
               PROVE  /\ cacheTask'[u].model \in loaded'
                      /\ ref_count'[cacheTask'[u].model] >= 1
    BY DEF UsersCounted, At
  <2>1. CASE u = t
    BY <1>1, <1>2, <1>3, <2>1, CacheTypes
  <2>2. CASE u # t
    <3>1. cacheTask'[u] = cacheTask[u]
      BY <1>2, <2>2, CacheTypes
    <3>2. cacheTask[u].model \in loaded /\ ref_count[cacheTask[u].model] >= 1
      BY <3>1 DEF CacheIInv, UsersCounted, At
    <3>3. \A n \in loaded : ref_count[n] \in Nat
      BY CacheTypes
    <3>4. \A n \in loaded : ref_count[n] >= 1 => ref_count'[n] >= 1
      BY <1>3, <3>3, CacheTypes
    <3>5. QED
      BY <1>1, <3>1, <3>2, <3>4
  <2>3. QED
    BY <2>1, <2>2
<1>6. RoomBounded'
  <2>1. Admitted' = Admitted
    BY <1>1, <1>2, CacheTypes DEF Admitted
  <2>2. QED
    BY <1>1, <2>1 DEF CacheIInv, RoomBounded
<1>7. SizesFinite'
  <2>1. \A u \in CacheTask : Adding'[u] = Adding[u]
    BY <1>1, <1>2, CacheTypes DEF Adding, At
  <2>2. /\ Tokens(Adding', CacheTask) = Tokens(Adding, CacheTask)
        /\ Total(Adding', CacheTask) = Total(Adding, CacheTask)
    BY <2>1, TotalSame
  <2>3. /\ Tokens(Adding, CacheTask)' = Tokens(Adding, CacheTask)
        /\ Total(Adding, CacheTask)' = Total(Adding, CacheTask)
        /\ Tokens(SizeOf, loaded)' = Tokens(SizeOf, loaded)
        /\ Total(SizeOf, loaded)' = Total(SizeOf, loaded)
    BY <1>1, <2>2 DEF Tokens, Total
  <2>4. QED
    BY <1>1, <2>3, Zenon DEF CacheIInv, SizesFinite, MemoryNotUnderestimated
<1>8. QED
  BY <1>4, <1>5, <1>6, <1>7 DEF CacheIInv

LEMMA CacheInitIInv == CacheInit => CacheIInv
<1> SUFFICES ASSUME CacheInit PROVE CacheIInv
  OBVIOUS
<1>1. CacheTypeOK
  BY IdleLoadType, CacheAssumption DEF CacheInit, CacheTypeOK
<1>2. \A t \in CacheTask : cacheTask[t].pc = "idle"
  BY DEF CacheInit, IdleLoad
<1>3. LoadsNamed /\ UsersCounted
  BY <1>2 DEF LoadsNamed, UsersCounted, At
<1>4. RoomBounded
  <2>1. Admitted = {} /\ loaded = {}
    BY <1>2 DEF Admitted, CacheInit
  <2>2. Cardinality(CacheTask) \in Nat \ {0} /\ max_models \in Nat
    BY CacheAssumption, FS_CardinalityType, FS_EmptySet
  <2>3. IsFiniteSet({}) /\ Cardinality({}) = 0
    BY FS_EmptySet
  <2>4. 0 + 0 <= max_models + Cardinality(CacheTask) - 1
    BY <2>2
  <2>5. QED
    BY <2>1, <2>3, <2>4, Zenon DEF RoomBounded
<1>5. SizesFinite
  <2>1. \A t \in CacheTask : Adding[t] = 0
    BY <1>2 DEF Adding, At
  <2>2. IsFiniteSet(Tokens(Adding, CacheTask)) /\ Total(Adding, CacheTask) = 0
    BY <2>1, TotalZero
  <2>3. loaded = {} /\ current = 0
    BY DEF CacheInit
  <2>4. IsFiniteSet(Tokens(SizeOf, {})) /\ Total(SizeOf, {}) = 0
    BY TotalZero
  <2>5. MemoryNotUnderestimated
    BY <2>2, <2>3, <2>4 DEF MemoryNotUnderestimated
  <2>6. QED
    BY <2>2, <2>3, <2>4, <2>5, Zenon DEF SizesFinite
<1>6. QED
  BY <1>1, <1>3, <1>4, <1>5 DEF CacheIInv

\* A call that ends without touching the cache.
LEMMA EndIInv ==
    ASSUME CacheIInv, NEW t \in CacheTask, EndCall(t), UNCHANGED cacheState,
           cacheTask[t].pc # "inserted"
    PROVE  CacheIInv'
<1>1. /\ cacheTask' = [cacheTask EXCEPT ![t] = IdleLoad] /\ IdleLoad \in TaskState
      /\ IdleLoad.pc = "idle"
  BY IdleLoadType DEF EndCall, IdleLoad
<1>2. QED
  BY <1>1, LoadMovesIInv

LEMMA StageIInv ==
    ASSUME CacheIInv, NEW t \in CacheTask, NEW stage \in LoadStage, Moves(t, stage),
           UNCHANGED cacheState, cacheTask[t].pc \notin {"idle", "inserted"},
           stage \notin {"idle", "inserted", "using"},
           stage \in {"shrinking", "tight", "fits"} => t \in Admitted \/ ~AtModelLimit
    PROVE  CacheIInv'
<1> DEFINE c == [cacheTask[t] EXCEPT !.pc = stage]
<1>1. /\ c \in TaskState /\ c.pc = stage /\ c.model \in Model
      /\ cacheTask' = [cacheTask EXCEPT ![t] = c]
  BY CacheTypes DEF Moves, TaskState
<1> HIDE DEF c
<1>2. QED
  BY <1>1, LoadMovesIInv

LEMMA EvictLruIInv ==
    ASSUME CacheIInv, NEW t \in CacheTask, NEW next \in {"shrinking", "fits"},
           cacheTask[t].pc \in {"full", "tight"}, EvictLru(t, next)
    PROVE  CacheIInv'
<1>1. CASE \E m \in Unused : /\ loaded' = loaded \ {m} /\ current' = Lowered(SizeOf[m])
                            /\ Moves(t, next) /\ UNCHANGED ref_count
  BY <1>1, EvictIInv DEF LoadStage
<1>2. CASE EndCall(t) /\ UNCHANGED cacheState
  BY <1>2, EndIInv
<1>3. QED
  BY <1>1, <1>2 DEF EvictLru

\* One case per action.
LEMMA CacheNextIInv == CacheIInv /\ [CacheNext]_cacheVars => CacheIInv'
<1> SUFFICES ASSUME CacheIInv, [CacheNext]_cacheVars PROVE CacheIInv'
  OBVIOUS
<1>1. ASSUME NEW t \in CacheTask, NEW m \in Model, NEW g \in BOOLEAN, Asks(t, m, g)
      PROVE  CacheIInv'
  <2> DEFINE c == [IdleLoad EXCEPT !.pc = "asked", !.model = m, !.generates = g]
  <2>1. /\ c \in TaskState /\ c.pc = "asked" /\ c.model = m
        /\ cacheTask' = [cacheTask EXCEPT ![t] = c] /\ cacheTask[t].pc = "idle"
        /\ UNCHANGED cacheState
    BY <1>1 DEF Asks, At, IdleLoad, TaskState, LoadStage
  <2> HIDE DEF c
  <2>2. QED
    BY <2>1, LoadMovesIInv
<1>2. ASSUME NEW t \in CacheTask, Look(t) PROVE CacheIInv'
  <2>1. /\ cacheTask[t].pc = "asked" /\ UNCHANGED cacheState
        /\ Moves(t, "ready") \/ Moves(t, "missing")
    BY <1>2 DEF Look, At
  <2>2. QED
    BY <2>1, StageIInv DEF LoadStage
<1>3. ASSUME NEW t \in CacheTask, ReadMemory(t) PROVE CacheIInv'
  <2> DEFINE c == [cacheTask[t] EXCEPT !.pc = "sized", !.seen = current]
  <2>1. /\ c \in TaskState /\ c.pc = "sized" /\ c.model \in Model
        /\ cacheTask' = [cacheTask EXCEPT ![t] = c] /\ cacheTask[t].pc = "missing"
        /\ UNCHANGED cacheState
    BY <1>3, CacheTypes DEF ReadMemory, At, TaskState, LoadStage
  <2> HIDE DEF c
  <2>2. QED
    BY <2>1, LoadMovesIInv
<1>4. ASSUME NEW t \in CacheTask, ReadCount(t) PROVE CacheIInv'
  <2>1. /\ cacheTask[t].pc = "sized" /\ UNCHANGED cacheState
        /\ Moves(t, "full") \/ (~AtModelLimit /\ (Moves(t, "fits") \/ Moves(t, "shrinking")))
    BY <1>4 DEF ReadCount, At, AfterCountCheck
  <2>2. QED
    BY <2>1, StageIInv DEF LoadStage
<1>5. ASSUME NEW t \in CacheTask, EvictForCount(t) PROVE CacheIInv'
  <2>1. /\ cacheTask[t].pc = "full" /\ AfterCountCheck(t) \in {"shrinking", "fits"}
        /\ EvictLru(t, AfterCountCheck(t))
    BY <1>5 DEF EvictForCount, At, AfterCountCheck
  <2>2. QED
    BY <2>1, EvictLruIInv
<1>6. ASSUME NEW t \in CacheTask, ReadMemoryAgain(t) PROVE CacheIInv'
  <2>1. /\ cacheTask[t].pc = "shrinking" /\ UNCHANGED cacheState
        /\ Moves(t, "fits") \/ Moves(t, "tight")
    BY <1>6 DEF ReadMemoryAgain, At
  <2>2. t \in Admitted
    BY <2>1 DEF Admitted
  <2>3. QED
    BY <2>1, <2>2, StageIInv DEF LoadStage
<1>7. ASSUME NEW t \in CacheTask, EvictForMemory(t) PROVE CacheIInv'
  BY <1>7, EvictLruIInv DEF EvictForMemory, At
<1>8. ASSUME NEW t \in CacheTask, Get(t) PROVE CacheIInv'
  <2>1. CASE cacheTask[t].generates /\ cacheTask[t].model \in loaded
    BY <1>8, <2>1, GetIInv DEF Get
  <2>2. CASE ~(cacheTask[t].generates /\ cacheTask[t].model \in loaded)
    <3>1. EndCall(t) /\ UNCHANGED cacheState /\ cacheTask[t].pc = "ready"
      BY <1>8, <2>2 DEF Get, At, cacheState
    <3>2. QED
      BY <3>1, EndIInv
  <2>3. QED
    BY <2>1, <2>2
<1>9. ASSUME NEW t \in CacheTask, EndGenerate(t) PROVE CacheIInv'
  BY <1>9, EndIInv DEF EndGenerate, At
<1>10. ASSUME UNCHANGED cacheVars PROVE CacheIInv'
  <2>1. loaded' = loaded /\ ref_count' = ref_count /\ current' = current /\ cacheTask' = cacheTask
    BY <1>10 DEF cacheVars
  <2>2. QED
    BY <2>1 DEF CacheIInv, CacheTypeOK, LoadsNamed, UsersCounted, RoomBounded, SizesFinite,
                MemoryNotUnderestimated, Adding, Admitted, At
<1>11. QED
  BY <1>1, <1>2, <1>3, <1>4, <1>5, <1>6, <1>7, <1>8, <1>9, <1>10, InsertIInv, AccountIInv
     DEF CacheNext

\* Every reachable state of the model cache is well typed.
THEOREM CacheTypeCorrect == CacheSpec => []CacheTypeOK
<1>1. CacheIInv => CacheTypeOK
  BY DEF CacheIInv
<1>2. QED
  BY <1>1, CacheInitIInv, CacheNextIInv, PTL DEF CacheSpec

\* A model in use is never unloaded, the map passes max_models by one model per
\* other task at most, and the estimate of the memory is never below what is
\* loaded (ensure_capacity, insert and evict_lru, inference/cache.rs).
THEOREM CachePromises == CacheSpec => []ModelsSound
<1>1. CacheIInv => ModelsSound
  <2> SUFFICES ASSUME CacheIInv PROVE ModelsSound
    OBVIOUS
  <2>1. UsedEntryStays
    BY DEF CacheIInv, UsersCounted, UsedEntryStays, At
  <2>2. ModelCountBounded
    <3>1. /\ Cardinality(loaded) \in Nat /\ Cardinality(Admitted) \in Nat
          /\ Cardinality(CacheTask) \in Nat /\ max_models \in Nat
      BY FS_CardinalityType, CacheAssumption DEF CacheIInv, RoomBounded
    <3>2. QED
      BY <3>1 DEF CacheIInv, RoomBounded, ModelCountBounded
  <2>3. QED
    BY <2>1, <2>2 DEF CacheIInv, SizesFinite, ModelsSound
<1>2. QED
  BY <1>1, CacheInitIInv, CacheNextIInv, PTL DEF CacheSpec
-----------------------------------------------------------------------------
(* The distribution of models: for every set of callers, chunks, data, files. *)

\* As long as no start_download created its file beside another call (~overlapped),
\* one call at a time works on the two paths: "InOrder" says which call that is,
\* and what the files behind the paths hold at each of its steps.
\* A call that has a file of its own making, or of its own taking, in its hands.
Holding == {"insert", "verify", "rename", "publish"}
PathsApart == partial # Absent => partial # final
CallsNamed == \A t \in Caller : callAt[t] # "idle" => callMetadata[t] \in Metadata
HoldsAlone ==
  \A t \in Caller : callAt[t] \in Holding =>
    /\ pending_downloads = Absent
    /\ \A u \in Caller : callAt[u] \in Holding => u = t
PartialAlone ==
  /\ pending_downloads # Absent => final = Absent /\ partial # Absent
  /\ \A t \in Caller :
       /\ callAt[t] \in {"insert", "verify", "rename"} => final = Absent
       /\ callAt[t] = "insert" => partial # Absent
       /\ callAt[t] = "rename" /\ partial # Absent => disk[partial] = callMetadata[t]
ReceivedWritten ==
  pending_downloads # Absent =>
    \A c \in pending_downloads.received_chunks :
       disk[partial][c] = pending_downloads.metadata[c]
FinalKnown ==
  final # Absent =>
    /\ disk[final] \in Metadata
    /\ \/ available_models # Absent
       \/ \E t \in Caller : callAt[t] = "publish"
    /\ \A t \in Caller : callAt[t] = "publish" => disk[final] = callMetadata[t]
OfferedWhole ==
  /\ available_models # Absent => final # Absent /\ disk[final] = available_models
  /\ \A t \in Caller : callAt[t] = "publish" => final # Absent
InOrder == HoldsAlone /\ PartialAlone /\ ReceivedWritten /\ FinalKnown /\ OfferedWhole
DistIInv == DistTypeOK /\ PathsApart /\ CallsNamed /\ (~overlapped => InOrder)
DownloadState == [metadata: Metadata, received_chunks: SUBSET Chunk]

\* What the assumption on the constants says of data and files.
LEMMA MetadataIsContents ==
  /\ Metadata \subseteq Contents /\ Absent \notin Contents
  /\ Absent \notin Metadata /\ Blank \in Contents
  /\ \A m \in Metadata : \A c \in Chunk : m[c] # Empty
BY DistributionAssumption DEF Metadata, Contents, Blank

\* Each step keeps the invariant: the paths and the calls always, the rest in order.
LEMMA ModelStart ==
  ASSUME DistIInv, NEW t \in Caller, NEW metadata \in Metadata, StartDownload(t, metadata)
  PROVE  DistIInv'
<1> USE MetadataIsContents, DistributionAssumption DEF StartDownload, BeginCall
<1>1. DistTypeOK'
  BY DEF DistIInv, DistTypeOK, Begun, Ending
<1>2. PathsApart'
  BY DEF DistIInv, DistTypeOK, PathsApart
<1>3. CallsNamed'
  BY DEF DistIInv, DistTypeOK, CallsNamed
<1>4. ASSUME ~overlapped' PROVE InOrder'
  <2>1. HoldsAlone'
    BY <1>4 DEF DistIInv, DistTypeOK, InOrder, HoldsAlone, Holding
  <2>2. PartialAlone'
    BY <1>4 DEF DistIInv, DistTypeOK, InOrder, HoldsAlone, Holding, PartialAlone, FinalKnown,
       OfferedWhole
  <2>3. ReceivedWritten'
    BY <1>4 DEF DistIInv, DistTypeOK, InOrder, HoldsAlone, Holding, PartialAlone,
       ReceivedWritten
  <2>4. FinalKnown'
    BY <1>4 DEF DistIInv, DistTypeOK, InOrder, HoldsAlone, Holding, PathsApart, PartialAlone,
       CallsNamed, FinalKnown, OfferedWhole
  <2>5. OfferedWhole'
    BY <1>4 DEF DistIInv, DistTypeOK, InOrder, HoldsAlone, Holding, PathsApart, PartialAlone,
       CallsNamed, FinalKnown, OfferedWhole
  <2>6. QED
    BY <2>1, <2>2, <2>3, <2>4, <2>5 DEF InOrder
<1>5. QED
  BY <1>1, <1>2, <1>3, <1>4 DEF DistIInv

LEMMA ModelCheck ==
  ASSUME DistIInv, NEW t \in Caller, CheckPending(t)
  PROVE  DistIInv'
<1> USE MetadataIsContents, DistributionAssumption DEF CheckPending, BeginCall, EndOfCall, CallMovesTo
<1>1. DistTypeOK'
  BY DEF DistIInv, DistTypeOK, Begun, Ending
<1>2. PathsApart'
  BY DEF DistIInv, DistTypeOK, PathsApart
<1>3. CallsNamed'
  BY DEF DistIInv, DistTypeOK, CallsNamed
<1>4. ASSUME ~overlapped' PROVE InOrder'
  <2>1. HoldsAlone'
    BY <1>4 DEF DistIInv, DistTypeOK, InOrder, HoldsAlone, Holding
  <2>2. PartialAlone'
    BY <1>4 DEF DistIInv, DistTypeOK, InOrder, HoldsAlone, Holding, PartialAlone, FinalKnown,
       OfferedWhole
  <2>3. ReceivedWritten'
    BY <1>4 DEF DistIInv, DistTypeOK, InOrder, HoldsAlone, Holding, PartialAlone,
       ReceivedWritten
  <2>4. FinalKnown'
    BY <1>4 DEF DistIInv, DistTypeOK, InOrder, HoldsAlone, Holding, PathsApart, PartialAlone,
       CallsNamed, FinalKnown, OfferedWhole
  <2>5. OfferedWhole'
    BY <1>4 DEF DistIInv, DistTypeOK, InOrder, HoldsAlone, Holding, PathsApart, PartialAlone,
       CallsNamed, FinalKnown, OfferedWhole
  <2>6. QED
    BY <2>1, <2>2, <2>3, <2>4, <2>5 DEF InOrder
<1>5. QED
  BY <1>1, <1>2, <1>3, <1>4 DEF DistIInv

LEMMA ModelCreate ==
  ASSUME DistIInv, NEW t \in Caller, CreatePartial(t)
  PROVE  DistIInv'
<1> USE MetadataIsContents, DistributionAssumption DEF CreatePartial, CallMovesTo, has_model
<1>1. DistTypeOK'
  BY DEF DistIInv, DistTypeOK, Begun, Ending
<1>2. PathsApart'
  BY DEF DistIInv, DistTypeOK, PathsApart
<1>3. CallsNamed'
  BY DEF DistIInv, DistTypeOK, CallsNamed
<1>4. ASSUME ~overlapped' PROVE InOrder'
  <2>1. HoldsAlone'
    <3>1. pending_downloads = Absent /\ \A u \in Caller \ {t} : callAt[u] = "idle"
      BY <1>4
    <3>2. pending_downloads' = Absent /\ \A u \in Caller \ {t} : callAt'[u] = "idle"
      BY <3>1 DEF DistIInv, DistTypeOK
    <3>3. QED
      BY <3>2 DEF HoldsAlone, Holding
  <2>2. PartialAlone'
    BY <1>4 DEF DistIInv, DistTypeOK, InOrder, HoldsAlone, Holding, PartialAlone, FinalKnown,
       OfferedWhole
  <2>3. ReceivedWritten'
    BY <1>4 DEF DistIInv, DistTypeOK, InOrder, HoldsAlone, Holding, PartialAlone,
       ReceivedWritten
  <2>4. FinalKnown'
    BY <1>4 DEF DistIInv, DistTypeOK, InOrder, HoldsAlone, Holding, PathsApart, PartialAlone,
       CallsNamed, FinalKnown, OfferedWhole
  <2>5. OfferedWhole'
    BY <1>4 DEF DistIInv, DistTypeOK, InOrder, HoldsAlone, Holding, PathsApart, PartialAlone,
       CallsNamed, FinalKnown, OfferedWhole
  <2>6. QED
    BY <2>1, <2>2, <2>3, <2>4, <2>5 DEF InOrder
<1>5. QED
  BY <1>1, <1>2, <1>3, <1>4 DEF DistIInv

LEMMA ModelInsert ==
  ASSUME DistIInv, NEW t \in Caller, InsertDownload(t)
  PROVE  DistIInv'
<1> USE MetadataIsContents, DistributionAssumption DEF InsertDownload, BeginCall, EndOfCall
<1>1. DistTypeOK'
  <2>1. callMetadata[t] \in Metadata
    BY DEF DistIInv, CallsNamed
  <2>2. pending_downloads' \in DownloadState
    BY <2>1 DEF DownloadState
  <2>3. QED
    BY <2>2 DEF DistIInv, DistTypeOK, DownloadState, Begun, Ending
<1>2. PathsApart'
  BY DEF DistIInv, DistTypeOK, PathsApart
<1>3. CallsNamed'
  BY DEF DistIInv, DistTypeOK, CallsNamed
<1>4. ASSUME ~overlapped' PROVE InOrder'
  <2>1. HoldsAlone'
    BY <1>4 DEF DistIInv, DistTypeOK, InOrder, HoldsAlone, Holding
  <2>2. PartialAlone'
    BY <1>4 DEF DistIInv, DistTypeOK, InOrder, HoldsAlone, Holding, PartialAlone, FinalKnown,
       OfferedWhole
  <2>3. ReceivedWritten'
    BY <1>4 DEF DistIInv, DistTypeOK, InOrder, HoldsAlone, Holding, PartialAlone,
       ReceivedWritten
  <2>4. FinalKnown'
    BY <1>4 DEF DistIInv, DistTypeOK, InOrder, HoldsAlone, Holding, PathsApart, PartialAlone,
       CallsNamed, FinalKnown, OfferedWhole
  <2>5. OfferedWhole'
    BY <1>4 DEF DistIInv, DistTypeOK, InOrder, HoldsAlone, Holding, PathsApart, PartialAlone,
       CallsNamed, FinalKnown, OfferedWhole
  <2>6. QED
    BY <2>1, <2>2, <2>3, <2>4, <2>5 DEF InOrder
<1>5. QED
  BY <1>1, <1>2, <1>3, <1>4 DEF DistIInv

LEMMA ModelWrite ==
  ASSUME DistIInv, NEW index \in Chunk, NEW data \in Data, write_chunk(index, data)
  PROVE  DistIInv'
<1> USE MetadataIsContents, DistributionAssumption DEF write_chunk, verify_chunk, callVars
<1> DEFINE state == pending_downloads
<1>0. /\ state \in DownloadState /\ state.metadata \in Metadata
      /\ state.received_chunks \subseteq Chunk
      /\ partial \in DiskFile /\ disk \in [DiskFile -> Contents]
      /\ pending_downloads' = [metadata |-> state.metadata,
                               received_chunks |-> state.received_chunks \cup {index}]
  BY DEF DistIInv, DistTypeOK, DownloadState
<1>1. DistTypeOK'
  <2>1. pending_downloads' \in DownloadState
    BY <1>0 DEF DownloadState
  <2>2. disk' \in [DiskFile -> Contents]
    <3>1. [disk[partial] EXCEPT ![index] = data] \in Contents
      BY <1>0 DEF Contents
    <3>2. QED
      BY <1>0, <3>1
  <2>3. QED
    BY <2>1, <2>2 DEF DistIInv, DistTypeOK, DownloadState
<1>2. PathsApart'
  BY DEF DistIInv, DistTypeOK, PathsApart
<1>3. CallsNamed'
  BY DEF DistIInv, DistTypeOK, CallsNamed
<1>4. ASSUME ~overlapped' PROVE InOrder'
  <2>1. HoldsAlone'
    BY <1>4 DEF DistIInv, DistTypeOK, InOrder, HoldsAlone, Holding
  <2>2. PartialAlone'
    BY <1>4 DEF DistIInv, DistTypeOK, InOrder, HoldsAlone, Holding, PartialAlone, FinalKnown,
       OfferedWhole
  <2>3. ReceivedWritten'
    <3> SUFFICES ASSUME NEW c \in pending_downloads'.received_chunks
                 PROVE  disk'[partial'][c] = pending_downloads'.metadata[c]
      BY DEF ReceivedWritten
    <3>1. pending_downloads'.metadata = state.metadata /\ partial' = partial
      BY <1>0
    <3>2. disk'[partial] = [disk[partial] EXCEPT ![index] = data]
      BY <1>0
    <3>3. disk[partial] \in Contents
      BY <1>0
    <3>4. CASE c = index
      BY <3>1, <3>2, <3>3, <3>4 DEF Contents
    <3>5. CASE c # index /\ c \in state.received_chunks
      <4>1. disk[partial][c] = state.metadata[c]
        BY <1>4, <3>5 DEF DistIInv, InOrder, ReceivedWritten
      <4>2. QED
        BY <4>1, <3>1, <3>2, <3>3, <3>5 DEF Contents
    <3>6. QED
      BY <3>4, <3>5, <1>0
  <2>4. FinalKnown'
    BY <1>4 DEF DistIInv, DistTypeOK, InOrder, HoldsAlone, Holding, PathsApart, PartialAlone,
       CallsNamed, FinalKnown, OfferedWhole
  <2>5. OfferedWhole'
    BY <1>4 DEF DistIInv, DistTypeOK, InOrder, HoldsAlone, Holding, PathsApart, PartialAlone,
       CallsNamed, FinalKnown, OfferedWhole
  <2>6. QED
    BY <2>1, <2>2, <2>3, <2>4, <2>5 DEF InOrder
<1>5. QED
  BY <1>1, <1>2, <1>3, <1>4 DEF DistIInv

LEMMA ModelTake ==
  ASSUME DistIInv, NEW t \in Caller, TakeDownload(t)
  PROVE  DistIInv'
<1> USE MetadataIsContents, DistributionAssumption DEF TakeDownload, BeginCall, callVars, is_complete
<1>1. DistTypeOK'
  BY DEF DistIInv, DistTypeOK, Begun, Ending
<1>2. PathsApart'
  BY DEF DistIInv, DistTypeOK, PathsApart
<1>3. CallsNamed'
  BY DEF DistIInv, DistTypeOK, CallsNamed
<1>4. ASSUME ~overlapped' PROVE InOrder'
  <2>1. HoldsAlone'
    BY <1>4 DEF DistIInv, DistTypeOK, InOrder, HoldsAlone, Holding
  <2>2. PartialAlone'
    BY <1>4 DEF DistIInv, DistTypeOK, InOrder, HoldsAlone, Holding, PartialAlone, FinalKnown,
       OfferedWhole
  <2>3. ReceivedWritten'
    BY <1>4 DEF DistIInv, DistTypeOK, InOrder, HoldsAlone, Holding, PartialAlone,
       ReceivedWritten
  <2>4. FinalKnown'
    BY <1>4 DEF DistIInv, DistTypeOK, InOrder, HoldsAlone, Holding, PathsApart, PartialAlone,
       CallsNamed, FinalKnown, OfferedWhole
  <2>5. OfferedWhole'
    BY <1>4 DEF DistIInv, DistTypeOK, InOrder, HoldsAlone, Holding, PathsApart, PartialAlone,
       CallsNamed, FinalKnown, OfferedWhole
  <2>6. QED
    BY <2>1, <2>2, <2>3, <2>4, <2>5 DEF InOrder
<1>5. QED
  BY <1>1, <1>2, <1>3, <1>4 DEF DistIInv

LEMMA ModelVerify ==
  ASSUME DistIInv, NEW t \in Caller, VerifyFile(t)
  PROVE  DistIInv'
<1> USE MetadataIsContents, DistributionAssumption DEF VerifyFile, BeginCall, EndOfCall, CallMovesTo
<1>1. DistTypeOK'
  BY DEF DistIInv, DistTypeOK, Begun, Ending
<1>2. PathsApart'
  BY DEF DistIInv, DistTypeOK, PathsApart
<1>3. CallsNamed'
  BY DEF DistIInv, DistTypeOK, CallsNamed
<1>4. ASSUME ~overlapped' PROVE InOrder'
  <2>1. HoldsAlone'
    BY <1>4 DEF DistIInv, DistTypeOK, InOrder, HoldsAlone, Holding
  <2>2. PartialAlone'
    BY <1>4 DEF DistIInv, DistTypeOK, InOrder, HoldsAlone, Holding, PartialAlone, FinalKnown,
       OfferedWhole
  <2>3. ReceivedWritten'
    BY <1>4 DEF DistIInv, DistTypeOK, InOrder, HoldsAlone, Holding, PartialAlone,
       ReceivedWritten
  <2>4. FinalKnown'
    BY <1>4 DEF DistIInv, DistTypeOK, InOrder, HoldsAlone, Holding, PathsApart, PartialAlone,
       CallsNamed, FinalKnown, OfferedWhole
  <2>5. OfferedWhole'
    BY <1>4 DEF DistIInv, DistTypeOK, InOrder, HoldsAlone, Holding, PathsApart, PartialAlone,
       CallsNamed, FinalKnown, OfferedWhole
  <2>6. QED
    BY <2>1, <2>2, <2>3, <2>4, <2>5 DEF InOrder
<1>5. QED
  BY <1>1, <1>2, <1>3, <1>4 DEF DistIInv

LEMMA ModelRename ==
  ASSUME DistIInv, NEW t \in Caller, RenamePartial(t)
  PROVE  DistIInv'
<1> USE MetadataIsContents, DistributionAssumption DEF RenamePartial, BeginCall, EndOfCall, CallMovesTo
<1>1. DistTypeOK'
  BY DEF DistIInv, DistTypeOK, Begun, Ending
<1>2. PathsApart'
  BY DEF DistIInv, DistTypeOK, PathsApart
<1>3. CallsNamed'
  BY DEF DistIInv, DistTypeOK, CallsNamed
<1>4. ASSUME ~overlapped' PROVE InOrder'
  <2>1. HoldsAlone'
    BY <1>4 DEF DistIInv, DistTypeOK, InOrder, HoldsAlone, Holding
  <2>2. PartialAlone'
    BY <1>4 DEF DistIInv, DistTypeOK, InOrder, HoldsAlone, Holding, PartialAlone, FinalKnown,
       OfferedWhole
  <2>3. ReceivedWritten'
    BY <1>4 DEF DistIInv, DistTypeOK, InOrder, HoldsAlone, Holding, PartialAlone,
       ReceivedWritten
  <2>4. FinalKnown'
    BY <1>4 DEF DistIInv, DistTypeOK, InOrder, HoldsAlone, Holding, PathsApart, PartialAlone,
       CallsNamed, FinalKnown, OfferedWhole
  <2>5. OfferedWhole'
    BY <1>4 DEF DistIInv, DistTypeOK, InOrder, HoldsAlone, Holding, PathsApart, PartialAlone,
       CallsNamed, FinalKnown, OfferedWhole
  <2>6. QED
    BY <2>1, <2>2, <2>3, <2>4, <2>5 DEF InOrder
<1>5. QED
  BY <1>1, <1>2, <1>3, <1>4 DEF DistIInv

LEMMA ModelPublish ==
  ASSUME DistIInv, NEW t \in Caller, PublishModel(t)
  PROVE  DistIInv'
<1> USE MetadataIsContents, DistributionAssumption DEF PublishModel, BeginCall, EndOfCall
<1>1. DistTypeOK'
  BY DEF DistIInv, DistTypeOK, Begun, Ending
<1>2. PathsApart'
  BY DEF DistIInv, DistTypeOK, PathsApart
<1>3. CallsNamed'
  BY DEF DistIInv, DistTypeOK, CallsNamed
<1>4. ASSUME ~overlapped' PROVE InOrder'
  <2>1. HoldsAlone'
    BY <1>4 DEF DistIInv, DistTypeOK, InOrder, HoldsAlone, Holding
  <2>2. PartialAlone'
    BY <1>4 DEF DistIInv, DistTypeOK, InOrder, HoldsAlone, Holding, PartialAlone, FinalKnown,
       OfferedWhole
  <2>3. ReceivedWritten'
    BY <1>4 DEF DistIInv, DistTypeOK, InOrder, HoldsAlone, Holding, PartialAlone,
       ReceivedWritten
  <2>4. FinalKnown'
    BY <1>4 DEF DistIInv, DistTypeOK, InOrder, HoldsAlone, Holding, PathsApart, PartialAlone,
       CallsNamed, FinalKnown, OfferedWhole
  <2>5. OfferedWhole'
    BY <1>4 DEF DistIInv, DistTypeOK, InOrder, HoldsAlone, Holding, PathsApart, PartialAlone,
       CallsNamed, FinalKnown, OfferedWhole
  <2>6. QED
    BY <2>1, <2>2, <2>3, <2>4, <2>5 DEF InOrder
<1>5. QED
  BY <1>1, <1>2, <1>3, <1>4 DEF DistIInv

LEMMA ModelCancel ==
  ASSUME DistIInv, cancel_download
  PROVE  DistIInv'
<1> USE MetadataIsContents, DistributionAssumption DEF cancel_download, callVars
<1>1. DistTypeOK'
  BY DEF DistIInv, DistTypeOK, Begun, Ending
<1>2. PathsApart'
  BY DEF DistIInv, DistTypeOK, PathsApart
<1>3. CallsNamed'
  BY DEF DistIInv, DistTypeOK, CallsNamed
<1>4. ASSUME ~overlapped' PROVE InOrder'
  <2>1. HoldsAlone'
    BY <1>4 DEF DistIInv, DistTypeOK, InOrder, HoldsAlone, Holding
  <2>2. PartialAlone'
    BY <1>4 DEF DistIInv, DistTypeOK, InOrder, HoldsAlone, Holding, PartialAlone, FinalKnown,
       OfferedWhole
  <2>3. ReceivedWritten'
    BY <1>4 DEF DistIInv, DistTypeOK, InOrder, HoldsAlone, Holding, PartialAlone,
       ReceivedWritten
  <2>4. FinalKnown'
    BY <1>4 DEF DistIInv, DistTypeOK, InOrder, HoldsAlone, Holding, PathsApart, PartialAlone,
       CallsNamed, FinalKnown, OfferedWhole
  <2>5. OfferedWhole'
    BY <1>4 DEF DistIInv, DistTypeOK, InOrder, HoldsAlone, Holding, PathsApart, PartialAlone,
       CallsNamed, FinalKnown, OfferedWhole
  <2>6. QED
    BY <2>1, <2>2, <2>3, <2>4, <2>5 DEF InOrder
<1>5. QED
  BY <1>1, <1>2, <1>3, <1>4 DEF DistIInv

LEMMA ModelScan ==
  ASSUME DistIInv, scan_available_models
  PROVE  DistIInv'
<1> USE MetadataIsContents, DistributionAssumption DEF scan_available_models, from_file, callVars
<1>1. DistTypeOK'
  BY DEF DistIInv, DistTypeOK, Begun, Ending
<1>2. PathsApart'
  BY DEF DistIInv, DistTypeOK, PathsApart
<1>3. CallsNamed'
  BY DEF DistIInv, DistTypeOK, CallsNamed
<1>4. ASSUME ~overlapped' PROVE InOrder'
  <2>1. HoldsAlone'
    BY <1>4 DEF DistIInv, DistTypeOK, InOrder, HoldsAlone, Holding
  <2>2. PartialAlone'
    BY <1>4 DEF DistIInv, DistTypeOK, InOrder, HoldsAlone, Holding, PartialAlone, FinalKnown,
       OfferedWhole
  <2>3. ReceivedWritten'
    BY <1>4 DEF DistIInv, DistTypeOK, InOrder, HoldsAlone, Holding, PartialAlone,
       ReceivedWritten
  <2>4. FinalKnown'
    BY <1>4 DEF DistIInv, DistTypeOK, InOrder, HoldsAlone, Holding, PathsApart, PartialAlone,
       CallsNamed, FinalKnown, OfferedWhole
  <2>5. OfferedWhole'
    BY <1>4 DEF DistIInv, DistTypeOK, InOrder, HoldsAlone, Holding, PathsApart, PartialAlone,
       CallsNamed, FinalKnown, OfferedWhole
  <2>6. QED
    BY <2>1, <2>2, <2>3, <2>4, <2>5 DEF InOrder
<1>5. QED
  BY <1>1, <1>2, <1>3, <1>4 DEF DistIInv

LEMMA ModelRestart ==
  ASSUME DistIInv, Restart
  PROVE  DistIInv'
<1> USE MetadataIsContents, DistributionAssumption DEF Restart, from_file
<1>1. DistTypeOK'
  BY DEF DistIInv, DistTypeOK, Begun, Ending
<1>2. PathsApart'
  BY DEF DistIInv, DistTypeOK, PathsApart
<1>3. CallsNamed'
  BY DEF DistIInv, DistTypeOK, CallsNamed
<1>4. ASSUME ~overlapped' PROVE InOrder'
  <2>1. HoldsAlone'
    BY <1>4 DEF DistIInv, DistTypeOK, InOrder, HoldsAlone, Holding
  <2>2. PartialAlone'
    BY <1>4 DEF DistIInv, DistTypeOK, InOrder, HoldsAlone, Holding, PartialAlone, FinalKnown,
       OfferedWhole
  <2>3. ReceivedWritten'
    BY <1>4 DEF DistIInv, DistTypeOK, InOrder, HoldsAlone, Holding, PartialAlone,
       ReceivedWritten
  <2>4. FinalKnown'
    BY <1>4 DEF DistIInv, DistTypeOK, InOrder, HoldsAlone, Holding, PathsApart, PartialAlone,
       CallsNamed, FinalKnown, OfferedWhole
  <2>5. OfferedWhole'
    BY <1>4 DEF DistIInv, DistTypeOK, InOrder, HoldsAlone, Holding, PathsApart, PartialAlone,
       CallsNamed, FinalKnown, OfferedWhole
  <2>6. QED
    BY <2>1, <2>2, <2>3, <2>4, <2>5 DEF InOrder
<1>5. QED
  BY <1>1, <1>2, <1>3, <1>4 DEF DistIInv

LEMMA DistInitIInv == DistInit => DistIInv
BY MetadataIsContents
   DEF DistInit, DistIInv, DistTypeOK, PathsApart, CallsNamed, InOrder, HoldsAlone, Holding,
       PartialAlone, ReceivedWritten, FinalKnown, OfferedWhole, Begun, Ending

LEMMA DistNextIInv == DistIInv /\ [DistributionNext]_distVars => DistIInv'
<1> SUFFICES ASSUME DistIInv, [DistributionNext]_distVars PROVE DistIInv'
  OBVIOUS
<1>1. ASSUME NEW t \in Caller, CallStep(t) PROVE DistIInv'
  BY <1>1, ModelStart, ModelCheck, ModelCreate, ModelInsert, ModelTake, ModelVerify,
     ModelRename,
     ModelPublish DEF CallStep
<1>2. ASSUME NEW index \in Chunk, NEW data \in Data, write_chunk(index, data) PROVE DistIInv'
  BY <1>2, ModelWrite
<1>3. CASE UNCHANGED distVars
  BY <1>3 DEF distVars, DistIInv, DistTypeOK, PathsApart, CallsNamed, InOrder, HoldsAlone,
     PartialAlone,
              ReceivedWritten, FinalKnown, OfferedWhole
<1>4. QED
  BY <1>1, <1>2, <1>3, ModelCancel, ModelScan, ModelRestart DEF DistributionNext

\* Every reachable state of the distribution is well typed.
THEOREM DistributionTypeCorrect == DistributionSpec => []DistTypeOK
<1>1. DistIInv => DistTypeOK
  BY DEF DistIInv
<1>2. QED
  BY <1>1, DistInitIInv, DistNextIInv, PTL DEF DistributionSpec

\* What a node downloads and offers.
THEOREM DownloadsAreTrue == DistributionSpec => []FilesTrue
<1>1. DistIInv => FilesTrue
  <2> SUFFICES ASSUME DistIInv PROVE FilesTrue
    OBVIOUS
  <2>1. FilesMatchMetadata
    BY DEF DistIInv, InOrder, PartialAlone, ReceivedWritten, OfferedWhole, FilesMatchMetadata
  <2>2. InstalledIsWhole
    BY MetadataIsContents DEF DistIInv, InOrder, FinalKnown, InstalledIsWhole
  <2>3. QED
    BY <2>1, <2>2 DEF FilesTrue
<1>2. QED
  BY <1>1, DistInitIInv, DistNextIInv, PTL DEF DistributionSpec
===============================================================================
