----------------------------- MODULE ModelCache -----------------------------
(***************************************************************************)
(* The cache of loaded models (inference/cache.rs) and the two operations  *)
(* of the InferenceEngine that use it, load_model and generate             *)
(* (inference/mod.rs), called by concurrent tasks.                         *)
(*                                                                         *)
(* The cache has two locks, one for the map and one for the memory         *)
(* estimate; a step below is what happens under one of them (evict_lru     *)
(* nests them, and nobody looks at the estimate through the map), so       *)
(* whatever a task read before is stale when it uses it.  Nothing removes  *)
(* a reference: Drop of ModelUseGuard does not call release.               *)
(***************************************************************************)
EXTENDS Integers, FiniteSets, Totals

CONSTANTS
    Model,            \* models in the registry
    SizeOf,           \* estimate_ram_mb of each
    CacheTask,
    max_models, max_memory_mb,
    MaxUses           \* bound: references ever taken to one entry

ASSUME CacheAssumption ==
    /\ SizeOf \in [Model -> Nat]
    /\ IsFiniteSet(CacheTask) /\ CacheTask # {}
    /\ max_models \in Nat /\ max_memory_mb \in Nat /\ MaxUses \in Nat

VARIABLES
    loaded,     \* the keys of models
    ref_count,  \* of the entry of each loaded model
    current,    \* current_memory_mb
    cacheTask   \* where each task is

cacheVars == <<loaded, ref_count, current, cacheTask>>

\* "asked": called generate or load_model; "missing": the model is not loaded;
\* "sized": has read current_memory_mb; "full": has seen max_models models;
\* "shrinking": in the loop of evict_until_fits; "tight": its last look said
\* evict; "fits": capacity is ensured; "inserted": the map has the model, the
\* estimate does not; "ready": load_model returned; "using": holds the entry.
LoadStage == {"idle", "asked", "missing", "sized", "full", "shrinking", "tight", "fits",
              "inserted", "ready", "using"}

NoModel == "none"

\* seen: the estimate it has read; orphan: the entry it uses was replaced since.
TaskState == [pc : LoadStage, model : Model \cup {NoModel}, generates : BOOLEAN, seen : Nat,
              orphan : BOOLEAN]

CacheTypeOK ==
    /\ loaded \subseteq Model
    /\ ref_count \in [Model -> 0..MaxUses]
    /\ current \in Nat
    /\ cacheTask \in [CacheTask -> TaskState]

IdleLoad == [pc |-> "idle", model |-> NoModel, generates |-> FALSE, seen |-> 0,
             orphan |-> FALSE]

CacheInit ==
    /\ loaded = {}
    /\ ref_count = [m \in Model |-> 0]
    /\ current = 0
    /\ cacheTask = [t \in CacheTask |-> IdleLoad]

-----------------------------------------------------------------------------
At(t, stage) == cacheTask[t].pc = stage

Moves(t, stage) == cacheTask' = [cacheTask EXCEPT ![t].pc = stage]

\* A call returns, with Ok or an error.
EndCall(t) == cacheTask' = [cacheTask EXCEPT ![t] = IdleLoad]

cacheState == <<loaded, ref_count, current>>

Asks(t, m, generates) ==
    /\ At(t, "idle")
    /\ cacheTask' = [cacheTask EXCEPT ![t] = [IdleLoad EXCEPT !.pc = "asked", !.model = m,
                                                          !.generates = generates]]
    /\ UNCHANGED cacheState

\* is_loaded, asked by generate and again by load_model.
Look(t) ==
    /\ At(t, "asked")
    /\ Moves(t, IF cacheTask[t].model \in loaded THEN "ready" ELSE "missing")
    /\ UNCHANGED cacheState

\* ensure_capacity: first the estimate, under its own lock,
ReadMemory(t) ==
    /\ At(t, "missing")
    /\ cacheTask' = [cacheTask EXCEPT ![t].pc = "sized", ![t].seen = current]
    /\ UNCHANGED cacheState

Fits(t, memory) == memory + SizeOf[cacheTask[t].model] <= max_memory_mb

AfterCountCheck(t) == IF Fits(t, cacheTask[t].seen) THEN "fits" ELSE "shrinking"

\* A mutation: the limit is checked with > instead of >=.
AtModelLimit_OffByOne == Cardinality(loaded) > max_models

AtModelLimit == Cardinality(loaded) >= max_models

\* then the number of models; the estimate of before decides what comes next.
ReadCount(t) ==
    /\ At(t, "sized")
    /\ Moves(t, IF AtModelLimit THEN "full" ELSE AfterCountCheck(t))
    /\ UNCHANGED cacheState

\* A mutation: a model in use may be evicted.
Unused_Any == loaded

Unused == {m \in loaded : ref_count[m] = 0}

\* A mutation: the subtraction does not saturate.
Lowered_Unchecked(memory) == current - memory

\* current.saturating_sub(memory)
Lowered(memory) == IF current > memory THEN current - memory ELSE 0

\* evict_lru, under the map's lock: some model nobody uses (the least recently
\* used one, which is not modelled) goes, or AllModelsInUse.
EvictLru(t, next) ==
    \/ \E m \in Unused :
        /\ loaded' = loaded \ {m}
        /\ current' = Lowered(SizeOf[m])
        /\ Moves(t, next)
        /\ UNCHANGED ref_count
    \/ /\ Unused = {}
       /\ EndCall(t)
       /\ UNCHANGED cacheState

EvictForCount(t) == At(t, "full") /\ EvictLru(t, AfterCountCheck(t))

\* evict_until_fits looks at the estimate again before each eviction.
ReadMemoryAgain(t) ==
    /\ At(t, "shrinking")
    /\ Moves(t, IF Fits(t, current) THEN "fits" ELSE "tight")
    /\ UNCHANGED cacheState

EvictForMemory(t) == At(t, "tight") /\ EvictLru(t, "shrinking")

\* insert: the map first.  An entry that another task has inserted meanwhile is
\* replaced by one without references.
Insert(t) ==
    /\ At(t, "fits")
    /\ loaded' = loaded \cup {cacheTask[t].model}
    /\ ref_count' = [ref_count EXCEPT ![cacheTask[t].model] = 0]
    /\ cacheTask' = [u \in CacheTask |->
                  IF u = t THEN [cacheTask[u] EXCEPT !.pc = "inserted"]
                  ELSE [cacheTask[u] EXCEPT !.orphan = @ \/ (cacheTask[u].pc = "using" /\
                                                       cacheTask[u].model = cacheTask[t].model)]]
    /\ UNCHANGED current

\* A mutation: = instead of +=.
Account_Assigns(t) ==
    /\ At(t, "inserted")
    /\ Moves(t, "ready")
    /\ current' = SizeOf[cacheTask[t].model]
    /\ UNCHANGED <<loaded, ref_count>>

\* then the estimate, under its own lock.
Account(t) ==
    /\ At(t, "inserted")
    /\ Moves(t, "ready")
    /\ current' = current + SizeOf[cacheTask[t].model]
    /\ UNCHANGED <<loaded, ref_count>>

\* load_model returns; generate goes on to get, which may find the model evicted.
Get(t) ==
    /\ At(t, "ready")
    /\ LET m == cacheTask[t].model IN
       IF cacheTask[t].generates /\ m \in loaded
       THEN /\ ref_count[m] < MaxUses
            /\ ref_count' = [ref_count EXCEPT ![m] = @ + 1]
            /\ Moves(t, "using")
       ELSE EndCall(t) /\ UNCHANGED ref_count
    /\ UNCHANGED <<loaded, current>>

\* The end of generate: the guard is dropped, and releases nothing.
EndGenerate(t) ==
    /\ At(t, "using")
    /\ EndCall(t)
    /\ UNCHANGED cacheState

CacheNext ==
    \E t \in CacheTask :
        \/ \E m \in Model, g \in BOOLEAN : Asks(t, m, g)
        \/ Look(t) \/ ReadMemory(t) \/ ReadCount(t) \/ EvictForCount(t)
        \/ ReadMemoryAgain(t) \/ EvictForMemory(t) \/ Insert(t) \/ Account(t)
        \/ Get(t) \/ EndGenerate(t)

CacheSpec == CacheInit /\ [][CacheNext]_cacheVars

-----------------------------------------------------------------------------
(* Properties *)

\* Nobody's model is unloaded under it: an entry that a task has got from the
\* cache is evicted only after the task is done with it, although the eviction
\* that picks it may have been decided on a stale estimate.
UsedEntryStays ==
    \A t \in CacheTask :
        (cacheTask[t].pc = "using" /\ ~cacheTask[t].orphan) => cacheTask[t].model \in loaded

\* Two tasks may both see room for one more model, but never more than one model
\* per task: the map passes its limit by at most the other tasks.
ModelCountBounded == Cardinality(loaded) <= max_models + Cardinality(CacheTask) - 1

\* "Guard that releases model reference when dropped." (inference/mod.rs:343)
\* A model nobody uses has no references, so it can be evicted.
RefsAreUsers ==
    \A m \in loaded :
        ref_count[m] > 0 => \E t \in CacheTask : At(t, "using") /\ cacheTask[t].model = m

\* insert and evict_lru update the estimate and the map at different moments,
\* and a model loaded twice is counted twice: the estimate, with what insert is
\* about to add, is never below what is loaded, so the memory limit is never
\* passed because of a wrong estimate.
Adding == [t \in CacheTask |-> IF At(t, "inserted") THEN SizeOf[cacheTask[t].model] ELSE 0]

MemoryNotUnderestimated == current + Total(Adding, CacheTask) >= Total(SizeOf, loaded)

\* What concurrent loads keep of the promises of the cache (inference/cache.rs).
ModelsSound == UsedEntryStays /\ ModelCountBounded /\ MemoryNotUnderestimated
=============================================================================
