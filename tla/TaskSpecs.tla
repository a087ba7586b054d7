----------------------------- MODULE TaskSpecs -----------------------------
(***************************************************************************)
(* The task lists a caller hands to execute_parallel or preview_parallel:  *)
(* `ParallelTaskSpec` and the structural validation every list goes        *)
(* through, `ensure_parallel_tasks` (wrangle-core/src/config.rs).          *)
(*                                                                         *)
(* A task is a record.  Texts are reduced to what the checks tell apart:   *)
(* an id is a member of Ids (BlankId is one that trims to nothing), the    *)
(* prompt is "text" or "blank", a session id is absent, valid or invalid,  *)
(* `supported` says whether to_request, select_backend and                 *)
(* ensure_request_supported accept the task under the run's configuration, *)
(* and `attachable` whether it asks for the persistent transport with      *)
(* opencode as its backend, so that its run may be attached to a server.   *)
(***************************************************************************)
EXTENDS Naturals, Sequences

CONSTANTS Ids,        \* the names tasks and dependencies may carry
          BlankId,    \* a name that is empty once trimmed
          TaskLists   \* the task lists callers submit

VARIABLE tasks          \* the list a caller submits

ParallelTaskSpec == [ id           : Ids,
                      task         : {"text", "blank"},
                      session      : {"none", "valid", "invalid"},
                      dependencies : Seq(Ids),
                      supported    : BOOLEAN,
                      attachable   : BOOLEAN ]

ASSUME TaskListsAssumption ==
    /\ BlankId \in Ids
    /\ TaskLists \subseteq Seq(ParallelTaskSpec)

FirstOf(S) == CHOOSE i \in S : \A j \in S : i <= j

-----------------------------------------------------------------------------
\* `id_to_idx.get(id)`: a set of at most one index.  Collecting (id, index)
\* pairs into a HashMap keeps the last index of a repeated id.
Lookup(ts, id) ==
    { i \in DOMAIN ts : /\ ts[i].id = id
                        /\ \A j \in DOMAIN ts : ts[j].id = id => j <= i }

DependencyIds(ts, i) ==
    { ts[i].dependencies[p] : p \in DOMAIN ts[i].dependencies }

\* The edges of the dependency graph that detect_cycle and
\* topological_phases walk: ids that name no task are skipped.
Successors(ts, i) == UNION { Lookup(ts, d) : d \in DependencyIds(ts, i) }

\* The reference definition of a graph without cycles: every non-empty set of
\* tasks holds one that depends on nothing in the set.
Acyclic(ts) ==
    \A S \in SUBSET DOMAIN ts :
        S # {} => \E i \in S : Successors(ts, i) \cap S = {}

-----------------------------------------------------------------------------
\* ensure_parallel_tasks, check by check in the order of its early returns.
BlankFields(ts) ==
    { i \in DOMAIN ts : ts[i].id = BlankId \/ ts[i].task = "blank" }

BlankFieldError(t) == IF t.id = BlankId THEN "EmptyTaskId" ELSE "EmptyTask"

UniqueIds(ts) == \A i, j \in DOMAIN ts : ts[i].id = ts[j].id => i = j

\* Positions in task i's dependency list that name the task itself or nobody.
BadReferences(ts, i) ==
    { p \in DOMAIN ts[i].dependencies :
        \/ ts[i].dependencies[p] = ts[i].id
        \/ \A j \in DOMAIN ts : ts[j].id # ts[i].dependencies[p] }

BadTasks(ts) ==
    { i \in DOMAIN ts : ts[i].session = "invalid" \/ BadReferences(ts, i) # {} }

ReferenceError(ts, i) ==
    IF ts[i].session = "invalid" THEN "InvalidSessionId"
    ELSE IF ts[i].dependencies[FirstOf(BadReferences(ts, i))] = ts[i].id
         THEN "SelfDependency" ELSE "UnknownDependency"

\* mutant: the list is not checked for cycles
EnsureReferencesOnly(ts) ==
    IF ts = <<>> THEN "NoTasks"
    ELSE IF BlankFields(ts) # {} THEN BlankFieldError(ts[FirstOf(BlankFields(ts))])
    ELSE IF ~UniqueIds(ts) THEN "DuplicateTaskId"
    ELSE IF BadTasks(ts) # {} THEN ReferenceError(ts, FirstOf(BadTasks(ts)))
    ELSE "Ok"

\* mutant: ids may repeat
EnsureWithoutUniqueIds(ts) ==
    IF ts = <<>> THEN "NoTasks"
    ELSE IF BlankFields(ts) # {} THEN BlankFieldError(ts[FirstOf(BlankFields(ts))])
    ELSE IF BadTasks(ts) # {} THEN ReferenceError(ts, FirstOf(BadTasks(ts)))
    ELSE IF ~Acyclic(ts) THEN "CircularGraph"
    ELSE "Ok"

\* The last check, detect_cycle, is modelled step by step in CycleDetection,
\* which shows that it answers ~Acyclic(ts).
EnsureParallelTasks(ts) ==
    IF ts = <<>> THEN "NoTasks"
    ELSE IF BlankFields(ts) # {} THEN BlankFieldError(ts[FirstOf(BlankFields(ts))])
    ELSE IF ~UniqueIds(ts) THEN "DuplicateTaskId"
    ELSE IF BadTasks(ts) # {} THEN ReferenceError(ts, FirstOf(BadTasks(ts)))
    ELSE IF ~Acyclic(ts) THEN "CircularGraph"
    ELSE "Ok"

\* What a list that passes is known to satisfy.
Validated(ts) ==
    /\ ts # <<>>
    /\ UniqueIds(ts)
    /\ \A i \in DOMAIN ts : BadReferences(ts, i) = {}
    /\ Acyclic(ts)
=============================================================================
