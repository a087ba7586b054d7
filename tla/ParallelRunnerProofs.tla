----------------------- MODULE ParallelRunnerProofs -----------------------
(***************************************************************************)
(* Theorems about ParallelRunner, for every set of task lists and of       *)
(* worker limits.  IInv is the inductive invariant they follow from.  At   *)
(* the end, that a call cannot go on for ever.                             *)
(***************************************************************************)
EXTENDS ParallelRunner, ListsProofs

\* What the type of a list says of its entries.
LEMMA TaskListFacts ==
    ASSUME NEW ts \in Seq(ParallelTaskSpec)
    PROVE  /\ DOMAIN ts = 1 .. Len(ts) /\ Len(ts) \in Nat
           /\ \A i \in DOMAIN ts :
                 /\ ts[i].id \in Ids
                 /\ ts[i].dependencies \in Seq(Ids)
                 /\ DependencyIds(ts, i) \subseteq Ids
<1>1. \A i \in DOMAIN ts : ts[i] \in ParallelTaskSpec
  OBVIOUS
<1>2. ASSUME NEW i \in DOMAIN ts
      PROVE  /\ ts[i].id \in Ids
             /\ ts[i].dependencies \in Seq(Ids)
             /\ DependencyIds(ts, i) \subseteq Ids
  <2>1. ts[i].id \in Ids /\ ts[i].dependencies \in Seq(Ids)
    BY <1>1 DEF ParallelTaskSpec
  <2>2. \A p \in DOMAIN ts[i].dependencies : ts[i].dependencies[p] \in Ids
    BY <2>1
  <2> QED
    BY <2>1, <2>2 DEF DependencyIds
<1> QED
  BY <1>2

\* A list that ensure_parallel_tasks lets through has unique ids, references
\* that resolve and no cycle.
LEMMA ValidationMeansValidated ==
    ASSUME NEW ts, EnsureParallelTasks(ts) = "Ok"
    PROVE  Validated(ts)
<1>1. /\ ts # <<>> /\ BlankFields(ts) = {} /\ UniqueIds(ts)
      /\ BadTasks(ts) = {} /\ Acyclic(ts)
  BY DEF EnsureParallelTasks, BlankFieldError, ReferenceError
<1>2. \A i \in DOMAIN ts : BadReferences(ts, i) = {}
  BY <1>1 DEF BadTasks
<1> QED
  BY <1>1, <1>2 DEF Validated

\* In a validated list, if every task outside a non-empty P has a result, a
\* task of P has all its dependencies' results: a scheduler is never stuck.
LEMMA ReadyTaskExists ==
    ASSUME NEW ts \in Seq(ParallelTaskSpec), Validated(ts),
           NEW P \in SUBSET DOMAIN ts, P # {},
           NEW res, \A j \in DOMAIN ts \ P : res[ts[j].id] # "none"
    PROVE  \E i \in P : \A d \in DependencyIds(ts, i) : res[d] # "none"
<1>1. PICK i \in P : Successors(ts, i) \cap P = {}
  BY DEF Validated, Acyclic
<1>2. ASSUME NEW d \in DependencyIds(ts, i)
      PROVE  res[d] # "none"
  <2>1. PICK j \in DOMAIN ts : ts[j].id = d
    BY <1>2 DEF Validated, BadReferences, DependencyIds
  <2>2. j \in Lookup(ts, d)
    <3>1. \A k \in DOMAIN ts : ts[k].id = d => k = j
      BY <2>1 DEF Validated, UniqueIds
    <3>2. DOMAIN ts \subseteq Nat
      OBVIOUS
    <3> QED
      BY <2>1, <3>1, <3>2 DEF Lookup
  <2>3. j \in Successors(ts, i)
    BY <1>2, <2>2 DEF Successors
  <2> QED
    BY <1>1, <2>1, <2>3
<1> QED
  BY <1>1, <1>2

-----------------------------------------------------------------------------

InTheLoop == pc \in {"fill", "join"}

LoopReplies == {"Ok", "CircularDependency", "TaskError"}

\* How far a backend process is, given its worker.
ChildFollowsWorker ==
    \A i \in DOMAIN tasks :
        /\ worker[i] \in {"unspawned", "spawned"} => child[i] = "none"
        /\ worker[i] = "attached" => child[i] = "alive"
        /\ worker[i] \in Outcomes => child[i] = "exited"
        /\ results[tasks[i].id] # "none" => child[i] = "exited"
        /\ worker[i] = "cancelled" => pc = "returned"
        /\ child[i] = "alive" /\ pc # "returned" => i \in Running

\* Only an attachable task's process is given up, and after the task was taken.
LeftFollowsTask ==
    \A i \in DOMAIN tasks :
        left[i] # "none" => tasks[i].attachable /\ worker[i] # "unspawned"

\* A task leaves `pending` only after its dependencies have results.
DependenciesHaveResults ==
    \A i \in DOMAIN tasks : worker[i] # "unspawned" =>
        \A d \in DependencyIds(tasks, i) : results[d] # "none"

\* The loop runs on lists that passed ensure_parallel_tasks only.
LoopIsValidated ==
    /\ InTheLoop \/ reply \in LoopReplies => Validated(tasks)
    /\ ~(InTheLoop \/ reply \in LoopReplies) =>
            \A i \in DOMAIN tasks : worker[i] = "unspawned"

LoopHasTasks == InTheLoop => pending # {} \/ Running # {}

\* What the inner loop leaves when it ends stays true while workers run.
FillIsComplete == pc = "join" => ~HasCapacity \/ ReadyTasks = {}

Occupied == Running \cup Alive

Occupancy == Cardinality(Occupied) <= maxWorkers

QuietReturn == pc = "returned" /\ reply # "TaskError" => Occupied = {}

IInv ==
    /\ TypeOK
    /\ NoTaskLost
    /\ ChildFollowsWorker
    /\ LeftFollowsTask
    /\ DependenciesHaveResults
    /\ LoopIsValidated
    /\ LoopHasTasks
    /\ FillIsComplete
    /\ Occupancy
    /\ QuietReturn
    /\ CircularReportIsSpurious

-----------------------------------------------------------------------------
\* What the type invariant says of the list.
LEMMA ListFacts ==
    ASSUME tasks \in TaskLists
    PROVE  /\ tasks \in Seq(ParallelTaskSpec)
           /\ DOMAIN tasks \subseteq Nat
           /\ IsFiniteSet(DOMAIN tasks)
           /\ \A i \in DOMAIN tasks :
                 tasks[i].id \in Ids /\ DependencyIds(tasks, i) \subseteq Ids
<1>1. tasks \in Seq(ParallelTaskSpec)
  BY TaskListsAssumption
<1>2. DOMAIN tasks = 1 .. Len(tasks) /\ Len(tasks) \in Nat
  BY <1>1, TaskListFacts
<1>3. IsFiniteSet(DOMAIN tasks)
  BY <1>2, FS_Interval
<1> QED
  BY <1>1, <1>2, <1>3, TaskListFacts

LEMMA OccupiedIsFinite ==
    ASSUME tasks \in TaskLists
    PROVE  /\ IsFiniteSet(Occupied) /\ IsFiniteSet(Running) /\ IsFiniteSet(Alive)
           /\ Cardinality(Occupied) \in Nat /\ Cardinality(Running) \in Nat
<1>1. Occupied \subseteq DOMAIN tasks /\ Running \subseteq DOMAIN tasks /\ Alive \subseteq DOMAIN tasks
  BY DEF Occupied, Running, Finished, Alive
<1> QED
  BY <1>1, ListFacts, FS_Subset, FS_CardinalityType

\* A step that occupies no new task keeps the bound.
LEMMA OccupancyShrinks ==
    ASSUME TypeOK, Occupancy, UNCHANGED <<tasks, maxWorkers>>, Occupied' \subseteq Occupied
    PROVE  Occupancy'
<1>1. IsFiniteSet(Occupied) /\ Cardinality(Occupied) \in Nat
  BY OccupiedIsFinite DEF TypeOK
<1>2. Cardinality(Occupied') <= Cardinality(Occupied) /\ Cardinality(Occupied') \in Nat
  BY <1>1, FS_Subset, FS_CardinalityType
<1>3. maxWorkers \in Nat /\ maxWorkers' = maxWorkers
  BY WorkerLimitsAssumption DEF TypeOK
<1> QED
  BY <1>1, <1>2, <1>3 DEF Occupancy

-----------------------------------------------------------------------------
LEMMA InitEstablishes == Init => IInv
<1> SUFFICES ASSUME Init PROVE IInv
  OBVIOUS
<1> USE DEF Init
<1>1. TypeOK
  BY DEF TypeOK, Replies, WorkerStates
<1>2. /\ NoTaskLost /\ ChildFollowsWorker /\ LeftFollowsTask
      /\ DependenciesHaveResults /\ LoopIsValidated
  BY ListFacts DEF NoTaskLost, ChildFollowsWorker, LeftFollowsTask, DependenciesHaveResults,
                   LoopIsValidated, InTheLoop, LoopReplies, Outcomes
<1>3. Occupied = {}
  BY DEF Occupied, Running, Finished, Alive
<1>4. Occupancy
  BY <1>1, <1>3, FS_EmptySet, WorkerLimitsAssumption DEF Occupancy, TypeOK
<1>5. LoopHasTasks /\ FillIsComplete /\ QuietReturn /\ CircularReportIsSpurious
  BY <1>3 DEF LoopHasTasks, FillIsComplete, QuietReturn, CircularReportIsSpurious, InTheLoop
<1> QED
  BY <1>1, <1>2, <1>3, <1>4, <1>5 DEF IInv

LEMMA ValidateStep == IInv /\ Validate => IInv'
<1> SUFFICES ASSUME IInv, Validate PROVE IInv'
  OBVIOUS
<1> USE DEF IInv
<1>0. /\ pc = "validate" /\ reply = "none"
      /\ UNCHANGED <<tasks, maxWorkers, pending, worker, child, left, results>>
      /\ \A i \in DOMAIN tasks : worker[i] = "unspawned"
  BY DEF Validate, TypeOK, LoopIsValidated, InTheLoop, LoopReplies
<1>1. \/ pc' = "returned" /\ reply' \in ValidationErrors \cup {"Unsupported"}
      \/ pc' = "fill" /\ reply' = "none" /\ EnsureParallelTasks(tasks) = "Ok"
  BY <1>0 DEF Validate, ReturnErr, EnsureParallelTasks, BlankFieldError, ReferenceError, ValidationErrors
<1>2. TypeOK'
  BY <1>0, <1>1 DEF TypeOK, Replies, ValidationErrors
<1>3. NoTaskLost' /\ ChildFollowsWorker' /\ LeftFollowsTask' /\ DependenciesHaveResults'
  BY <1>0, <1>1 DEF NoTaskLost, ChildFollowsWorker, LeftFollowsTask, DependenciesHaveResults,
                    Running, Finished, Outcomes, TypeOK
<1>4. LoopIsValidated'
  BY <1>0, <1>1, ValidationMeansValidated DEF LoopIsValidated, InTheLoop, LoopReplies, ValidationErrors
<1>5. LoopHasTasks'
  <2>1. CASE pc' = "returned"
    BY <2>1 DEF LoopHasTasks, InTheLoop
  <2>2. CASE pc' = "fill" /\ EnsureParallelTasks(tasks) = "Ok"
    <3>1. tasks # <<>> /\ tasks \in Seq(ParallelTaskSpec)
      BY <2>2, ValidationMeansValidated, ListFacts DEF Validated, TypeOK
    <3>2. Len(tasks) # 0 /\ Len(tasks) \in Nat /\ DOMAIN tasks = 1..Len(tasks)
      BY <3>1, EmptySeq
    <3>3. 1 \in DOMAIN tasks
      BY <3>2
    <3> QED
      BY <1>0, <3>3 DEF LoopHasTasks, NoTaskLost
  <2> QED
    BY <1>1, <2>1, <2>2
<1>6. FillIsComplete' /\ CircularReportIsSpurious'
  BY <1>1 DEF FillIsComplete, CircularReportIsSpurious, ValidationErrors
<1>7. Occupied = {} /\ Occupied' = Occupied
  BY <1>0 DEF Occupied, Running, Finished, Alive, ChildFollowsWorker
<1>8. Occupancy' /\ QuietReturn'
  BY <1>0, <1>7, OccupancyShrinks DEF QuietReturn
<1> QED
  BY <1>2, <1>3, <1>4, <1>5, <1>6, <1>8 DEF IInv

LEMMA SpawnStep == IInv /\ Spawn => IInv'
<1> SUFFICES ASSUME IInv, Spawn PROVE IInv'
  OBVIOUS
<1> USE DEF IInv
<1>1. PICK i \in ReadyTasks : /\ pending' = pending \ {i}
                             /\ worker' = [worker EXCEPT ![i] = "spawned"]
  BY DEF Spawn, Take
<1>0. /\ pc = "fill" /\ pc' = "fill" /\ reply = "none" /\ HasCapacity
      /\ UNCHANGED <<tasks, maxWorkers, child, left, results, reply, returned>>
      /\ pending' = pending \ {i} /\ worker' = [worker EXCEPT ![i] = "spawned"]
  BY <1>1 DEF Spawn, TypeOK
<1>2. /\ i \in pending /\ i \in DOMAIN tasks /\ worker[i] = "unspawned" /\ child[i] = "none"
      /\ \A d \in DependencyIds(tasks, i) : results[d] # "none"
  BY <1>1 DEF ReadyTasks, Ready, TypeOK, NoTaskLost, ChildFollowsWorker
<1>3. TypeOK'
  BY <1>0, <1>2 DEF TypeOK, WorkerStates
<1>4. NoTaskLost' /\ DependenciesHaveResults' /\ ChildFollowsWorker' /\ LeftFollowsTask'
  BY <1>0, <1>2 DEF TypeOK, NoTaskLost, DependenciesHaveResults, ChildFollowsWorker,
                    LeftFollowsTask, Running, Finished, Outcomes
<1>5. LoopIsValidated'
  BY <1>0 DEF LoopIsValidated, InTheLoop
<1>6. Running' = Running \cup {i}
  BY <1>0, <1>2 DEF Running, Finished, TypeOK
<1>7. LoopHasTasks' /\ FillIsComplete' /\ QuietReturn' /\ CircularReportIsSpurious'
  BY <1>0, <1>6 DEF LoopHasTasks, FillIsComplete, QuietReturn, CircularReportIsSpurious
<1>8. Occupancy'
  <2>1. Occupied = Running
    BY <1>0 DEF Occupied, Alive, ChildFollowsWorker
  <2>2. Occupied' = Running \cup {i}
    BY <1>0, <1>6, <2>1 DEF Occupied, Alive
  <2>3. Cardinality(Running) \in Nat /\ IsFiniteSet(Running)
    BY OccupiedIsFinite DEF TypeOK
  <2>4. i \notin Running
    BY <1>2 DEF Running, Finished
  <2>5. Cardinality(Occupied') = Cardinality(Running) + 1
    BY <2>2, <2>3, <2>4, FS_AddElement
  <2>6. maxWorkers \in Nat /\ maxWorkers' = maxWorkers
    BY <1>0, WorkerLimitsAssumption DEF TypeOK
  <2> QED
    BY <1>0, <2>3, <2>5, <2>6 DEF Occupancy, HasCapacity
<1> QED
  BY <1>3, <1>4, <1>5, <1>7, <1>8 DEF IInv

LEMMA StopFillingStep == IInv /\ StopFilling => IInv'
<1> SUFFICES ASSUME IInv, StopFilling PROVE IInv'
  OBVIOUS
<1> USE DEF IInv
<1>0. /\ pc = "fill" /\ pc' = "join" /\ reply = "none"
      /\ UNCHANGED <<tasks, maxWorkers, pending, worker, child, left, results, reply, returned>>
  BY DEF StopFilling, TypeOK
<1>1. TypeOK' /\ NoTaskLost' /\ DependenciesHaveResults' /\ LeftFollowsTask'
  BY <1>0 DEF TypeOK, NoTaskLost, DependenciesHaveResults, LeftFollowsTask
<1>2. Running' = Running /\ Alive' = Alive /\ Occupied' = Occupied
  BY <1>0 DEF Running, Finished, Alive, Occupied
<1>3. ChildFollowsWorker' /\ LoopIsValidated' /\ LoopHasTasks'
  BY <1>0, <1>2 DEF ChildFollowsWorker, LoopIsValidated, LoopHasTasks, InTheLoop
<1>4. FillIsComplete'
  BY <1>0, <1>2 DEF StopFilling, FillIsComplete, HasCapacity, ReadyTasks, Ready
<1>5. Occupancy' /\ QuietReturn' /\ CircularReportIsSpurious'
  BY <1>0, <1>2, OccupancyShrinks DEF QuietReturn, CircularReportIsSpurious
<1> QED
  BY <1>1, <1>3, <1>4, <1>5 DEF IInv

\* While the call is in its loop, what has left `pending` and the JoinSet has a
\* result; so with an empty JoinSet something pending is ready.
LEMMA EmptyJoinSetMeansReady ==
    ASSUME IInv, InTheLoop, Running = {}, pending # {}
    PROVE  ReadyTasks # {}
<1> USE DEF IInv
<1>1. ASSUME NEW j \in DOMAIN tasks \ pending PROVE results[tasks[j].id] # "none"
  <2>1. worker[j] # "unspawned" /\ worker[j] \in WorkerStates /\ reply = "none"
    BY DEF NoTaskLost, TypeOK, InTheLoop
  <2>2. worker[j] = "joined"
    BY <2>1 DEF Running, Finished, WorkerStates, ChildFollowsWorker, InTheLoop
  <2> QED
    BY <2>1, <2>2 DEF NoTaskLost
<1>2. Validated(tasks) /\ tasks \in Seq(ParallelTaskSpec) /\ pending \in SUBSET DOMAIN tasks
  BY ListFacts DEF LoopIsValidated, TypeOK
<1> QED
  BY <1>1, <1>2, ReadyTaskExists DEF ReadyTasks, Ready

LEMMA JoinNothingStep == IInv /\ JoinNothing => IInv'
<1> SUFFICES ASSUME IInv, JoinNothing PROVE IInv'
  OBVIOUS
<1> USE DEF IInv
<1>0. /\ pc = "join" /\ pc' = "returned" /\ reply' = "CircularDependency"
      /\ Running = {} /\ pending # {}
      /\ UNCHANGED <<tasks, maxWorkers, pending, worker, child, left, results>>
  BY DEF JoinNothing, ReturnErr
<1>1. TypeOK' /\ NoTaskLost' /\ DependenciesHaveResults' /\ LeftFollowsTask'
  BY <1>0 DEF TypeOK, NoTaskLost, DependenciesHaveResults, LeftFollowsTask, Replies
<1>2. Running' = Running /\ Alive' = Alive /\ Occupied' = Occupied
  BY <1>0 DEF Running, Finished, Alive, Occupied
<1>3. Occupied = {}
  BY <1>0 DEF Occupied, Alive, ChildFollowsWorker
<1>4. ChildFollowsWorker' /\ LoopIsValidated' /\ LoopHasTasks' /\ FillIsComplete'
  BY <1>0, <1>2 DEF ChildFollowsWorker, LoopIsValidated, LoopHasTasks, FillIsComplete,
                    InTheLoop, LoopReplies
<1>5. Occupancy' /\ QuietReturn'
  BY <1>0, <1>2, <1>3, OccupancyShrinks DEF QuietReturn
<1>6. CircularReportIsSpurious'
  <2>1. ReadyTasks # {} /\ ReadyTasks' = ReadyTasks
    BY <1>0, EmptyJoinSetMeansReady DEF InTheLoop, ReadyTasks, Ready
  <2>2. Validated(tasks)
    BY <1>0 DEF LoopIsValidated, InTheLoop
  <2> QED
    BY <1>0, <2>1, <2>2 DEF CircularReportIsSpurious, Validated
<1> QED
  BY <1>1, <1>4, <1>5, <1>6 DEF IInv

LEMMA JoinErrorStep ==
    ASSUME NEW i \in DOMAIN tasks PROVE IInv /\ JoinError(i) => IInv'
<1> SUFFICES ASSUME IInv, JoinError(i) PROVE IInv'
  OBVIOUS
<1> USE DEF IInv
<1>0. /\ pc = "join" /\ pc' = "returned" /\ reply' = "TaskError" /\ worker[i] = "error"
      /\ UNCHANGED <<tasks, maxWorkers, pending, child, left, results>>
      /\ worker' = [worker EXCEPT ![i] = "joined"]
  BY DEF JoinError, ReturnErr
<1>1. TypeOK' /\ NoTaskLost' /\ DependenciesHaveResults' /\ LeftFollowsTask'
  BY <1>0 DEF TypeOK, NoTaskLost, DependenciesHaveResults, LeftFollowsTask, Replies, WorkerStates
<1>2. ChildFollowsWorker' /\ LoopIsValidated' /\ LoopHasTasks' /\ FillIsComplete'
  BY <1>0 DEF ChildFollowsWorker, LoopIsValidated, LoopHasTasks, FillIsComplete,
              InTheLoop, LoopReplies, TypeOK, Outcomes
<1>3. Occupied' \subseteq Occupied
  BY <1>0 DEF Occupied, Running, Finished, Alive, TypeOK
<1>4. Occupancy' /\ QuietReturn' /\ CircularReportIsSpurious'
  BY <1>0, <1>3, OccupancyShrinks DEF QuietReturn, CircularReportIsSpurious
<1> QED
  BY <1>1, <1>2, <1>4 DEF IInv

LEMMA JoinResultStep ==
    ASSUME NEW i \in DOMAIN tasks PROVE IInv /\ JoinResult(i) => IInv'
<1> SUFFICES ASSUME IInv, JoinResult(i) PROVE IInv'
  OBVIOUS
<1> USE DEF IInv
<1>0. /\ pc = "join" /\ worker[i] \in Outcomes /\ reply = "none" /\ child[i] = "exited"
      /\ UNCHANGED <<tasks, maxWorkers, pending, child, left>>
      /\ worker' = [worker EXCEPT ![i] = "joined"]
      /\ results' = [results EXCEPT ![tasks[i].id] = worker[i]]
  BY DEF JoinResult, TypeOK, ChildFollowsWorker
<1>1. \/ pc' = "fill" /\ reply' = "none" /\ Running \ {i} # {}
      \/ pc' = "returned" /\ reply' = "CircularDependency" /\ Running \ {i} = {} /\ pending # {}
      \/ pc' = "returned" /\ reply' = "Ok" /\ Running \ {i} = {} /\ pending = {}
  BY <1>0 DEF JoinResult, ReturnErr, ReturnOk
<1>2. Validated(tasks)
  BY <1>0 DEF LoopIsValidated, InTheLoop
<1>3. tasks[i].id \in Ids /\ \A j \in DOMAIN tasks : tasks[j].id = tasks[i].id => j = i
  BY <1>2, ListFacts DEF Validated, UniqueIds, TypeOK
<1>4. TypeOK'
  BY <1>0, <1>1, <1>3 DEF TypeOK, Replies, WorkerStates
<1>5. NoTaskLost'
  BY <1>0, <1>1, <1>3 DEF TypeOK, NoTaskLost, Outcomes
<1>6. \A id \in Ids : results[id] # "none" => results'[id] # "none"
  BY <1>0, <1>3 DEF TypeOK, Outcomes
<1>7. DependenciesHaveResults'
  <2>1. \A j \in DOMAIN tasks : DependencyIds(tasks, j) \subseteq Ids
    BY ListFacts DEF TypeOK
  <2> QED
    BY <1>0, <1>6, <2>1 DEF DependenciesHaveResults, TypeOK, Outcomes
<1>8. Running' = Running \ {i} /\ Alive' = Alive
  BY <1>0 DEF Running, Finished, Alive, TypeOK, Outcomes
<1>9. ChildFollowsWorker' /\ LeftFollowsTask'
  <2>1. ChildFollowsWorker'
    BY <1>0, <1>1, <1>3, <1>8 DEF ChildFollowsWorker, TypeOK, Outcomes
  <2>2. LeftFollowsTask'
    BY <1>0 DEF LeftFollowsTask, TypeOK
  <2> QED
    BY <2>1, <2>2
<1>10. LoopIsValidated' /\ LoopHasTasks' /\ FillIsComplete'
  BY <1>0, <1>1, <1>2, <1>8 DEF LoopIsValidated, LoopHasTasks, FillIsComplete, InTheLoop, LoopReplies
<1>11. Occupancy'
  BY <1>0, <1>8, OccupancyShrinks DEF Occupied
<1>12. QuietReturn'
  BY <1>0, <1>1, <1>8 DEF QuietReturn, Occupied, Alive, ChildFollowsWorker
<1>13. CircularReportIsSpurious'
  <2>1. SUFFICES ASSUME Running \ {i} = {}, pending # {}
                 PROVE  \E n \in pending : \A d \in DependencyIds(tasks, n) : results'[d] # "none"
    BY <1>0, <1>1, <1>2 DEF CircularReportIsSpurious, ReadyTasks, Ready, Validated
  <2>2. ASSUME NEW j \in DOMAIN tasks \ pending PROVE results'[tasks[j].id] # "none"
    <3>1. worker'[j] # "unspawned" /\ worker'[j] \in WorkerStates /\ j \notin Running'
      BY <1>0, <1>4, <1>5, <1>8, <2>1 DEF NoTaskLost, TypeOK
    <3>2. worker'[j] # "cancelled"
      BY <1>0 DEF ChildFollowsWorker, TypeOK
    <3>3. worker'[j] = "joined"
      BY <1>0, <3>1, <3>2 DEF Running, Finished, WorkerStates
    <3> QED
      BY <1>0, <1>1, <1>5, <3>3 DEF NoTaskLost
  <2>3. tasks \in Seq(ParallelTaskSpec) /\ pending \in SUBSET DOMAIN tasks
    BY ListFacts DEF TypeOK
  <2> QED
    BY <1>2, <2>1, <2>2, <2>3, ReadyTaskExists
<1> QED
  BY <1>4, <1>5, <1>7, <1>9, <1>10, <1>11, <1>12, <1>13 DEF IInv

-----------------------------------------------------------------------------
\* What a step of a worker, or the end of an orphan, leaves alone.
CallerUnchanged == UNCHANGED <<tasks, maxWorkers, pc, pending, results, reply, returned>>

\* A worker step that stays in the JoinSet disturbs only its own process.
LEMMA WorkerStepInside ==
    ASSUME IInv, CallerUnchanged, NEW i \in DOMAIN tasks,
           NEW w \in {"spawned", "attached", "success", "failure", "error"},
           NEW c \in {"none", "alive", "exited"},
           NEW l \in {"none", "alive", "exited"},
           worker[i] \in {"spawned", "attached"},
           worker' = [worker EXCEPT ![i] = w],
           child' = [child EXCEPT ![i] = c],
           left' = [left EXCEPT ![i] = l],
           w = "spawned" => c = "none",
           w = "attached" => c = "alive",
           w \in Outcomes => c = "exited",
           l = left[i] \/ tasks[i].attachable
    PROVE  IInv'
<1> USE DEF IInv, CallerUnchanged
<1>1. TypeOK' /\ NoTaskLost' /\ DependenciesHaveResults' /\ LoopIsValidated'
  BY DEF TypeOK, NoTaskLost, DependenciesHaveResults, LoopIsValidated, InTheLoop,
         WorkerStates, Outcomes
<1>2. Running' = Running /\ i \in Running
  BY DEF Running, Finished, TypeOK
<1>3. Occupied' = Occupied
  BY <1>2 DEF Occupied, Alive, TypeOK
<1>4. ChildFollowsWorker' /\ LeftFollowsTask'
  <2>1. ChildFollowsWorker'
    BY <1>2 DEF ChildFollowsWorker, TypeOK, NoTaskLost, Outcomes
  <2>2. LeftFollowsTask'
    BY DEF LeftFollowsTask, TypeOK
  <2> QED
    BY <2>1, <2>2
<1>5. LoopHasTasks' /\ FillIsComplete' /\ CircularReportIsSpurious'
  BY <1>2 DEF LoopHasTasks, FillIsComplete, CircularReportIsSpurious, InTheLoop,
              HasCapacity, ReadyTasks, Ready
<1>6. Occupancy' /\ QuietReturn'
  BY <1>3, OccupancyShrinks DEF QuietReturn
<1> QED
  BY <1>1, <1>4, <1>5, <1>6

LEMMA WorkerSteps ==
    ASSUME NEW i \in DOMAIN tasks PROVE IInv /\ WorkerStep(i) => IInv'
<1> SUFFICES ASSUME IInv, WorkerStep(i) PROVE IInv'
  OBVIOUS
<1> USE DEF IInv
<1>0. /\ child = [child EXCEPT ![i] = child[i]] /\ child[i] \in {"none", "alive", "exited"}
      /\ left = [left EXCEPT ![i] = left[i]] /\ left[i] \in {"none", "alive", "exited"}
  BY DEF TypeOK
<1>1. CASE StartBackend(i)
  BY <1>0, <1>1, WorkerStepInside DEF StartBackend, CallerUnchanged, Outcomes
<1>2. CASE FailToStart(i)
  BY <1>0, <1>2, WorkerStepInside DEF FailToStart, CallerUnchanged, Outcomes
<1>3. CASE FailAttached(i)
  BY <1>0, <1>3, WorkerStepInside DEF FailAttached, CallerUnchanged, Outcomes
<1>4. CASE \E outcome \in Outcomes : Answer(i, outcome)
  BY <1>0, <1>4, WorkerStepInside DEF Answer, CallerUnchanged, Outcomes
<1>6. CASE FallBack(i)
  <2>1. PICK c \in {"alive", "exited"} : left' = [left EXCEPT ![i] = c]
    BY <1>6 DEF FallBack
  <2> QED
    BY <1>6, <2>1, WorkerStepInside DEF FallBack, CallerUnchanged, Outcomes
<1>5. CASE Cancel(i)
  <2> USE <1>5 DEF Cancel
  <2>1. /\ TypeOK' /\ NoTaskLost' /\ DependenciesHaveResults' /\ LoopIsValidated'
        /\ LeftFollowsTask'
    BY DEF TypeOK, NoTaskLost, DependenciesHaveResults, LoopIsValidated, LeftFollowsTask,
           InTheLoop, WorkerStates
  <2>2. ChildFollowsWorker' /\ LoopHasTasks' /\ FillIsComplete' /\ CircularReportIsSpurious'
    BY DEF ChildFollowsWorker, TypeOK, Outcomes, LoopHasTasks, FillIsComplete,
           CircularReportIsSpurious, InTheLoop, ReadyTasks, Ready
  <2>3. Occupied' \subseteq Occupied
    BY DEF Occupied, Running, Finished, Alive, TypeOK
  <2> QED
    BY <2>1, <2>2, <2>3, OccupancyShrinks DEF QuietReturn
<1> QED
  BY <1>1, <1>2, <1>3, <1>4, <1>5, <1>6 DEF WorkerStep

LEMMA OrphanExitStep ==
    ASSUME NEW i \in DOMAIN tasks PROVE IInv /\ OrphanExit(i) => IInv'
<1> SUFFICES ASSUME IInv, OrphanExit(i) PROVE IInv'
  OBVIOUS
<1> USE DEF IInv, OrphanExit
<1>1. /\ TypeOK' /\ NoTaskLost' /\ DependenciesHaveResults' /\ LoopIsValidated'
      /\ LeftFollowsTask'
  BY DEF TypeOK, NoTaskLost, DependenciesHaveResults, LoopIsValidated, LeftFollowsTask, InTheLoop
<1>2. Running' = Running /\ Occupied' \subseteq Occupied
  BY DEF Occupied, Running, Finished, Alive, TypeOK
<1>3. ChildFollowsWorker'
  BY <1>2 DEF ChildFollowsWorker, TypeOK
<1>4. LoopHasTasks' /\ FillIsComplete' /\ CircularReportIsSpurious'
  BY <1>2 DEF LoopHasTasks, FillIsComplete, CircularReportIsSpurious, InTheLoop,
              HasCapacity, ReadyTasks, Ready
<1> QED
  BY <1>1, <1>2, <1>3, <1>4, OccupancyShrinks DEF QuietReturn

LEMMA LeftExitStep ==
    ASSUME NEW i \in DOMAIN tasks PROVE IInv /\ LeftExit(i) => IInv'
<1> SUFFICES ASSUME IInv, LeftExit(i) PROVE IInv'
  OBVIOUS
<1> USE DEF IInv
<1>0. /\ left[i] = "alive" /\ left' = [left EXCEPT ![i] = "exited"]
      /\ UNCHANGED <<tasks, maxWorkers, pc, pending, worker, child, results, reply, returned>>
  BY DEF LeftExit
<1>1. TypeOK' /\ LeftFollowsTask'
  BY <1>0 DEF TypeOK, LeftFollowsTask
<1>2. /\ NoTaskLost' /\ ChildFollowsWorker' /\ DependenciesHaveResults' /\ LoopIsValidated'
      /\ LoopHasTasks' /\ FillIsComplete' /\ Occupancy' /\ QuietReturn'
      /\ CircularReportIsSpurious'
  BY <1>0 DEF NoTaskLost, ChildFollowsWorker, DependenciesHaveResults,
       LoopIsValidated, LoopHasTasks, FillIsComplete, Occupancy, Occupied, Alive,
       QuietReturn, CircularReportIsSpurious, InTheLoop, Running, Finished,
       HasCapacity, ReadyTasks, Ready
<1> QED
  BY <1>1, <1>2

LEMMA StutterStep == IInv /\ UNCHANGED vars => IInv'
BY DEF vars, IInv, TypeOK, NoTaskLost, ChildFollowsWorker, LeftFollowsTask, DependenciesHaveResults,
       LoopIsValidated, LoopHasTasks, FillIsComplete, Occupancy, Occupied, Alive,
       QuietReturn, CircularReportIsSpurious, InTheLoop, Running, Finished,
       HasCapacity, ReadyTasks, Ready

\* IInv is an invariant of the runner.
THEOREM InductiveInvariant == Spec => []IInv
<1>1. Init => IInv
  BY InitEstablishes
<1>2. IInv /\ [Next]_vars => IInv'
  <2> SUFFICES ASSUME IInv, [Next]_vars PROVE IInv'
    OBVIOUS
  <2>1. CASE Caller
    BY <2>1, ValidateStep, SpawnStep, StopFillingStep, JoinNothingStep, JoinErrorStep,
       JoinResultStep DEF Caller
  <2>2. CASE \E i \in DOMAIN tasks : WorkerStep(i) \/ OrphanExit(i) \/ LeftExit(i)
    BY <2>2, WorkerSteps, OrphanExitStep, LeftExitStep
  <2>3. CASE Settled \/ UNCHANGED vars
    BY <2>3, StutterStep DEF Settled
  <2> QED
    BY <2>1, <2>2, <2>3 DEF Next
<1> QED
  BY <1>1, <1>2, PTL DEF Spec

-----------------------------------------------------------------------------
\* Every state is well typed.
THEOREM TypeCorrect == Spec => []TypeOK
BY InductiveInvariant, PTL DEF IInv

\* A task is pending, in the JoinSet, or has its result, and never lost.
THEOREM NothingIsLost == Spec => []NoTaskLost
BY InductiveInvariant, PTL DEF IInv

\* Never do more backends run than max_workers, those aside that the persistent
\* transport gave up: at most one for each started task that asks for it.
THEOREM ProcessesAreBounded == Spec => []ProcessBound
<1>1. IInv => ProcessBound
  <2> SUFFICES ASSUME IInv PROVE ProcessBound
    OBVIOUS
  <2>1. IsFiniteSet(Occupied) /\ Alive \subseteq Occupied
    BY OccupiedIsFinite DEF Occupied, IInv, TypeOK
  <2>2. /\ Cardinality(Alive) <= Cardinality(Occupied)
        /\ Cardinality(Alive) \in Nat /\ Cardinality(Occupied) \in Nat
    BY <2>1, FS_Subset, FS_CardinalityType
  <2>3. maxWorkers \in Nat
    BY WorkerLimitsAssumption DEF IInv, TypeOK
  <2>4. \A i \in GivenUp : tasks[i].attachable /\ i \notin pending
    BY DEF IInv, GivenUp, LeftFollowsTask, NoTaskLost
  <2> QED
    BY <2>2, <2>3, <2>4 DEF IInv, Occupancy, ProcessBound
<1> QED
  BY <1>1, InductiveInvariant, PTL

\* A backend starts only after the process that answered for each of its
\* dependencies was reaped.
THEOREM DependenciesComeFirst == Spec => []DependenciesReaped
<1>1. IInv => DependenciesReaped
  <2> SUFFICES ASSUME IInv, NEW i \in DOMAIN tasks, NEW j \in DOMAIN tasks,
                      tasks[j].id \in DependencyIds(tasks, i),
                      child[i] # "none" \/ left[i] # "none"
               PROVE  child[j] = "exited"
    BY DEF DependenciesReaped
  <2>1. worker[i] # "unspawned"
    BY DEF IInv, ChildFollowsWorker, LeftFollowsTask
  <2>2. results[tasks[j].id] # "none"
    BY <2>1 DEF IInv, DependenciesHaveResults
  <2> QED
    BY <2>2 DEF IInv, ChildFollowsWorker
<1> QED
  BY <1>1, InductiveInvariant, PTL

\* join_next answers None only under max_workers = 0.
THEOREM JoinSetIsNeverEmpty == Spec => []JoinHasWork
<1>1. IInv => JoinHasWork
  <2> SUFFICES ASSUME IInv, pc = "join", Running = {}
               PROVE  maxWorkers = 0 /\ pending # {}
    BY DEF JoinHasWork
  <2>1. pending # {}
    BY DEF IInv, LoopHasTasks, InTheLoop
  <2>2. ReadyTasks # {}
    BY <2>1, EmptyJoinSetMeansReady DEF InTheLoop
  <2>3. ~(0 < maxWorkers)
    BY <2>2, FS_EmptySet DEF IInv, FillIsComplete, HasCapacity
  <2>4. maxWorkers \in Nat
    BY WorkerLimitsAssumption DEF IInv, TypeOK
  <2> QED
    BY <2>1, <2>3, <2>4
<1> QED
  BY <1>1, InductiveInvariant, PTL

\* Whatever the graph, the loop's circular-dependency error is a false report.
THEOREM CircularReportIsNeverTrue == Spec => []CircularReportIsSpurious
BY InductiveInvariant, PTL DEF IInv

\* After Ok and after a circular report only processes that were given up for
\* a fallback are left, after an error of validation none.
THEOREM LeftoversAreGivenUp == Spec => []OthersAreGivenUp
<1>1. IInv => OthersAreGivenUp
  <2> SUFFICES ASSUME IInv, pc = "returned"
               PROVE  /\ Alive # {} => reply = "TaskError"
                      /\ GivenUp # {} => reply \in LoopReplies
    BY DEF OthersAreGivenUp, LoopReplies
  <2>1. Alive # {} => reply = "TaskError"
    BY DEF IInv, QuietReturn, Occupied
  <2>2. GivenUp # {} => reply \in LoopReplies
    BY DEF IInv, GivenUp, LeftFollowsTask, LoopIsValidated, InTheLoop
  <2> QED
    BY <2>1, <2>2
<1> QED
  BY <1>1, InductiveInvariant, PTL

\* A stored result is never overwritten.
THEOREM ResultsNeverChange == Spec => ResultsAreFinal
<1>1. ASSUME IInv, [Next]_vars
      PROVE  [\A id \in Ids : results[id] # "none" => results'[id] = results[id]]_vars
  <2>1. CASE \E i \in DOMAIN tasks : JoinResult(i)
    <3>1. PICK i \in DOMAIN tasks : JoinResult(i)
      BY <2>1
    <3>2. results[tasks[i].id] = "none"
      BY <1>1, <3>1 DEF JoinResult, IInv, NoTaskLost, Outcomes
    <3> QED
      BY <1>1, <3>1, <3>2 DEF JoinResult, IInv, TypeOK
  <2>2. CASE UNCHANGED results
    BY <2>2
  <2> QED
    BY <1>1, <2>1, <2>2 DEF Next, Caller, WorkerStep, Validate, Spawn, StopFilling,
       JoinNothing, JoinError, StartBackend, FailToStart, FailAttached, Answer,
       Cancel, FallBack, OrphanExit, LeftExit, Settled, vars
<1> QED
  BY <1>1, InductiveInvariant, PTL DEF Spec, ResultsAreFinal

-----------------------------------------------------------------------------
(***************************************************************************)
(* execute_parallel implements ParallelPromise.                            *)
(***************************************************************************)
\* The mapped state: what each component of the promise is in the runner.
LEMMA MappedState ==
    ASSUME TypeOK
    PROVE  /\ DOMAIN Needs = DOMAIN tasks
           /\ \A i \in DOMAIN tasks : /\ child[i] = "none" <=> BackendStatus[i] = "todo"
                                      /\ child[i] = "alive" <=> BackendStatus[i] = "active"
                                      /\ child[i] = "exited" <=> BackendStatus[i] = "done"
           /\ Promise!Active = Alive
<1>1. \A i \in DOMAIN tasks : child[i] \in {"none", "alive", "exited"}
  BY DEF TypeOK
<1>2. DOMAIN Needs = DOMAIN tasks
  BY DEF Needs
<1>3. \A i \in DOMAIN tasks : /\ child[i] = "none" <=> BackendStatus[i] = "todo"
                              /\ child[i] = "alive" <=> BackendStatus[i] = "active"
                              /\ child[i] = "exited" <=> BackendStatus[i] = "done"
  BY <1>1 DEF BackendStatus, StatusOf
<1> QED
  BY <1>2, <1>3 DEF Promise!Active, Promise!Tasks, Alive

\* One task's process changes, and nothing else the mapping looks at.
LEMMA MappedChildStep ==
    ASSUME TypeOK, TypeOK', UNCHANGED <<tasks, maxWorkers, reply>>,
           NEW i \in DOMAIN tasks, NEW c \in {"none", "alive", "exited"},
           child' = [child EXCEPT ![i] = c]
    PROVE  /\ Needs' = Needs
           /\ BackendStatus' = [BackendStatus EXCEPT ![i] = StatusOf(c)]
<1>1. Needs' = Needs
  BY DEF Needs
<1>2. \A j \in DOMAIN tasks : child'[j] = IF j = i THEN c ELSE child[j]
  BY DEF TypeOK
<1>4. BackendStatus' = [j \in DOMAIN tasks |-> StatusOf(child'[j])]
  BY DEF BackendStatus
<1>5. BackendStatus' = [BackendStatus EXCEPT ![i] = StatusOf(c)]
  <2> DEFINE T(j) == StatusOf(child[j])
  <2>1. \A j \in DOMAIN tasks : StatusOf(child'[j]) = IF j = i THEN StatusOf(c) ELSE T(j)
    BY <1>2
  <2>2. BackendStatus = [j \in DOMAIN tasks |-> T(j)]
    BY DEF BackendStatus
  <2> HIDE DEF T
  <2> QED
    BY <2>1, <2>2, <1>4
<1> QED
  BY <1>1, <1>5

\* The promise counts with the same Cardinality.
LEMMA SameCardinality == \A S : Promise!Cardinality(S) = Cardinality(S)
BY DEF Promise!Cardinality, Cardinality

\* Every behaviour of the runner keeps the promise.
THEOREM RunnerKeepsPromise == Spec => KeepsPromise
<1>1. Init => Promise!Init
  <2> SUFFICES ASSUME Init PROVE Promise!Init
    OBVIOUS
  <2>1. BackendStatus = [i \in Promise!Tasks |-> "todo"]
    BY DEF Init, BackendStatus, StatusOf, Promise!Tasks, Needs
  <2>2. maxWorkers \in Nat /\ reply = "none" /\ Abandoned = {}
    BY WorkerLimitsAssumption DEF Init, Abandoned
  <2> QED
    BY <2>1, <2>2 DEF Promise!Init
<1>2. IInv /\ IInv' /\ ProcessBound' /\ [Next]_vars => [Promise!Next]_(Promise!pvars)
  <2> SUFFICES ASSUME IInv, IInv', ProcessBound', [Next]_vars
               PROVE  [Promise!Next]_(Promise!pvars)
    OBVIOUS
  <2> USE DEF IInv
  <2>0. /\ Promise!Tasks = DOMAIN tasks /\ Promise!Active = Alive
        /\ \A i \in DOMAIN tasks : /\ child[i] = "none" => BackendStatus[i] = "todo"
                                   /\ child[i] = "alive" => BackendStatus[i] = "active"
                                   /\ child[i] = "exited" => BackendStatus[i] = "done"
    <3>1. TypeOK
      OBVIOUS
    <3> QED
      BY <3>1, MappedState DEF Promise!Tasks
  <2>1. CASE \E i \in DOMAIN tasks : StartBackend(i)
    <3>1. PICK i \in DOMAIN tasks : StartBackend(i)
      BY <2>1
    <3>2. child[i] = "none" /\ child' = [child EXCEPT ![i] = "alive"]
          /\ UNCHANGED <<tasks, maxWorkers, reply>> /\ UNCHANGED Abandoned
      BY <3>1 DEF StartBackend, ChildFollowsWorker, Abandoned
    <3>3. Needs' = Needs /\ BackendStatus' = [BackendStatus EXCEPT ![i] = "active"]
      BY <3>2, MappedChildStep DEF StatusOf
    <3>4. i \in Promise!Tasks /\ BackendStatus[i] = "todo" /\ Promise!Active = Alive
      BY <2>0, <3>2
    <3>5. \A j \in Needs[i] : BackendStatus[j] = "done"
      <4> SUFFICES ASSUME NEW j \in DOMAIN tasks, tasks[j].id \in DependencyIds(tasks, i)
                   PROVE  BackendStatus[j] = "done"
        BY DEF Needs
      <4>1. results[tasks[j].id] # "none"
        BY <3>1 DEF StartBackend, DependenciesHaveResults
      <4> QED
        BY <2>0, <4>1 DEF ChildFollowsWorker
    <3>6. Cardinality(Alive) < maxWorkers
      <4>1. Alive' = Alive \cup {i} /\ i \notin Alive
        BY <3>2 DEF Alive, TypeOK
      <4>2. IsFiniteSet(Alive) /\ Cardinality(Alive) \in Nat
        BY OccupiedIsFinite, FS_CardinalityType DEF TypeOK
      <4>3. Cardinality(Alive') = Cardinality(Alive) + 1
        BY <4>1, <4>2, FS_AddElement
      <4>4. maxWorkers \in Nat
        BY WorkerLimitsAssumption DEF TypeOK
      <4> QED
        BY <3>2, <4>2, <4>3, <4>4 DEF ProcessBound
    <3> QED
      BY <3>2, <3>3, <3>4, <3>5, <3>6, SameCardinality DEF Promise!Next, Promise!Begin
  <2>2. CASE \E i \in DOMAIN tasks : OrphanExit(i) \/ \E o \in Outcomes : Answer(i, o)
    <3>1. PICK i \in DOMAIN tasks : OrphanExit(i) \/ \E o \in Outcomes : Answer(i, o)
      BY <2>2
    <3>2. child[i] = "alive" /\ child' = [child EXCEPT ![i] = "exited"]
          /\ UNCHANGED <<tasks, maxWorkers, reply>> /\ UNCHANGED Abandoned
      BY <3>1 DEF OrphanExit, Answer, ChildFollowsWorker, Abandoned
    <3>3. Needs' = Needs /\ BackendStatus' = [BackendStatus EXCEPT ![i] = "done"]
      BY <3>2, MappedChildStep DEF StatusOf
    <3>4. i \in Promise!Tasks /\ BackendStatus[i] = "active"
      BY <2>0, <3>2
    <3> QED
      BY <3>2, <3>3, <3>4 DEF Promise!Next, Promise!End
  <2>4. CASE \E i \in DOMAIN tasks : FallBack(i)
    <3>1. PICK i \in DOMAIN tasks : FallBack(i)
      BY <2>4
    <3>2. PICK c \in {"alive", "exited"} : left' = [left EXCEPT ![i] = c]
      BY <3>1 DEF FallBack
    <3>3. child[i] = "alive" /\ child' = [child EXCEPT ![i] = "none"]
          /\ left[i] = "none" /\ tasks[i].attachable
          /\ UNCHANGED <<tasks, maxWorkers, reply>>
      BY <3>1 DEF FallBack, ChildFollowsWorker
    <3>4. Needs' = Needs /\ BackendStatus' = [BackendStatus EXCEPT ![i] = "todo"]
      BY <3>3, MappedChildStep DEF StatusOf
    <3>5. Abandoned' = Abandoned \cup {i} /\ i \notin Abandoned
      BY <3>2, <3>3 DEF Abandoned, TypeOK
    <3>6. i \in Promise!Tasks /\ BackendStatus[i] = "active"
      BY <2>0, <3>3
    <3> QED
      BY <3>3, <3>4, <3>5, <3>6 DEF Promise!Next, Promise!Abandon
  <2>5. CASE \E i \in DOMAIN tasks : LeftExit(i)
    <3>1. PICK i \in DOMAIN tasks : LeftExit(i)
      BY <2>5
    <3>2. UNCHANGED <<Needs, BackendStatus, maxWorkers, reply, tasks>>
      BY <3>1 DEF LeftExit, Needs, BackendStatus
    <3>3. Abandoned' = Abandoned
      BY <3>1 DEF LeftExit, Abandoned, TypeOK
    <3> QED
      BY <3>2, <3>3 DEF Promise!pvars
  <2>3. CASE UNCHANGED <<tasks, maxWorkers, child, left>>
    <3>1. UNCHANGED <<Needs, BackendStatus, maxWorkers, Abandoned, tasks>>
      BY <2>3 DEF Needs, BackendStatus, Abandoned
    <3>2. CASE reply' = reply
      BY <3>1, <3>2 DEF Promise!pvars
    <3>3. CASE reply = "none" /\ reply' \notin {"none", "Ok"}
      BY <3>1, <3>3 DEF Promise!Next, Promise!AnswerErr
    <3>4. CASE reply = "none" /\ reply' = "Ok"
      <4>1. ASSUME NEW j \in DOMAIN tasks PROVE child[j] = "exited"
        <5>1. pending' = {} /\ Occupied' = {} /\ pc' = "returned"
          BY <2>3, <3>4 DEF Next, Caller, WorkerStep, Validate, Spawn, StopFilling,
             JoinNothing, JoinError, JoinResult, StartBackend, FailToStart,
             FailAttached, Answer, Cancel, FallBack, OrphanExit, LeftExit, Settled, vars, ReturnErr,
             TypeOK, QuietReturn, EnsureParallelTasks, BlankFieldError, ReferenceError
        <5>2. PICK i \in DOMAIN tasks : JoinResult(i)
          BY <3>4 DEF Next, Caller, WorkerStep, Validate, Spawn, StopFilling,
             JoinNothing, JoinError, StartBackend, FailToStart,
             FailAttached, Answer, Cancel, FallBack, OrphanExit, LeftExit, Settled, vars, ReturnErr,
             EnsureParallelTasks, BlankFieldError, ReferenceError
        <5>3. worker'[j] # "unspawned" /\ worker'[j] # "cancelled"
          <6>1. worker[j] # "cancelled"
            BY <5>2 DEF JoinResult, ChildFollowsWorker
          <6> QED
            BY <2>3, <5>1, <5>2, <6>1 DEF JoinResult, NoTaskLost, TypeOK
        <5>4. worker'[j] = "joined"
          BY <2>3, <5>1, <5>3 DEF Occupied, Running, Finished, TypeOK, WorkerStates
        <5> QED
          BY <2>3, <3>4, <5>4 DEF NoTaskLost, ChildFollowsWorker
      <4> QED
        BY <2>0, <3>1, <3>4, <4>1 DEF Promise!Next, Promise!AnswerOk
    <3>5. reply' # reply => reply = "none"
      BY DEF Next, Caller, WorkerStep, Validate, Spawn, StopFilling,
         JoinNothing, JoinError, JoinResult, StartBackend, FailToStart,
         FailAttached, Answer, Cancel, FallBack, OrphanExit, LeftExit, Settled, vars, TypeOK
    <3> QED
      BY <3>2, <3>3, <3>4, <3>5
  <2> QED
    BY <2>1, <2>2, <2>3, <2>4, <2>5 DEF Next, Caller, WorkerStep, Validate, Spawn, StopFilling,
       JoinNothing, JoinError, JoinResult, FailToStart, FailAttached, Cancel, Settled, vars
<1> QED
  BY <1>1, <1>2, InductiveInvariant, ProcessesAreBounded, PTL DEF Spec, KeepsPromise, Promise!Spec

-----------------------------------------------------------------------------
(***************************************************************************)
(* The list inside Ok.                                                     *)
(***************************************************************************)
\* When every task has a result, the list has an entry for each of them.
LEMMA ListedFacts ==
    ASSUME tasks \in TaskLists, NEW res, \A j \in DOMAIN tasks : res[tasks[j].id] # "none"
    PROVE  /\ Len(Collected(res)) = Len(tasks)
           /\ \A j \in DOMAIN tasks : /\ Collected(res)[j].id = tasks[j].id
                                      /\ Collected(res)[j].result = res[tasks[j].id]
<1> DEFINE places == [j \in DOMAIN tasks |-> j]
           n      == Len(tasks)
<1>1. DOMAIN tasks = 1 .. n /\ n \in Nat
  BY ListFacts, TaskListFacts
<1>2. places \in Seq(DOMAIN tasks)
  BY <1>1, SeqDef
<1>3. { j \in DOMAIN tasks : res[tasks[j].id] # "none" } = DOMAIN tasks
  OBVIOUS
<1>4. Filter(places, DOMAIN tasks) = places
  BY <1>2, FilterOfAll
<1>5. Collected(res) = [p \in DOMAIN places |-> [ id     |-> tasks[places[p]].id,
                                                  result |-> res[tasks[places[p]].id] ]]
  BY <1>3, <1>4 DEF Collected, Listed
<1>6. Collected(res) = [p \in 1 .. n |-> [ id |-> tasks[p].id, result |-> res[tasks[p].id] ]]
  BY <1>1, <1>5
<1>7. Len(Collected(res)) = n
  BY <1>1, <1>6
<1> QED
  BY <1>1, <1>6, <1>7

\* The step that answers Ok has a result for every task.
LEMMA OkHasResults ==
    ASSUME IInv, IInv', NEW i \in DOMAIN tasks, JoinResult(i), reply' = "Ok"
    PROVE  /\ pending = {} /\ returned' = Collected(results') /\ tasks' = tasks
           /\ \A j \in DOMAIN tasks : results'[tasks[j].id] # "none"
<1>1. /\ pc = "join" /\ reply = "none" /\ tasks' = tasks /\ pending' = pending
      /\ worker' = [worker EXCEPT ![i] = "joined"]
  BY DEF JoinResult, IInv, TypeOK
<1>2. Running \ {i} = {} /\ pending = {} /\ returned' = Collected(results')
  BY <1>1 DEF JoinResult, ReturnErr
<1>3. ASSUME NEW j \in DOMAIN tasks
      PROVE  worker'[j] = "joined"
  <2>1. CASE j = i
    BY <1>1, <2>1 DEF IInv, TypeOK
  <2>2. CASE j # i
    <3>1. worker'[j] = worker[j] /\ worker[j] \in WorkerStates /\ j \notin Running
      BY <1>1, <1>2, <2>2 DEF IInv, TypeOK
    <3>2. worker[j] # "unspawned" /\ worker[j] # "cancelled"
      BY <1>1, <1>2 DEF IInv, NoTaskLost, ChildFollowsWorker
    <3> QED
      BY <3>1, <3>2 DEF WorkerStates, Running, Finished
  <2> QED
    BY <2>1, <2>2
<1> QED
  BY <1>1, <1>2, <1>3 DEF IInv, NoTaskLost

LEMMA OkStaysComplete ==
    ASSUME IInv, IInv', OkIsComplete, [Next]_vars
    PROVE  OkIsComplete'
<1>1. SUFFICES ASSUME reply' = "Ok" PROVE OkIsComplete'
  BY DEF OkIsComplete
<1>2. CASE \E i \in DOMAIN tasks : JoinResult(i)
  <2>1. PICK i \in DOMAIN tasks : JoinResult(i)
    BY <1>2
  <2>2. /\ returned' = Collected(results') /\ tasks' = tasks
        /\ \A j \in DOMAIN tasks : results'[tasks[j].id] # "none"
    BY <1>1, <2>1, OkHasResults
  <2>3. /\ Len(returned') = Len(tasks)
        /\ \A j \in DOMAIN tasks : /\ returned'[j].id = tasks[j].id
                                   /\ returned'[j].result = results'[tasks[j].id]
    BY <2>2, ListedFacts DEF IInv, TypeOK
  <2>4. \A j \in DOMAIN tasks : worker'[j] = "joined" /\ child'[j] = "exited"
    BY <2>2 DEF IInv, NoTaskLost, ChildFollowsWorker
  <2> QED
    BY <2>2, <2>3, <2>4 DEF OkIsComplete
<1>3. CASE \A i \in DOMAIN tasks : ~JoinResult(i)
  <2>1. reply = "Ok"
    BY <1>1, <1>3 DEF Next, vars, Caller, Validate, ReturnErr, Spawn, StopFilling, JoinNothing, JoinError,
       WorkerStep, StartBackend, FailToStart, FailAttached, Answer, Cancel, FallBack, OrphanExit, LeftExit, Settled
  <2>2. pc = "returned" /\ \A j \in DOMAIN tasks : worker[j] = "joined" /\ child[j] = "exited"
    BY <2>1 DEF IInv, TypeOK, OkIsComplete
  <2>3. UNCHANGED <<tasks, worker, child, results, reply, returned>>
    BY <1>3, <2>2 DEF Next, vars, Caller, Validate, Spawn, StopFilling, JoinNothing, JoinError,
       WorkerStep, StartBackend, FailToStart, FailAttached, Answer, Cancel, FallBack, OrphanExit, LeftExit, Settled
  <2> QED
    BY <2>1, <2>3 DEF OkIsComplete
<1> QED
  BY <1>2, <1>3

\* Ok answers for every task, in the order of the input, with the outcome of
\* its backend; no worker is left and every process that answered has ended.
THEOREM OkCoversEveryTask == Spec => []OkIsComplete
<1>1. Init => OkIsComplete
  BY DEF Init, OkIsComplete
<1> QED
  BY <1>1, InductiveInvariant, OkStaysComplete, PTL DEF Spec

-----------------------------------------------------------------------------
(***************************************************************************)
(* A call cannot go on for ever.  What is left: tasks to spawn, workers to *)
(* start, to start again, to fall back, to finish and to be done with,     *)
(* processes to end, the call's own steps, and two rounds of its loops for *)
(* each worker it may still join.                                          *)
(***************************************************************************)
WorkerIn(states) == { i \in DOMAIN tasks : worker[i] \in states }

Unjoined == WorkerIn(WorkerStates \ {"joined", "cancelled"})

RoundsLeft == 2 * Cardinality(Unjoined) + (IF pc \in {"validate", "fill"} THEN 1 ELSE 0)

RunWork ==
    [ spawn   |-> pending,
      start   |-> WorkerIn({"unspawned", "spawned"}) \ Abandoned,
      restart |-> WorkerIn({"unspawned", "spawned"})
                     \cup (WorkerIn({"attached"}) \ Abandoned),
      retry   |-> DOMAIN tasks \ Abandoned,
      finish  |-> WorkerIn({"unspawned", "spawned", "attached"}),
      join    |-> Unjoined,
      exit    |-> { i \in DOMAIN tasks : child[i] # "exited" },
      leave   |-> { i \in DOMAIN tasks : left[i] # "exited" },
      rounds  |-> 1 .. RoundsLeft,
      call    |-> IF pc = "returned" THEN {} ELSE {pc, "return"} \cap {"validate", "return"} ]

PartNames == { "spawn", "start", "restart", "retry", "finish", "join", "exit" }
                \cup { "leave", "rounds", "call" }

\* No part grows; `rounds` is looked at separately, since it is a count.
OthersDoNotGrow ==
    /\ RunWork'.spawn \subseteq RunWork.spawn
    /\ RunWork'.start \subseteq RunWork.start
    /\ RunWork'.restart \subseteq RunWork.restart
    /\ RunWork'.retry \subseteq RunWork.retry
    /\ RunWork'.finish \subseteq RunWork.finish
    /\ RunWork'.join \subseteq RunWork.join
    /\ RunWork'.exit \subseteq RunWork.exit
    /\ RunWork'.leave \subseteq RunWork.leave
    /\ RunWork'.call \subseteq RunWork.call

LEMMA RunWorkIsFinite ==
    ASSUME TypeOK
    PROVE  /\ AllFinite(RunWork)
           /\ IsFiniteSet(Unjoined) /\ Cardinality(Unjoined) \in Nat /\ RoundsLeft \in Nat
<1>1. IsFiniteSet(DOMAIN tasks)
  BY ListFacts DEF TypeOK
<1>2. \A T \in SUBSET DOMAIN tasks : IsFiniteSet(T)
  BY <1>1, FS_Subset
<1>3. IsFiniteSet(Unjoined) /\ Cardinality(Unjoined) \in Nat
  BY <1>2, FS_CardinalityType DEF Unjoined, WorkerIn
<1>4. RoundsLeft \in Nat
  BY <1>3 DEF RoundsLeft
<1>5. IsFiniteSet(RunWork.call)
  <2>1. IsFiniteSet({"validate", "return"}) /\ IsFiniteSet({})
    <3>1. IsFiniteSet({"validate"} \cup {"return"})
      BY FS_Singleton, FS_AddElement
    <3>2. {"validate"} \cup {"return"} = {"validate", "return"}
      OBVIOUS
    <3> QED
      BY <3>1, <3>2, FS_EmptySet
  <2>2. RunWork.call \in SUBSET {"validate", "return"}
    BY DEF RunWork
  <2> QED
    BY <2>1, <2>2, FS_Subset
<1>6. IsFiniteSet(RunWork.rounds)
  BY <1>4, IntervalsAreFinite DEF RunWork
<1>7. /\ IsFiniteSet(RunWork.spawn) /\ IsFiniteSet(RunWork.start) /\ IsFiniteSet(RunWork.restart)
      /\ IsFiniteSet(RunWork.retry) /\ IsFiniteSet(RunWork.finish) /\ IsFiniteSet(RunWork.join)
      /\ IsFiniteSet(RunWork.exit) /\ IsFiniteSet(RunWork.leave)
  <2>1. /\ RunWork.spawn \in SUBSET DOMAIN tasks /\ RunWork.start \in SUBSET DOMAIN tasks
        /\ RunWork.restart \in SUBSET DOMAIN tasks /\ RunWork.retry \in SUBSET DOMAIN tasks
        /\ RunWork.finish \in SUBSET DOMAIN tasks /\ RunWork.join \in SUBSET DOMAIN tasks
        /\ RunWork.exit \in SUBSET DOMAIN tasks /\ RunWork.leave \in SUBSET DOMAIN tasks
    BY DEF RunWork, WorkerIn, Unjoined, TypeOK
  <2> QED
    BY <1>2, <2>1
<1>8. DOMAIN RunWork = PartNames
  BY DEF RunWork, PartNames
<1>9. IsFiniteSet(PartNames)
  <2>1. IsFiniteSet({"spawn", "start", "restart", "retry", "finish", "join", "exit"})
    BY NamesAreFinite, Zenon
  <2>2. IsFiniteSet({"leave", "rounds", "call", "call", "call", "call", "call"})
    BY NamesAreFinite, Zenon
  <2>3. {"leave", "rounds", "call", "call", "call", "call", "call"} = {"leave", "rounds", "call"}
    OBVIOUS
  <2> QED
    BY <2>1, <2>2, <2>3, FS_Union DEF PartNames
<1>10. \A f \in PartNames : IsFiniteSet(RunWork[f])
  BY <1>5, <1>6, <1>7 DEF PartNames
<1> QED
  BY <1>3, <1>4, <1>8, <1>9, <1>10 DEF AllFinite

\* Nothing grows, and something gets less.
LEMMA RunWorkShrinks ==
    ASSUME OthersDoNotGrow,
           RunWork'.rounds \subseteq RunWork.rounds,
           \E f \in PartNames : RunWork'[f] # RunWork[f]
    PROVE  Shrinks(RunWork, RunWork')
<1>1. DOMAIN RunWork = PartNames /\ DOMAIN RunWork' = PartNames
  BY DEF RunWork, PartNames
<1>2. \A f \in PartNames : RunWork'[f] \subseteq RunWork[f]
  BY DEF PartNames, OthersDoNotGrow
<1> QED
  BY <1>1, <1>2 DEF Shrinks

LEMMA FewerRounds ==
    ASSUME TypeOK, Unjoined' \subseteq Unjoined,
           Unjoined' # Unjoined \/ pc' \notin {"validate", "fill"} \/ pc \in {"validate", "fill"}
    PROVE  /\ RunWork'.rounds \subseteq RunWork.rounds
           /\ pc \in {"validate", "fill"} /\ pc' \notin {"validate", "fill"}
                 => RunWork'.rounds # RunWork.rounds
<1>1. IsFiniteSet(Unjoined) /\ Cardinality(Unjoined) \in Nat
  BY RunWorkIsFinite
<1>2. /\ Cardinality(Unjoined') <= Cardinality(Unjoined) /\ Cardinality(Unjoined') \in Nat
      /\ Unjoined' # Unjoined => Cardinality(Unjoined') # Cardinality(Unjoined)
  BY <1>1, FS_Subset, FS_CardinalityType
<1>3. RoundsLeft' = 2 * Cardinality(Unjoined') + (IF pc' \in {"validate", "fill"} THEN 1 ELSE 0)
  BY DEF RoundsLeft
<1>4. /\ RoundsLeft \in Nat /\ RoundsLeft' \in Nat /\ RoundsLeft' <= RoundsLeft
      /\ pc \in {"validate", "fill"} /\ pc' \notin {"validate", "fill"} => RoundsLeft' < RoundsLeft
  BY <1>1, <1>2, <1>3 DEF RoundsLeft
<1>5. RunWork.rounds = 1 .. RoundsLeft /\ RunWork'.rounds = 1 .. RoundsLeft'
  BY DEF RunWork
<1>6. RoundsLeft' < RoundsLeft => RoundsLeft \in 1 .. RoundsLeft /\ RoundsLeft \notin 1 .. RoundsLeft'
  BY <1>4
<1> QED
  BY <1>4, <1>5, <1>6

\* A step of the call that leaves the workers and processes alone.
LEMMA CallStepShrinks ==
    ASSUME TypeOK, UNCHANGED <<tasks, worker, child, left, pending>>,
           \/ pc = "validate" /\ pc' \in {"fill", "returned"}
           \/ pc = "fill" /\ pc' = "join"
           \/ pc = "join" /\ pc' = "returned"
    PROVE  Shrinks(RunWork, RunWork')
<1>1. /\ RunWork'.call \subseteq RunWork.call
      /\ ~(pc = "fill" /\ pc' = "join") => RunWork'.call # RunWork.call
  BY DEF RunWork
<1>2. OthersDoNotGrow /\ Unjoined' = Unjoined
  BY <1>1 DEF OthersDoNotGrow, RunWork, WorkerIn, Unjoined, Abandoned
<1>3. /\ RunWork'.rounds \subseteq RunWork.rounds
      /\ pc = "fill" /\ pc' = "join" => RunWork'.rounds # RunWork.rounds
  BY <1>2, FewerRounds
<1>4. \E f \in PartNames : RunWork'[f] # RunWork[f]
  BY <1>1, <1>3 DEF PartNames
<1> QED
  BY <1>2, <1>3, <1>4, RunWorkShrinks

LEMMA SpawnShrinks ==
    ASSUME IInv, Spawn
    PROVE  Shrinks(RunWork, RunWork')
<1>1. PICK i \in ReadyTasks : /\ pending' = pending \ {i}
                              /\ worker' = [worker EXCEPT ![i] = "spawned"]
  BY DEF Spawn, Take
<1>2. /\ i \in pending /\ i \in DOMAIN tasks /\ worker[i] = "unspawned" /\ pc = "fill"
      /\ worker \in [DOMAIN tasks -> WorkerStates]
      /\ UNCHANGED <<tasks, pc, child, left>>
  BY <1>1 DEF ReadyTasks, IInv, TypeOK, NoTaskLost, Spawn
<1>3. \A j \in DOMAIN tasks : worker'[j] = IF j = i THEN "spawned" ELSE worker[j]
  BY <1>1, <1>2
<1>4. /\ WorkerIn({"unspawned", "spawned"})' = WorkerIn({"unspawned", "spawned"})
      /\ WorkerIn({"attached"})' = WorkerIn({"attached"})
      /\ WorkerIn({"unspawned", "spawned", "attached"})' = WorkerIn({"unspawned", "spawned", "attached"})
      /\ Unjoined' = Unjoined
  BY <1>2, <1>3 DEF WorkerIn, Unjoined, WorkerStates
<1>5. OthersDoNotGrow
  BY <1>1, <1>2, <1>4 DEF OthersDoNotGrow, RunWork, Abandoned
<1>6. RunWork'.rounds \subseteq RunWork.rounds
  BY <1>2, <1>4, FewerRounds DEF IInv
<1>7. RunWork'.spawn # RunWork.spawn
  BY <1>1, <1>2 DEF RunWork
<1>8. \E f \in PartNames : RunWork'[f] # RunWork[f]
  BY <1>7 DEF PartNames
<1> QED
  BY <1>5, <1>6, <1>8, RunWorkShrinks

\* Where a worker may go, and its process with it.
Later(w) ==
    CASE w = "spawned"  -> {"attached", "error", "cancelled"}
      [] w = "attached" -> {"success", "failure", "error", "cancelled"}
      [] OTHER          -> {"joined"}

LEMMA WorkerShrinks ==
    ASSUME TypeOK, UNCHANGED <<tasks, pending, left>>, NEW i \in DOMAIN tasks, NEW w,
           worker' = [worker EXCEPT ![i] = w],
           worker[i] \in {"spawned", "attached", "success", "failure", "error"},
           w \in Later(worker[i]),
           \A j \in DOMAIN tasks : child[j] = "exited" => child'[j] = "exited",
           \/ pc' = pc
           \/ pc = "join" /\ w = "joined" /\ pc' \in {"fill", "returned"}
    PROVE  Shrinks(RunWork, RunWork')
<1>1. worker \in [DOMAIN tasks -> WorkerStates]
  BY DEF TypeOK
<1>2. \A j \in DOMAIN tasks : worker'[j] = IF j = i THEN w ELSE worker[j]
  BY <1>1
<1>3. /\ w \in WorkerStates \ {"unspawned", "spawned"}
      /\ w = "attached" => worker[i] = "spawned"
  BY DEF Later, WorkerStates
<1>4. Unjoined' \subseteq Unjoined /\ (w \in {"joined", "cancelled"} => Unjoined' # Unjoined)
  BY <1>1, <1>2, <1>3 DEF Unjoined, WorkerIn, WorkerStates
<1>5. UNCHANGED Abandoned
  BY DEF Abandoned
<1>6. /\ RunWork'.spawn = RunWork.spawn /\ RunWork'.call \subseteq RunWork.call
      /\ RunWork'.retry = RunWork.retry /\ RunWork'.leave = RunWork.leave
      /\ RunWork'.exit \subseteq RunWork.exit
  BY <1>5 DEF RunWork
<1>7. /\ RunWork'.start \subseteq RunWork.start
      /\ worker[i] = "spawned" /\ i \notin Abandoned => RunWork'.start # RunWork.start
  BY <1>1, <1>2, <1>3, <1>5 DEF WorkerIn, RunWork
<1>8. /\ RunWork'.restart \subseteq RunWork.restart
      /\ worker[i] = "spawned" /\ i \in Abandoned => RunWork'.restart # RunWork.restart
  BY <1>1, <1>2, <1>3, <1>5 DEF WorkerIn, RunWork
<1>9. /\ RunWork'.finish \subseteq RunWork.finish
      /\ worker[i] = "attached" => RunWork'.finish # RunWork.finish
  BY <1>1, <1>2, <1>3 DEF WorkerIn, RunWork
<1>10. /\ RunWork'.join \subseteq RunWork.join
       /\ worker[i] \in {"success", "failure", "error"} => RunWork'.join # RunWork.join
  BY <1>4 DEF Later, RunWork
<1>11. OthersDoNotGrow
  BY <1>6, <1>7, <1>8, <1>9, <1>10 DEF OthersDoNotGrow
<1>12. RunWork'.rounds \subseteq RunWork.rounds
  BY <1>4, FewerRounds
<1>13. \E f \in PartNames : RunWork'[f] # RunWork[f]
  BY <1>7, <1>8, <1>9, <1>10 DEF PartNames
<1> QED
  BY <1>11, <1>12, <1>13, RunWorkShrinks

\* A fallback gives a worker its second start, and there is no third.
LEMMA FallBackShrinks ==
    ASSUME IInv, NEW i \in DOMAIN tasks, FallBack(i)
    PROVE  Shrinks(RunWork, RunWork')
<1>1. PICK c \in {"alive", "exited"} : left' = [left EXCEPT ![i] = c]
  BY DEF FallBack
<1>2. /\ UNCHANGED <<tasks, pending, pc>>
      /\ worker[i] = "attached" /\ worker' = [worker EXCEPT ![i] = "spawned"]
      /\ child[i] = "alive" /\ child' = [child EXCEPT ![i] = "none"] /\ left[i] = "none"
      /\ worker \in [DOMAIN tasks -> WorkerStates]
      /\ child \in [DOMAIN tasks -> {"none", "alive", "exited"}]
      /\ left \in [DOMAIN tasks -> {"none", "alive", "exited"}]
  BY DEF FallBack, IInv, ChildFollowsWorker, TypeOK
<1>3. \A j \in DOMAIN tasks : /\ worker'[j] = IF j = i THEN "spawned" ELSE worker[j]
                              /\ child'[j] = IF j = i THEN "none" ELSE child[j]
                              /\ left'[j] = IF j = i THEN c ELSE left[j]
  BY <1>1, <1>2
<1>4. Abandoned' = Abandoned \cup {i} /\ i \notin Abandoned
  BY <1>2, <1>3 DEF Abandoned
<1>5. Unjoined' = Unjoined
  BY <1>2, <1>3 DEF Unjoined, WorkerIn, WorkerStates
<1>6. /\ WorkerIn({"unspawned", "spawned"})' = WorkerIn({"unspawned", "spawned"}) \cup {i}
      /\ WorkerIn({"attached"})' = WorkerIn({"attached"}) \ {i}
      /\ WorkerIn({"unspawned", "spawned", "attached"})' = WorkerIn({"unspawned", "spawned", "attached"})
      /\ i \in WorkerIn({"attached"})
  BY <1>2, <1>3 DEF WorkerIn
<1>7. /\ RunWork'.spawn = RunWork.spawn /\ RunWork'.call = RunWork.call
      /\ RunWork'.finish = RunWork.finish /\ RunWork'.join = RunWork.join
  BY <1>2, <1>5, <1>6 DEF RunWork
<1>8. RunWork'.exit \subseteq RunWork.exit /\ RunWork'.leave \subseteq RunWork.leave
  BY <1>1, <1>2, <1>3 DEF RunWork
<1>9. RunWork'.start \subseteq RunWork.start /\ RunWork'.restart \subseteq RunWork.restart
  BY <1>4, <1>6 DEF RunWork
<1>10. RunWork'.retry \subseteq RunWork.retry /\ RunWork'.retry # RunWork.retry
  BY <1>2, <1>4 DEF RunWork
<1>11. OthersDoNotGrow
  BY <1>7, <1>8, <1>9, <1>10 DEF OthersDoNotGrow
<1>12. RunWork'.rounds \subseteq RunWork.rounds
  BY <1>2, <1>5, FewerRounds DEF IInv
<1>13. \E f \in PartNames : RunWork'[f] # RunWork[f]
  BY <1>10 DEF PartNames
<1> QED
  BY <1>11, <1>12, <1>13, RunWorkShrinks

\* A process nobody waits for ends.
LEMMA ExitShrinks ==
    ASSUME TypeOK, NEW i \in DOMAIN tasks, OrphanExit(i) \/ LeftExit(i)
    PROVE  Shrinks(RunWork, RunWork')
<1>1. /\ UNCHANGED <<tasks, worker, pending, pc>>
      /\ child \in [DOMAIN tasks -> {"none", "alive", "exited"}]
      /\ left \in [DOMAIN tasks -> {"none", "alive", "exited"}]
      /\ \/ child[i] = "alive" /\ child' = [child EXCEPT ![i] = "exited"] /\ UNCHANGED left
         \/ left[i] = "alive" /\ left' = [left EXCEPT ![i] = "exited"] /\ UNCHANGED child
  BY DEF OrphanExit, LeftExit, TypeOK
<1>2. UNCHANGED Abandoned
  BY <1>1 DEF Abandoned
<1>3. /\ RunWork'.spawn = RunWork.spawn /\ RunWork'.start = RunWork.start
      /\ RunWork'.restart = RunWork.restart /\ RunWork'.retry = RunWork.retry
      /\ RunWork'.finish = RunWork.finish /\ RunWork'.join = RunWork.join
      /\ RunWork'.call = RunWork.call /\ Unjoined' = Unjoined
  BY <1>1, <1>2 DEF RunWork, WorkerIn, Unjoined
<1>4. RunWork'.exit \subseteq RunWork.exit /\ RunWork'.leave \subseteq RunWork.leave
  BY <1>1 DEF RunWork
<1>5. RunWork'.exit # RunWork.exit \/ RunWork'.leave # RunWork.leave
  <2>1. /\ i \in RunWork.exit <=> child[i] # "exited"
        /\ i \in RunWork'.exit <=> child'[i] # "exited"
        /\ i \in RunWork.leave <=> left[i] # "exited"
        /\ i \in RunWork'.leave <=> left'[i] # "exited"
    BY <1>1 DEF RunWork
  <2> QED
    BY <1>1, <2>1
<1>6. RunWork'.rounds \subseteq RunWork.rounds
  BY <1>1, <1>3, FewerRounds
<1>7. OthersDoNotGrow
  BY <1>3, <1>4 DEF OthersDoNotGrow
<1>8. \E f \in PartNames : RunWork'[f] # RunWork[f]
  BY <1>5 DEF PartNames
<1> QED
  BY <1>6, <1>7, <1>8, RunWorkShrinks

LEMMA RunnerShrinks ==
    ASSUME IInv, Next, ~UNCHANGED vars
    PROVE  Shrinks(RunWork, RunWork')
<1>0. TypeOK
  BY DEF IInv
<1>1. CASE Validate
  BY <1>0, <1>1, CallStepShrinks DEF Validate, ReturnErr
<1>2. CASE Spawn
  BY <1>2, SpawnShrinks
<1>3. CASE StopFilling
  BY <1>0, <1>3, CallStepShrinks DEF StopFilling
<1>4. CASE JoinNothing
  BY <1>0, <1>4, CallStepShrinks DEF JoinNothing, ReturnErr
<1>5. ASSUME NEW i \in DOMAIN tasks, JoinError(i) \/ JoinResult(i)
      PROVE  Shrinks(RunWork, RunWork')
  <2>1. /\ UNCHANGED <<tasks, pending, child, left>> /\ worker' = [worker EXCEPT ![i] = "joined"]
        /\ worker[i] \in {"success", "failure", "error"}
        /\ pc = "join" /\ pc' \in {"fill", "returned"}
    BY <1>5 DEF JoinError, JoinResult, ReturnErr, ReturnOk, Outcomes
  <2>2. "joined" \in Later(worker[i])
    BY <2>1 DEF Later
  <2> QED
    BY <1>0, <2>1, <2>2, WorkerShrinks
<1>6. ASSUME NEW i \in DOMAIN tasks, StartBackend(i)
      PROVE  Shrinks(RunWork, RunWork')
  <2>1. /\ UNCHANGED <<tasks, pending, pc, left>> /\ worker' = [worker EXCEPT ![i] = "attached"]
        /\ worker[i] = "spawned" /\ child[i] = "none"
        /\ child' = [child EXCEPT ![i] = "alive"]
    BY <1>6 DEF StartBackend, IInv, ChildFollowsWorker
  <2>2. "attached" \in Later(worker[i])
    BY <2>1 DEF Later
  <2>3. \A j \in DOMAIN tasks : child[j] = "exited" => child'[j] = "exited"
    BY <1>0, <2>1 DEF TypeOK
  <2> QED
    BY <1>0, <2>1, <2>2, <2>3, WorkerShrinks
<1>7. ASSUME NEW i \in DOMAIN tasks, NEW outcome \in Outcomes, Answer(i, outcome)
      PROVE  Shrinks(RunWork, RunWork')
  <2>1. /\ UNCHANGED <<tasks, pending, pc, left>> /\ worker' = [worker EXCEPT ![i] = outcome]
        /\ worker[i] = "attached" /\ child' = [child EXCEPT ![i] = "exited"]
    BY <1>7 DEF Answer
  <2>2. outcome \in Later(worker[i])
    BY <2>1 DEF Later, Outcomes
  <2>3. \A j \in DOMAIN tasks : child[j] = "exited" => child'[j] = "exited"
    BY <1>0, <2>1 DEF TypeOK
  <2> QED
    BY <1>0, <2>1, <2>2, <2>3, WorkerShrinks
<1>8. ASSUME NEW i \in DOMAIN tasks, FailToStart(i) \/ FailAttached(i) \/ Cancel(i)
      PROVE  Shrinks(RunWork, RunWork')
  <2>1. PICK w \in {"error", "cancelled"} :
            /\ UNCHANGED <<tasks, pending, pc, child, left>> /\ worker' = [worker EXCEPT ![i] = w]
            /\ worker[i] \in {"spawned", "attached"}
    BY <1>8 DEF FailToStart, FailAttached, Cancel
  <2>2. w \in Later(worker[i])
    BY <2>1 DEF Later
  <2> QED
    BY <1>0, <2>1, <2>2, WorkerShrinks
<1>9. ASSUME NEW i \in DOMAIN tasks, OrphanExit(i) \/ LeftExit(i)
      PROVE  Shrinks(RunWork, RunWork')
  BY <1>0, <1>9, ExitShrinks
<1>10. ASSUME NEW i \in DOMAIN tasks, FallBack(i)
       PROVE  Shrinks(RunWork, RunWork')
  BY <1>10, FallBackShrinks
<1> QED
  BY <1>1, <1>2, <1>3, <1>4, <1>5, <1>6, <1>7, <1>8, <1>9, <1>10 DEF Next, Caller, WorkerStep, Settled

\* For every list and limit, whatever backends do and in whatever order: each
\* step of the call, of its workers and of their processes leaves less to do.
\* No round of the loop is made for nothing, no task comes back to be spawned
\* or joined again, and none falls back twice.
THEOREM RunnerEnds ==
    Spec => /\ [](Left(RunWork) \in Nat)
            /\ [][Left(RunWork)' < Left(RunWork)]_vars
<1>1. IInv => Left(RunWork) \in Nat
  BY RunWorkIsFinite, PartsAreFinite DEF IInv
<1>2. IInv /\ [Next]_vars => [Left(RunWork)' < Left(RunWork)]_vars
  <2> SUFFICES ASSUME IInv, Next, ~UNCHANGED vars
               PROVE  Left(RunWork)' < Left(RunWork)
    OBVIOUS
  <2>1. Shrinks(RunWork, RunWork') /\ AllFinite(RunWork)
    BY RunnerShrinks, RunWorkIsFinite DEF IInv
  <2>2. Left(RunWork') < Left(RunWork)
    BY <2>1, ShrinkingLeavesLess
  <2> QED
    BY <2>2
<1> QED
  BY <1>1, <1>2, InductiveInvariant, PTL DEF Spec
=============================================================================
