-------------------------- MODULE ParallelRunner --------------------------
(***************************************************************************)
(* `execute_parallel` (wrangle-runner/src/lib.rs): one caller that         *)
(* validates a task list, then fills a tokio JoinSet with workers and      *)
(* joins them one at a time; workers run concurrently, each through one    *)
(* backend process, or through two: the persistent transport gives up an   *)
(* attached run that ends in Err for a one-shot one and does not end the   *)
(* process it gives up.                                                    *)
(*                                                                         *)
(* Tasks are indices into the input list.  The caller removes the first    *)
(* ready task from `pending` and never reorders it, so `pending` is the    *)
(* set of indices left.  `results` is the HashMap keyed by task id.        *)
(***************************************************************************)
EXTENDS TaskSpecs, Lists, FiniteSets

CONSTANT WorkerLimits   \* the values max_parallel_workers may resolve to

ASSUME WorkerLimitsAssumption == WorkerLimits \subseteq Nat

VARIABLES
    maxWorkers,  \* max_workers
    pc,          \* where execute_parallel is
    pending,     \* the tasks not spawned yet
    worker,      \* each task's worker
    child,       \* each task's backend process, the last one if it has had two
    left,        \* the attached process given up for it
    results,     \* the result of each task id, or "none"
    reply,       \* Ok, or the kind of Err, once the call has returned
    returned     \* the list inside Ok

vars == <<tasks, maxWorkers, pc, pending, worker, child, left, results, reply, returned>>

ValidationErrors == { "NoTasks", "EmptyTaskId", "EmptyTask", "DuplicateTaskId",
                      "InvalidSessionId", "SelfDependency", "UnknownDependency",
                      "CircularGraph" }

\* "CircularGraph" is ConfigError::CircularDependency, from detect_cycle;
\* "CircularDependency" is ExecutionError::CircularDependency, from the loop.
Replies == ValidationErrors \cup
           { "none", "Ok", "Unsupported", "CircularDependency", "TaskError" }

Outcomes == { "success", "failure" }     \* ExecutionResult.success

Named == [ id : Ids, result : Outcomes ]    \* NamedExecutionResult

WorkerStates == { "unspawned",   \* still pending
                  "spawned",     \* in the JoinSet, its backend not started
                  "attached",    \* in the JoinSet, waiting for its backend
                  "success", "failure",  \* finished with a result, not joined
                  "error",       \* finished with Err, or panicked; not joined
                  "joined",      \* taken out by join_next
                  "cancelled" }  \* aborted when the JoinSet was dropped

TypeOK ==
    /\ tasks \in TaskLists
    /\ maxWorkers \in WorkerLimits
    /\ pc \in { "validate", "fill", "join", "returned" }
    /\ pending \subseteq DOMAIN tasks
    /\ worker \in [DOMAIN tasks -> WorkerStates]
    /\ child \in [DOMAIN tasks -> {"none", "alive", "exited"}]
    /\ left \in [DOMAIN tasks -> {"none", "alive", "exited"}]
    /\ results \in [Ids -> Outcomes \cup {"none"}]
    /\ reply \in Replies
    /\ (pc = "returned") <=> (reply # "none")

Init ==
    /\ tasks \in TaskLists
    /\ maxWorkers \in WorkerLimits
    /\ pc = "validate"
    /\ pending = DOMAIN tasks
    /\ worker = [i \in DOMAIN tasks |-> "unspawned"]
    /\ child = [i \in DOMAIN tasks |-> "none"]
    /\ left = [i \in DOMAIN tasks |-> "none"]
    /\ results = [id \in Ids |-> "none"]
    /\ reply = "none"
    /\ returned = <<>>

-----------------------------------------------------------------------------
Finished == { i \in DOMAIN tasks : worker[i] \in {"success", "failure", "error"} }

\* What the JoinSet holds: running.len() counts finished workers until they
\* are joined.
Running == { i \in DOMAIN tasks : worker[i] \in {"spawned", "attached"} } \cup Finished

HasCapacityForOneMore == Cardinality(Running) <= maxWorkers      \* mutant
HasCapacity == Cardinality(Running) < maxWorkers

\* mutant: a dependency that is no longer pending counts as done
ReadyWhenDependenciesSpawned(i) ==
    \A j \in pending : tasks[j].id \notin DependencyIds(tasks, i)

\* Every dependency has a result, whether it succeeded or not.
Ready(i) == \A d \in DependencyIds(tasks, i) : results[d] # "none"

\* `pending.remove(index)`; the mutant only reads the task
TakeCopy(i) == pending
Take(i)     == pending \ {i}

ReadyTasks == { i \in pending : Ready(i) }

Listed(res, S) ==
    LET Places == Filter([i \in DOMAIN tasks |-> i], S)
    IN  [p \in DOMAIN Places |-> [ id     |-> tasks[Places[p]].id,
                                  result |-> res[tasks[Places[p]].id] ]]

\* mutant: tasks that failed are left out of the list
CollectedSuccesses(res) ==
    Listed(res, { i \in DOMAIN tasks : res[tasks[i].id] = "success" })

\* Ok's list: the results that exist, in the order of the input.
Collected(res) == Listed(res, { i \in DOMAIN tasks : res[tasks[i].id] # "none" })

\* mutant: the error is noted and the loop goes on
NoteErr(kind) ==
    /\ reply' = kind
    /\ UNCHANGED <<pc, returned>>

ReturnErr(kind) ==
    /\ pc' = "returned"
    /\ reply' = kind
    /\ UNCHANGED returned

ReturnOk ==
    /\ pc' = "returned"
    /\ reply' = "Ok"

-----------------------------------------------------------------------------
(***************************************************************************)
(* The caller                                                              *)
(***************************************************************************)
Validate ==
    /\ pc = "validate"
    /\ LET verdict == EnsureParallelTasks(tasks) IN
       \/ /\ verdict # "Ok"
          /\ ReturnErr(verdict)
       \/ /\ verdict = "Ok"
          /\ \E i \in DOMAIN tasks : ~tasks[i].supported
          /\ ReturnErr("Unsupported")
       \/ /\ verdict = "Ok"
          /\ \A i \in DOMAIN tasks : tasks[i].supported
          /\ pc' = "fill"
          /\ UNCHANGED <<reply, returned>>
    /\ UNCHANGED <<tasks, maxWorkers, pending, worker, child, left, results>>

\* One round of the inner loop: spawn the first pending task that is ready.
Spawn ==
    /\ pc = "fill"
    /\ HasCapacity
    /\ \E i \in ReadyTasks :
          /\ \A j \in ReadyTasks : i <= j
          /\ pending' = Take(i)
          /\ worker' = [worker EXCEPT ![i] = "spawned"]
    /\ UNCHANGED <<tasks, maxWorkers, pc, child, left, results, reply, returned>>

\* The inner loop ends: no capacity, or `position` found nothing.
StopFilling ==
    /\ pc = "fill"
    /\ ~HasCapacity \/ ReadyTasks = {}
    /\ pc' = "join"
    /\ UNCHANGED <<tasks, maxWorkers, pending, worker, child, left, results, reply, returned>>

\* join_next answers None: nothing was spawned.  (The code's other branch, a
\* break when nothing is pending either, is dead: see JoinHasWork.)
JoinNothing ==
    /\ pc = "join"
    /\ Running = {}
    /\ pending # {}
    /\ ReturnErr("CircularDependency")
    /\ UNCHANGED <<tasks, maxWorkers, pending, worker, child, left, results>>

\* `next??`: an Err or a panic of one worker ends the call.
JoinError(i) ==
    /\ pc = "join"
    /\ worker[i] = "error"
    /\ worker' = [worker EXCEPT ![i] = "joined"]
    /\ ReturnErr("TaskError")
    /\ UNCHANGED <<tasks, maxWorkers, pending, child, left, results>>

\* A worker's result is stored.  If nothing runs any more, the call ends: with
\* CircularDependency when tasks are pending, with Ok when none is.
JoinResult(i) ==
    /\ pc = "join"
    /\ worker[i] \in Outcomes
    /\ results' = [results EXCEPT ![tasks[i].id] = worker[i]]
    /\ worker' = [worker EXCEPT ![i] = "joined"]
    /\ \/ /\ Running \ {i} # {}
          /\ pc' = "fill"
          /\ UNCHANGED <<reply, returned>>
       \/ /\ Running \ {i} = {}
          /\ pending # {}
          /\ ReturnErr("CircularDependency")
       \/ /\ Running \ {i} = {}
          /\ pending = {}
          /\ ReturnOk
          /\ returned' = Collected(results')
    /\ UNCHANGED <<tasks, maxWorkers, pending, child, left>>

-----------------------------------------------------------------------------
(***************************************************************************)
(* The workers: execute_request over a backend process.                    *)
(***************************************************************************)
\* Attached, or one-shot: also what an attachable task does when opencode
\* cannot attach or the server does not start.
StartBackend(i) ==
    /\ worker[i] = "spawned"
    /\ worker' = [worker EXCEPT ![i] = "attached"]
    /\ child' = [child EXCEPT ![i] = "alive"]
    /\ UNCHANGED <<tasks, maxWorkers, pc, pending, left, results, reply, returned>>

\* The request fails before a process exists: no such agent, spawn failed ...
FailToStart(i) ==
    /\ worker[i] = "spawned"
    /\ worker' = [worker EXCEPT ![i] = "error"]
    /\ UNCHANGED <<tasks, maxWorkers, pc, pending, child, left, results, reply, returned>>

\* run_subprocess reaps the process before it answers Ok.
Answer(i, outcome) ==
    /\ worker[i] = "attached"
    /\ worker' = [worker EXCEPT ![i] = outcome]
    /\ child' = [child EXCEPT ![i] = "exited"]
    /\ UNCHANGED <<tasks, maxWorkers, pc, pending, left, results, reply, returned>>

\* run_subprocess answers Err and leaves the process behind: a failed write
\* to its stdin or to the progress file.
FailAttached(i) ==
    /\ worker[i] = "attached"
    /\ worker' = [worker EXCEPT ![i] = "error"]
    /\ UNCHANGED <<tasks, maxWorkers, pc, pending, child, left, results, reply, returned>>

\* The same Err of an attached run is not the worker's: the request is run
\* once more, one-shot.  The process of the attached run may still be alive
\* (its stdin or the progress file failed), or have ended (the progress file
\* failed after the wait for it).
FallBack(i) ==
    /\ worker[i] = "attached"
    /\ tasks[i].attachable
    /\ left[i] = "none"
    /\ worker' = [worker EXCEPT ![i] = "spawned"]
    /\ child' = [child EXCEPT ![i] = "none"]
    /\ \E c \in {"alive", "exited"} : left' = [left EXCEPT ![i] = c]
    /\ UNCHANGED <<tasks, maxWorkers, pc, pending, results, reply, returned>>

\* Returning drops the JoinSet, which aborts what it still holds.  A worker
\* that is being polled runs on to its next await, so this is a step of its
\* own; it does not kill the worker's process.
Cancel(i) ==
    /\ pc = "returned"
    /\ worker[i] \in {"spawned", "attached"}
    /\ worker' = [worker EXCEPT ![i] = "cancelled"]
    /\ UNCHANGED <<tasks, maxWorkers, pc, pending, child, left, results, reply, returned>>

\* A process nobody waits for ends by itself.
OrphanExit(i) ==
    /\ child[i] = "alive"
    /\ worker[i] # "attached"
    /\ child' = [child EXCEPT ![i] = "exited"]
    /\ UNCHANGED <<tasks, maxWorkers, pc, pending, worker, left, results, reply, returned>>

LeftExit(i) ==
    /\ left[i] = "alive"
    /\ left' = [left EXCEPT ![i] = "exited"]
    /\ UNCHANGED <<tasks, maxWorkers, pc, pending, worker, child, results, reply, returned>>

-----------------------------------------------------------------------------
Caller ==
    \/ Validate \/ Spawn \/ StopFilling \/ JoinNothing
    \/ \E i \in DOMAIN tasks : JoinError(i) \/ JoinResult(i)

WorkerStep(i) ==
    \/ StartBackend(i) \/ FailToStart(i) \/ FailAttached(i) \/ FallBack(i)
    \/ \E outcome \in Outcomes : Answer(i, outcome)
    \/ Cancel(i)

\* Nothing is left to happen.
Settled ==
    /\ pc = "returned"
    /\ \A i \in DOMAIN tasks :
          /\ child[i] # "alive" /\ left[i] # "alive"
          /\ worker[i] \notin {"spawned", "attached"}
    /\ UNCHANGED vars

Next ==
    \/ Caller
    \/ \E i \in DOMAIN tasks : WorkerStep(i) \/ OrphanExit(i) \/ LeftExit(i)
    \/ Settled

Spec == Init /\ [][Next]_vars

TaskIndices == UNION { DOMAIN ts : ts \in TaskLists }

\* The executor polls the caller and every worker while they can run.  That an
\* attached worker ends at all is what run_subprocess and the backend owe.
Fairness ==
    /\ WF_vars(Caller)
    /\ \A i \in TaskIndices : WF_vars(i \in DOMAIN tasks /\ WorkerStep(i))

FairSpec == Spec /\ Fairness

-----------------------------------------------------------------------------
\* Every task is in one place: pending, in the JoinSet, or in `results`; what
\* join_next took out either left a result or ended the call (the removal from
\* the Vec, the JoinSet and the HashMap hand each task over exactly once).
NoTaskLost ==
    \A i \in DOMAIN tasks :
        /\ i \in pending <=> worker[i] = "unspawned"
        /\ results[tasks[i].id] # "none" => worker[i] = "joined"
        /\ worker[i] = "joined" => \/ results[tasks[i].id] # "none"
                                   \/ reply = "TaskError"

Alive == { i \in DOMAIN tasks : child[i] = "alive" }

GivenUp == { i \in DOMAIN tasks : left[i] = "alive" }

\* At no time, not even after the call returned, do more backend processes run
\* for it than max_workers, those aside that the persistent transport gave up:
\* capacity counts finished workers until they are joined, and a process whose
\* worker failed is left only when the call ends.  Beyond the limit there is
\* at most one process for each task that was started and asks for that
\* transport; a list without such a task keeps to max_workers.
ProcessBound ==
    /\ Cardinality(Alive) <= maxWorkers
    /\ \A i \in GivenUp : tasks[i].attachable /\ i \notin pending

\* A task has a backend process, the attached one included, only when of each
\* dependency the process that answered for it has been reaped: the readiness
\* test looks at results, and run_subprocess answers Ok for a process that
\* ended.  An attached process given up for a dependency may still run beside
\* its dependents; nothing waits for that one.
DependenciesReaped ==
    \A i, j \in DOMAIN tasks :
        /\ tasks[j].id \in DependencyIds(tasks, i)
        /\ child[i] # "none" \/ left[i] # "none"
        => child[j] = "exited"

\* join_next finds an empty JoinSet only under max_workers = 0, and then tasks
\* are pending: the branch `else break` is dead code.
JoinHasWork ==
    (pc = "join" /\ Running = {}) => (maxWorkers = 0 /\ pending # {})

\* Ok answers for every task, in the order of the input, with the outcome of
\* its backend; no worker is left and every process that answered has ended.
\* Processes given up may outlive it: see OthersAreGivenUp.
OkIsComplete ==
    reply = "Ok" =>
        /\ Len(returned) = Len(tasks)
        /\ \A i \in DOMAIN tasks :
              /\ returned[i].id = tasks[i].id
              /\ returned[i].result = results[tasks[i].id]
              /\ worker[i] = "joined"
              /\ child[i] = "exited"

\* When the loop reports a circular dependency the report is wrong: the graph
\* passed detect_cycle, and a task that could be spawned next is pending.
CircularReportIsSpurious ==
    reply = "CircularDependency" => /\ Acyclic(tasks)
                                    /\ ReadyTasks # {}

\* Which processes outlive the call: after a task's error those of the workers
\* that were aborted or failed; after Ok and after the loop's circular report
\* none but attached ones that were given up; after an error of validation
\* none at all.
OthersAreGivenUp ==
    pc = "returned" =>
        /\ Alive # {} => reply = "TaskError"
        /\ GivenUp # {} => reply \in {"TaskError", "CircularDependency", "Ok"}

\* A result, once stored, stays what it is until the call ends: no task runs,
\* or is joined, twice.
ResultsAreFinal ==
    [][\A id \in Ids : results[id] # "none" => results'[id] = results[id]]_vars

\* execute_parallel returns if every backend ends.
Returns == <>(pc = "returned")

-----------------------------------------------------------------------------
\* The refinement mapping to what a caller relies on.
Needs == [i \in DOMAIN tasks |->
            { j \in DOMAIN tasks : tasks[j].id \in DependencyIds(tasks, i) }]

StatusOf(c) == CASE c = "none"   -> "todo"
                 [] c = "alive"  -> "active"
                 [] c = "exited" -> "done"

BackendStatus == [i \in DOMAIN tasks |-> StatusOf(child[i])]

Abandoned == { i \in DOMAIN tasks : left[i] # "none" }

Promise == INSTANCE ParallelPromise WITH
               needs     <- Needs,
               limit     <- maxWorkers,
               again     <- { i \in DOMAIN tasks : tasks[i].attachable },
               status    <- BackendStatus,
               abandoned <- Abandoned,
               answer    <- IF reply \in {"none", "Ok"} THEN reply ELSE "Err"

\* execute_parallel keeps the promise: backends begin in dependency order and
\* within the limit, a task with the persistent transport is begun at most
\* twice and any other once, and Ok comes only when all of them have ended
\* but those it abandoned.
KeepsPromise == Promise!Spec

-----------------------------------------------------------------------------
\* docs/runner-api.md:272-274: a list that passes preview does not fail for
\* its graph when it is executed.
ValidGraphNeverReportedCircular == reply # "CircularDependency"

=============================================================================
