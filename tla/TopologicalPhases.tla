------------------------- MODULE TopologicalPhases -------------------------
(***************************************************************************)
(* `topological_phases` (wrangle-core/src/task_graph.rs): Kahn's           *)
(* algorithm, a phase at a time, which preview_parallel runs on a          *)
(* validated list and any caller may run on any list.  A dependency is     *)
(* counted once for each entry that names it, and an id that names no task *)
(* is counted and never taken off.                                         *)
(***************************************************************************)
EXTENDS TaskSpecs, FiniteSets

VARIABLES
    in_degree,  \* for each task, the entries that still hold it back
    completed,  \* the tasks taken off the graph
    ready,      \* the tasks of the current phase still to be taken off
    phases,     \* the phases found; the order inside a phase is left out
    finished    \* whether the loop was left

planVars == <<tasks, in_degree, completed, ready, phases, finished>>

PlanTypeOK ==
    /\ tasks \in TaskLists
    /\ in_degree \in [DOMAIN tasks -> Nat]
    /\ completed \subseteq DOMAIN tasks
    /\ ready \subseteq DOMAIN tasks
    /\ phases \in Seq(SUBSET DOMAIN tasks)
    /\ finished \in BOOLEAN

\* mutant: in_degree counts the tasks depended on, not the entries
DistinctDependencies(ts) == [i \in DOMAIN ts |-> Cardinality(DependencyIds(ts, i))]

Entries(ts) == [i \in DOMAIN ts |-> Len(ts[i].dependencies)]

PlanInit ==
    /\ tasks \in TaskLists
    /\ in_degree = Entries(tasks)
    /\ completed = {} /\ ready = {} /\ phases = <<>>
    /\ finished = FALSE

-----------------------------------------------------------------------------
\* mutant: a completed task may become ready again
FreeAgain == { i \in DOMAIN tasks : in_degree[i] = 0 }

Free == { i \in DOMAIN tasks : i \notin completed /\ in_degree[i] = 0 }

\* The entries of task n's list that name task i: `reverse_adj[i]` holds n once
\* for each of them.
EntriesFor(n, i) ==
    { p \in DOMAIN tasks[n].dependencies : i \in Lookup(tasks, tasks[n].dependencies[p]) }

\* mutant: a repeated dependency is taken off once
SaturatingOne(m, k) == IF k = 0 \/ m = 0 THEN m ELSE m - 1

\* k times saturating_sub(1).
Saturating(m, k) == IF k <= m THEN m - k ELSE 0

\* The head of the loop: collect what is ready, or leave.
StartPhase ==
    /\ ~finished /\ ready = {} /\ Free # {}
    /\ ready' = Free
    /\ phases' = Append(phases, Free)
    /\ UNCHANGED <<tasks, in_degree, completed, finished>>

Leave ==
    /\ ~finished /\ ready = {} /\ Free = {}
    /\ finished' = TRUE
    /\ UNCHANGED <<tasks, in_degree, completed, ready, phases>>

\* The body of the loop for one task of the phase, in the order of the list.
TakeOff ==
    /\ \E i \in ready :
          /\ \A j \in ready : i <= j
          /\ completed' = completed \cup {i}
          /\ ready' = ready \ {i}
          /\ in_degree' = [n \in DOMAIN tasks |->
                              Saturating(in_degree[n], Cardinality(EntriesFor(n, i)))]
    /\ UNCHANGED <<tasks, phases, finished>>

Finished == finished /\ UNCHANGED planVars

PlanNext == StartPhase \/ Leave \/ TakeOff \/ Finished

PlanSpec == PlanInit /\ [][PlanNext]_planVars

-----------------------------------------------------------------------------
Placed == UNION { phases[k] : k \in DOMAIN phases }

\* The entries of task n that no completed task answers.
OpenEntries(n) ==
    { p \in DOMAIN tasks[n].dependencies :
        \A i \in Lookup(tasks, tasks[n].dependencies[p]) : i \notin completed }

\* in_degree counts exactly the open entries: none is taken off twice, none is
\* forgotten, and saturating_sub never has anything to cut off.
InDegreeCountsOpenEntries ==
    \A n \in DOMAIN tasks : in_degree[n] = Cardinality(OpenEntries(n))

\* Every entry of a task in a phase names a task of an earlier phase, so
\* running phase after phase never starts a task before what it depends on.
PhasesRespectDependencies ==
    \A k \in DOMAIN phases : \A n \in phases[k] :
        \A p \in DOMAIN tasks[n].dependencies :
            \E j \in 1 .. k - 1 : \E i \in phases[j] :
                i \in Lookup(tasks, tasks[n].dependencies[p])

\* No task is in two phases, and each waits for one of the phase just before
\* its own: the plan has as few phases as the graph allows.
PhasesAreEarliest ==
    \A k \in DOMAIN phases :
        /\ \A j \in DOMAIN phases : j # k => phases[j] \cap phases[k] = {}
        /\ k > 1 => \A n \in phases[k] :
               Successors(tasks, n) \cap phases[k - 1] # {}

\* A task the plan leaves out has an entry that names nobody, or a task that
\* is left out too.
OmittedAreStuck ==
    finished => \A n \in DOMAIN tasks \ Placed :
        \E p \in DOMAIN tasks[n].dependencies :
            Lookup(tasks, tasks[n].dependencies[p]) \subseteq DOMAIN tasks \ Placed

\* So the plan of a list that ensure_parallel_tasks accepted has every task:
\* the two graph algorithms agree on what can be run.
ValidPlansAreComplete ==
    (finished /\ Validated(tasks)) => Placed = DOMAIN tasks

=============================================================================
