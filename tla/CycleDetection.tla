--------------------------- MODULE CycleDetection ---------------------------
(***************************************************************************)
(* `detect_cycle` and `dfs_detect` (wrangle-core/src/task_graph.rs): a     *)
(* depth-first search that colours tasks white, gray and black.  The       *)
(* recursion is unrolled: `path` is the stack of calls, and visited[n] how *)
(* many of n's dependencies its call has looked at.                        *)
(***************************************************************************)
EXTENDS TaskSpecs

VARIABLES
    root,      \* the index detect_cycle's loop is at
    colors,    \* the colour of each task
    path,      \* the gray tasks, outermost call first
    visited,   \* how many dependencies of each task were looked at
    verdict,   \* "searching", "Ok" or "CircularDependency"
    cycle      \* the cycle the error names

vars == <<tasks, root, colors, path, visited, verdict, cycle>>

Colors == {"White", "Gray", "Black"}

Colored(c) == { n \in DOMAIN tasks : colors[n] = c }

TypeOK ==
    /\ tasks \in TaskLists
    /\ root \in 1 .. Len(tasks) + 1
    /\ colors \in [DOMAIN tasks -> Colors]
    /\ path \in Seq(DOMAIN tasks)
    /\ visited \in [DOMAIN tasks -> Nat]
    /\ \A n \in DOMAIN tasks : visited[n] <= Len(tasks[n].dependencies)
    /\ verdict \in {"searching", "Ok", "CircularDependency"}
    /\ cycle \in Seq(DOMAIN tasks)

Init ==
    /\ tasks \in TaskLists
    /\ root = 1
    /\ colors = [n \in DOMAIN tasks |-> "White"]
    /\ path = <<>>
    /\ visited = [n \in DOMAIN tasks |-> 0]
    /\ verdict = "searching"
    /\ cycle = <<>>

-----------------------------------------------------------------------------
Top == path[Len(path)]

\* What the next dependency of the innermost call leads to: at most one task.
NextDependency(n) == Lookup(tasks, tasks[n].dependencies[visited[n] + 1])

HasMore(n) == visited[n] < Len(tasks[n].dependencies)

\* mutant: the stack is not grown
EnterUnrecorded(n) ==
    /\ colors' = [colors EXCEPT ![n] = "Gray"]
    /\ path' = <<n>>

\* A call of dfs_detect(n).
Enter(n) ==
    /\ colors' = [colors EXCEPT ![n] = "Gray"]
    /\ path' = Append(path, n)

\* The loop of detect_cycle, between two calls of dfs_detect.
StartCall ==
    /\ verdict = "searching" /\ path = <<>>
    /\ root <= Len(tasks)
    /\ colors[root] = "White"
    /\ Enter(root)
    /\ root' = root + 1
    /\ UNCHANGED <<tasks, visited, verdict, cycle>>

SkipColored ==
    /\ verdict = "searching" /\ path = <<>>
    /\ root <= Len(tasks)
    /\ colors[root] # "White"
    /\ root' = root + 1
    /\ UNCHANGED <<tasks, colors, path, visited, verdict, cycle>>

AnswerOk ==
    /\ verdict = "searching" /\ path = <<>>
    /\ root > Len(tasks)
    /\ verdict' = "Ok"
    /\ UNCHANGED <<tasks, root, colors, path, visited, cycle>>

-----------------------------------------------------------------------------
\* The loop over the dependencies of the innermost call.
InCall == verdict = "searching" /\ path # <<>>

Advance == visited' = [visited EXCEPT ![Top] = visited[Top] + 1]

\* mutant: a task on the path is taken for one that is done
SkippableColors == {"Gray", "Black"}
DoneColors      == {"Black"}

\* The dependency names no task, or one that is done.
SkipDependency ==
    /\ InCall /\ HasMore(Top)
    /\ \A d \in NextDependency(Top) : colors[d] \in DoneColors
    /\ Advance
    /\ UNCHANGED <<tasks, root, colors, path, verdict, cycle>>

Descend ==
    /\ InCall /\ HasMore(Top)
    /\ \E d \in NextDependency(Top) : colors[d] = "White" /\ Enter(d)
    /\ Advance
    /\ UNCHANGED <<tasks, root, verdict, cycle>>

\* mutant: the cycle is taken from the outermost call
WholePath(d) == Append(path, d)

\* `path[cycle_start..]` followed by the task that closes it.
CyclePath(d) ==
    LET start == CHOOSE p \in DOMAIN path : path[p] = d
    IN  Append(SubSeq(path, start, Len(path)), d)

ReportCycle ==
    /\ InCall /\ HasMore(Top)
    /\ \E d \in NextDependency(Top) :
          /\ colors[d] = "Gray"
          /\ cycle' = CyclePath(d)
    /\ verdict' = "CircularDependency"
    /\ UNCHANGED <<tasks, root, colors, path, visited>>

Return ==
    /\ InCall /\ ~HasMore(Top)
    /\ path' = SubSeq(path, 1, Len(path) - 1)
    /\ colors' = [colors EXCEPT ![Top] = "Black"]
    /\ UNCHANGED <<tasks, root, visited, verdict, cycle>>

\* The error propagates out of every call at once; nothing is done on the way.
Answered == verdict # "searching" /\ UNCHANGED vars

Next == \/ StartCall \/ SkipColored \/ AnswerOk
        \/ SkipDependency \/ Descend \/ ReportCycle \/ Return
        \/ Answered

Spec == Init /\ [][Next]_vars

-----------------------------------------------------------------------------
\* The gray tasks are those on the stack, each once; each frame was entered
\* for a dependency of the frame below it.  So `position(..).unwrap()` finds
\* the gray task, and what it cuts off the path is a cycle.
GrayIsPath ==
    verdict = "searching" =>
        /\ { path[p] : p \in DOMAIN path } = Colored("Gray")
        /\ \A p, q \in DOMAIN path : path[p] = path[q] => p = q
        /\ \A p \in 1 .. Len(path) - 1 : path[p + 1] \in Successors(tasks, path[p])

\* A done task depends on done tasks only, and they hold no cycle.
BlackIsClosed ==
    /\ \A n \in Colored("Black") : Successors(tasks, n) \subseteq Colored("Black")
    /\ \A S \in SUBSET Colored("Black") :
          S # {} => \E n \in S : Successors(tasks, n) \cap S = {}

\* Ok is the truth: the graph has no cycle.
OkMeansAcyclic == verdict = "Ok" => Acyclic(tasks)

\* The error is the truth, and names a cycle: the sequence ends where it
\* begins, visits nothing else twice, and follows dependencies.
ReportedCycleIsReal ==
    verdict = "CircularDependency" =>
        /\ ~Acyclic(tasks)
        /\ Len(cycle) >= 2
        /\ cycle[1] = cycle[Len(cycle)]
        /\ \A p, q \in 1 .. Len(cycle) - 1 : cycle[p] = cycle[q] => p = q
        /\ \A p \in 1 .. Len(cycle) - 1 : cycle[p + 1] \in Successors(tasks, cycle[p])

=============================================================================
