-------------------------- MODULE TaskGraphProofs --------------------------
(***************************************************************************)
(* Proofs about the two algorithms of task_graph.rs, for every task list.  *)
(* CycleDetection answers the truth: Ok exactly when the graph has no      *)
(* cycle, and otherwise a cycle of it.  TopologicalPhases respects the     *)
(* dependencies, has as few phases as can be, and leaves out only what can *)
(* never run.  Over one list, the two agree.  Both end.                    *)
(***************************************************************************)
EXTENDS CycleDetection, TopologicalPhases, ListsProofs

\* What the type of a list says of its entries.
LEMMA TaskListFacts ==
    ASSUME NEW ts \in Seq(ParallelTaskSpec)
    PROVE  /\ DOMAIN ts = 1 .. Len(ts) /\ Len(ts) \in Nat
           /\ \A i \in DOMAIN ts :
                 /\ ts[i].id \in Ids
                 /\ ts[i].dependencies \in Seq(Ids)
                 /\ DependencyIds(ts, i) \subseteq Ids
<1>1. \A i \in DOMAIN ts : ts[i] \in ParallelTaskSpec
  OBVIOUS
<1>2. ASSUME NEW i \in DOMAIN ts
      PROVE  /\ ts[i].id \in Ids
             /\ ts[i].dependencies \in Seq(Ids)
             /\ DependencyIds(ts, i) \subseteq Ids
  <2>1. ts[i].id \in Ids /\ ts[i].dependencies \in Seq(Ids)
    BY <1>1 DEF ParallelTaskSpec
  <2>2. \A p \in DOMAIN ts[i].dependencies : ts[i].dependencies[p] \in Ids
    BY <2>1
  <2> QED
    BY <2>1, <2>2 DEF DependencyIds
<1> QED
  BY <1>2

\* An id leads to one task at most.
LEMMA LookupIsUnique ==
    ASSUME NEW ts \in Seq(ParallelTaskSpec), NEW id,
           NEW i \in Lookup(ts, id), NEW j \in Lookup(ts, id)
    PROVE  i = j
<1>1. i \in Nat /\ j \in Nat /\ i <= j /\ j <= i
  BY TaskListFacts DEF Lookup
<1> QED
  BY <1>1

\* What each entry of task i's dependency list leads to makes up its successors.
LEMMA SuccessorsByEntry ==
    ASSUME NEW ts \in Seq(ParallelTaskSpec), NEW i \in DOMAIN ts
    PROVE  /\ \A p \in 1 .. Len(ts[i].dependencies) :
                 Lookup(ts, ts[i].dependencies[p]) \subseteq Successors(ts, i)
           /\ \A S : (\A p \in 1 .. Len(ts[i].dependencies) :
                         Lookup(ts, ts[i].dependencies[p]) \subseteq S)
                    => Successors(ts, i) \subseteq S
           /\ Successors(ts, i) \subseteq DOMAIN ts
<1>1. DOMAIN ts[i].dependencies = 1 .. Len(ts[i].dependencies)
  BY TaskListFacts
<1>2. \A d : Lookup(ts, d) \subseteq DOMAIN ts
  BY DEF Lookup
<1> QED
  BY <1>1, <1>2 DEF Successors, DependencyIds

-----------------------------------------------------------------------------
(***************************************************************************)
(* CycleDetection                                                          *)
(***************************************************************************)
\* A task not yet entered has had none of its dependencies looked at, and
\* detect_cycle's loop has entered every task it has passed.
UnenteredAreFresh ==
    \A n \in DOMAIN tasks : colors[n] = "White" => visited[n] = 0 /\ n >= root

\* The dependencies a call on the stack has looked at are done, except the one
\* whose call is the next on the stack.
LookedAt(k) ==
    Colored("Black") \cup (IF k < Len(path) THEN {path[k + 1]} ELSE {})

VisitedAreDone ==
    verdict = "searching" =>
        \A k \in DOMAIN path : \A p \in 1 .. visited[path[k]] :
            Lookup(tasks, tasks[path[k]].dependencies[p]) \subseteq LookedAt(k)

SearchIInv ==
    /\ TypeOK
    /\ GrayIsPath
    /\ BlackIsClosed
    /\ UnenteredAreFresh
    /\ VisitedAreDone
    /\ OkMeansAcyclic
    /\ ReportedCycleIsReal

-----------------------------------------------------------------------------
\* What the type invariant says of the list, the stack and the next entry.
LEMMA StackFacts ==
    ASSUME TypeOK
    PROVE  /\ tasks \in Seq(ParallelTaskSpec)
           /\ DOMAIN tasks = 1 .. Len(tasks) /\ Len(tasks) \in Nat
           /\ DOMAIN path = 1 .. Len(path) /\ Len(path) \in Nat
           /\ \A k \in DOMAIN path : path[k] \in DOMAIN tasks
           /\ path # <<>> => Len(path) \in DOMAIN path /\ Top \in DOMAIN tasks
<1>1. tasks \in Seq(ParallelTaskSpec)
  BY TaskListsAssumption DEF TypeOK
<1>2. path \in Seq(DOMAIN tasks)
  BY DEF TypeOK
<1>3. path # <<>> => Len(path) \in DOMAIN path
  BY <1>2, EmptySeq
<1> QED
  BY <1>1, <1>2, <1>3, TaskListFacts DEF Top

LEMMA BelowTop ==
    ASSUME NEW n \in Nat, NEW p \in 1 .. n, p # n
    PROVE  p \in 1 .. n - 1 /\ p + 1 \in 1 .. n /\ p \in Nat /\ p < n
OBVIOUS

LEMMA SearchInitEstablishes == Init => SearchIInv
<1> SUFFICES ASSUME Init PROVE SearchIInv
  OBVIOUS
<1>1. tasks \in Seq(ParallelTaskSpec)
  BY TaskListsAssumption DEF Init
<1>2. /\ DOMAIN tasks = 1 .. Len(tasks) /\ Len(tasks) \in Nat
      /\ \A i \in DOMAIN tasks : tasks[i].dependencies \in Seq(Ids)
  BY <1>1, TaskListFacts
<1>3. <<>> \in Seq(DOMAIN tasks) /\ DOMAIN <<>> = {} /\ Len(<<>>) = 0
  BY EmptySeq
<1>4. TypeOK
  BY <1>2, <1>3 DEF Init, TypeOK, Colors
<1>5. GrayIsPath /\ BlackIsClosed /\ UnenteredAreFresh /\ VisitedAreDone
  BY <1>2, <1>3 DEF Init, GrayIsPath, BlackIsClosed, UnenteredAreFresh, VisitedAreDone, Colored
<1> QED
  BY <1>4, <1>5 DEF Init, SearchIInv, OkMeansAcyclic, ReportedCycleIsReal

-----------------------------------------------------------------------------
(***************************************************************************)
(* detect_cycle's loop                                                     *)
(***************************************************************************)
\* A call for a white task puts it on the stack.
LEMMA EnterFacts ==
    ASSUME TypeOK, NEW n \in DOMAIN tasks, colors[n] = "White", Enter(n), tasks' = tasks
    PROVE  /\ path' \in Seq(DOMAIN tasks) /\ Len(path') = Len(path) + 1
           /\ path'[Len(path) + 1] = n
           /\ \A k \in 1 .. Len(path) : path'[k] = path[k]
           /\ colors' \in [DOMAIN tasks -> Colors]
           /\ Colored("Gray")' = Colored("Gray") \cup {n}
           /\ Colored("Black")' = Colored("Black")
<1>1. path \in Seq(DOMAIN tasks)
  BY DEF TypeOK
<1>2. /\ path' \in Seq(DOMAIN tasks) /\ Len(path') = Len(path) + 1
      /\ path'[Len(path) + 1] = n
      /\ \A k \in 1 .. Len(path) : path'[k] = path[k]
  BY <1>1, AppendProperties DEF Enter
<1> QED
  BY <1>2 DEF Enter, Colored, TypeOK, Colors

LEMMA StartCallStep == SearchIInv /\ StartCall => SearchIInv'
<1> SUFFICES ASSUME SearchIInv, StartCall PROVE SearchIInv'
  OBVIOUS
<1> USE DEF SearchIInv
<1>0. /\ verdict = "searching" /\ verdict' = "searching" /\ path = <<>> /\ Enter(root)
      /\ root <= Len(tasks) /\ colors[root] = "White" /\ root' = root + 1
      /\ UNCHANGED <<tasks, visited, verdict, cycle>>
  BY DEF StartCall
<1>1. /\ DOMAIN tasks = 1 .. Len(tasks) /\ Len(tasks) \in Nat /\ Len(path) = 0
      /\ root \in DOMAIN tasks
  BY <1>0, StackFacts, EmptySeq DEF TypeOK
<1>2. /\ path' \in Seq(DOMAIN tasks) /\ Len(path') = 1 /\ path'[1] = root
      /\ colors' \in [DOMAIN tasks -> Colors]
      /\ Colored("Gray")' = Colored("Gray") \cup {root} /\ Colored("Black")' = Colored("Black")
  BY <1>0, <1>1, EnterFacts
<1>3. Colored("Gray") = {}
  BY <1>0, <1>1, StackFacts DEF GrayIsPath
<1>4. DOMAIN path' = {1}
  BY <1>2
<1>5. TypeOK'
  BY <1>0, <1>1, <1>2 DEF TypeOK
<1>6. GrayIsPath'
  BY <1>2, <1>3, <1>4 DEF GrayIsPath
<1>7. BlackIsClosed'
  BY <1>0, <1>2 DEF BlackIsClosed
<1>8. UnenteredAreFresh'
  BY <1>0, <1>1 DEF UnenteredAreFresh, Enter, TypeOK
<1>9. VisitedAreDone'
  BY <1>0, <1>1, <1>2, <1>4 DEF VisitedAreDone, UnenteredAreFresh
<1> QED
  BY <1>0, <1>5, <1>6, <1>7, <1>8, <1>9 DEF OkMeansAcyclic, ReportedCycleIsReal

LEMMA SkipColoredStep == SearchIInv /\ SkipColored => SearchIInv'
<1> SUFFICES ASSUME SearchIInv, SkipColored PROVE SearchIInv'
  OBVIOUS
<1> USE DEF SearchIInv, SkipColored
<1>1. DOMAIN tasks = 1 .. Len(tasks) /\ Len(tasks) \in Nat
  BY StackFacts
<1>2. TypeOK' /\ UnenteredAreFresh'
  BY <1>1 DEF TypeOK, UnenteredAreFresh
<1>3. Colored("Black")' = Colored("Black") /\ Colored("Gray")' = Colored("Gray")
  BY DEF Colored
<1>4. GrayIsPath' /\ BlackIsClosed' /\ VisitedAreDone'
  BY <1>3 DEF GrayIsPath, BlackIsClosed, VisitedAreDone, LookedAt
<1> QED
  BY <1>2, <1>4 DEF OkMeansAcyclic, ReportedCycleIsReal

LEMMA AnswerOkStep == SearchIInv /\ AnswerOk => SearchIInv'
<1> SUFFICES ASSUME SearchIInv, AnswerOk PROVE SearchIInv'
  OBVIOUS
<1> USE DEF SearchIInv, AnswerOk
<1>1. DOMAIN tasks = 1 .. Len(tasks) /\ Len(tasks) \in Nat /\ DOMAIN path = {}
  BY StackFacts, EmptySeq
<1>2. Colored("Black") = DOMAIN tasks
  <2>1. Colored("Gray") = {}
    BY <1>1 DEF GrayIsPath
  <2>2. \A n \in DOMAIN tasks : colors[n] # "White"
    BY <1>1 DEF UnenteredAreFresh, TypeOK
  <2> QED
    BY <2>1, <2>2 DEF Colored, TypeOK, Colors
<1>3. Acyclic(tasks)
  BY <1>2 DEF BlackIsClosed, Acyclic
<1>4. TypeOK' /\ UnenteredAreFresh' /\ Colored("Black")' = Colored("Black")
  BY DEF TypeOK, UnenteredAreFresh, Colored
<1> QED
  BY <1>3, <1>4 DEF OkMeansAcyclic, ReportedCycleIsReal, GrayIsPath, BlackIsClosed, VisitedAreDone

-----------------------------------------------------------------------------
(***************************************************************************)
(* The loop over a call's dependencies                                     *)
(***************************************************************************)
\* The entry a call looks at next.
LEMMA EntryFacts ==
    ASSUME TypeOK, InCall, HasMore(Top)
    PROVE  /\ visited[Top] \in Nat
           /\ visited[Top] + 1 \in 1 .. Len(tasks[Top].dependencies)
           /\ NextDependency(Top) \subseteq Successors(tasks, Top)
           /\ NextDependency(Top) \subseteq DOMAIN tasks
<1>1. Top \in DOMAIN tasks /\ tasks \in Seq(ParallelTaskSpec)
  BY StackFacts DEF InCall
<1>2. tasks[Top].dependencies \in Seq(Ids)
  BY <1>1, TaskListFacts
<1>3. visited[Top] \in Nat /\ visited[Top] + 1 \in 1 .. Len(tasks[Top].dependencies)
  BY <1>1, <1>2 DEF TypeOK, HasMore
<1>4. NextDependency(Top) \subseteq DOMAIN tasks
  BY DEF NextDependency, Lookup
<1>5. NextDependency(Top) \subseteq Successors(tasks, Top)
  BY <1>1, <1>3, SuccessorsByEntry DEF NextDependency
<1> QED
  BY <1>3, <1>4, <1>5

LEMMA AdvanceKeepsType ==
    ASSUME TypeOK, InCall, HasMore(Top), Advance, tasks' = tasks
    PROVE  /\ visited' \in [DOMAIN tasks -> Nat]
           /\ \A n \in DOMAIN tasks : visited'[n] <= Len(tasks[n].dependencies)
           /\ \A n \in DOMAIN tasks : n # Top => visited'[n] = visited[n]
           /\ visited'[Top] = visited[Top] + 1
<1>1. Top \in DOMAIN tasks
  BY StackFacts DEF InCall
<1> QED
  BY <1>1, EntryFacts DEF Advance, TypeOK

LEMMA SkipDependencyStep == SearchIInv /\ SkipDependency => SearchIInv'
<1> SUFFICES ASSUME SearchIInv, SkipDependency PROVE SearchIInv'
  OBVIOUS
<1> USE DEF SearchIInv
<1>0. /\ verdict = "searching" /\ InCall /\ HasMore(Top) /\ Advance
      /\ NextDependency(Top) \subseteq Colored("Black")
      /\ UNCHANGED <<tasks, root, colors, path, verdict, cycle>>
  BY EntryFacts DEF SkipDependency, InCall, DoneColors, Colored
<1>1. TypeOK'
  BY <1>0, AdvanceKeepsType DEF TypeOK
<1>2. Colored("Black")' = Colored("Black") /\ Colored("Gray")' = Colored("Gray")
  BY <1>0 DEF Colored
<1>3. GrayIsPath' /\ BlackIsClosed'
  BY <1>0, <1>2 DEF GrayIsPath, BlackIsClosed
<1>4. Top \in Colored("Gray")
  BY <1>0, StackFacts DEF GrayIsPath, InCall, Top
<1>5. UnenteredAreFresh'
  BY <1>0, <1>4, AdvanceKeepsType DEF UnenteredAreFresh, Colored
<1>6. VisitedAreDone'
  <2> SUFFICES ASSUME NEW k \in DOMAIN path, NEW p \in 1 .. visited'[path[k]]
               PROVE  Lookup(tasks, tasks[path[k]].dependencies[p]) \subseteq LookedAt(k)'
    BY <1>0 DEF VisitedAreDone
  <2>1. LookedAt(k)' = LookedAt(k) /\ path[k] \in DOMAIN tasks
    BY <1>0, <1>2, StackFacts DEF LookedAt
  <2>2. CASE p \in 1 .. visited[path[k]]
    BY <1>0, <2>1, <2>2 DEF VisitedAreDone
  <2>3. CASE p \notin 1 .. visited[path[k]]
    <3>1. path[k] = Top
      BY <1>0, <2>1, <2>3, AdvanceKeepsType
    <3>2. visited'[Top] = visited[Top] + 1 /\ visited[Top] \in Nat
      BY <1>0, AdvanceKeepsType, EntryFacts
    <3>3. p = visited[Top] + 1
      BY <2>3, <3>1, <3>2
    <3> QED
      BY <1>0, <2>1, <3>1, <3>3 DEF NextDependency, LookedAt
  <2> QED
    BY <2>2, <2>3
<1> QED
  BY <1>0, <1>1, <1>3, <1>5, <1>6 DEF OkMeansAcyclic, ReportedCycleIsReal

LEMMA DescendStep == SearchIInv /\ Descend => SearchIInv'
<1> SUFFICES ASSUME SearchIInv, Descend PROVE SearchIInv'
  OBVIOUS
<1> USE DEF SearchIInv
<1>0. /\ verdict = "searching" /\ InCall /\ HasMore(Top) /\ Advance
      /\ UNCHANGED <<tasks, root, verdict, cycle>>
  BY DEF Descend, InCall
<1>1. PICK d \in NextDependency(Top) : colors[d] = "White" /\ Enter(d)
  BY DEF Descend
<1>2. /\ d \in DOMAIN tasks /\ d \in Successors(tasks, Top)
      /\ NextDependency(Top) = {d}
  BY <1>0, <1>1, EntryFacts, StackFacts, LookupIsUnique DEF NextDependency
<1>3. /\ path' \in Seq(DOMAIN tasks) /\ Len(path') = Len(path) + 1
      /\ path'[Len(path) + 1] = d /\ \A k \in 1 .. Len(path) : path'[k] = path[k]
      /\ colors' \in [DOMAIN tasks -> Colors]
      /\ Colored("Gray")' = Colored("Gray") \cup {d} /\ Colored("Black")' = Colored("Black")
  BY <1>0, <1>1, <1>2, EnterFacts
<1>4. /\ Len(path) \in Nat /\ DOMAIN path = 1 .. Len(path) /\ Len(path) >= 1
      /\ DOMAIN path' = 1 .. Len(path) + 1 /\ Top = path[Len(path)]
  BY <1>0, <1>3, StackFacts DEF InCall, Top
<1>5. TypeOK'
  BY <1>0, <1>3, AdvanceKeepsType DEF TypeOK
<1>6. d \notin Colored("Gray") /\ Top \in Colored("Gray")
  BY <1>0, <1>1, <1>4 DEF GrayIsPath, Colored
<1>7. GrayIsPath'
  <2>1. { path'[p] : p \in DOMAIN path' } = Colored("Gray")'
    BY <1>0, <1>3, <1>4 DEF GrayIsPath
  <2>2. \A p, q \in DOMAIN path' : path'[p] = path'[q] => p = q
    <3>1. \A p \in DOMAIN path : path'[p] = path[p] /\ path[p] \in Colored("Gray")
      BY <1>0, <1>3, <1>4 DEF GrayIsPath
    <3> QED
      BY <1>0, <1>3, <1>4, <1>6, <3>1 DEF GrayIsPath
  <2>3. \A p \in 1 .. Len(path') - 1 : path'[p + 1] \in Successors(tasks, path'[p])
    <3> SUFFICES ASSUME NEW p \in 1 .. Len(path)
                 PROVE  path'[p + 1] \in Successors(tasks, path'[p])
      BY <1>3, <1>4
    <3>1. CASE p = Len(path)
      BY <1>2, <1>3, <1>4, <3>1
    <3>2. CASE p # Len(path)
      <4>1. p \in 1 .. Len(path) - 1 /\ p + 1 \in 1 .. Len(path)
        BY <1>4, <3>2, BelowTop
      <4>2. path[p + 1] \in Successors(tasks, path[p])
        BY <1>0, <4>1 DEF GrayIsPath
      <4> QED
        BY <1>3, <4>1, <4>2
    <3> QED
      BY <3>1, <3>2
  <2> QED
    BY <1>0, <2>1, <2>2, <2>3 DEF GrayIsPath
<1>8. BlackIsClosed'
  BY <1>0, <1>3 DEF BlackIsClosed
<1>9. UnenteredAreFresh'
  BY <1>0, <1>1, <1>2, <1>6, AdvanceKeepsType DEF UnenteredAreFresh, Enter, TypeOK, Colored
<1>10. VisitedAreDone'
  <2> SUFFICES ASSUME NEW k \in 1 .. Len(path) + 1, NEW p \in 1 .. visited'[path'[k]]
               PROVE  Lookup(tasks, tasks[path'[k]].dependencies[p]) \subseteq LookedAt(k)'
    BY <1>0, <1>4 DEF VisitedAreDone
  <2>1. CASE k = Len(path) + 1
    <3>1. visited'[d] = 0
      BY <1>0, <1>1, <1>2, <1>6, AdvanceKeepsType DEF UnenteredAreFresh
    <3> QED
      BY <1>3, <2>1, <3>1
  <2>2. CASE k \in 1 .. Len(path)
    <3>1. /\ path'[k] = path[k] /\ path[k] \in DOMAIN tasks
          /\ LookedAt(k)' = Colored("Black") \cup {path'[k + 1]}
      BY <1>3, <1>4, <2>2, StackFacts DEF LookedAt
    <3>2. CASE p \in 1 .. visited[path[k]]
      <4>1. Lookup(tasks, tasks[path[k]].dependencies[p]) \subseteq LookedAt(k)
        BY <1>0, <1>4, <2>2, <3>2 DEF VisitedAreDone
      <4>2. LookedAt(k) \subseteq LookedAt(k)'
        BY <1>3, <1>4, <2>2, <3>1 DEF LookedAt
      <4> QED
        BY <3>1, <4>1, <4>2
    <3>3. CASE p \notin 1 .. visited[path[k]]
      <4>1. p \in 1 .. visited'[path[k]]
        BY <3>1
      <4>2. visited[path[k]] \in Nat /\ visited'[path[k]] # visited[path[k]]
        BY <3>1, <3>3, <4>1 DEF TypeOK
      <4>3. path[k] = Top /\ p = visited[Top] + 1
        BY <1>0, <3>1, <3>3, <4>1, <4>2, AdvanceKeepsType
      <4>4. k = Len(path)
        BY <1>0, <1>4, <2>2, <4>3 DEF GrayIsPath
      <4> QED
        BY <1>2, <1>3, <3>1, <4>3, <4>4 DEF NextDependency
    <3> QED
      BY <3>2, <3>3
  <2> QED
    BY <1>4, <2>1, <2>2
<1> QED
  BY <1>0, <1>5, <1>7, <1>8, <1>9, <1>10 DEF OkMeansAcyclic, ReportedCycleIsReal

LEMMA ReportCycleStep == SearchIInv /\ ReportCycle => SearchIInv'
<1> SUFFICES ASSUME SearchIInv, ReportCycle PROVE SearchIInv'
  OBVIOUS
<1> USE DEF SearchIInv
<1>0. /\ verdict = "searching" /\ InCall /\ HasMore(Top) /\ verdict' = "CircularDependency"
      /\ UNCHANGED <<tasks, root, colors, path, visited>>
  BY DEF ReportCycle, InCall
<1>1. PICK d \in NextDependency(Top) : colors[d] = "Gray" /\ cycle' = CyclePath(d)
  BY DEF ReportCycle
<1>2. d \in DOMAIN tasks /\ d \in Successors(tasks, Top)
  BY <1>0, EntryFacts
<1> DEFINE start == CHOOSE p \in DOMAIN path : path[p] = d
           n     == Len(path)
<1>3. start \in DOMAIN path /\ path[start] = d
  <2>1. \E p \in DOMAIN path : path[p] = d
    BY <1>0, <1>1, <1>2 DEF GrayIsPath, Colored
  <2> QED
    BY <2>1
<1>4. /\ n \in Nat /\ DOMAIN path = 1 .. n /\ start \in 1 .. n /\ Top = path[n]
      /\ path \in Seq(DOMAIN tasks)
  BY <1>3, StackFacts DEF Top, TypeOK
<1>5. cycle' = Append(SubSeq(path, start, n), d)
  BY <1>1 DEF CyclePath
<1> HIDE DEF start, n
<1>6. /\ SubSeq(path, start, n) \in Seq(DOMAIN tasks)
      /\ Len(SubSeq(path, start, n)) = n - start + 1
      /\ \A p \in 1 .. n - start + 1 : SubSeq(path, start, n)[p] = path[start + p - 1]
  BY <1>4, SubSeqProperties DEF n
<1>7. /\ cycle' \in Seq(DOMAIN tasks) /\ Len(cycle') = n - start + 2
      /\ cycle'[n - start + 2] = d
      /\ \A p \in 1 .. n - start + 1 : cycle'[p] = path[start + p - 1]
  BY <1>2, <1>4, <1>5, <1>6, AppendProperties
<1>8. TypeOK' /\ UnenteredAreFresh' /\ BlackIsClosed'
  BY <1>0, <1>7 DEF TypeOK, UnenteredAreFresh, BlackIsClosed, Colored
<1>9. ReportedCycleIsReal'
  <2>1. Len(cycle') >= 2 /\ cycle'[1] = cycle'[Len(cycle')]
    BY <1>3, <1>4, <1>7
  <2>2. ASSUME NEW p \in 1 .. n - start + 1, NEW q \in 1 .. n - start + 1,
               cycle'[p] = cycle'[q]
        PROVE  p = q
    <3>1. path[start + p - 1] = path[start + q - 1]
      BY <1>7, <2>2
    <3>2. start + p - 1 \in 1 .. n /\ start + q - 1 \in 1 .. n
      BY <1>4
    <3>3. start + p - 1 = start + q - 1
      BY <1>0, <1>4, <3>1, <3>2 DEF GrayIsPath
    <3> QED
      BY <1>4, <3>3
  <2>3. ASSUME NEW p \in 1 .. n - start + 1
        PROVE  cycle'[p + 1] \in Successors(tasks, cycle'[p])
    <3>1. CASE p = n - start + 1
      BY <1>2, <1>4, <1>7, <3>1
    <3>2. CASE p # n - start + 1
      <4>1. /\ p + 1 \in 1 .. n - start + 1 /\ start + p - 1 \in 1 .. n - 1
            /\ start + (p + 1) - 1 = (start + p - 1) + 1
        BY <1>4, <3>2
      <4>2. path[(start + p - 1) + 1] \in Successors(tasks, path[start + p - 1])
        BY <1>0, <4>1 DEF GrayIsPath, n
      <4> QED
        BY <1>7, <4>1, <4>2
    <3> QED
      BY <3>1, <3>2
  <2>4. ~Acyclic(tasks)
    <3> DEFINE S == { path[q] : q \in start .. n }
    <3>1. S \in SUBSET DOMAIN tasks /\ d \in S
      BY <1>3, <1>4, StackFacts
    <3>2. ASSUME NEW m \in S PROVE Successors(tasks, m) \cap S # {}
      <4>1. PICK q \in start .. n : m = path[q]
        BY <3>2
      <4>2. CASE q = n
        BY <1>2, <1>4, <3>1, <4>1, <4>2
      <4>3. CASE q # n
        <5>1. q \in 1 .. n - 1 /\ q + 1 \in start .. n
          BY <1>4, <4>3
        <5>2. path[q + 1] \in Successors(tasks, path[q])
          BY <1>0, <5>1 DEF GrayIsPath, n
        <5> QED
          BY <4>1, <5>1, <5>2
      <4> QED
        BY <4>2, <4>3
    <3> QED
      BY <3>1, <3>2 DEF Acyclic
  <2>5. Len(cycle') - 1 = n - start + 1
    BY <1>4, <1>7
  <2> QED
    BY <1>0, <2>1, <2>2, <2>3, <2>4, <2>5 DEF ReportedCycleIsReal
<1> QED
  BY <1>0, <1>8, <1>9 DEF GrayIsPath, VisitedAreDone, OkMeansAcyclic

LEMMA ReturnStep == SearchIInv /\ Return => SearchIInv'
<1> SUFFICES ASSUME SearchIInv, Return PROVE SearchIInv'
  OBVIOUS
<1> USE DEF SearchIInv
<1>0. /\ verdict = "searching" /\ InCall /\ ~HasMore(Top)
      /\ path' = SubSeq(path, 1, Len(path) - 1)
      /\ colors' = [colors EXCEPT ![Top] = "Black"]
      /\ UNCHANGED <<tasks, root, visited, verdict, cycle>>
  BY DEF Return, InCall
<1>1. /\ Len(path) \in Nat /\ DOMAIN path = 1 .. Len(path) /\ Len(path) >= 1
      /\ Top = path[Len(path)] /\ Top \in DOMAIN tasks /\ path \in Seq(DOMAIN tasks)
  BY <1>0, StackFacts DEF InCall, Top, TypeOK
<1>2. /\ path' \in Seq(DOMAIN tasks) /\ Len(path') = Len(path) - 1
      /\ DOMAIN path' = 1 .. Len(path) - 1
      /\ \A k \in 1 .. Len(path) - 1 : path'[k] = path[k]
  BY <1>0, <1>1, SubSeqProperties
<1>3. Top \in Colored("Gray")
  BY <1>0, <1>1 DEF GrayIsPath
<1>4. /\ Colored("Gray")' = Colored("Gray") \ {Top}
      /\ Colored("Black")' = Colored("Black") \cup {Top}
  BY <1>0, <1>1 DEF Colored, TypeOK
<1>5. TypeOK'
  BY <1>0, <1>1, <1>2 DEF TypeOK, Colors
<1>6. UnenteredAreFresh'
  BY <1>0, <1>1 DEF UnenteredAreFresh, TypeOK
<1>7. GrayIsPath'
  <2>1. { path'[p] : p \in DOMAIN path' } = Colored("Gray") \ {Top}
    <3>1. \A p \in 1 .. Len(path) : path[p] = Top <=> p = Len(path)
      <4>1. \A p, q \in 1 .. Len(path) : path[p] = path[q] => p = q
        BY <1>0, <1>1 DEF GrayIsPath
      <4>2. Len(path) \in 1 .. Len(path)
        BY <1>1
      <4> QED
        BY <1>1, <4>1, <4>2
    <3>2. \A m \in Colored("Gray") : \E p \in 1 .. Len(path) : path[p] = m
      BY <1>0, <1>1 DEF GrayIsPath
    <3>3. \A p \in 1 .. Len(path) : path[p] \in Colored("Gray")
      BY <1>0, <1>1 DEF GrayIsPath
    <3>4. ASSUME NEW m \in Colored("Gray") \ {Top}
          PROVE  m \in { path'[p] : p \in DOMAIN path' }
      <4>1. PICK p \in 1 .. Len(path) : path[p] = m
        BY <3>2
      <4>2. p # Len(path)
        BY <3>1, <4>1
      <4>3. p \in 1 .. Len(path) - 1
        BY <1>1, <4>2, BelowTop
      <4> QED
        BY <1>2, <4>1, <4>3
    <3>5. ASSUME NEW p \in DOMAIN path' PROVE path'[p] \in Colored("Gray") \ {Top}
      <4>1. p \in 1 .. Len(path) - 1
        BY <1>2
      <4>2. p \in 1 .. Len(path) /\ p # Len(path)
        BY <1>1, <4>1
      <4>3. path[p] \in Colored("Gray") /\ path[p] # Top
        BY <3>1, <3>3, <4>2
      <4> QED
        BY <1>2, <4>1, <4>3
    <3> QED
      BY <3>4, <3>5
  <2>2. \A p, q \in DOMAIN path' : path'[p] = path'[q] => p = q
    BY <1>0, <1>1, <1>2 DEF GrayIsPath
  <2>3. ASSUME NEW p \in 1 .. Len(path) - 2
        PROVE  path'[p + 1] \in Successors(tasks, path'[p])
    <3>1. p \in 1 .. Len(path) - 1 /\ p + 1 \in 1 .. Len(path) - 1
      BY <1>1
    <3>2. path[p + 1] \in Successors(tasks, path[p])
      BY <1>0, <3>1 DEF GrayIsPath
    <3> QED
      BY <1>2, <3>1, <3>2
  <2> QED
    BY <1>0, <1>1, <1>2, <1>4, <2>1, <2>2, <2>3 DEF GrayIsPath
<1>8. Successors(tasks, Top) \subseteq Colored("Black")
  <2>1. tasks[Top].dependencies \in Seq(Ids) /\ tasks \in Seq(ParallelTaskSpec)
    BY <1>1, StackFacts, TaskListFacts
  <2>2. visited[Top] = Len(tasks[Top].dependencies)
    BY <1>0, <1>1, <2>1 DEF TypeOK, HasMore
  <2>3. LookedAt(Len(path)) = Colored("Black")
    BY <1>1 DEF LookedAt
  <2>4. \A p \in 1 .. Len(tasks[Top].dependencies) :
           Lookup(tasks, tasks[Top].dependencies[p]) \subseteq Colored("Black")
    BY <1>0, <1>1, <2>2, <2>3 DEF VisitedAreDone
  <2> QED
    BY <1>1, <2>1, <2>4, SuccessorsByEntry
<1>9. BlackIsClosed'
  <2>1. ASSUME NEW S \in SUBSET (Colored("Black") \cup {Top}), S # {}
        PROVE  \E m \in S : Successors(tasks, m) \cap S = {}
    <3>1. Top \notin Colored("Black")
      BY <1>3 DEF Colored
    <3>2. CASE S \ {Top} = {}
      BY <1>8, <2>1, <3>1, <3>2
    <3>3. CASE S \ {Top} # {}
      <4>1. PICK m \in S \ {Top} : Successors(tasks, m) \cap (S \ {Top}) = {}
        BY <3>3 DEF BlackIsClosed
      <4>2. Successors(tasks, m) \subseteq Colored("Black")
        BY <4>1 DEF BlackIsClosed
      <4> QED
        BY <3>1, <4>1, <4>2
    <3> QED
      BY <3>2, <3>3
  <2>2. \A m \in Colored("Black") \cup {Top} : Successors(tasks, m) \subseteq Colored("Black")
    BY <1>8 DEF BlackIsClosed
  <2> QED
    BY <1>0, <1>4, <2>1, <2>2 DEF BlackIsClosed
<1>10. VisitedAreDone'
  <2> SUFFICES ASSUME NEW k \in 1 .. Len(path) - 1, NEW p \in 1 .. visited[path[k]]
               PROVE  Lookup(tasks, tasks[path[k]].dependencies[p]) \subseteq LookedAt(k)'
    BY <1>0, <1>2 DEF VisitedAreDone
  <2>1. Lookup(tasks, tasks[path[k]].dependencies[p]) \subseteq LookedAt(k)
    BY <1>0, <1>1 DEF VisitedAreDone
  <2>2. LookedAt(k) \subseteq LookedAt(k)'
    <3>1. CASE k = Len(path) - 1
      BY <1>1, <1>2, <1>4, <3>1 DEF LookedAt
    <3>2. CASE k # Len(path) - 1
      <4>0. Len(path) - 1 \in Nat
        BY <1>1
      <4>1. k \in Nat /\ Len(path) \in Nat /\ k < Len(path) - 1
        BY <1>1, <3>2, <4>0, BelowTop
      <4>2. k < Len(path) /\ k < Len(path') /\ path'[k + 1] = path[k + 1]
        BY <1>2, <4>1
      <4> QED
        BY <1>4, <4>2 DEF LookedAt
    <3> QED
      BY <3>1, <3>2
  <2> QED
    BY <2>1, <2>2
<1> QED
  BY <1>0, <1>5, <1>6, <1>7, <1>9, <1>10 DEF OkMeansAcyclic, ReportedCycleIsReal

-----------------------------------------------------------------------------
LEMMA StutterStep == SearchIInv /\ UNCHANGED vars => SearchIInv'
<1> SUFFICES ASSUME SearchIInv, UNCHANGED vars PROVE SearchIInv'
  OBVIOUS
<1> USE DEF SearchIInv, vars
<1>1. Colored("Black")' = Colored("Black") /\ Colored("Gray")' = Colored("Gray")
  BY DEF Colored
<1>2. TypeOK' /\ UnenteredAreFresh'
  BY DEF TypeOK, UnenteredAreFresh
<1>3. GrayIsPath' /\ BlackIsClosed'
  BY <1>1 DEF GrayIsPath, BlackIsClosed
<1>4. VisitedAreDone'
  BY <1>1 DEF VisitedAreDone, LookedAt
<1>5. OkMeansAcyclic' /\ ReportedCycleIsReal'
  BY DEF OkMeansAcyclic, ReportedCycleIsReal
<1> QED
  BY <1>2, <1>3, <1>4, <1>5

\* SearchIInv is an invariant of the search.
THEOREM SearchInvariant == Spec => []SearchIInv
<1>1. Init => SearchIInv
  BY SearchInitEstablishes
<1>2. SearchIInv /\ [Next]_vars => SearchIInv'
  BY StartCallStep, SkipColoredStep, AnswerOkStep, SkipDependencyStep, DescendStep,
     ReportCycleStep, ReturnStep, StutterStep DEF Next, Answered
<1> QED
  BY <1>1, <1>2, PTL DEF Spec

\* Every state is well typed.
THEOREM SearchTypes == Spec => []TypeOK
BY SearchInvariant, PTL DEF SearchIInv

\* The gray tasks are the stack of calls, so the unwrap never fails.
THEOREM GrayTasksAreThePath == Spec => []GrayIsPath
BY SearchInvariant, PTL DEF SearchIInv

\* A list that detect_cycle accepts has no cycle.
THEOREM AcceptedIsAcyclic == Spec => []OkMeansAcyclic
BY SearchInvariant, PTL DEF SearchIInv

\* A list it rejects has one: the one the error names.
THEOREM RejectedIsCyclic == Spec => []ReportedCycleIsReal
BY SearchInvariant, PTL DEF SearchIInv

-----------------------------------------------------------------------------
(***************************************************************************)
(* TopologicalPhases                                                       *)
(***************************************************************************)
\* The tasks in phases are the completed ones and those of the current phase
\* that are still to be taken off.
PlacedAreTaken ==
    /\ Placed = completed \cup ready
    /\ completed \cap ready = {}

\* A task without a phase has an entry that the phases before the last one do
\* not answer; otherwise it would have been in the last one.
UnplacedWereHeldBack ==
    phases # <<>> =>
        \A n \in DOMAIN tasks \ Placed : \E p \in DOMAIN tasks[n].dependencies :
            \A i \in Lookup(tasks, tasks[n].dependencies[p]) :
                i \in Placed => i \in phases[Len(phases)]

LeftWithNothingFree == finished => ready = {} /\ Free = {}

PlanIInv ==
    /\ PlanTypeOK
    /\ InDegreeCountsOpenEntries
    /\ PhasesRespectDependencies
    /\ PhasesAreEarliest
    /\ PlacedAreTaken
    /\ UnplacedWereHeldBack
    /\ LeftWithNothingFree

-----------------------------------------------------------------------------
\* What the type invariant says of the list and its entries.
LEMMA PlanFacts ==
    ASSUME tasks \in TaskLists
    PROVE  /\ tasks \in Seq(ParallelTaskSpec)
           /\ DOMAIN tasks \subseteq Nat
           /\ \A n \in DOMAIN tasks :
                 /\ Len(tasks[n].dependencies) \in Nat
                 /\ DOMAIN tasks[n].dependencies = 1 .. Len(tasks[n].dependencies)
                 /\ IsFiniteSet(DOMAIN tasks[n].dependencies)
                 /\ Cardinality(DOMAIN tasks[n].dependencies) = Len(tasks[n].dependencies)
<1>1. tasks \in Seq(ParallelTaskSpec)
  BY TaskListsAssumption
<1>2. ASSUME NEW n \in DOMAIN tasks
      PROVE  /\ Len(tasks[n].dependencies) \in Nat
             /\ DOMAIN tasks[n].dependencies = 1 .. Len(tasks[n].dependencies)
  BY <1>1, TaskListFacts
<1>3. ASSUME NEW n \in Nat
      PROVE  IsFiniteSet(1 .. n) /\ Cardinality(1 .. n) = n
  <2>1. IsFiniteSet(1 .. n) /\ Cardinality(1 .. n) = IF 1 > n THEN 0 ELSE n - 1 + 1
    BY FS_Interval
  <2> QED
    BY <2>1
<1> QED
  BY <1>1, <1>2, <1>3, TaskListFacts

\* A task whose counter is zero has no open entry, any other has one.
LEMMA ZeroMeansAnswered ==
    ASSUME tasks \in TaskLists, InDegreeCountsOpenEntries, NEW n \in DOMAIN tasks
    PROVE  in_degree[n] = 0 <=> OpenEntries(n) = {}
<1>1. IsFiniteSet(OpenEntries(n))
  BY PlanFacts, FS_Subset DEF OpenEntries
<1> QED
  BY <1>1, FS_EmptySet DEF InDegreeCountsOpenEntries

LEMMA PlanInitEstablishes == PlanInit => PlanIInv
<1> SUFFICES ASSUME PlanInit PROVE PlanIInv
  OBVIOUS
<1>1. \A n \in DOMAIN tasks : OpenEntries(n) = DOMAIN tasks[n].dependencies
  BY DEF PlanInit, OpenEntries
<1>2. InDegreeCountsOpenEntries
  BY <1>1, PlanFacts DEF PlanInit, Entries, InDegreeCountsOpenEntries
<1>3. PlanTypeOK
  <2>1. <<>> \in Seq(SUBSET DOMAIN tasks)
    BY EmptySeq
  <2>2. Entries(tasks) \in [DOMAIN tasks -> Nat]
    BY PlanFacts DEF PlanInit, Entries
  <2> QED
    BY <2>1, <2>2 DEF PlanInit, PlanTypeOK
<1>4. DOMAIN phases = {} /\ Placed = {}
  BY DEF PlanInit, Placed
<1> QED
  BY <1>2, <1>3, <1>4 DEF PlanInit, PlanIInv, PhasesRespectDependencies, PhasesAreEarliest,
     PlacedAreTaken, UnplacedWereHeldBack, LeftWithNothingFree

-----------------------------------------------------------------------------
\* A new phase at the end leaves the others as they are.
LEMMA StartPhaseFacts ==
    ASSUME PlanTypeOK, StartPhase
    PROVE  /\ phases \in Seq(SUBSET DOMAIN tasks)
           /\ Free \in SUBSET DOMAIN tasks
           /\ Len(phases) \in Nat /\ Len(phases') = Len(phases) + 1
           /\ DOMAIN phases = 1 .. Len(phases)
           /\ DOMAIN phases' = 1 .. Len(phases) + 1
           /\ phases' \in Seq(SUBSET DOMAIN tasks) /\ phases' # <<>>
           /\ phases'[Len(phases) + 1] = Free
           /\ \A k \in 1 .. Len(phases) : phases'[k] = phases[k]
           /\ Placed' = Placed \cup Free
<1>1. phases \in Seq(SUBSET DOMAIN tasks) /\ Free \in SUBSET DOMAIN tasks
  BY DEF PlanTypeOK, Free
<1>2. phases' = Append(phases, Free)
  BY DEF StartPhase
<1>3. /\ Len(phases) \in Nat /\ Len(phases') = Len(phases) + 1
      /\ DOMAIN phases = 1 .. Len(phases) /\ DOMAIN phases' = 1 .. Len(phases) + 1
      /\ phases' \in Seq(SUBSET DOMAIN tasks) /\ phases' # <<>>
      /\ phases'[Len(phases) + 1] = Free
      /\ \A k \in 1 .. Len(phases) : phases'[k] = phases[k]
  BY <1>1, <1>2, AppendProperties
<1>4. Placed' = Placed \cup Free
  <2>1. 1 .. Len(phases) + 1 = (1 .. Len(phases)) \cup {Len(phases) + 1}
    BY <1>3
  <2> QED
    BY <1>3, <2>1 DEF Placed
<1> QED
  BY <1>1, <1>3, <1>4

LEMMA StartPhaseStep == PlanIInv /\ StartPhase => PlanIInv'
<1> SUFFICES ASSUME PlanIInv, StartPhase PROVE PlanIInv'
  OBVIOUS
<1> USE DEF PlanIInv
<1>1. /\ ready = {} /\ ready' = Free /\ ~finished
      /\ UNCHANGED <<tasks, in_degree, completed, finished>>
  BY DEF StartPhase
<1>2. /\ Free \in SUBSET DOMAIN tasks
      /\ Len(phases) \in Nat /\ Len(phases') = Len(phases) + 1
      /\ DOMAIN phases = 1 .. Len(phases) /\ DOMAIN phases' = 1 .. Len(phases) + 1
      /\ phases' \in Seq(SUBSET DOMAIN tasks)
      /\ phases'[Len(phases) + 1] = Free
      /\ \A k \in 1 .. Len(phases) : phases'[k] = phases[k]
      /\ Placed' = Placed \cup Free
  BY StartPhaseFacts
<1>3. Placed = completed
  BY <1>1 DEF PlacedAreTaken
<1>4. PlanTypeOK'
  BY <1>1, <1>2 DEF PlanTypeOK
<1>5. InDegreeCountsOpenEntries'
  BY <1>1 DEF InDegreeCountsOpenEntries, OpenEntries
<1>6. ASSUME NEW n \in Free, NEW p \in DOMAIN tasks[n].dependencies
      PROVE  \E i \in Lookup(tasks, tasks[n].dependencies[p]) : i \in Placed
  <2>1. OpenEntries(n) = {}
    BY <1>6, ZeroMeansAnswered DEF Free, PlanTypeOK
  <2> QED
    BY <1>3, <2>1 DEF OpenEntries
<1>7. PhasesRespectDependencies'
  <2> SUFFICES ASSUME NEW k \in 1 .. Len(phases) + 1, NEW n \in phases'[k],
                      NEW p \in DOMAIN tasks[n].dependencies
               PROVE  \E j \in 1 .. k - 1 : \E i \in phases'[j] :
                          i \in Lookup(tasks, tasks[n].dependencies[p])
    BY <1>1, <1>2 DEF PhasesRespectDependencies
  <2>1. CASE k \in 1 .. Len(phases)
    <3>1. PICK j \in 1 .. k - 1 : \E i \in phases[j] :
              i \in Lookup(tasks, tasks[n].dependencies[p])
      BY <1>2, <2>1 DEF PhasesRespectDependencies
    <3>2. j \in 1 .. Len(phases)
      BY <1>2, <2>1
    <3> QED
      BY <1>2, <3>1, <3>2
  <2>2. CASE k = Len(phases) + 1
    <3>1. PICK i \in Lookup(tasks, tasks[n].dependencies[p]) : i \in Placed
      BY <1>2, <1>6, <2>2
    <3>2. PICK j \in 1 .. Len(phases) : i \in phases[j]
      BY <1>2, <3>1 DEF Placed
    <3>3. j \in 1 .. k - 1 /\ phases'[j] = phases[j]
      BY <1>2, <2>2
    <3> QED
      BY <3>1, <3>2, <3>3
  <2> QED
    BY <1>2, <2>1, <2>2
<1>8. PhasesAreEarliest'
  <2>1. \A j \in 1 .. Len(phases) : phases[j] \cap Free = {}
    BY <1>2, <1>3 DEF Free, Placed
  <2>2. ASSUME Len(phases) > 0, NEW n \in Free
        PROVE  Successors(tasks, n) \cap phases[Len(phases)] # {}
    <3>1. n \in DOMAIN tasks \ Placed /\ phases # <<>>
      BY <1>2, <1>3, <2>2, EmptySeq DEF Free
    <3>2. PICK p \in DOMAIN tasks[n].dependencies :
              \A i \in Lookup(tasks, tasks[n].dependencies[p]) :
                  i \in Placed => i \in phases[Len(phases)]
      BY <3>1 DEF UnplacedWereHeldBack
    <3>3. PICK i \in Lookup(tasks, tasks[n].dependencies[p]) : i \in Placed
      BY <1>6, <2>2
    <3>4. i \in Successors(tasks, n)
      BY <3>3 DEF Successors, DependencyIds
    <3> QED
      BY <3>2, <3>3, <3>4
  <2>3. ASSUME NEW k \in DOMAIN phases', NEW j \in DOMAIN phases', j # k
        PROVE  phases'[j] \cap phases'[k] = {}
    <3>1. CASE j \in 1 .. Len(phases) /\ k \in 1 .. Len(phases)
      BY <1>2, <2>3, <3>1 DEF PhasesAreEarliest
    <3>2. CASE j = Len(phases) + 1 \/ k = Len(phases) + 1
      BY <1>2, <2>1, <2>3, <3>2
    <3> QED
      BY <1>2, <3>1, <3>2
  <2>4. ASSUME NEW k \in DOMAIN phases', k > 1, NEW n \in phases'[k]
        PROVE  Successors(tasks, n) \cap phases'[k - 1] # {}
    <3>1. CASE k \in 1 .. Len(phases)
      <4>1. k - 1 \in 1 .. Len(phases) /\ phases'[k - 1] = phases[k - 1]
        BY <1>2, <2>4, <3>1
      <4> QED
        BY <1>2, <2>4, <3>1, <4>1 DEF PhasesAreEarliest
    <3>2. CASE k = Len(phases) + 1
      <4>1. k - 1 = Len(phases) /\ Len(phases) > 0
        BY <1>2, <2>4, <3>2
      <4>2. phases'[k - 1] = phases[Len(phases)] /\ n \in Free
        BY <1>2, <2>4, <3>2, <4>1
      <4> QED
        BY <2>2, <4>1, <4>2
    <3> QED
      BY <1>2, <3>1, <3>2
  <2> QED
    BY <1>1, <2>3, <2>4 DEF PhasesAreEarliest
<1>9. PlacedAreTaken'
  BY <1>1, <1>2, <1>3 DEF PlacedAreTaken, Free
<1>10. UnplacedWereHeldBack'
  <2> SUFFICES ASSUME NEW n \in DOMAIN tasks, n \notin Placed, n \notin Free
               PROVE  \E p \in DOMAIN tasks[n].dependencies :
                          \A i \in Lookup(tasks, tasks[n].dependencies[p]) :
                              i \in Placed \cup Free => i \in Free
    BY <1>1, <1>2 DEF UnplacedWereHeldBack
  <2>1. OpenEntries(n) # {}
    BY <1>3, ZeroMeansAnswered DEF Free, PlanTypeOK
  <2> QED
    BY <1>3, <2>1 DEF OpenEntries
<1> QED
  BY <1>1, <1>4, <1>5, <1>7, <1>8, <1>9, <1>10 DEF LeftWithNothingFree

-----------------------------------------------------------------------------
\* Taking a task off answers its entries, each of them once.
LEMMA TakeOffCounts ==
    ASSUME PlanTypeOK, InDegreeCountsOpenEntries, NEW i \in DOMAIN tasks, i \notin completed,
           NEW n \in DOMAIN tasks
    PROVE  /\ Saturating(in_degree[n], Cardinality(EntriesFor(n, i)))
                = Cardinality(OpenEntries(n) \ EntriesFor(n, i))
           /\ Cardinality(OpenEntries(n) \ EntriesFor(n, i)) \in Nat
<1>1. tasks \in Seq(ParallelTaskSpec) /\ IsFiniteSet(DOMAIN tasks[n].dependencies)
  BY PlanFacts DEF PlanTypeOK
<1>2. EntriesFor(n, i) \subseteq OpenEntries(n)
  BY <1>1, LookupIsUnique DEF EntriesFor, OpenEntries
<1>3. IsFiniteSet(OpenEntries(n))
  BY <1>1, FS_Subset DEF OpenEntries
<1>4. /\ IsFiniteSet(EntriesFor(n, i))
      /\ Cardinality(EntriesFor(n, i)) <= Cardinality(OpenEntries(n))
  BY <1>2, <1>3, FS_Subset
<1>5. OpenEntries(n) \cap EntriesFor(n, i) = EntriesFor(n, i)
  BY <1>2
<1>6. /\ IsFiniteSet(OpenEntries(n) \ EntriesFor(n, i))
      /\ Cardinality(OpenEntries(n) \ EntriesFor(n, i))
            = Cardinality(OpenEntries(n)) - Cardinality(EntriesFor(n, i))
  BY <1>3, <1>5, FS_Difference
<1>7. /\ Cardinality(OpenEntries(n)) \in Nat /\ Cardinality(EntriesFor(n, i)) \in Nat
      /\ Cardinality(OpenEntries(n) \ EntriesFor(n, i)) \in Nat
  BY <1>3, <1>4, <1>6, FS_CardinalityType
<1> QED
  BY <1>4, <1>6, <1>7 DEF Saturating, InDegreeCountsOpenEntries

LEMMA TakeOffStep == PlanIInv /\ TakeOff => PlanIInv'
<1> SUFFICES ASSUME PlanIInv, TakeOff PROVE PlanIInv'
  OBVIOUS
<1> USE DEF PlanIInv
<1>1. PICK i \in ready :
          /\ completed' = completed \cup {i} /\ ready' = ready \ {i}
          /\ in_degree' = [n \in DOMAIN tasks |->
                              Saturating(in_degree[n], Cardinality(EntriesFor(n, i)))]
          /\ UNCHANGED <<tasks, phases, finished>>
  BY DEF TakeOff
<1>2. i \in DOMAIN tasks /\ i \notin completed
  BY <1>1 DEF PlanTypeOK, PlacedAreTaken
<1>3. Placed' = Placed
  BY <1>1 DEF Placed
<1>4. \A n \in DOMAIN tasks :
          /\ in_degree'[n] = Cardinality(OpenEntries(n) \ EntriesFor(n, i))
          /\ in_degree'[n] \in Nat
  BY <1>1, <1>2, TakeOffCounts
<1>5. PlanTypeOK'
  BY <1>1, <1>2, <1>4 DEF PlanTypeOK
<1>6. InDegreeCountsOpenEntries'
  <2>1. \A n \in DOMAIN tasks : OpenEntries(n)' = OpenEntries(n) \ EntriesFor(n, i)
    BY <1>1 DEF OpenEntries, EntriesFor
  <2> QED
    BY <1>1, <1>4, <2>1 DEF InDegreeCountsOpenEntries
<1>7. PhasesRespectDependencies' /\ PhasesAreEarliest'
  BY <1>1 DEF PhasesRespectDependencies, PhasesAreEarliest
<1>8. PlacedAreTaken'
  BY <1>1, <1>3 DEF PlacedAreTaken
<1>9. UnplacedWereHeldBack'
  BY <1>1, <1>3 DEF UnplacedWereHeldBack
<1>10. LeftWithNothingFree'
  BY <1>1 DEF LeftWithNothingFree
<1> QED
  BY <1>5, <1>6, <1>7, <1>8, <1>9, <1>10

-----------------------------------------------------------------------------
LEMMA LeaveOrStutterStep == PlanIInv /\ (Leave \/ UNCHANGED planVars) => PlanIInv'
<1> SUFFICES ASSUME PlanIInv, Leave \/ UNCHANGED planVars PROVE PlanIInv'
  OBVIOUS
<1> USE DEF PlanIInv
<1>1. UNCHANGED <<tasks, in_degree, completed, ready, phases>>
  BY DEF Leave, planVars
<1>2. Placed' = Placed /\ Free' = Free
  BY <1>1 DEF Placed, Free
<1>3. PlanTypeOK' /\ InDegreeCountsOpenEntries'
  BY <1>1 DEF PlanTypeOK, Leave, planVars, InDegreeCountsOpenEntries, OpenEntries
<1>4. PhasesRespectDependencies' /\ PhasesAreEarliest'
  BY <1>1 DEF PhasesRespectDependencies, PhasesAreEarliest
<1>5. PlacedAreTaken' /\ UnplacedWereHeldBack'
  BY <1>1, <1>2 DEF PlacedAreTaken, UnplacedWereHeldBack
<1>6. LeftWithNothingFree'
  BY <1>1, <1>2 DEF LeftWithNothingFree, Leave, planVars
<1> QED
  BY <1>3, <1>4, <1>5, <1>6

\* PlanIInv is an invariant of the planner.
THEOREM PlanInvariant == PlanSpec => []PlanIInv
<1>1. PlanInit => PlanIInv
  BY PlanInitEstablishes
<1>2. PlanIInv /\ [PlanNext]_planVars => PlanIInv'
  BY StartPhaseStep, TakeOffStep, LeaveOrStutterStep DEF PlanNext, Finished
<1> QED
  BY <1>1, <1>2, PTL DEF PlanSpec

-----------------------------------------------------------------------------
LEMMA InvariantMeansStuck == PlanIInv => OmittedAreStuck
<1> SUFFICES ASSUME PlanIInv, finished, NEW n \in DOMAIN tasks, n \notin Placed
             PROVE  \E p \in DOMAIN tasks[n].dependencies :
                        Lookup(tasks, tasks[n].dependencies[p]) \subseteq DOMAIN tasks \ Placed
  BY DEF OmittedAreStuck
<1> USE DEF PlanIInv
<1>1. Placed = completed /\ n \notin completed /\ Free = {}
  BY DEF PlacedAreTaken, LeftWithNothingFree
<1>2. OpenEntries(n) # {}
  BY <1>1, ZeroMeansAnswered DEF Free, PlanTypeOK
<1>3. PICK p \in DOMAIN tasks[n].dependencies :
          \A i \in Lookup(tasks, tasks[n].dependencies[p]) : i \notin completed
  BY <1>2 DEF OpenEntries
<1> QED
  BY <1>1, <1>3 DEF Lookup

\* If everything left out were stuck, a validated list would have a cycle or a
\* dependency that names nobody.
LEMMA StuckMeansComplete ==
    ASSUME PlanTypeOK, OmittedAreStuck
    PROVE  ValidPlansAreComplete
<1> SUFFICES ASSUME finished, Validated(tasks), DOMAIN tasks \ Placed # {} PROVE FALSE
  <2>1. Placed \subseteq DOMAIN tasks
    BY DEF PlanTypeOK, Placed
  <2> QED
    BY <2>1 DEF ValidPlansAreComplete
<1>1. tasks \in Seq(ParallelTaskSpec) /\ DOMAIN tasks \subseteq Nat
  BY PlanFacts DEF PlanTypeOK
<1>2. PICK n \in DOMAIN tasks \ Placed : Successors(tasks, n) \cap (DOMAIN tasks \ Placed) = {}
  BY DEF Validated, Acyclic
<1>3. PICK p \in DOMAIN tasks[n].dependencies :
          Lookup(tasks, tasks[n].dependencies[p]) \subseteq DOMAIN tasks \ Placed
  BY <1>2 DEF OmittedAreStuck
<1>4. PICK j \in DOMAIN tasks : tasks[j].id = tasks[n].dependencies[p]
  BY <1>2, <1>3 DEF Validated, BadReferences
<1>5. j \in Lookup(tasks, tasks[n].dependencies[p])
  <2>1. \A k \in DOMAIN tasks : tasks[k].id = tasks[n].dependencies[p] => k = j
    BY <1>4 DEF Validated, UniqueIds
  <2> QED
    BY <1>1, <1>4, <2>1 DEF Lookup
<1>6. j \in Successors(tasks, n)
  BY <1>5 DEF Successors, DependencyIds
<1> QED
  BY <1>2, <1>3, <1>5, <1>6

\* Every state is well typed.
THEOREM PlanTypes == PlanSpec => []PlanTypeOK
BY PlanInvariant, PTL DEF PlanIInv

\* in_degree is the number of open entries: saturating_sub cuts nothing off.
THEOREM CountersAreExact == PlanSpec => []InDegreeCountsOpenEntries
BY PlanInvariant, PTL DEF PlanIInv

\* For every list, a task's dependencies are in earlier phases than the task.
THEOREM DependenciesAreEarlier == PlanSpec => []PhasesRespectDependencies
BY PlanInvariant, PTL DEF PlanIInv

\* For every list, no task waits a phase longer than it must.
THEOREM PlanIsShortest == PlanSpec => []PhasesAreEarliest
BY PlanInvariant, PTL DEF PlanIInv

\* For every list, what the plan omits could never run.
THEOREM OmissionsAreStuck == PlanSpec => []OmittedAreStuck
BY PlanInvariant, InvariantMeansStuck, PTL

\* For every list that passes validation, the plan has every task.
THEOREM ValidListsAreFullyPlanned == PlanSpec => []ValidPlansAreComplete
<1>1. PlanIInv => ValidPlansAreComplete
  BY InvariantMeansStuck, StuckMeansComplete DEF PlanIInv
<1> QED
  BY <1>1, PlanInvariant, PTL

-----------------------------------------------------------------------------
(***************************************************************************)
(* The two over one list, as `tasks` is one variable: a plan that respects *)
(* the dependencies and holds every task exists only without a cycle.      *)
(***************************************************************************)
LEMMA FullPlanIsAcyclic ==
    ASSUME PlanIInv, Placed = DOMAIN tasks
    PROVE  Acyclic(tasks)
<1>1. tasks \in Seq(ParallelTaskSpec) /\ DOMAIN phases \subseteq Nat
  BY PlanFacts DEF PlanIInv, PlanTypeOK
<1>2. ASSUME NEW S \in SUBSET DOMAIN tasks, S # {}
      PROVE  \E n \in S : Successors(tasks, n) \cap S = {}
  <2> DEFINE K == { k \in DOMAIN phases : phases[k] \cap S # {} }
  <2>1. K \in SUBSET Nat /\ K # {}
    BY <1>1, <1>2 DEF Placed
  <2>2. PICK k \in K : \A j \in K : k <= j
    BY <2>1, LeastNatural
  <2>3. PICK n \in S : n \in phases[k]
    OBVIOUS
  <2>4. ASSUME NEW m \in Successors(tasks, n), m \in S
        PROVE  FALSE
    <3>1. PICK p \in DOMAIN tasks[n].dependencies :
              m \in Lookup(tasks, tasks[n].dependencies[p])
      BY <2>4 DEF Successors, DependencyIds
    <3>2. PICK j \in 1 .. k - 1 : \E i \in phases[j] :
              i \in Lookup(tasks, tasks[n].dependencies[p])
      BY <2>3 DEF PlanIInv, PhasesRespectDependencies
    <3>3. m \in phases[j]
      BY <1>1, <3>1, <3>2, LookupIsUnique
    <3>4. j \in Nat /\ k \in Nat /\ j < k /\ j \in DOMAIN phases
      <4>1. phases \in Seq(SUBSET DOMAIN tasks)
        BY DEF PlanIInv, PlanTypeOK
      <4>2. DOMAIN phases = 1 .. Len(phases) /\ Len(phases) \in Nat
        BY <4>1, LenProperties
      <4>3. k \in 1 .. Len(phases)
        BY <4>2
      <4> HIDE DEF K
      <4> QED
        BY <3>2, <4>2, <4>3
    <3>5. j \in K
      BY <2>4, <3>3, <3>4
    <3> HIDE DEF K
    <3> QED
      BY <2>2, <3>4, <3>5
  <2> QED
    BY <2>4
<1> QED
  BY <1>2 DEF Acyclic

\* What ensure_parallel_tasks asks before it searches for cycles.
ReferencesResolve ==
    /\ tasks # <<>> /\ UniqueIds(tasks)
    /\ \A i \in DOMAIN tasks : BadReferences(tasks, i) = {}

\* detect_cycle and topological_phases agree: over a list whose references
\* resolve, the search answers Ok exactly when the plan leaves nothing out.
SearchAndPlanAgree ==
    (verdict # "searching" /\ finished /\ ReferencesResolve)
        => (verdict = "Ok" <=> Placed = DOMAIN tasks)

\* A list that preview_parallel gets past validation is planned in full, and
\* one refused for a cycle would not have been.
THEOREM TheTwoAgree == Spec /\ PlanSpec => []SearchAndPlanAgree
<1>1. ASSUME TypeOK, OkMeansAcyclic, ReportedCycleIsReal, PlanIInv, ValidPlansAreComplete
      PROVE  SearchAndPlanAgree
  <2>1. SUFFICES ASSUME verdict # "searching", finished, ReferencesResolve
                 PROVE  verdict = "Ok" <=> Placed = DOMAIN tasks
    BY DEF SearchAndPlanAgree
  <2>2. verdict = "Ok" => Placed = DOMAIN tasks
    BY <1>1, <2>1 DEF OkMeansAcyclic, ValidPlansAreComplete, Validated, ReferencesResolve
  <2>3. verdict = "CircularDependency" => ~Acyclic(tasks)
    BY <1>1 DEF ReportedCycleIsReal
  <2>4. verdict \in {"Ok", "CircularDependency"}
    BY <1>1, <2>1 DEF TypeOK
  <2> QED
    BY <1>1, <2>2, <2>3, <2>4, FullPlanIsAcyclic
<1> QED
  BY <1>1, SearchTypes, AcceptedIsAcyclic, RejectedIsCyclic, PlanInvariant,
     ValidListsAreFullyPlanned, PTL

-----------------------------------------------------------------------------
(***************************************************************************)
(* Both end.  What is left of the search: tasks to pass, calls to make and *)
(* to return from, dependencies to look at, and the answer.  Of the plan:  *)
(* tasks to place, tasks to take off, and the loop.                        *)
(***************************************************************************)
Ahead(n) == {n} \X (visited[n] + 1 .. Len(tasks[n].dependencies))

SearchWork ==
    [ list    |-> root .. Len(tasks),
      calls   |-> Colored("White"),
      returns |-> Colored("White") \cup Colored("Gray"),
      looks   |-> UNION { Ahead(n) : n \in DOMAIN tasks },
      answer  |-> {verdict} \cap {"searching"} ]

PlanWork ==
    [ place |-> DOMAIN tasks \ Placed,
      run   |-> DOMAIN tasks \ completed,
      loop  |-> {finished} \cap {FALSE} ]

LEMMA SearchWorkIsFinite == TypeOK => AllFinite(SearchWork)
<1> SUFFICES ASSUME TypeOK PROVE AllFinite(SearchWork)
  OBVIOUS
<1>1. /\ tasks \in Seq(ParallelTaskSpec)
      /\ DOMAIN tasks = 1 .. Len(tasks) /\ Len(tasks) \in Nat
  BY StackFacts
<1>2. IsFiniteSet(DOMAIN tasks) /\ IsFiniteSet(root .. Len(tasks))
  BY <1>1, FS_Interval DEF TypeOK
<1>3. \A T \in SUBSET DOMAIN tasks : IsFiniteSet(T)
  BY <1>2, FS_Subset
<1>4. IsFiniteSet(UNION { Ahead(n) : n \in DOMAIN tasks })
  <2> DEFINE all   == { Ahead(n) : n \in DOMAIN tasks }
             toAll == [n \in DOMAIN tasks |-> Ahead(n)]
  <2>1. toAll \in Surjection(DOMAIN tasks, all)
    BY DEF Surjection
  <2>2. ASSUME NEW n \in DOMAIN tasks PROVE IsFiniteSet(Ahead(n))
    <3>1. visited[n] \in Nat /\ Len(tasks[n].dependencies) \in Nat
      BY <1>1, TaskListFacts, LenProperties DEF TypeOK
    <3>2. IsFiniteSet(visited[n] + 1 .. Len(tasks[n].dependencies))
      BY <3>1, IntervalsAreFinite
    <3> QED
      BY <3>2, FS_Singleton, FS_Product DEF Ahead
  <2>3. \A T \in all : IsFiniteSet(T)
    BY <2>2
  <2> HIDE DEF all, toAll
  <2>4. IsFiniteSet(all)
    BY <1>2, <2>1, FS_Surjection
  <2>5. IsFiniteSet(UNION all)
    BY <2>3, <2>4, FS_UNION
  <2> QED
    BY <2>5 DEF all
<1>5. IsFiniteSet({verdict} \cap {"searching"})
  BY FS_Singleton, FS_Subset
<1>6. IsFiniteSet(Colored("White")) /\ IsFiniteSet(Colored("White") \cup Colored("Gray"))
  BY <1>3 DEF Colored
<1>7. IsFiniteSet(DOMAIN SearchWork)
  <2>1. IsFiniteSet({"list", "calls", "returns", "looks", "answer", "answer", "answer"})
    BY NamesAreFinite, Zenon
  <2>2. DOMAIN SearchWork = {"list", "calls", "returns", "looks", "answer", "answer", "answer"}
    BY DEF SearchWork
  <2> QED
    BY <2>1, <2>2
<1>8. ASSUME NEW f \in DOMAIN SearchWork PROVE IsFiniteSet(SearchWork[f])
  <2>1. /\ IsFiniteSet(SearchWork.list) /\ IsFiniteSet(SearchWork.calls)
        /\ IsFiniteSet(SearchWork.returns) /\ IsFiniteSet(SearchWork.looks)
        /\ IsFiniteSet(SearchWork.answer)
    BY <1>2, <1>4, <1>5, <1>6, Zenon DEF SearchWork
  <2>2. f \in {"list", "calls", "returns", "looks", "answer"}
    BY DEF SearchWork
  <2> QED
    BY <2>1, <2>2
<1> QED
  BY <1>7, <1>8 DEF AllFinite

\* A step that looks at a dependency has one less ahead.
LEMMA LookingShrinks ==
    ASSUME TypeOK, InCall, HasMore(Top), Advance, tasks' = tasks
    PROVE  /\ SearchWork'.looks \subseteq SearchWork.looks
           /\ SearchWork'.looks # SearchWork.looks
<1>1. Top \in DOMAIN tasks /\ visited[Top] \in Nat
  BY StackFacts, EntryFacts DEF InCall
<1>2. visited[Top] + 1 \in 1 .. Len(tasks[Top].dependencies)
  BY EntryFacts
<1>3. /\ visited'[Top] = visited[Top] + 1
      /\ \A n \in DOMAIN tasks : n # Top => visited'[n] = visited[n]
  BY AdvanceKeepsType
<1>4. \A n \in DOMAIN tasks : Len(tasks[n].dependencies) \in Nat
  BY StackFacts, TaskListFacts, LenProperties
<1>5. \A n \in DOMAIN tasks : Ahead(n)' \subseteq Ahead(n)
  BY <1>1, <1>3, <1>4 DEF Ahead
<1>6. SearchWork'.looks \subseteq SearchWork.looks
  BY <1>5 DEF SearchWork
<1>7. <<Top, visited[Top] + 1>> \in SearchWork.looks
  BY <1>1, <1>2, <1>4 DEF SearchWork, Ahead
<1>8. <<Top, visited[Top] + 1>> \notin SearchWork'.looks
  BY <1>1, <1>3, <1>4 DEF SearchWork, Ahead
<1> QED
  BY <1>6, <1>7, <1>8

LEMMA SearchShrinks == SearchIInv /\ SearchIInv' /\ Next => UNCHANGED vars \/ Shrinks(SearchWork, SearchWork')
<1> SUFFICES ASSUME SearchIInv, SearchIInv', Next, ~UNCHANGED vars
             PROVE  Shrinks(SearchWork, SearchWork')
  OBVIOUS
<1> USE DEF SearchIInv
<1>0. /\ DOMAIN tasks = 1 .. Len(tasks) /\ Len(tasks) \in Nat /\ tasks' = tasks
      /\ root \in Nat /\ colors \in [DOMAIN tasks -> Colors]
  BY StackFacts DEF Next, StartCall, SkipColored, AnswerOk, SkipDependency, Descend,
     ReportCycle, Return, Answered, TypeOK
<1>1. ASSUME NEW f \in DOMAIN SearchWork, SearchWork'[f] # SearchWork[f],
             SearchWork'.list \subseteq SearchWork.list,
             SearchWork'.calls \subseteq SearchWork.calls,
             SearchWork'.returns \subseteq SearchWork.returns,
             SearchWork'.looks \subseteq SearchWork.looks,
             SearchWork'.answer \subseteq SearchWork.answer
      PROVE  Shrinks(SearchWork, SearchWork')
  BY <1>1 DEF Shrinks, SearchWork
<1>2. ASSUME UNCHANGED visited PROVE SearchWork'.looks = SearchWork.looks
  BY <1>0, <1>2 DEF SearchWork, Ahead
<1>3. ASSUME UNCHANGED colors
      PROVE  SearchWork'.calls = SearchWork.calls /\ SearchWork'.returns = SearchWork.returns
  BY <1>0, <1>3 DEF SearchWork, Colored
<1>4. ASSUME UNCHANGED root PROVE SearchWork'.list = SearchWork.list
  BY <1>0, <1>4 DEF SearchWork
<1>5. ASSUME UNCHANGED verdict PROVE SearchWork'.answer = SearchWork.answer
  BY <1>5 DEF SearchWork
<1>6. ASSUME root' = root + 1, root <= Len(tasks)
      PROVE  SearchWork'.list \subseteq SearchWork.list /\ SearchWork'.list # SearchWork.list
  BY <1>0, <1>6 DEF SearchWork
<1>7. ASSUME NEW n \in DOMAIN tasks, colors[n] = "White", Enter(n)
      PROVE  /\ SearchWork'.calls \subseteq SearchWork.calls
             /\ SearchWork'.returns \subseteq SearchWork.returns
  BY <1>0, <1>7 DEF SearchWork, Enter, Colored
<1>8. ASSUME verdict = "searching", verdict' # "searching"
      PROVE  SearchWork'.answer \subseteq SearchWork.answer /\ SearchWork'.answer # SearchWork.answer
  BY <1>8 DEF SearchWork
<1>9. CASE StartCall
  <2>1. root \in DOMAIN tasks
    BY <1>0, <1>9 DEF StartCall, TypeOK
  <2> QED
    BY <1>1, <1>2, <1>5, <1>6, <1>7, <1>9, <2>1 DEF StartCall, SearchWork
<1>10. CASE SkipColored
  BY <1>1, <1>2, <1>3, <1>5, <1>6, <1>10 DEF SkipColored, SearchWork
<1>11. CASE AnswerOk
  BY <1>1, <1>2, <1>3, <1>4, <1>8, <1>11 DEF AnswerOk, SearchWork
<1>12. CASE SkipDependency
  BY <1>0, <1>1, <1>3, <1>4, <1>5, <1>12, LookingShrinks DEF SkipDependency, SearchWork
<1>13. CASE Descend
  <2>1. PICK d \in NextDependency(Top) : colors[d] = "White" /\ Enter(d)
    BY <1>13 DEF Descend
  <2>2. d \in DOMAIN tasks
    BY <1>13, <2>1, EntryFacts DEF Descend
  <2> QED
    BY <1>0, <1>1, <1>4, <1>5, <1>7, <1>13, <2>1, <2>2, LookingShrinks DEF Descend, SearchWork
<1>14. CASE ReportCycle
  BY <1>1, <1>2, <1>3, <1>4, <1>8, <1>14 DEF ReportCycle, InCall, SearchWork
<1>15. CASE Return
  <2>1. Top \in DOMAIN tasks /\ colors[Top] = "Gray"
    BY <1>15, StackFacts DEF Return, InCall, GrayIsPath, Colored, Top
  <2>2. /\ SearchWork'.calls \subseteq SearchWork.calls
        /\ SearchWork'.returns \subseteq SearchWork.returns
        /\ Top \in SearchWork.returns /\ Top \notin SearchWork'.returns
    BY <1>0, <1>15, <2>1 DEF Return, SearchWork, Colored
  <2> QED
    BY <1>1, <1>2, <1>4, <1>5, <1>15, <2>2 DEF Return, SearchWork
<1> QED
  BY <1>9, <1>10, <1>11, <1>12, <1>13, <1>14, <1>15 DEF Next, Answered

\* For every list, detect_cycle comes to an end: each of its steps leaves less
\* to do, counted in natural numbers.
THEOREM SearchEnds ==
    Spec => /\ [](Left(SearchWork) \in Nat)
            /\ [][Left(SearchWork)' < Left(SearchWork)]_vars
<1>1. SearchIInv => Left(SearchWork) \in Nat
  BY SearchWorkIsFinite, PartsAreFinite DEF SearchIInv
<1>2. SearchIInv /\ SearchIInv' /\ [Next]_vars => [Left(SearchWork)' < Left(SearchWork)]_vars
  <2> SUFFICES ASSUME SearchIInv, SearchIInv', Next, ~UNCHANGED vars
               PROVE  Left(SearchWork)' < Left(SearchWork)
    OBVIOUS
  <2>1. Shrinks(SearchWork, SearchWork') /\ AllFinite(SearchWork)
    BY SearchShrinks, SearchWorkIsFinite DEF SearchIInv
  <2>2. Left(SearchWork') < Left(SearchWork)
    BY <2>1, ShrinkingLeavesLess
  <2> QED
    BY <2>2
<1> QED
  BY <1>1, <1>2, SearchInvariant, PTL DEF Spec

\* Its recursion is never deeper than there are tasks.
THEOREM RecursionIsBounded == Spec => [](verdict = "searching" => Len(path) <= Len(tasks))
<1>1. SearchIInv /\ verdict = "searching" => Len(path) <= Len(tasks)
  <2> SUFFICES ASSUME SearchIInv, verdict = "searching" PROVE Len(path) <= Len(tasks)
    OBVIOUS
  <2>1. /\ DOMAIN tasks = 1 .. Len(tasks) /\ Len(tasks) \in Nat
        /\ path \in Seq(DOMAIN tasks)
    BY StackFacts DEF SearchIInv, TypeOK
  <2>2. NoRepetition(path)
    BY DEF SearchIInv, GrayIsPath, NoRepetition
  <2>3. Len(path) = Cardinality(EntriesOf(path))
    BY <2>1, <2>2, LengthIsCardinality
  <2>4. EntriesOf(path) \in SUBSET DOMAIN tasks
    BY <2>1 DEF EntriesOf
  <2>5. IsFiniteSet(DOMAIN tasks) /\ Cardinality(DOMAIN tasks) = Len(tasks)
    BY <2>1, IntervalsAreFinite
  <2> QED
    BY <2>3, <2>4, <2>5, FS_Subset
<1> QED
  BY <1>1, SearchInvariant, PTL

LEMMA PlanWorkIsFinite == PlanTypeOK => AllFinite(PlanWork)
<1> SUFFICES ASSUME PlanTypeOK PROVE AllFinite(PlanWork)
  OBVIOUS
<1>1. DOMAIN tasks = 1 .. Len(tasks) /\ Len(tasks) \in Nat
  BY PlanFacts, TaskListFacts DEF PlanTypeOK
<1>2. IsFiniteSet(DOMAIN tasks)
  BY <1>1, FS_Interval
<1>3. IsFiniteSet(DOMAIN tasks \ Placed) /\ IsFiniteSet(DOMAIN tasks \ completed)
  BY <1>2, FS_Subset
<1>4. IsFiniteSet({finished} \cap {FALSE})
  BY FS_Singleton, FS_Subset
<1>5. IsFiniteSet(DOMAIN PlanWork)
  <2>1. IsFiniteSet({"place", "run", "loop", "loop", "loop", "loop", "loop"})
    BY NamesAreFinite, Zenon
  <2>2. DOMAIN PlanWork = {"place", "run", "loop", "loop", "loop", "loop", "loop"}
    BY DEF PlanWork
  <2> QED
    BY <2>1, <2>2
<1> QED
  BY <1>3, <1>4, <1>5 DEF AllFinite, PlanWork

LEMMA PlanShrinks ==
    ASSUME PlanIInv, PlanNext, ~UNCHANGED planVars
    PROVE  Shrinks(PlanWork, PlanWork')
<1> USE DEF PlanIInv
<1>1. ASSUME NEW f \in DOMAIN PlanWork, PlanWork'[f] # PlanWork[f],
             PlanWork'.place \subseteq PlanWork.place,
             PlanWork'.run \subseteq PlanWork.run,
             PlanWork'.loop \subseteq PlanWork.loop
      PROVE  Shrinks(PlanWork, PlanWork')
  BY <1>1 DEF Shrinks, PlanWork
<1>2. CASE StartPhase
  <2>1. /\ UNCHANGED <<tasks, completed, finished>> /\ Placed' = Placed \cup Free
        /\ Free # {} /\ Free \cap Placed = {} /\ Free \subseteq DOMAIN tasks
    BY <1>2, StartPhaseFacts DEF StartPhase, PlacedAreTaken, Free
  <2> QED
    BY <1>1, <2>1 DEF PlanWork
<1>3. CASE Leave
  <2>1. UNCHANGED <<tasks, completed, phases>> /\ finished = FALSE /\ finished' = TRUE
    BY <1>3 DEF Leave, PlanTypeOK
  <2>2. Placed' = Placed
    BY <2>1 DEF Placed
  <2> QED
    BY <1>1, <2>1, <2>2 DEF PlanWork
<1>4. CASE TakeOff
  <2>1. PICK i \in ready : completed' = completed \cup {i} /\ UNCHANGED <<tasks, phases, finished>>
    BY <1>4 DEF TakeOff
  <2>2. Placed' = Placed /\ i \in DOMAIN tasks \ completed
    BY <2>1 DEF Placed, PlanTypeOK, PlacedAreTaken
  <2> QED
    BY <1>1, <2>1, <2>2 DEF PlanWork
<1> QED
  BY <1>2, <1>3, <1>4 DEF PlanNext, Finished

\* For every list, one with circles included, topological_phases comes to an
\* end: each of its steps leaves less to do.
THEOREM PlanEnds ==
    PlanSpec => /\ [](Left(PlanWork) \in Nat)
                /\ [][Left(PlanWork)' < Left(PlanWork)]_planVars
<1>1. PlanIInv => Left(PlanWork) \in Nat
  BY PlanWorkIsFinite, PartsAreFinite DEF PlanIInv
<1>2. PlanIInv /\ [PlanNext]_planVars => [Left(PlanWork)' < Left(PlanWork)]_planVars
  <2> SUFFICES ASSUME PlanIInv, PlanNext, ~UNCHANGED planVars
               PROVE  Left(PlanWork)' < Left(PlanWork)
    OBVIOUS
  <2>1. Shrinks(PlanWork, PlanWork') /\ AllFinite(PlanWork)
    BY PlanShrinks, PlanWorkIsFinite DEF PlanIInv
  <2>2. Left(PlanWork') < Left(PlanWork)
    BY <2>1, ShrinkingLeavesLess
  <2> QED
    BY <2>2
<1> QED
  BY <1>1, <1>2, PlanInvariant, PTL DEF PlanSpec
=============================================================================
