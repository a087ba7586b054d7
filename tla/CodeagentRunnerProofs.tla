----------------------- MODULE CodeagentRunnerProofs -----------------------
(***************************************************************************)
(* Proofs about CodeagentRunner, for every command line, list of tasks and *)
(* behaviour of the backends: what exit status 0, the report of a circular *)
(* dependency, a signal and the flags of a call mean, that the program     *)
(* ends, and what it may wait for.                                         *)
(***************************************************************************)
EXTENDS CodeagentRunner, ListsProofs

\* What the process, the result and the dependencies of a task can be, given
\* where its run is.
TaskFits(i) ==
    /\ worker[i] \in {"pending", "launch", "panicked"} => proc[i] = "none"
    /\ worker[i] \in {"stdin", "parse", "wait", "stderr"} => proc[i] # "none"
    /\ worker[i] = "stderr" => proc[i] \in Ended
    /\ outcome[i] # "none" <=> worker[i] \in {"sent", "received"}
    /\ outcome[i] \in Ended => proc[i] = outcome[i]
    /\ proc[i] # "none" => Launchable(i)
    /\ worker[i] # "pending" => Ready(i)
    /\ worker[i] = "received" => results[call.tasks[i].id] # 0
    /\ i \in struck => signalled /\ outcome[i] = "error"

TasksFit == \A i \in Tasks : TaskFits(i)

\* The channel holds the runs that are over and not yet received, each once.
InboxFits ==
    /\ NoRepetition(inbox)
    /\ \A p \in DOMAIN inbox : worker[inbox[p]] = "sent"
    /\ ~Parallel => inbox = <<>>

ResultsFit ==
    \A id \in Ids : results[id] # 0 => /\ worker[results[id]] = "received"
                                       /\ call.tasks[results[id]].id = id

MainFits ==
    /\ pc \in {"fill", "receive"} => Parallel
    /\ pc = "single" => ~Parallel /\ Tasks = {1}
    /\ pc = "start" => \A i \in Tasks : worker[i] = "pending"

\* A call that read its list and ends with status 1 finished it, or no run is
\* left that could make a pending task ready.
StopFits ==
    (pc = "exited" /\ exit = "one" /\ Parallel /\ call.parses) =>
        Pending = {} \/ (Running = {} /\ \A i \in Pending : ~Ready(i))

IInv == /\ TypeOK /\ TasksFit /\ InboxFits /\ ResultsFit /\ MainFits
        /\ StopFits /\ ExitZeroIsEarned

-----------------------------------------------------------------------------
LEMMA CallFacts ==
    ASSUME call \in Calls
    PROVE  /\ Tasks = 1 .. Len(call.tasks) /\ Len(call.tasks) \in Nat
           /\ \A i \in Tasks : call.tasks[i].id \in Ids /\ call.tasks[i].deps \subseteq Ids
           /\ ~Parallel => Len(call.tasks) <= 1 /\ \A i \in Tasks : call.tasks[i].deps = {}
           /\ call.lines \in Nat /\ call.forks \in BOOLEAN
<1>1. call.tasks \in Seq(TaskSpec)
  BY CallsAssumption
<1>2. \A i \in Tasks : call.tasks[i] \in TaskSpec
  BY <1>1 DEF Tasks
<1>3. \A i \in Tasks : call.tasks[i].id \in Ids /\ call.tasks[i].deps \in SUBSET Ids
  BY <1>2 DEF TaskSpec
<1> QED
  BY <1>1, <1>3, CallsAssumption DEF Tasks, Parallel

\* The call never changes, and with it nothing that is computed from it.
LEMMA SameCall ==
    ASSUME call' = call
    PROVE  /\ Tasks' = Tasks /\ (Parallel' <=> Parallel)
           /\ \A i : Launchable(i)' <=> Launchable(i)
BY DEF Tasks, Parallel, Launchable, Config, Final, Backend

\* A ready task stays ready: results are never taken back.
LEMMA StaysReady ==
    ASSUME TypeOK, call' = call, NEW i \in Tasks, Ready(i),
           \A id \in Ids : results[id] # 0 => results'[id] # 0
    PROVE  Ready(i)'
BY CallFacts DEF TypeOK, Ready

\* A task that a step leaves alone still fits.
LEMMA LeftAlone ==
    ASSUME TypeOK, NEW u \in Tasks, TaskFits(u), call' = call,
           worker'[u] = worker[u], proc'[u] = proc[u], outcome'[u] = outcome[u],
           u \in struck' => u \in struck, signalled => signalled',
           \A id \in Ids : results[id] # 0 => results'[id] # 0
    PROVE  TaskFits(u)'
<1>1. worker[u] # "pending" => Ready(u)'
  BY StaysReady DEF TaskFits
<1>2. worker[u] = "received" => results'[call.tasks[u].id] # 0
  BY CallFacts DEF TaskFits, TypeOK
<1>3. proc[u] # "none" => Launchable(u)'
  BY SameCall DEF TaskFits
<1> QED
  BY <1>1, <1>2, <1>3 DEF TaskFits

LEMMA InitEstablishes == Init => IInv
<1> SUFFICES ASSUME Init PROVE IInv
  OBVIOUS
<1>1. <<>> \in Seq(Tasks) /\ DOMAIN <<>> = {}
  BY EmptySeq
<1>2. TypeOK
  <2>1. call \in Calls /\ 0 \in 0 .. call.lines
    BY CallFacts DEF Init
  <2>2. heard \in [Tasks -> [events : 0 .. call.lines, session : BOOLEAN]]
    BY <2>1 DEF Init
  <2>3. inbox \in Seq(Tasks) /\ report \in Seq(Tasks)
    BY <1>1 DEF Init
  <2> QED
    BY <2>1, <2>2, <2>3 DEF Init, TypeOK, Living, Ended
<1>3. TasksFit
  BY DEF Init, TasksFit, TaskFits, Ended
<1>4. InboxFits /\ ResultsFit /\ MainFits /\ StopFits /\ ExitZeroIsEarned
  BY <1>1 DEF Init, InboxFits, ResultsFit, MainFits, StopFits, ExitZeroIsEarned, NoRepetition
<1> QED
  BY <1>2, <1>3, <1>4 DEF IInv

-----------------------------------------------------------------------------
(***************************************************************************)
(* Steps of one task's run.  Main is not involved: they change nothing but *)
(* the task itself, and the channel at its end.                            *)
(***************************************************************************)
Elsewhere(i) ==
    \A u \in Tasks \ {i} : /\ worker'[u] = worker[u] /\ proc'[u] = proc[u]
                           /\ outcome'[u] = outcome[u]

LEMMA RunKeeps ==
    ASSUME IInv, NEW i \in Tasks, pc # "exited",
           UNCHANGED <<call, mainVars, signalled>>, TypeOK',
           Elsewhere(i), struck' \subseteq struck \cup {i},
           worker[i] \notin {"pending", "sent", "received"},
           worker'[i] \notin {"pending", "received"},
           \/ inbox' = inbox
           \/ Parallel /\ worker'[i] = "sent" /\ inbox' = Append(inbox, i),
           TaskFits(i)'
    PROVE  IInv'
<1>1. /\ Tasks' = Tasks /\ (Parallel' <=> Parallel)
      /\ results' = results /\ pc' = pc /\ exit' = exit /\ report' = report /\ call' = call
      /\ signalled' = signalled
  BY SameCall DEF mainVars
<1>2. TasksFit'
  <2>1. ASSUME NEW u \in Tasks \ {i}
        PROVE  TaskFits(u)'
    BY <1>1, <2>1, LeftAlone DEF IInv, TasksFit, Elsewhere
  <2> QED
    BY <1>1, <2>1 DEF TasksFit
<1>3. InboxFits'
  <2>1. inbox \in Seq(Tasks) /\ \A p \in DOMAIN inbox : inbox[p] \in Tasks
    BY DEF IInv, TypeOK
  <2>2. \A p \in DOMAIN inbox : inbox[p] # i /\ worker'[inbox[p]] = "sent"
    BY <2>1 DEF IInv, InboxFits, Elsewhere
  <2>3. CASE inbox' = inbox
    BY <1>1, <2>2, <2>3 DEF IInv, InboxFits, NoRepetition
  <2>4. CASE Parallel /\ worker'[i] = "sent" /\ inbox' = Append(inbox, i)
    <3>1. i \notin EntriesOf(inbox)
      BY <2>2 DEF EntriesOf
    <3>2. NoRepetition(Append(inbox, i))
      BY <2>1, <3>1, RepetitionInAppend DEF IInv, InboxFits
    <3>3. \A p \in DOMAIN Append(inbox, i) :
             Append(inbox, i)[p] = i \/ (p \in DOMAIN inbox /\ Append(inbox, i)[p] = inbox[p])
      BY <2>1, EntryOfAppend
    <3>4. NoRepetition(inbox)'
      BY <2>4, <3>2 DEF NoRepetition
    <3> QED
      BY <1>1, <2>2, <2>4, <3>3, <3>4 DEF InboxFits
  <2> QED
    BY <2>3, <2>4
<1>4. ResultsFit'
  <2>1. ASSUME NEW id \in Ids, results[id] # 0
        PROVE  /\ worker'[results[id]] = "received"
               /\ call.tasks[results[id]].id = id
    <3>1. results[id] \in Tasks /\ worker[results[id]] = "received"
      BY <2>1 DEF IInv, TypeOK, ResultsFit
    <3>2. results[id] # i
      BY <3>1
    <3> QED
      BY <2>1, <3>1, <3>2 DEF IInv, ResultsFit, Elsewhere
  <2> QED
    BY <1>1, <2>1 DEF ResultsFit
<1>5. MainFits'
  BY <1>1 DEF IInv, MainFits
<1>6. StopFits' /\ ExitZeroIsEarned'
  BY <1>1 DEF StopFits, ExitZeroIsEarned
<1> QED
  BY <1>2, <1>3, <1>4, <1>5, <1>6 DEF IInv

RunPlaces == { "pending", "launch", "stdin", "parse", "wait", "stderr",
            "sent", "received", "panicked" }

LEMMA RunTypes ==
    ASSUME TypeOK, UNCHANGED <<call, mainVars, signalled>>,
           worker' \in [Tasks -> RunPlaces], proc' \in [Tasks -> {"none"} \cup Living \cup Ended],
           helper' \in [Tasks -> BOOLEAN], outcome' \in [Tasks -> {"none", "error"} \cup Ended],
           heard' \in [Tasks -> [events : 0 .. call.lines, session : BOOLEAN]],
           inbox' \in Seq(Tasks), struck' \subseteq Tasks
    PROVE  TypeOK'
<1>1. Tasks' = Tasks
  BY SameCall
<1> QED
  BY <1>1 DEF TypeOK, RunPlaces, mainVars

LEMMA StepFacts ==
    ASSUME TypeOK, NEW i \in Tasks, NEW from, NEW to \in RunPlaces, Step(i, from, to)
    PROVE  /\ pc # "exited" /\ worker[i] = from /\ worker'[i] = to
           /\ worker' \in [Tasks -> RunPlaces]
           /\ \A u \in Tasks \ {i} : worker'[u] = worker[u]
BY DEF Step, TypeOK, RunPlaces

LEMMA FinishFacts ==
    ASSUME TypeOK, NEW i \in Tasks, NEW o \in {"error"} \cup Ended, Finish(i, o)
    PROVE  /\ outcome'[i] = o /\ outcome' \in [Tasks -> {"none", "error"} \cup Ended]
           /\ \A u \in Tasks \ {i} : outcome'[u] = outcome[u]
           /\ inbox' \in Seq(Tasks)
           /\ inbox' = inbox \/ (Parallel /\ inbox' = Append(inbox, i))
<1>1. inbox \in Seq(Tasks) /\ Append(inbox, i) \in Seq(Tasks)
  BY AppendProperties DEF TypeOK
<1> QED
  BY <1>1 DEF Finish, TypeOK

LEMMA FailToLaunchKeeps ==
    ASSUME IInv, NEW i \in Tasks, FailToLaunch(i)
    PROVE  IInv'
<1>1. /\ UNCHANGED <<call, mainVars, procs, heard, signalled, struck>>
      /\ Step(i, "launch", "sent") /\ Finish(i, "error") /\ TypeOK /\ TaskFits(i)
  BY DEF FailToLaunch, IInv, TasksFit
<1>2. /\ pc # "exited" /\ worker[i] = "launch" /\ worker'[i] = "sent"
      /\ worker' \in [Tasks -> RunPlaces]
      /\ \A u \in Tasks \ {i} : worker'[u] = worker[u]
  BY <1>1, StepFacts DEF RunPlaces
<1>3. TypeOK'
  BY <1>1, <1>2, FinishFacts, RunTypes DEF TypeOK, procs
<1>4. Elsewhere(i)
  BY <1>1, <1>2, FinishFacts DEF Elsewhere, procs
<1>5. TaskFits(i)'
  <2>1. /\ outcome'[i] = "error" /\ proc' = proc /\ struck' = struck /\ signalled' = signalled
        /\ call' = call /\ results' = results
    BY <1>1, FinishFacts DEF procs, mainVars
  <2>2. Ready(i)'
    BY <1>1, <1>2, <2>1, StaysReady DEF TaskFits
  <2> QED
    BY <1>1, <1>2, <2>1, <2>2, SameCall DEF TaskFits, Ended
<1> QED
  BY <1>1, <1>2, <1>3, <1>4, <1>5, FinishFacts, RunKeeps
\* A step inside a run: no result yet.
LEMMA InsideKeeps ==
    ASSUME IInv, NEW i \in Tasks, pc # "exited",
           UNCHANGED <<call, mainVars, outcome, inbox, signalled, struck>>,
           worker' \in [Tasks -> RunPlaces], proc' \in [Tasks -> {"none"} \cup Living \cup Ended],
           helper' \in [Tasks -> BOOLEAN],
           heard' \in [Tasks -> [events : 0 .. call.lines, session : BOOLEAN]],
           \A u \in Tasks \ {i} : worker'[u] = worker[u] /\ proc'[u] = proc[u],
           worker[i] \notin {"pending", "sent", "received"},
           worker'[i] \notin {"pending", "sent", "received"},
           worker'[i] \in {"launch", "panicked"} <=> proc'[i] = "none",
           worker'[i] = "stderr" => proc'[i] \in Ended,
           proc'[i] # "none" => Launchable(i)
    PROVE  IInv'
<1>1. TypeOK /\ TaskFits(i)
  BY DEF IInv, TasksFit
<1>2. /\ outcome' = outcome /\ inbox' = inbox /\ struck' = struck /\ call' = call
      /\ signalled' = signalled /\ results' = results
  BY DEF mainVars
<1>3. TypeOK'
  BY <1>1, <1>2, RunTypes DEF TypeOK
<1>4. outcome[i] = "none" /\ Ready(i)'
  BY <1>1, <1>2, StaysReady DEF TaskFits
<1>5. TaskFits(i)'
  <2>1. worker'[i] \in RunPlaces
    BY <1>1
  <2>2. Launchable(i)' <=> Launchable(i)
    BY <1>2, SameCall
  <2> QED
    BY <1>1, <1>2, <1>4, <2>1, <2>2 DEF TaskFits, Ended, RunPlaces
<1> QED
  BY <1>2, <1>3, <1>5, RunKeeps DEF Elsewhere

LEMMA PanicKeeps ==
    ASSUME IInv, NEW i \in Tasks, Panic(i)
    PROVE  IInv'
<1>1. /\ UNCHANGED <<call, mainVars, procs, outcome, heard, inbox, signalled, struck>>
      /\ Step(i, "launch", "panicked") /\ TypeOK /\ TaskFits(i)
  BY DEF Panic, IInv, TasksFit
<1>2. /\ pc # "exited" /\ worker[i] = "launch" /\ worker'[i] = "panicked"
      /\ worker' \in [Tasks -> RunPlaces] /\ \A u \in Tasks \ {i} : worker'[u] = worker[u]
  BY <1>1, StepFacts DEF RunPlaces
<1> QED
  BY <1>1, <1>2, InsideKeeps DEF TypeOK, TaskFits, procs

LEMMA LaunchKeeps ==
    ASSUME IInv, NEW i \in Tasks, Launch(i)
    PROVE  IInv'
<1> DEFINE to == IF UsesStdin(Final(i)) THEN "stdin" ELSE "parse"
<1>1. /\ UNCHANGED <<call, mainVars, outcome, heard, inbox, signalled, struck>>
      /\ Step(i, "launch", to) /\ TypeOK /\ TaskFits(i) /\ Launchable(i)
      /\ proc' = [proc EXCEPT ![i] = "running"] /\ helper' = [helper EXCEPT ![i] = call.forks]
  BY DEF Launch, IInv, TasksFit
<1>2. to \in {"stdin", "parse"} /\ to \in RunPlaces
  BY DEF RunPlaces
<1> HIDE DEF to
<1>3. /\ pc # "exited" /\ worker[i] = "launch" /\ worker'[i] = to
      /\ worker' \in [Tasks -> RunPlaces] /\ \A u \in Tasks \ {i} : worker'[u] = worker[u]
  BY <1>1, <1>2, StepFacts
<1>4. /\ proc' \in [Tasks -> {"none"} \cup Living \cup Ended] /\ proc'[i] = "running"
      /\ \A u \in Tasks \ {i} : proc'[u] = proc[u]
  BY <1>1 DEF TypeOK, Living
<1>5. helper' \in [Tasks -> BOOLEAN] /\ heard' \in [Tasks -> [events : 0 .. call.lines, session : BOOLEAN]]
  BY <1>1, CallFacts DEF TypeOK
<1> QED
  BY <1>1, <1>2, <1>3, <1>4, <1>5, InsideKeeps

\* Steps that change only where the run is.
LEMMA MoveKeeps ==
    ASSUME IInv, NEW i \in Tasks,
           UNCHANGED <<call, mainVars, procs, outcome, heard, inbox, signalled, struck>>,
           NEW from \in {"stdin", "parse", "wait"}, NEW to \in {"parse", "wait", "stderr"},
           Step(i, from, to), to = "stderr" => proc[i] \in Ended
    PROVE  IInv'
<1>1. TypeOK /\ TaskFits(i) /\ to \in RunPlaces
  BY DEF IInv, TasksFit, RunPlaces
<1>2. /\ pc # "exited" /\ worker[i] = from /\ worker'[i] = to
      /\ worker' \in [Tasks -> RunPlaces] /\ \A u \in Tasks \ {i} : worker'[u] = worker[u]
  BY <1>1, StepFacts
<1>3. proc[i] # "none" /\ Launchable(i)
  BY <1>1, <1>2 DEF TaskFits
<1> QED
  BY <1>1, <1>2, <1>3, InsideKeeps DEF TypeOK, procs

LEMMA MovesKeep ==
    ASSUME IInv, NEW i \in Tasks, WriteStdin(i) \/ EndOfOutput(i) \/ Wait(i)
    PROVE  IInv'
<1>1. CASE WriteStdin(i)
  BY <1>1, MoveKeeps DEF WriteStdin
<1>2. CASE EndOfOutput(i)
  BY <1>2, MoveKeeps DEF EndOfOutput
<1>3. CASE Wait(i)
  BY <1>3, MoveKeeps DEF Wait
<1> QED
  BY <1>1, <1>2, <1>3

LEMMA HearKeeps ==
    ASSUME IInv, NEW i \in Tasks, Hear(i)
    PROVE  IInv'
<1>1. /\ UNCHANGED <<call, mainVars, worker, procs, outcome, inbox, signalled, struck>>
      /\ pc # "exited" /\ worker[i] = "parse" /\ TypeOK /\ TaskFits(i)
  BY DEF Hear, IInv, TasksFit
<1>2. heard' \in [Tasks -> [events : 0 .. call.lines, session : BOOLEAN]]
  <2>1. PICK announced \in BOOLEAN :
            /\ heard[i].events < call.lines
            /\ heard' = [heard EXCEPT ![i].events = @ + 1, ![i].session = @ \/ announced]
    BY DEF Hear
  <2>2. /\ heard \in [Tasks -> [events : 0 .. call.lines, session : BOOLEAN]]
        /\ heard[i].events + 1 \in 0 .. call.lines /\ heard[i].session \in BOOLEAN
    BY <1>1, <2>1, CallFacts DEF TypeOK
  <2>3. (heard[i].session \/ announced) \in BOOLEAN
    OBVIOUS
  <2> QED
    BY <2>1, <2>2, <2>3
<1> QED
  BY <1>1, <1>2, InsideKeeps DEF TypeOK, TaskFits, procs, RunPlaces

LEMMA TimeoutKeeps ==
    ASSUME IInv, NEW i \in Tasks, Timeout(i)
    PROVE  IInv'
<1>1. /\ UNCHANGED <<call, mainVars, helper, outcome, heard, inbox, signalled, struck>>
      /\ Step(i, "parse", "wait") /\ TypeOK /\ TaskFits(i)
      /\ proc' = [proc EXCEPT ![i] = IF @ \in Living THEN "killed" ELSE @]
  BY DEF Timeout, IInv, TasksFit
<1>2. /\ pc # "exited" /\ worker[i] = "parse" /\ worker'[i] = "wait"
      /\ worker' \in [Tasks -> RunPlaces] /\ \A u \in Tasks \ {i} : worker'[u] = worker[u]
  BY <1>1, StepFacts DEF RunPlaces
<1>3. proc[i] # "none" /\ Launchable(i)
  BY <1>1, <1>2 DEF TaskFits
<1>4. /\ proc' \in [Tasks -> {"none"} \cup Living \cup Ended] /\ proc'[i] # "none"
      /\ \A u \in Tasks \ {i} : proc'[u] = proc[u]
  BY <1>1, <1>3 DEF TypeOK, Ended
<1> QED
  BY <1>1, <1>2, <1>3, <1>4, InsideKeeps DEF TypeOK

\* A run that ends with its process: the guard is dropped.
LEMMA EndKeeps ==
    ASSUME IInv, NEW i \in Tasks, NEW from \in {"stdin", "stderr"},
           NEW o \in {"error"} \cup Ended, o \in Ended => proc[i] = o,
           proc[i] \in Living => o = "error",
           Step(i, from, "sent"), Finish(i, o), DropGuard(i),
           UNCHANGED <<call, mainVars, procs, heard, signalled>>
    PROVE  IInv'
<1>1. /\ TypeOK /\ TaskFits(i) /\ "sent" \in RunPlaces
      /\ call' = call /\ proc' = proc /\ signalled' = signalled /\ results' = results
  BY DEF IInv, TasksFit, RunPlaces, mainVars, procs
<1>2. /\ pc # "exited" /\ worker[i] = from /\ worker'[i] = "sent"
      /\ worker' \in [Tasks -> RunPlaces] /\ \A u \in Tasks \ {i} : worker'[u] = worker[u]
  BY <1>1, StepFacts
<1>3. /\ outcome'[i] = o /\ outcome' \in [Tasks -> {"none", "error"} \cup Ended]
      /\ \A u \in Tasks \ {i} : outcome'[u] = outcome[u]
      /\ inbox' \in Seq(Tasks)
      /\ inbox' = inbox \/ (Parallel /\ inbox' = Append(inbox, i))
  BY <1>1, FinishFacts
<1>4. /\ struck' \subseteq struck \cup {i} /\ struck' \subseteq Tasks
      /\ i \in struck' => i \in struck \/ (signalled /\ proc[i] \in Living)
  BY <1>1 DEF DropGuard, TypeOK
<1>5. TypeOK'
  BY <1>1, <1>2, <1>3, <1>4, RunTypes DEF TypeOK, procs
<1>6. TaskFits(i)'
  <2>1. outcome[i] = "none" /\ i \notin struck /\ proc[i] # "none" /\ Launchable(i)
    BY <1>1, <1>2 DEF TaskFits
  <2>2. Ready(i)' /\ Launchable(i)'
    BY <1>1, <1>2, <2>1, StaysReady, SameCall DEF TaskFits
  <2>3. i \in struck' => signalled' /\ outcome'[i] = "error"
    BY <1>1, <1>3, <1>4, <2>1
  <2>4. o # "none"
    BY DEF Ended
  <2> QED
    BY <1>1, <1>2, <1>3, <2>1, <2>2, <2>3, <2>4 DEF TaskFits
<1> QED
  BY <1>1, <1>2, <1>3, <1>4, <1>5, <1>6, RunKeeps DEF Elsewhere

LEMMA EndsKeep ==
    ASSUME IInv, NEW i \in Tasks, FailStdin(i) \/ JoinStderr(i)
    PROVE  IInv'
<1>1. CASE FailStdin(i)
  BY <1>1, EndKeeps DEF FailStdin, Ended
<1>2. CASE JoinStderr(i)
  <2>1. proc[i] \in Ended /\ proc[i] \notin Living
    BY <1>2 DEF JoinStderr, Step, IInv, TasksFit, TaskFits, Ended, Living
  <2> QED
    BY <1>2, <2>1, EndKeeps DEF JoinStderr
<1> QED
  BY <1>1, <1>2

LEMMA RunStepKeeps ==
    ASSUME IInv, NEW i \in Tasks, Run(i)
    PROVE  IInv'
BY FailToLaunchKeeps, PanicKeeps, LaunchKeeps, MovesKeep, HearKeeps, TimeoutKeeps, EndsKeep DEF Run
-----------------------------------------------------------------------------
(***************************************************************************)
(* Backends and helpers.                                                   *)
(***************************************************************************)
LEMMA OutsideKeeps ==
    ASSUME IInv, NEW i \in Tasks,
           UNCHANGED <<call, mainVars, worker, outcome, heard, inbox, signalled, struck>>,
           helper' \in [Tasks -> BOOLEAN],
           proc' \in [Tasks -> {"none"} \cup Living \cup Ended],
           \A u \in Tasks \ {i} : proc'[u] = proc[u],
           \/ proc'[i] = proc[i]
           \/ proc[i] \in Living /\ proc'[i] \in {"mute"} \cup Ended
    PROVE  IInv'
<1>1. /\ TypeOK /\ TasksFit
      /\ call' = call /\ worker' = worker /\ outcome' = outcome /\ inbox' = inbox
      /\ signalled' = signalled /\ struck' = struck
      /\ pc' = pc /\ exit' = exit /\ results' = results /\ report' = report
      /\ Tasks' = Tasks /\ (Parallel' <=> Parallel)
  BY SameCall DEF IInv, mainVars
<1>2. TypeOK'
  BY <1>1, RunTypes DEF TypeOK, RunPlaces
<1>3. TasksFit'
  <2>1. ASSUME NEW u \in Tasks, proc'[u] = proc[u]
        PROVE  TaskFits(u)'
    BY <1>1, <2>1, LeftAlone DEF TasksFit
  <2>2. CASE proc'[i] = proc[i]
    BY <1>1, <2>1, <2>2 DEF TasksFit
  <2>3. CASE proc[i] \in Living /\ proc'[i] \in {"mute"} \cup Ended
    <3>1. TaskFits(i) /\ proc[i] \notin Ended /\ proc[i] # "none" /\ proc'[i] # "none"
      BY <1>1, <2>3 DEF TasksFit, Living, Ended
    <3>2. /\ worker[i] \notin {"pending", "launch", "panicked", "stderr"}
          /\ outcome[i] \notin Ended /\ Launchable(i)
      BY <3>1 DEF TaskFits
    <3>3. Ready(i)' /\ Launchable(i)'
      BY <1>1, <3>1, <3>2, StaysReady, SameCall DEF TaskFits
    <3>4. TaskFits(i)'
      BY <1>1, <3>1, <3>2, <3>3 DEF TaskFits
    <3> QED
      BY <1>1, <2>1, <3>4 DEF TasksFit
  <2> QED
    BY <2>2, <2>3
<1>4. InboxFits' /\ ResultsFit' /\ MainFits'
  BY <1>1 DEF IInv, InboxFits, NoRepetition, ResultsFit, MainFits
<1>5. StopFits'
  BY <1>1 DEF IInv, StopFits, Pending, Running, Ready
<1>6. ExitZeroIsEarned'
  <2>1. \A u \in Tasks : proc[u] = "success" => proc'[u] = "success"
    BY DEF Living
  <2>2. \A p \in DOMAIN report : report[p] \in Tasks
    BY <1>1 DEF TypeOK
  <2>3. Unique' <=> Unique
    BY <1>1 DEF Unique
  <2>4. { call.tasks[u].id : u \in Tasks }' = { call.tasks[u].id : u \in Tasks }
    BY <1>1
  <2>5. { call.tasks[report[p]].id : p \in DOMAIN report }' = { call.tasks[report[p]].id : p \in DOMAIN report }
    BY <1>1
  <2>6. (\A p \in DOMAIN report : proc[report[p]] = "success")
           => \A p \in DOMAIN report' : proc'[report'[p]] = "success"
    BY <1>1, <2>1, <2>2
  <2> QED
    BY <1>1, <2>3, <2>4, <2>5, <2>6 DEF IInv, ExitZeroIsEarned
<1> QED
  BY <1>2, <1>3, <1>4, <1>5, <1>6 DEF IInv

LEMMA OutsideStepKeeps ==
    ASSUME IInv, NEW i \in Tasks, Outside(i)
    PROVE  IInv'
<1>1. TypeOK
  BY DEF IInv
<1>2. CASE CloseStdout(i)
  <2>1. /\ proc' = [proc EXCEPT ![i] = "mute"] /\ proc[i] = "running"
        /\ UNCHANGED <<call, mainVars, worker, helper, outcome, heard, inbox, signalled, struck>>
    BY <1>2 DEF CloseStdout
  <2> QED
    BY <1>1, <2>1, OutsideKeeps DEF TypeOK, Living
<1>3. CASE BackendEnd(i)
  <2>1. PICK status \in {"success", "failure"} : proc' = [proc EXCEPT ![i] = status]
    BY <1>3 DEF BackendEnd
  <2>2. /\ proc[i] \in Living /\ status \in Ended
        /\ UNCHANGED <<call, mainVars, worker, helper, outcome, heard, inbox, signalled, struck>>
    BY <1>3 DEF BackendEnd, Ended
  <2> QED
    BY <1>1, <2>1, <2>2, OutsideKeeps DEF TypeOK
<1>4. CASE HelperEnd(i)
  <2>1. /\ helper' = [helper EXCEPT ![i] = FALSE]
        /\ UNCHANGED <<call, mainVars, worker, proc, outcome, heard, inbox, signalled, struck>>
    BY <1>4 DEF HelperEnd
  <2> QED
    BY <1>1, <2>1, OutsideKeeps DEF TypeOK
<1> QED
  BY <1>2, <1>3, <1>4 DEF Outside

-----------------------------------------------------------------------------
(***************************************************************************)
(* main and the scheduler.                                                 *)
(***************************************************************************)
Aside == <<call, procs, outcome, heard, signalled, struck>>

\* Main decides, and no task is touched.
LEMMA DecisionKeeps ==
    ASSUME IInv, UNCHANGED Aside, UNCHANGED <<worker, inbox, results>>, pc # "exited",
           pc' \in {"fill", "receive", "exited"}, pc' \in {"fill", "receive"} => Parallel,
           exit' \in {"none", "zero", "one", "panic"}, pc' = "exited" <=> exit' # "none",
           report' \in Seq(Tasks), StopFits', ExitZeroIsEarned'
    PROVE  IInv'
<1>1. /\ TypeOK /\ Tasks' = Tasks /\ (Parallel' <=> Parallel)
      /\ call' = call /\ worker' = worker /\ proc' = proc /\ helper' = helper
      /\ outcome' = outcome /\ inbox' = inbox /\ heard' = heard /\ results' = results
      /\ signalled' = signalled /\ struck' = struck
  BY SameCall DEF IInv, Aside, procs
<1>2. TypeOK'
  BY <1>1 DEF TypeOK
<1>3. TasksFit'
  BY <1>1, LeftAlone DEF IInv, TasksFit
<1>4. InboxFits' /\ ResultsFit' /\ MainFits'
  BY <1>1 DEF IInv, InboxFits, NoRepetition, ResultsFit, MainFits
<1> QED
  BY <1>2, <1>3, <1>4 DEF IInv

LEMMA StopFillingKeeps == IInv /\ StopFilling => IInv'
<1> SUFFICES ASSUME IInv, StopFilling PROVE IInv'
  OBVIOUS
<1>1. /\ UNCHANGED Aside /\ UNCHANGED <<worker, inbox, results>> /\ pc' = "receive"
      /\ pc = "fill" /\ exit' = exit /\ report' = report
  BY DEF StopFilling, Aside
<1>2. exit = "none" /\ report \in Seq(Tasks) /\ Parallel
  BY <1>1 DEF IInv, TypeOK, MainFits
<1>3. StopFits' /\ ExitZeroIsEarned'
  BY <1>1 DEF StopFits, ExitZeroIsEarned
<1> QED
  BY <1>1, <1>2, <1>3, DecisionKeeps

LEMMA ReportCircularKeeps == IInv /\ ReportCircular => IInv'
<1> SUFFICES ASSUME IInv, ReportCircular PROVE IInv'
  OBVIOUS
<1>1. /\ UNCHANGED Aside /\ UNCHANGED <<worker, inbox, results>> /\ pc' = "exited"
      /\ pc = "fill" /\ exit' = "one" /\ report' = report
      /\ Running = {} /\ \A i \in Pending : ~Ready(i)
  BY DEF ReportCircular, Aside, Exit
<1>2. report \in Seq(Tasks)
  BY DEF IInv, TypeOK
<1>3. StopFits'
  <2>1. call' = call /\ worker' = worker /\ results' = results
    BY <1>1 DEF Aside
  <2>2. Pending' = Pending /\ Running' = Running
    BY <2>1, SameCall DEF Pending, Running
  <2>3. \A i \in Pending : ~Ready(i)'
    BY <1>1, <2>1 DEF Ready
  <2> QED
    BY <1>1, <2>2, <2>3 DEF StopFits
<1>4. ExitZeroIsEarned'
  BY <1>1 DEF ExitZeroIsEarned
<1> QED
  BY <1>1, <1>2, <1>3, <1>4, DecisionKeeps

LEMMA ExitSingleKeeps == IInv /\ ExitSingle => IInv'
<1> SUFFICES ASSUME IInv, ExitSingle PROVE IInv'
  OBVIOUS
<1>1. /\ UNCHANGED Aside /\ UNCHANGED <<worker, inbox, results>> /\ pc' = "exited"
      /\ pc = "single" /\ exit' = (IF outcome[1] = "success" THEN "zero" ELSE "one")
      /\ report' = IF outcome[1] = "error" THEN <<>> ELSE <<1>>
  BY DEF ExitSingle, Aside, Exit
<1>2. /\ ~Parallel /\ Tasks = {1} /\ TypeOK /\ TaskFits(1)
      /\ call' = call /\ proc' = proc /\ Tasks' = Tasks /\ (Parallel' <=> Parallel)
  BY <1>1, SameCall DEF IInv, MainFits, TasksFit, Aside, procs
<1>3. <<1>> \in Seq(Tasks) /\ <<>> \in Seq(Tasks) /\ Len(<<1>>) = 1 /\ DOMAIN <<1>> = {1} /\ <<1>>[1] = 1
  BY <1>2
<1>4. report' \in Seq(Tasks)
  BY <1>1, <1>3
<1>5. StopFits'
  BY <1>2 DEF StopFits
<1>6. ExitZeroIsEarned'
  <2>1. SUFFICES ASSUME outcome[1] = "success" PROVE ExitZeroIsEarned'
    BY <1>1 DEF ExitZeroIsEarned
  <2>2. proc'[1] = "success" /\ report' = <<1>>
    BY <1>1, <1>2, <2>1 DEF TaskFits, Ended
  <2>3. { call.tasks[i].id : i \in Tasks } = {call.tasks[1].id}
    BY <1>2
  <2>4. Cardinality({call.tasks[1].id}) = 1
    BY FS_Singleton
  <2>5. { call.tasks[report'[p]].id : p \in DOMAIN report' } = {call.tasks[1].id}
    BY <1>3, <2>2
  <2> QED
    BY <1>2, <1>3, <2>2, <2>3, <2>4, <2>5 DEF ExitZeroIsEarned
<1> QED
  BY <1>1, <1>4, <1>5, <1>6, DecisionKeeps
LEMMA BeginKeeps == IInv /\ Begin => IInv'
<1> SUFFICES ASSUME IInv, Begin PROVE IInv'
  OBVIOUS
<1>1. /\ UNCHANGED Aside /\ UNCHANGED <<inbox, results>> /\ pc = "start" /\ TypeOK
      /\ call' = call /\ Tasks' = Tasks /\ (Parallel' <=> Parallel) /\ exit = "none"
      /\ report \in Seq(Tasks) /\ \A i \in Tasks : worker[i] = "pending"
  BY SameCall DEF Begin, Aside, IInv, TypeOK, MainFits
<1>2. CASE /\ exit' \in {"one", "panic"} /\ pc' = "exited" /\ UNCHANGED <<report, worker>>
           /\ ~(Parallel /\ call.parses /\ exit' = "one")
  BY <1>1, <1>2, DecisionKeeps DEF StopFits, ExitZeroIsEarned
<1>3. CASE exit' = "zero" /\ pc' = "exited" /\ Tasks = {} /\ UNCHANGED <<report, worker>>
  <2>1. report = <<>>
    <3>1. report \in Seq({})
      BY <1>1, <1>3
    <3>2. Len(report) \in Nat /\ \A p \in 1 .. Len(report) : report[p] \in {}
      BY <3>1, LenProperties, ElementOfSeq
    <3>3. Len(report) = 0
      BY <3>2
    <3> QED
      BY <3>1, <3>3, EmptySeq
  <2>2. /\ { call.tasks[i].id : i \in Tasks } = {} /\ Cardinality({}) = 0
        /\ Len(<<>>) = 0 /\ DOMAIN <<>> = {}
    BY <1>3, FS_EmptySet
  <2>3. ExitZeroIsEarned'
    BY <1>1, <1>3, <2>1, <2>2 DEF ExitZeroIsEarned
  <2> QED
    BY <1>1, <1>3, <2>3, DecisionKeeps DEF StopFits
<1>4. CASE Parallel /\ pc' = "fill" /\ UNCHANGED <<exit, report, worker>>
  BY <1>1, <1>4, DecisionKeeps DEF StopFits, ExitZeroIsEarned
<1>5. CASE /\ ~Parallel /\ Tasks # {} /\ pc' = "single"
           /\ worker' = [worker EXCEPT ![1] = "launch"] /\ UNCHANGED <<exit, report>>
  <2>1. Tasks = {1} /\ call.tasks[1].deps = {}
    <3>1. call \in Calls
      BY <1>1 DEF TypeOK
    <3>2. Tasks = 1 .. Len(call.tasks) /\ Len(call.tasks) \in Nat /\ Len(call.tasks) <= 1
      BY <1>5, <3>1, CallFacts
    <3>3. Tasks = 1 .. 1
      <4> DEFINE n == Len(call.tasks)
      <4>1. Tasks = 1 .. n /\ n \in Nat /\ n <= 1
        BY <3>2
      <4> HIDE DEF n
      <4>2. n = 0 \/ n = 1
        BY <4>1
      <4>3. n # 0
        BY <1>5, <4>1
      <4> QED
        BY <4>1, <4>2, <4>3
    <3>4. Tasks = {1}
      BY <3>3
    <3> QED
      BY <1>5, <3>1, <3>4, CallFacts
  <2>2. /\ worker' \in [Tasks -> RunPlaces] /\ worker'[1] = "launch"
    BY <1>1, <1>5, <2>1 DEF TypeOK, RunPlaces
  <2>3. /\ proc' = proc /\ outcome' = outcome /\ struck' = struck /\ signalled' = signalled
        /\ helper' = helper /\ heard' = heard /\ inbox' = inbox /\ results' = results
        /\ exit' = exit /\ report' = report
    BY <1>1, <1>5 DEF Aside, procs
  <2>4. TypeOK'
    BY <1>1, <1>5, <2>2, <2>3 DEF TypeOK, RunPlaces
  <2>5. TaskFits(1)'
    <3>1. worker[1] = "pending" /\ TaskFits(1)
      BY <1>1, <2>1 DEF IInv, TasksFit
    <3>2. proc[1] = "none" /\ outcome[1] = "none" /\ 1 \notin struck
      BY <3>1 DEF TaskFits
    <3>3. Ready(1)'
      BY <1>1, <2>1 DEF Ready
    <3> QED
      BY <2>2, <2>3, <3>2, <3>3 DEF TaskFits, Ended
  <2>6. TasksFit'
    BY <1>1, <2>1, <2>5 DEF TasksFit
  <2>7. InboxFits'
    <3>1. inbox = <<>> /\ inbox' = <<>> /\ DOMAIN <<>> = {}
      BY <1>5, <2>3 DEF IInv, InboxFits
    <3> QED
      BY <3>1 DEF InboxFits, NoRepetition
  <2>8. ResultsFit'
    <3>1. \A id \in Ids : results[id] = 0
      <4>1. \A id \in Ids : results[id] \in Tasks \cup {0}
        BY <1>1 DEF TypeOK
      <4> QED
        BY <1>1, <4>1 DEF IInv, ResultsFit
    <3> QED
      BY <2>3, <3>1 DEF ResultsFit
  <2>9. MainFits' /\ StopFits' /\ ExitZeroIsEarned'
    BY <1>1, <1>5, <2>1 DEF MainFits, StopFits, ExitZeroIsEarned
  <2> QED
    BY <2>4, <2>6, <2>7, <2>8, <2>9 DEF IInv
<1>6. CASE Exit("one") /\ (~Parallel \/ ~call.parses) /\ UNCHANGED <<report, worker>>
  BY <1>2, <1>6 DEF Exit
<1>7. CASE Exit("panic") /\ UNCHANGED <<report, worker>>
  BY <1>2, <1>7 DEF Exit
<1>8. CASE Exit("zero") /\ Tasks = {} /\ UNCHANGED <<report, worker>>
  BY <1>3, <1>8 DEF Exit
<1>9. call.mode = "resume" => ~Parallel
  BY DEF Parallel
<1> QED
  BY <1>4, <1>5, <1>6, <1>7, <1>8, <1>9 DEF Begin

LEMMA SpawnKeeps == IInv /\ Spawn => IInv'
<1> SUFFICES ASSUME IInv, Spawn PROVE IInv'
  OBVIOUS
<1>1. PICK i \in Pending : Ready(i) /\ worker' = [worker EXCEPT ![i] = "launch"]
  BY DEF Spawn
<1>2. /\ UNCHANGED Aside /\ UNCHANGED <<mainVars, inbox>> /\ pc = "fill" /\ TypeOK
      /\ call' = call /\ Tasks' = Tasks /\ (Parallel' <=> Parallel)
      /\ proc' = proc /\ outcome' = outcome /\ struck' = struck /\ signalled' = signalled
      /\ helper' = helper /\ heard' = heard /\ inbox' = inbox /\ results' = results
      /\ pc' = pc /\ exit' = exit /\ report' = report
  BY SameCall DEF Spawn, Aside, IInv, mainVars, procs
<1>3. i \in Tasks /\ worker[i] = "pending" /\ TaskFits(i)
  BY <1>1 DEF Pending, IInv, TasksFit
<1>4. /\ worker' \in [Tasks -> RunPlaces] /\ worker'[i] = "launch"
      /\ \A u \in Tasks \ {i} : worker'[u] = worker[u]
  BY <1>1, <1>2, <1>3 DEF TypeOK, RunPlaces
<1>5. TypeOK'
  BY <1>2, <1>4 DEF TypeOK, RunPlaces
<1>6. TasksFit'
  <2>1. TaskFits(i)'
    <3>1. proc[i] = "none" /\ outcome[i] = "none" /\ i \notin struck
      BY <1>3 DEF TaskFits
    <3>2. Ready(i)'
      BY <1>1, <1>2, <1>3, StaysReady
    <3> QED
      BY <1>2, <1>4, <3>1, <3>2 DEF TaskFits, Ended
  <2>2. ASSUME NEW u \in Tasks \ {i} PROVE TaskFits(u)'
    BY <1>2, <1>4, LeftAlone DEF IInv, TasksFit
  <2> QED
    BY <1>2, <2>1, <2>2 DEF TasksFit
<1>7. InboxFits'
  <2>1. \A p \in DOMAIN inbox : inbox[p] \in Tasks \ {i}
    BY <1>2, <1>3 DEF TypeOK, IInv, InboxFits
  <2> QED
    BY <1>2, <1>4, <2>1 DEF IInv, InboxFits, NoRepetition
<1>8. ResultsFit'
  <2>1. \A id \in Ids : results[id] # 0 => results[id] \in Tasks \ {i}
    BY <1>2, <1>3 DEF TypeOK, IInv, ResultsFit
  <2> QED
    BY <1>2, <1>4, <2>1 DEF IInv, ResultsFit
<1>9. MainFits' /\ StopFits' /\ ExitZeroIsEarned'
  BY <1>2 DEF IInv, MainFits, StopFits, ExitZeroIsEarned
<1> QED
  BY <1>5, <1>6, <1>7, <1>8, <1>9 DEF IInv

LEMMA SignalKeeps == IInv /\ Signal => IInv'
<1> SUFFICES ASSUME IInv, Signal PROVE IInv'
  OBVIOUS
<1>1. /\ TypeOK /\ call' = call /\ Tasks' = Tasks /\ (Parallel' <=> Parallel)
      /\ worker' = worker /\ proc' = proc /\ helper' = helper /\ outcome' = outcome
      /\ heard' = heard /\ inbox' = inbox /\ results' = results /\ report' = report
      /\ struck' = struck /\ signalled' = TRUE /\ pc # "exited"
      /\ (pc' = pc /\ exit' = exit) \/ (pc' = "exited" /\ exit' = "signal")
  BY SameCall DEF Signal, IInv, procs, Exit
<1>2. TypeOK'
  BY <1>1 DEF TypeOK
<1>3. TasksFit'
  BY <1>1, LeftAlone DEF IInv, TasksFit
<1>4. InboxFits' /\ ResultsFit' /\ MainFits'
  BY <1>1 DEF IInv, InboxFits, NoRepetition, ResultsFit, MainFits
<1>5. StopFits' /\ ExitZeroIsEarned'
  BY <1>1 DEF StopFits, ExitZeroIsEarned
<1> QED
  BY <1>2, <1>3, <1>4, <1>5 DEF IInv

LEMMA AbortKeeps ==
    ASSUME IInv, NEW i \in Tasks, PanicAborts(i)
    PROVE  IInv'
<1>1. /\ TypeOK /\ call' = call /\ Tasks' = Tasks /\ (Parallel' <=> Parallel)
      /\ worker' = worker /\ proc' = proc /\ helper' = helper /\ outcome' = outcome
      /\ heard' = heard /\ inbox' = inbox /\ results' = results /\ report' = report
      /\ struck' = struck /\ signalled' = signalled /\ pc' = "exited" /\ exit' = "panic"
  BY SameCall DEF PanicAborts, IInv, procs, Exit
<1>2. TypeOK'
  BY <1>1 DEF TypeOK
<1>3. TasksFit'
  BY <1>1, LeftAlone DEF IInv, TasksFit
<1>4. InboxFits' /\ ResultsFit' /\ MainFits'
  BY <1>1 DEF IInv, InboxFits, NoRepetition, ResultsFit, MainFits
<1>5. StopFits' /\ ExitZeroIsEarned'
  BY <1>1 DEF StopFits, ExitZeroIsEarned
<1> QED
  BY <1>2, <1>3, <1>4, <1>5 DEF IInv

-----------------------------------------------------------------------------
(***************************************************************************)
(* The report.                                                             *)
(***************************************************************************)
IdsOfTasks == { call.tasks[i].id : i \in Tasks }

\* Every id has a first place, and no two first places have one id.
LEMMA FirstPlaceFacts ==
    ASSUME call \in Calls
    PROVE  /\ FirstPlaces \subseteq Tasks
           /\ \A i \in Tasks : \E j \in FirstPlaces : call.tasks[j].id = call.tasks[i].id
           /\ \A i, j \in FirstPlaces : call.tasks[i].id = call.tasks[j].id => i = j
           /\ Unique => FirstPlaces = Tasks
<1>1. Tasks \subseteq Nat /\ FirstPlaces \subseteq Tasks
  BY CallFacts DEF FirstPlaces
<1>2. ASSUME NEW i \in Tasks
      PROVE  \E j \in FirstPlaces : call.tasks[j].id = call.tasks[i].id
  <2> DEFINE Same == { j \in Tasks : call.tasks[j].id = call.tasks[i].id }
  <2>1. Same \in SUBSET Nat /\ i \in Same
    BY <1>1
  <2>2. PICK j \in Same : \A k \in Same : j <= k
    BY <2>1, LeastNatural
  <2>3. j \in FirstPlaces
    BY <2>2 DEF FirstPlaces
  <2> QED
    BY <2>2, <2>3
<1>3. ASSUME NEW i \in FirstPlaces, NEW j \in FirstPlaces, call.tasks[i].id = call.tasks[j].id
      PROVE  i = j
  <2>1. i <= j /\ j <= i /\ i \in Nat /\ j \in Nat
    BY <1>1, <1>3 DEF FirstPlaces
  <2> QED
    BY <2>1
<1>4. ASSUME Unique, NEW i \in Tasks
      PROVE  i \in FirstPlaces
  <2>1. \A j \in Tasks : call.tasks[j].id = call.tasks[i].id => j = i
    BY <1>4 DEF Unique
  <2>2. i <= i
    BY <1>1
  <2> QED
    BY <2>1, <2>2 DEF FirstPlaces
<1> QED
  BY <1>1, <1>2, <1>3, <1>4

LEMMA CollectedFacts ==
    ASSUME call \in Calls, NEW res,
           \A i \in Tasks : /\ res[call.tasks[i].id] \in Tasks
                            /\ call.tasks[res[call.tasks[i].id]].id = call.tasks[i].id
    PROVE  /\ Collected(res) \in Seq(Tasks)
           /\ \A p \in DOMAIN Collected(res) :
                 \E i \in Tasks : Collected(res)[p] = res[call.tasks[i].id]
           /\ { call.tasks[Collected(res)[p]].id : p \in DOMAIN Collected(res) } = IdsOfTasks
           /\ Len(Collected(res)) = Cardinality(IdsOfTasks)
           /\ Unique => \A i \in Tasks : Collected(res)[i] = i
<1> DEFINE places == [i \in Tasks |-> i]
           firsts == Filter(places, FirstPlaces)
           n      == Len(firsts)
           ids    == [p \in 1 .. n |-> call.tasks[firsts[p]].id]
<1>1. /\ places \in Seq(Tasks) /\ NoRepetition(places) /\ EntriesOf(places) = Tasks
  <2>1. places \in [1 .. Len(call.tasks) -> Tasks] /\ Len(call.tasks) \in Nat
    BY CallFacts
  <2>2. places \in Seq(Tasks)
    BY <2>1, SeqDef
  <2> QED
    BY <2>2 DEF NoRepetition, EntriesOf
<1>2. /\ firsts \in Seq(Tasks \cap FirstPlaces) /\ EntriesOf(firsts) = Tasks \cap FirstPlaces
      /\ NoRepetition(firsts)
  BY <1>1, FilterIsList, FilterSelects
<1> HIDE DEF places
<1>3. Unique => firsts = places
  BY <1>1, FirstPlaceFacts, FilterOfAll
<1>4. Collected(res) = [p \in DOMAIN firsts |-> res[call.tasks[firsts[p]].id]]
  BY DEF Collected, places
<1> HIDE DEF firsts
<1>5. /\ Tasks \cap FirstPlaces = FirstPlaces /\ n \in Nat /\ DOMAIN firsts = 1 .. n
      /\ \A p \in 1 .. n : firsts[p] \in FirstPlaces /\ firsts[p] \in Tasks
  <2>1. Tasks \cap FirstPlaces = FirstPlaces
    BY FirstPlaceFacts
  <2>2. n \in Nat /\ DOMAIN firsts = 1 .. n
    BY <1>2, LenProperties
  <2>3. \A p \in 1 .. n : firsts[p] \in Tasks \cap FirstPlaces
    BY <1>2, ElementOfSeq
  <2> QED
    BY <2>1, <2>2, <2>3
<1>6. ids \in Seq(Ids) /\ Len(ids) = n /\ DOMAIN ids = 1 .. n
  <2>1. ids \in [1 .. n -> Ids]
    BY <1>5, CallFacts
  <2>2. ids \in Seq(Ids)
    BY <1>5, <2>1, SeqDef
  <2> QED
    BY <1>5, <2>2, LenProperties
<1>7. EntriesOf(ids) = IdsOfTasks
  <2>1. EntriesOf(ids) = { call.tasks[firsts[p]].id : p \in 1 .. n }
    BY <1>6 DEF EntriesOf
  <2>2. ASSUME NEW i \in Tasks
        PROVE  \E p \in 1 .. n : call.tasks[i].id = call.tasks[firsts[p]].id
    <3>1. PICK j \in FirstPlaces : call.tasks[j].id = call.tasks[i].id
      BY FirstPlaceFacts
    <3>2. PICK p \in 1 .. n : firsts[p] = j
      BY <1>2, <1>5 DEF EntriesOf
    <3> QED
      BY <3>1, <3>2
  <2> QED
    BY <1>5, <2>1, <2>2 DEF IdsOfTasks
<1>8. NoRepetition(ids)
  <2>1. ASSUME NEW p \in 1 .. n, NEW q \in 1 .. n, ids[p] = ids[q]
        PROVE  p = q
    <3>1. firsts[p] = firsts[q]
      BY <1>5, <2>1, FirstPlaceFacts
    <3> QED
      BY <1>2, <1>5, <3>1 DEF NoRepetition
  <2> QED
    BY <1>6, <2>1 DEF NoRepetition
<1>9. n = Cardinality(IdsOfTasks)
  <2> HIDE DEF ids
  <2> QED
    BY <1>6, <1>7, <1>8, LengthIsCardinality
<1>10. /\ Collected(res) \in [1 .. n -> Tasks] /\ DOMAIN Collected(res) = 1 .. n
       /\ \A p \in 1 .. n : /\ Collected(res)[p] = res[call.tasks[firsts[p]].id]
                            /\ call.tasks[Collected(res)[p]].id = ids[p]
  BY <1>4, <1>5
<1>11. Collected(res) \in Seq(Tasks) /\ Len(Collected(res)) = n
  <2>1. Collected(res) \in Seq(Tasks)
    BY <1>5, <1>10, SeqDef
  <2> QED
    BY <1>5, <1>10, <2>1, LenProperties
<1>12. { call.tasks[Collected(res)[p]].id : p \in DOMAIN Collected(res) } = IdsOfTasks
  <2> HIDE DEF ids
  <2>1. EntriesOf(ids) = { ids[p] : p \in 1 .. n }
    BY <1>6 DEF EntriesOf
  <2> QED
    BY <1>7, <1>10, <2>1
<1>13. ASSUME Unique, NEW i \in Tasks
       PROVE  Collected(res)[i] = i
  <2>1. Collected(res)[i] = res[call.tasks[i].id]
    BY <1>3, <1>4, <1>13 DEF places
  <2> QED
    BY <1>13, <2>1 DEF Unique
<1> QED
  BY <1>5, <1>9, <1>10, <1>11, <1>12, <1>13

LEMMA ReceiveFacts ==
    ASSUME IInv, Receive
    PROVE  /\ TypeOK /\ pc = "receive" /\ Parallel /\ Head(inbox) \in Tasks
           /\ worker[Head(inbox)] = "sent" /\ call.tasks[Head(inbox)].id \in Ids
           /\ UNCHANGED <<call, procs, outcome, heard, signalled, struck>>
           /\ inbox' \in Seq(Tasks) /\ inbox' = Tail(inbox) /\ NoRepetition(inbox')
           /\ \A p \in DOMAIN inbox' : inbox'[p] # Head(inbox) /\ inbox'[p] \in EntriesOf(inbox)
           /\ worker' \in [Tasks -> RunPlaces] /\ worker'[Head(inbox)] = "received"
           /\ \A u \in Tasks \ {Head(inbox)} : worker'[u] = worker[u]
           /\ results' \in [Ids -> Tasks \cup {0}]
           /\ results'[call.tasks[Head(inbox)].id] = Head(inbox)
           /\ \A id \in Ids \ {call.tasks[Head(inbox)].id} : results'[id] = results[id]
<1> DEFINE h == Head(inbox)
<1>1. /\ TypeOK /\ pc = "receive" /\ inbox # <<>> /\ inbox \in Seq(Tasks) /\ NoRepetition(inbox)
      /\ inbox' = Tail(inbox) /\ worker' = [worker EXCEPT ![h] = "received"]
      /\ results' = [results EXCEPT ![call.tasks[h].id] = h]
      /\ UNCHANGED <<call, procs, outcome, heard, signalled, struck>>
  BY DEF Receive, IInv, TypeOK, InboxFits
<1>2. /\ h \in Tasks /\ h \in EntriesOf(inbox) /\ Tail(inbox) \in Seq(Tasks)
      /\ NoRepetition(Tail(inbox))
      /\ \A p \in DOMAIN Tail(inbox) : Tail(inbox)[p] # h /\ Tail(inbox)[p] \in EntriesOf(inbox)
  BY <1>1, TailOfList
<1>3. worker[h] = "sent"
  BY <1>2 DEF IInv, InboxFits, EntriesOf
<1>4. call.tasks[h].id \in Ids /\ Parallel
  BY <1>1, <1>2, CallFacts DEF IInv, TypeOK, MainFits
<1> HIDE DEF h
<1>5. /\ worker' \in [Tasks -> RunPlaces] /\ worker'[h] = "received"
      /\ \A u \in Tasks \ {h} : worker'[u] = worker[u]
  BY <1>1, <1>2 DEF TypeOK, RunPlaces
<1>6. /\ results' \in [Ids -> Tasks \cup {0}] /\ results'[call.tasks[h].id] = h
      /\ \A id \in Ids \ {call.tasks[h].id} : results'[id] = results[id]
  BY <1>1, <1>2, <1>4 DEF TypeOK
<1>7. NoRepetition(inbox')
  BY <1>1, <1>2 DEF NoRepetition
<1> QED
  BY <1>1, <1>2, <1>3, <1>4, <1>5, <1>6, <1>7 DEF h

\* When the last run was received, every id has a result.
LEMMA LastReceived ==
    ASSUME IInv, Receive, Pending = {}, Running = {Head(inbox)},
           ResultsFit', TasksFit'
    PROVE  \A i \in Tasks : /\ results'[call.tasks[i].id] \in Tasks
                            /\ call.tasks[results'[call.tasks[i].id]].id = call.tasks[i].id
<1> DEFINE h == Head(inbox)
<1>1. /\ TypeOK /\ call' = call /\ Tasks' = Tasks /\ worker'[h] = "received" /\ h \in Tasks
      /\ \A u \in Tasks \ {h} : worker'[u] = worker[u]
  BY ReceiveFacts, SameCall
<1>2. \A i \in Tasks : worker'[i] = "received"
  <2>1. \A i \in Tasks : i \notin Pending /\ (i # h => i \notin Running)
    OBVIOUS
  <2>2. \A i \in Tasks \ {h} : worker[i] = "received"
    BY <2>1 DEF Pending, Running
  <2> QED
    BY <1>1, <2>2
<1>3. ASSUME NEW i \in Tasks
      PROVE  /\ results'[call.tasks[i].id] \in Tasks
             /\ call.tasks[results'[call.tasks[i].id]].id = call.tasks[i].id
  <2>1. call.tasks[i].id \in Ids
    BY <1>1, CallFacts DEF TypeOK
  <2>2. results'[call.tasks[i].id] # 0
    BY <1>1, <1>2 DEF TasksFit, TaskFits
  <2>3. results'[call.tasks[i].id] \in Tasks \cup {0}
    BY <2>1, ReceiveFacts
  <2> QED
    BY <1>1, <2>1, <2>2, <2>3 DEF ResultsFit
<1> QED
  BY <1>3

LEMMA ReceiveKeeps == IInv /\ Receive => IInv'
<1> SUFFICES ASSUME IInv, Receive PROVE IInv'
  OBVIOUS
<1> DEFINE last == Pending = {} /\ Running = {Head(inbox)}
<1>0. PICK h \in Tasks : h = Head(inbox)
  BY ReceiveFacts
<1>1. /\ TypeOK /\ pc = "receive" /\ Parallel /\ h \in Tasks /\ worker[h] = "sent"
      /\ call.tasks[h].id \in Ids
      /\ inbox' \in Seq(Tasks) /\ NoRepetition(inbox')
      /\ \A p \in DOMAIN inbox' : inbox'[p] # h /\ inbox'[p] \in EntriesOf(inbox)
      /\ worker' \in [Tasks -> RunPlaces] /\ worker'[h] = "received"
      /\ \A u \in Tasks \ {h} : worker'[u] = worker[u]
      /\ results' \in [Ids -> Tasks \cup {0}]
      /\ results'[call.tasks[h].id] = h
      /\ \A id \in Ids \ {call.tasks[h].id} : results'[id] = results[id]
  BY <1>0, ReceiveFacts
<1>2. /\ call' = call /\ Tasks' = Tasks /\ (Parallel' <=> Parallel) /\ proc' = proc
      /\ helper' = helper /\ outcome' = outcome /\ heard' = heard
      /\ signalled' = signalled /\ struck' = struck
  BY ReceiveFacts, SameCall DEF procs
<1>3. /\ last => report' = Collected(results') /\ pc' = "exited"
                 /\ exit' = (IF AllSucceeded(report') THEN "zero" ELSE "one")
      /\ ~last => pc' = "fill" /\ exit' = exit /\ report' = report
  BY DEF Receive, Exit
<1>4. h # 0 /\ exit = "none" /\ report \in Seq(Tasks)
  <2>1. h \in Nat \ {0}
    <3>1. Tasks = 1 .. Len(call.tasks)
      BY <1>1, CallFacts DEF TypeOK
    <3> QED
      BY <3>1
  <2> QED
    BY <1>1, <2>1 DEF TypeOK
<1> HIDE DEF last
<1>5. \A id \in Ids : results[id] # 0 => results'[id] # 0
  BY <1>1, <1>4
<1>6. TasksFit'
  <2>1. ASSUME NEW u \in Tasks \ {h} PROVE TaskFits(u)'
    BY <1>1, <1>2, <1>5, LeftAlone DEF IInv, TasksFit
  <2>2. TaskFits(h)'
    <3>1. TaskFits(h)
      BY <1>1 DEF IInv, TasksFit
    <3>2. Ready(h)'
      BY <1>1, <1>2, <1>5, <3>1, StaysReady DEF TaskFits
    <3>3. Launchable(h)' <=> Launchable(h)
      BY <1>2, SameCall
    <3>4. outcome[h] # "none" /\ (proc[h] # "none" => Launchable(h))
      BY <1>1, <3>1 DEF TaskFits
    <3>5. (outcome[h] \in Ended => proc[h] = outcome[h]) /\ (h \in struck => signalled /\ outcome[h] = "error")
      BY <3>1 DEF TaskFits
    <3> QED
      BY <1>1, <1>2, <1>4, <3>2, <3>3, <3>4, <3>5 DEF TaskFits
  <2> QED
    BY <1>2, <2>1, <2>2 DEF TasksFit
<1>7. InboxFits'
  <2>1. \A p \in DOMAIN inbox' : inbox'[p] \in Tasks \ {h} /\ worker[inbox'[p]] = "sent"
    <3>1. \A q \in DOMAIN inbox : worker[inbox[q]] = "sent" /\ inbox[q] \in Tasks
      BY <1>1 DEF IInv, InboxFits, TypeOK
    <3>2. \A u \in EntriesOf(inbox) : worker[u] = "sent" /\ u \in Tasks
      BY <3>1 DEF EntriesOf
    <3> QED
      BY <1>1, <3>2
  <2>2. \A p \in DOMAIN inbox' : worker'[inbox'[p]] = "sent"
    BY <1>1, <2>1
  <2>3. NoRepetition(inbox)'
    BY <1>1 DEF NoRepetition
  <2> QED
    BY <1>1, <1>2, <2>2, <2>3 DEF InboxFits
<1>8. ResultsFit'
  <2>1. ASSUME NEW id \in Ids, results'[id] # 0
        PROVE  worker'[results'[id]] = "received" /\ call.tasks[results'[id]].id = id
    <3>1. CASE id = call.tasks[h].id
      BY <1>1, <3>1
    <3>2. CASE id # call.tasks[h].id
      <4>1. results'[id] = results[id] /\ results[id] \in Tasks /\ results[id] # 0
        BY <1>1, <2>1, <3>2 DEF TypeOK
      <4>2. worker[results[id]] = "received" /\ call.tasks[results[id]].id = id
        BY <4>1 DEF IInv, ResultsFit
      <4>3. results[id] # h
        BY <1>1, <4>2
      <4> QED
        BY <1>1, <4>1, <4>2, <4>3
    <3> QED
      BY <3>1, <3>2
  <2> QED
    BY <1>2, <2>1 DEF ResultsFit
<1>9. CASE ~last
  <2>1. TypeOK'
    BY <1>1, <1>2, <1>3, <1>4, <1>9 DEF TypeOK, RunPlaces
  <2>2. MainFits' /\ StopFits' /\ ExitZeroIsEarned'
    BY <1>1, <1>2, <1>3, <1>9 DEF MainFits, StopFits, ExitZeroIsEarned
  <2> QED
    BY <1>6, <1>7, <1>8, <2>1, <2>2 DEF IInv
<1>10. CASE last
  <2>1. \A i \in Tasks : /\ results'[call.tasks[i].id] \in Tasks
                         /\ call.tasks[results'[call.tasks[i].id]].id = call.tasks[i].id
    BY <1>0, <1>2, <1>6, <1>8, <1>10, LastReceived DEF last
  <2>2. /\ report' \in Seq(Tasks)
        /\ \A p \in DOMAIN report' : \E i \in Tasks : report'[p] = results'[call.tasks[i].id]
        /\ { call.tasks[report'[p]].id : p \in DOMAIN report' } = IdsOfTasks
        /\ Len(report') = Cardinality(IdsOfTasks)
        /\ Unique => \A i \in Tasks : report'[i] = i
    <3>1. call \in Calls /\ report' = Collected(results')
      BY <1>1, <1>3, <1>10 DEF TypeOK
    <3> QED
      BY <2>1, <3>1, CollectedFacts
  <2>3. pc' = "exited" /\ exit' \in {"zero", "one"}
    BY <1>3, <1>10
  <2>4. TypeOK'
    BY <1>1, <1>2, <2>2, <2>3 DEF TypeOK, RunPlaces
  <2>5. MainFits'
    BY <2>3 DEF MainFits
  <2>6. StopFits'
    <3>1. \A i \in Tasks : worker'[i] # "pending"
      BY <1>0, <1>1, <1>10 DEF last, Pending
    <3> QED
      BY <1>2, <3>1 DEF StopFits, Pending
  <2>7. ExitZeroIsEarned'
    <3>1. SUFFICES ASSUME exit' = "zero" PROVE ExitZeroIsEarned'
      BY DEF ExitZeroIsEarned
    <3>2. AllSucceeded(report')
      BY <1>3, <1>10, <3>1
    <3>3. \A p \in DOMAIN report' : outcome'[report'[p]] = "success"
      BY <1>2, <3>2 DEF AllSucceeded
    <3>4. \A p \in DOMAIN report' : proc'[report'[p]] = "success"
      BY <1>2, <1>6, <2>2, <3>3 DEF TasksFit, TaskFits, Ended
    <3>5. Unique' <=> Unique
      BY <1>2 DEF Unique
    <3>6. { call.tasks[i].id : i \in Tasks }' = IdsOfTasks
      BY <1>2 DEF IdsOfTasks
    <3>7. { call.tasks[report[p]].id : p \in DOMAIN report }' = IdsOfTasks
      BY <1>2, <2>2
    <3> QED
      BY <1>2, <2>2, <3>4, <3>5, <3>6, <3>7 DEF ExitZeroIsEarned
  <2> QED
    BY <1>6, <1>7, <1>8, <2>4, <2>5, <2>6, <2>7 DEF IInv
<1> QED
  BY <1>9, <1>10

-----------------------------------------------------------------------------
LEMMA StutterKeeps == IInv /\ UNCHANGED vars => IInv'
<1> SUFFICES ASSUME IInv, UNCHANGED vars PROVE IInv'
  OBVIOUS
<1>1. /\ call' = call /\ Tasks' = Tasks /\ (Parallel' <=> Parallel)
      /\ worker' = worker /\ proc' = proc /\ helper' = helper /\ outcome' = outcome
      /\ heard' = heard /\ inbox' = inbox /\ results' = results /\ report' = report
      /\ struck' = struck /\ signalled' = signalled /\ pc' = pc /\ exit' = exit
  BY SameCall DEF vars, mainVars, procs
<1>2. TypeOK' /\ InboxFits' /\ ResultsFit' /\ MainFits'
  BY <1>1 DEF IInv, TypeOK, InboxFits, NoRepetition, ResultsFit, MainFits
<1>3. TasksFit'
  BY <1>1, LeftAlone DEF IInv, TasksFit
<1>4. StopFits'
  BY <1>1 DEF IInv, StopFits, Pending, Running, Ready
<1>5. ExitZeroIsEarned'
  <2>1. { call.tasks[i].id : i \in Tasks }' = { call.tasks[i].id : i \in Tasks }
    BY <1>1
  <2>2. { call.tasks[report[p]].id : p \in DOMAIN report }' =
            { call.tasks[report[p]].id : p \in DOMAIN report }
    BY <1>1
  <2>3. Unique' <=> Unique
    BY <1>1 DEF Unique
  <2> QED
    BY <1>1, <2>1, <2>2, <2>3 DEF IInv, ExitZeroIsEarned
<1> QED
  BY <1>2, <1>3, <1>4, <1>5 DEF IInv

LEMMA NextKeeps == IInv /\ [Next]_vars => IInv'
BY BeginKeeps, ExitSingleKeeps, SpawnKeeps, StopFillingKeeps, ReportCircularKeeps,
   ReceiveKeeps, SignalKeeps, AbortKeeps, RunStepKeeps, OutsideStepKeeps, StutterKeeps
   DEF Next, Main

\* The invariant the others follow from.
THEOREM RunnerInvariant == Spec => []IInv
BY InitEstablishes, NextKeeps, PTL DEF Spec

\* Every reachable state has its type, for every list of tasks.
THEOREM RunnerTypes == Spec => []TypeOK
<1>1. IInv => TypeOK
  BY DEF IInv
<1> QED
  BY <1>1, RunnerInvariant, PTL

\* While the backend of a dependency lives, a dependent's backend starts only
\* if the dependency was given up at its stdin.
THEOREM LivingDependencyIsAbandoned == Spec => []LivingDependencyWasAbandoned
<1>1. ASSUME IInv, NEW i \in Tasks, NEW j \in Tasks, Unique, proc[i] # "none",
             call.tasks[j].id \in call.tasks[i].deps
      PROVE  worker[j] = "received" /\ (proc[j] \in Living => outcome[j] = "error")
  <2>1. call \in Calls /\ TaskFits(i) /\ TaskFits(j) /\ call.tasks[j].id \in Ids
    BY <1>1, CallFacts DEF IInv, TypeOK, TasksFit
  <2>2. results[call.tasks[j].id] # 0
    BY <1>1, <2>1 DEF TaskFits, Ready
  <2>3. results[call.tasks[j].id] \in Tasks
    BY <1>1, <2>1, <2>2 DEF IInv, TypeOK
  <2>4. results[call.tasks[j].id] = j
    BY <1>1, <2>1, <2>2, <2>3 DEF IInv, ResultsFit, Unique
  <2>5. worker[j] = "received"
    BY <1>1, <2>1, <2>2, <2>4 DEF IInv, ResultsFit
  <2>6. ASSUME proc[j] \in Living PROVE outcome[j] = "error"
    <3>1. outcome[j] \in {"none", "error"} \cup Ended
      BY <1>1 DEF IInv, TypeOK
    <3> QED
      BY <2>1, <2>5, <2>6, <3>1 DEF TaskFits, Living, Ended
  <2> QED
    BY <2>5, <2>6
<1>2. IInv => LivingDependencyWasAbandoned
  BY <1>1 DEF LivingDependencyWasAbandoned
<1> QED
  BY <1>2, RunnerInvariant, PTL

\* Exit status 0 means that every id has a result and that every result printed
\* is of a backend that ended with success.
THEOREM ZeroIsEarned == Spec => []ExitZeroIsEarned
<1>1. IInv => ExitZeroIsEarned
  BY DEF IInv
<1> QED
  BY <1>1, RunnerInvariant, PTL

\* A circular dependency is reported only when each pending task waits for an
\* id that only pending tasks have, or none.
THEOREM CircularReportIsTrue == Spec => []CircularIsTrue
<1>1. ASSUME IInv, pc = "exited", Parallel, exit = "one", Pending # {}, call.parses,
             NEW i \in Pending
      PROVE  \E d \in call.tasks[i].deps : \A j \in Tasks : call.tasks[j].id = d => j \in Pending
  <2>1. Running = {} /\ ~Ready(i)
    BY <1>1 DEF IInv, StopFits
  <2>2. PICK d \in call.tasks[i].deps : results[d] = 0
    BY <2>1 DEF Ready
  <2>3. ASSUME NEW j \in Tasks, call.tasks[j].id = d
        PROVE  j \in Pending
    <3>1. worker[j] \in {"pending", "received"}
      BY <2>1 DEF Running
    <3>2. worker[j] # "received"
      BY <1>1, <2>2, <2>3 DEF IInv, TasksFit, TaskFits
    <3> QED
      BY <3>1, <3>2 DEF Pending
  <2> QED
    BY <2>3
<1>2. IInv => CircularIsTrue
  BY <1>1 DEF CircularIsTrue
<1> QED
  BY <1>2, RunnerInvariant, PTL

\* SIGTERM from a guard reaches a living backend only where the task was given
\* up at its stdin.
THEOREM SignalFindsTheAbandoned == Spec => []SignalFindsOnlyTheAbandoned
<1>1. IInv => SignalFindsOnlyTheAbandoned
  BY DEF IInv, TasksFit, TaskFits, TypeOK, SignalFindsOnlyTheAbandoned
<1> QED
  BY <1>1, RunnerInvariant, PTL

-----------------------------------------------------------------------------
(***************************************************************************)
(* The command of a task.                                                  *)
(***************************************************************************)
LEMMA MinOfNaturals ==
    ASSUME NEW S \in SUBSET Nat, S # {}
    PROVE  Min(S) \in S /\ \A y \in S : Min(S) <= y
BY LeastNatural DEF Min

LEMMA FirstOfTwo ==
    ASSUME NEW a, NEW b
    PROVE  FirstGiven(<<a, b>>) = OrElse(a, b)
<1> DEFINE given == { r \in DOMAIN <<a, b>> : <<a, b>>[r] # "none" }
<1>1. DOMAIN <<a, b>> = {1, 2} /\ <<a, b>>[1] = a /\ <<a, b>>[2] = b
  OBVIOUS
<1>2. FirstGiven(<<a, b>>) = IF given = {} THEN "none" ELSE <<a, b>>[Min(given)]
  BY DEF FirstGiven
<1>3. given \subseteq {1, 2} /\ (1 \in given <=> a # "none") /\ (2 \in given <=> b # "none")
  BY <1>1
<1> HIDE DEF given
<1>4. CASE given = {}
  <2>1. a = "none" /\ b = "none"
    BY <1>3, <1>4
  <2> QED
    BY <1>2, <1>4, <2>1 DEF OrElse
<1>5. CASE given # {}
  <2>1. Min(given) \in given /\ \A y \in given : Min(given) <= y
    BY <1>3, <1>5, MinOfNaturals
  <2>2. Min(given) = IF a # "none" THEN 1 ELSE 2
    <3>1. PICK m \in {1, 2} : m = Min(given) /\ m \in given /\ \A y \in given : m <= y
      BY <1>3, <2>1
    <3>2. a # "none" => m = 1
      BY <1>3, <3>1
    <3>3. a = "none" => m = 2
      BY <1>3, <3>1
    <3> QED
      BY <3>1, <3>2, <3>3
  <2>3. FirstGiven(<<a, b>>) = <<a, b>>[Min(given)]
    BY <1>2, <1>5
  <2> QED
    BY <1>1, <2>2, <2>3 DEF OrElse
<1> QED
  BY <1>4, <1>5

LEMMA FirstOfThree ==
    ASSUME NEW a, NEW b, NEW c
    PROVE  FirstGiven(<<a, b, c>>) = OrElse(OrElse(a, b), c)
<1> DEFINE given == { r \in DOMAIN <<a, b, c>> : <<a, b, c>>[r] # "none" }
<1>1. /\ DOMAIN <<a, b, c>> = {1, 2, 3}
      /\ <<a, b, c>>[1] = a /\ <<a, b, c>>[2] = b /\ <<a, b, c>>[3] = c
  OBVIOUS
<1>2. FirstGiven(<<a, b, c>>) = IF given = {} THEN "none" ELSE <<a, b, c>>[Min(given)]
  BY DEF FirstGiven
<1>3. /\ given \subseteq {1, 2, 3} /\ (1 \in given <=> a # "none")
      /\ (2 \in given <=> b # "none") /\ (3 \in given <=> c # "none")
  BY <1>1
<1> HIDE DEF given
<1>4. CASE given = {}
  <2>1. a = "none" /\ b = "none" /\ c = "none"
    BY <1>3, <1>4
  <2> QED
    BY <1>2, <1>4, <2>1 DEF OrElse
<1>5. CASE given # {}
  <2>1. Min(given) \in given /\ \A y \in given : Min(given) <= y
    BY <1>3, <1>5, MinOfNaturals
  <2>2. Min(given) = IF a # "none" THEN 1 ELSE IF b # "none" THEN 2 ELSE 3
    <3>1. PICK m \in {1, 2, 3} : m = Min(given) /\ m \in given /\ \A y \in given : m <= y
      BY <1>3, <2>1
    <3>2. a # "none" => m = 1
      BY <1>3, <3>1
    <3>3. a = "none" /\ b # "none" => m = 2
      BY <1>3, <3>1
    <3>4. a = "none" /\ b = "none" => m = 3
      BY <1>3, <3>1
    <3> QED
      BY <3>1, <3>2, <3>3, <3>4
  <2>3. FirstGiven(<<a, b, c>>) = <<a, b, c>>[Min(given)]
    BY <1>2, <1>5
  <2> QED
    BY <1>1, <2>2, <2>3 DEF OrElse
<1> QED
  BY <1>4, <1>5

Own(i, field) == IF Parallel THEN call.tasks[i][field] ELSE "none"

OwnPromptFile(i) == IF Parallel THEN call.tasks[i].promptFile ELSE call.cli.promptFile

\* The fields of a task's configuration, in a list or not.
LEMMA ConfigFacts ==
    ASSUME call \in Calls, NEW i \in Tasks, NothingBlank(i)
    PROVE  /\ {"backend", "model", "agent", "promptFile", "effort", "skip", "text"}
                 \subseteq DOMAIN Config(i)
           /\ Config(i).backend = OrElse(Own(i, "backend"), call.cli.backend)
           /\ Config(i).model = OrElse(Own(i, "model"), call.cli.model)
           /\ Config(i).agent = OrElse(Own(i, "agent"), call.cli.agent)
           /\ Config(i).effort = OrElse(Own(i, "effort"), call.cli.effort)
           /\ Config(i).promptFile = OwnPromptFile(i)
           /\ Config(i).text = call.tasks[i].text
           /\ "blank" \notin {Config(i).backend, Config(i).model, Config(i).agent}
<1> DEFINE t == call.tasks[i]
           c == call.cli
<1>1. t \in TaskSpec /\ c \in Options
  BY CallsAssumption DEF Tasks
<1>2. /\ t.backend # "blank" /\ t.model # "blank" /\ t.agent # "blank"
      /\ c.backend # "blank" /\ c.model # "blank" /\ c.agent # "blank"
  BY DEF NothingBlank
<1>3. CASE Parallel
  <2>1. Config(i) = TaskConfig(t, c)
    BY <1>3 DEF Config
  <2> HIDE DEF t, c
  <2>2. /\ DOMAIN TaskConfig(t, c) = DOMAIN t
        /\ TaskConfig(t, c).backend = OrElse(t.backend, c.backend)
        /\ TaskConfig(t, c).model = OrElse(t.model, c.model)
        /\ TaskConfig(t, c).agent = OrElse(t.agent, c.agent)
        /\ TaskConfig(t, c).effort = OrElse(t.effort, c.effort)
        /\ TaskConfig(t, c).promptFile = t.promptFile /\ TaskConfig(t, c).text = t.text
    BY <1>1 DEF TaskConfig, TaskSpec
  <2>3. /\ DOMAIN t = DOMAIN Config(i) /\ t.backend = Own(i, "backend") /\ t.model = Own(i, "model")
        /\ t.agent = Own(i, "agent") /\ t.effort = Own(i, "effort")
        /\ t.promptFile = OwnPromptFile(i)
    BY <1>3, <2>1, <2>2 DEF Own, OwnPromptFile, t
  <2>4. "blank" \notin {Config(i).backend, Config(i).model, Config(i).agent}
    BY <1>2, <2>1, <2>2 DEF OrElse, t, c
  <2>5. {"backend", "model", "agent", "promptFile", "effort", "skip", "text"} \subseteq DOMAIN t
    BY <1>1 DEF TaskSpec
  <2> QED
    BY <2>1, <2>2, <2>3, <2>4, <2>5 DEF t, c
<1>4. CASE ~Parallel
  <2>1. Config(i) = CliConfig(c, t)
    BY <1>4 DEF Config
  <2> HIDE DEF t, c
  <2> QED
    BY <1>1, <1>2, <1>4, <2>1 DEF Own, OwnPromptFile, OrElse, CliConfig, Options, t, c
<1> QED
  BY <1>3, <1>4

ChosenAgent(i) == FirstGiven(<<Own(i, "agent"), call.cli.agent>>)

ChosenPreset(i) ==
    IF ChosenAgent(i) = "none" THEN NoPreset ELSE Presets(call.models)[ChosenAgent(i)]

First(i, field) == FirstGiven(<<Own(i, field), call.cli[field], ChosenPreset(i)[field]>>)

\* What a task is launched with: its own fields, the flags, the preset.
LEMMA FinalFacts ==
    ASSUME call \in Calls, NEW i \in Tasks, NothingBlank(i)
    PROVE  /\ Final(i).backend = First(i, "backend") /\ Final(i).model = First(i, "model")
           /\ Final(i).effort = First(i, "effort") /\ Final(i).text = call.tasks[i].text
           /\ Final(i).promptFile = OrElse(OwnPromptFile(i), ChosenPreset(i).promptFile)
<1> DEFINE config == Config(i)
           preset == ChosenPreset(i)
<1>1. /\ First(i, "backend") = OrElse(config.backend, preset["backend"])
      /\ First(i, "model") = OrElse(config.model, preset["model"])
      /\ First(i, "effort") = OrElse(config.effort, preset["effort"])
      /\ config.promptFile = OwnPromptFile(i) /\ config.text = call.tasks[i].text
  BY ConfigFacts, FirstOfThree DEF First
<1>2. ChosenAgent(i) = config.agent /\ AgentOf(config) = config.agent
  BY ConfigFacts, FirstOfTwo DEF ChosenAgent, AgentOf, Normalized
<1>3. CASE config.agent = "none"
  <2>1. Final(i) = config /\ preset = NoPreset
    BY <1>2, <1>3 DEF Final, Resolved, ChosenPreset
  <2>2. /\ OrElse(config.backend, NoPreset["backend"]) = config.backend
        /\ OrElse(config.model, NoPreset["model"]) = config.model
        /\ OrElse(config.effort, NoPreset["effort"]) = config.effort
        /\ OrElse(config.promptFile, NoPreset["promptFile"]) = config.promptFile
    BY DEF OrElse, NoPreset
  <2> QED
    BY <1>1, <2>1, <2>2
<1>4. CASE config.agent # "none"
  <2>1. Final(i) = Applied(config, preset)
    BY <1>2, <1>4 DEF Final, Resolved, ChosenPreset
  <2>2. /\ Normalized(config.backend) = config.backend /\ Normalized(config.model) = config.model
        /\ {"backend", "model", "promptFile", "effort", "text"} \subseteq DOMAIN config
    BY ConfigFacts DEF Normalized
  <2> HIDE DEF config, preset
  <2>3. /\ Applied(config, preset).backend = OrElse(config.backend, preset.backend)
        /\ Applied(config, preset).model = OrElse(config.model, preset.model)
        /\ Applied(config, preset).effort = OrElse(config.effort, preset.effort)
        /\ Applied(config, preset).promptFile = OrElse(config.promptFile, preset.promptFile)
        /\ Applied(config, preset).text = config.text
    BY <2>2 DEF Applied
  <2> QED
    BY <1>1, <2>1, <2>3 DEF preset
<1> QED
  BY <1>3, <1>4

LEMMA BackendFacts ==
    ASSUME call \in Calls, NEW i \in Tasks, Backend(i) \in call.installed
    PROVE  \/ Backend(i) = Final(i).backend
           \/ /\ Final(i).backend = "none"
              /\ \A r \in DOMAIN Preference : Preference[r] \in call.installed
                    => \E q \in 1 .. r : Preference[q] = Backend(i)
<1>1. call.installed \subseteq Backends /\ "none" \notin Backends
  BY CallsAssumption DEF Backends
<1>2. CASE Final(i).backend # "none"
  BY <1>1, <1>2 DEF Backend, Selected
<1>3. CASE Final(i).backend = "none"
  <2> DEFINE found == { r \in DOMAIN Preference : Preference[r] \in call.installed }
  <2>1. Backend(i) = IF found = {} THEN "none" ELSE Preference[Min(found)]
    BY <1>3 DEF Backend, Selected
  <2>2. found # {} /\ DOMAIN Preference = 1 .. 4
    BY <1>1, <2>1 DEF Preference
  <2>3. Min(found) \in found /\ \A r \in found : Min(found) <= r
    BY <2>2, MinOfNaturals
  <2>4. ASSUME NEW r \in DOMAIN Preference, Preference[r] \in call.installed
        PROVE  \E q \in 1 .. r : Preference[q] = Backend(i)
    <3>1. r \in found
      BY <2>4
    <3>2. PICK q \in found : q = Min(found)
      BY <2>3
    <3>3. q \in 1 .. r
      BY <2>2, <2>3, <3>1, <3>2
    <3> QED
      BY <2>1, <2>2, <3>2, <3>3
  <2> QED
    BY <1>3, <2>4
<1> QED
  BY <1>2, <1>3

\* A task's fields come before the flags, the flags before the preset, and a
\* backend is looked for last.
THEOREM CommandIsByPrecedence == Spec => []CommandFollowsPrecedence
<1>1. ASSUME IInv, NEW i \in Tasks, proc[i] # "none", NothingBlank(i)
      PROVE  /\ Command(i).model = First(i, "model")
             /\ Command(i).prompt = FirstGiven(<<OwnPromptFile(i), ChosenPreset(i).promptFile,
                                                 call.tasks[i].text>>)
             /\ Command(i).backend = First(i, "backend")
                   \/ /\ First(i, "backend") = "none"
                      /\ \A r \in DOMAIN Preference : Preference[r] \in call.installed
                            => \E q \in 1 .. r : Preference[q] = Command(i).backend
             /\ Command(i).backend = "codex" => Command(i).effort = First(i, "effort")
  <2>1. call \in Calls /\ Launchable(i)
    BY <1>1 DEF IInv, TypeOK, TasksFit, TaskFits
  <2>2. /\ Command(i).backend = Backend(i) /\ Command(i).model = Final(i).model
        /\ Backend(i) = "codex" => Command(i).effort = Final(i).effort
        /\ Command(i).prompt = OrElse(Final(i).promptFile, Final(i).text)
    BY DEF Command, CommandOf, OrElse
  <2>3. Backend(i) \in call.installed
    BY <2>1 DEF Launchable
  <2>4. /\ Final(i).backend = First(i, "backend") /\ Final(i).model = First(i, "model")
        /\ Final(i).effort = First(i, "effort") /\ Final(i).text = call.tasks[i].text
        /\ Final(i).promptFile = OrElse(OwnPromptFile(i), ChosenPreset(i).promptFile)
    BY <1>1, <2>1, FinalFacts
  <2>5. Command(i).prompt = FirstGiven(<<OwnPromptFile(i), ChosenPreset(i).promptFile,
                                         call.tasks[i].text>>)
    BY <2>2, <2>4, FirstOfThree
  <2> QED
    BY <2>1, <2>2, <2>3, <2>4, <2>5, BackendFacts
<1>2. IInv => CommandFollowsPrecedence
  BY <1>1 DEF CommandFollowsPrecedence, Own, OwnPromptFile, ChosenAgent, ChosenPreset, First
<1> QED
  BY <1>2, RunnerInvariant, PTL
-----------------------------------------------------------------------------
(***************************************************************************)
(* The program cannot go on for ever.  What is left: places ahead of each  *)
(* run and of each backend, helpers, lines to hear, main's own steps, two  *)
(* rounds of its loops for each result to come, and the one signal.        *)
(***************************************************************************)
RunRank == [ pending |-> 8, launch |-> 7, stdin |-> 6, parse |-> 5, wait |-> 4, stderr |-> 3,
             sent |-> 2, panicked |-> 1, received |-> 0 ]

ProcRank == [none |-> 3, running |-> 2, mute |-> 1, success |-> 0, failure |-> 0, killed |-> 0]

Unreceived == { i \in Tasks : worker[i] # "received" }

RoundsLeft == 2 * Cardinality(Unreceived) + (IF pc \in {"start", "fill"} THEN 1 ELSE 0)

Work ==
    [ runs    |-> { r \in Tasks \X (1 .. 8) : r[2] <= RunRank[worker[r[1]]] },
      procs   |-> { r \in Tasks \X (1 .. 3) : r[2] <= ProcRank[proc[r[1]]] },
      helpers |-> { i \in Tasks : proc[i] = "none" \/ helper[i] },
      lines   |-> { r \in Tasks \X (1 .. call.lines) : heard[r[1]].events < r[2] },
      rounds  |-> 1 .. RoundsLeft,
      main    |-> { k \in {"begin", "exit"} : pc # "exited" /\ (k = "begin" => pc = "start") },
      signals |-> {signalled} \ {TRUE} ]

LEMMA RanksAreNumbers ==
    ASSUME TypeOK, NEW i \in Tasks
    PROVE  RunRank[worker[i]] \in 0 .. 8 /\ ProcRank[proc[i]] \in 0 .. 3
<1>1. worker[i] \in DOMAIN RunRank /\ \A w \in DOMAIN RunRank : RunRank[w] \in 0 .. 8
  BY DEF TypeOK, RunRank
<1>2. proc[i] \in DOMAIN ProcRank /\ \A b \in DOMAIN ProcRank : ProcRank[b] \in 0 .. 3
  BY DEF TypeOK, ProcRank, Living, Ended
<1> QED
  BY <1>1, <1>2

LEMMA WorkIsFinite ==
    ASSUME TypeOK
    PROVE  /\ AllFinite(Work)
           /\ IsFiniteSet(Unreceived) /\ Cardinality(Unreceived) \in Nat /\ RoundsLeft \in Nat
<1>1. IsFiniteSet(Tasks) /\ call.lines \in Nat
  BY CallFacts, IntervalsAreFinite DEF TypeOK
<1>2. IsFiniteSet(Unreceived) /\ Cardinality(Unreceived) \in Nat
  <2>1. Unreceived \in SUBSET Tasks
    BY DEF Unreceived
  <2> QED
    BY <1>1, <2>1, FS_Subset, FS_CardinalityType
<1>3. RoundsLeft \in Nat
  BY <1>2 DEF RoundsLeft
<1>4. \A n \in Nat : IsFiniteSet(Tasks \X (1 .. n))
  BY <1>1, IntervalsAreFinite, FS_Product
<1>5. IsFiniteSet(Work.runs)
  <2>1. Work.runs \in SUBSET (Tasks \X (1 .. 8)) /\ IsFiniteSet(Tasks \X (1 .. 8))
    BY <1>4 DEF Work
  <2> QED
    BY <2>1, FS_Subset
<1>6. IsFiniteSet(Work.procs)
  <2>1. Work.procs \in SUBSET (Tasks \X (1 .. 3)) /\ IsFiniteSet(Tasks \X (1 .. 3))
    BY <1>4 DEF Work
  <2> QED
    BY <2>1, FS_Subset
<1>7. IsFiniteSet(Work.helpers)
  <2>1. Work.helpers \in SUBSET Tasks
    BY DEF Work
  <2> QED
    BY <1>1, <2>1, FS_Subset
<1>8. IsFiniteSet(Work.lines)
  <2>1. Work.lines \in SUBSET (Tasks \X (1 .. call.lines))
        /\ IsFiniteSet(Tasks \X (1 .. call.lines))
    BY <1>1, <1>4 DEF Work
  <2> QED
    BY <2>1, FS_Subset
<1>9. IsFiniteSet(Work.rounds)
  BY <1>3, IntervalsAreFinite DEF Work
<1>10. IsFiniteSet(Work.main)
  <2>1. IsFiniteSet({"begin"} \cup {"exit"})
    BY FS_Singleton, FS_AddElement
  <2>2. Work.main \in SUBSET ({"begin"} \cup {"exit"})
    BY DEF Work
  <2> QED
    BY <2>1, <2>2, FS_Subset
<1>11. IsFiniteSet(Work.signals)
  <2>1. Work.signals \in SUBSET {signalled} /\ IsFiniteSet({signalled})
    BY FS_Singleton DEF Work
  <2> QED
    BY <2>1, FS_Subset
<1>12. DOMAIN Work = {"runs", "procs", "helpers", "lines", "rounds", "main", "signals"}
  BY DEF Work
<1>13. IsFiniteSet({"runs", "procs", "helpers", "lines", "rounds", "main", "signals"})
  BY NamesAreFinite, Zenon
<1>14. \A f \in DOMAIN Work : IsFiniteSet(Work[f])
  BY <1>5, <1>6, <1>7, <1>8, <1>9, <1>10, <1>11, <1>12
<1> QED
  BY <1>2, <1>3, <1>12, <1>13, <1>14 DEF AllFinite

-----------------------------------------------------------------------------
(***************************************************************************)
(* What main waits for: a helper is that of a backend; a scheduler that    *)
(* waits has a worker, and each result sent and not received is in the     *)
(* channel; a single run does not panic.                                   *)
(***************************************************************************)
ProgramFits ==
    /\ \A i \in Tasks : helper[i] => proc[i] # "none"
    /\ pc \in {"fill", "receive"} => call.workers > 0
    /\ pc = "receive" => Running # {}
    /\ pc = "single" => 1 \in Tasks /\ worker[1] \notin {"pending", "received", "panicked"}
    /\ Parallel => \A i \in Tasks : worker[i] = "sent" => i \in EntriesOf(inbox)

ProgramIInv == IInv /\ ProgramFits

\* What is not at the head of a list is in its tail.
LEMMA TailKeepsTheRest ==
    ASSUME NEW T, NEW s \in Seq(T), s # <<>>
    PROVE  EntriesOf(s) \subseteq EntriesOf(Tail(s)) \cup {Head(s)}
<1>1. /\ Tail(s) \in Seq(T) /\ Len(Tail(s)) = Len(s) - 1
      /\ \A p \in 1 .. Len(Tail(s)) : Tail(s)[p] = s[p + 1]
  BY HeadTailProperties
<1>2. /\ Len(s) \in Nat /\ DOMAIN s = 1 .. Len(s) /\ DOMAIN Tail(s) = 1 .. Len(s) - 1
      /\ Head(s) = s[1]
  BY <1>1, LenProperties
<1>3. ASSUME NEW p \in DOMAIN s, s[p] # Head(s)
      PROVE  s[p] \in EntriesOf(Tail(s))
  <2>1. p - 1 \in DOMAIN Tail(s) /\ (p - 1) + 1 = p
    BY <1>2, <1>3
  <2>2. Tail(s)[p - 1] = s[p]
    BY <1>1, <1>2, <2>1
  <2> QED
    BY <2>1, <2>2 DEF EntriesOf
<1> QED
  BY <1>3 DEF EntriesOf

\* A step that leaves main, its call and the channel alone.
LEMMA AsideKeepsFits ==
    ASSUME ProgramIInv, call' = call, pc' = pc \/ pc' = "exited", worker' = worker, inbox' = inbox,
           \A i \in Tasks : helper'[i] => helper[i],
           \A i \in Tasks : proc[i] # "none" => proc'[i] # "none"
    PROVE  ProgramFits'
<1>1. Tasks' = Tasks /\ (Parallel' <=> Parallel) /\ Running' = Running
  BY SameCall DEF Running
<1> QED
  BY <1>1 DEF ProgramIInv, ProgramFits, EntriesOf

\* A run moves on, its result in the channel at its end.
LEMMA RunKeepsFits ==
    ASSUME ProgramIInv, NEW i \in Tasks, NEW from, NEW to \in RunPlaces, Step(i, from, to),
           from \notin {"pending", "sent", "received"}, to \notin {"pending", "received"},
           UNCHANGED <<call, mainVars>>,
           to = "panicked" => Parallel,
           to # "sent" => inbox' = inbox,
           to = "sent" => inbox' = IF Parallel THEN Append(inbox, i) ELSE inbox,
           \A u \in Tasks : helper'[u] => helper[u] \/ proc'[u] # "none",
           \A u \in Tasks : proc[u] # "none" => proc'[u] # "none"
    PROVE  ProgramFits'
<1>1. /\ TypeOK /\ ProgramFits /\ Tasks' = Tasks /\ (Parallel' <=> Parallel) /\ pc' = pc /\ call' = call
  BY SameCall DEF ProgramIInv, IInv, mainVars
<1>2. /\ worker[i] = from /\ worker'[i] = to
      /\ \A u \in Tasks \ {i} : worker'[u] = worker[u]
  BY <1>1, StepFacts
<1>3. Running' = Running
  BY <1>1, <1>2 DEF Running
<1>4. /\ EntriesOf(inbox) \subseteq EntriesOf(inbox')
      /\ Parallel /\ to = "sent" => i \in EntriesOf(inbox')
  <2>1. EntriesOf(Append(inbox, i)) = EntriesOf(inbox) \cup {i}
    BY <1>1, EntriesOfAppend DEF TypeOK
  <2>2. inbox' = inbox \/ inbox' = Append(inbox, i)
    OBVIOUS
  <2>3. Parallel /\ to = "sent" => inbox' = Append(inbox, i)
    OBVIOUS
  <2>4. inbox' = inbox => EntriesOf(inbox') = EntriesOf(inbox)
    BY DEF EntriesOf
  <2> QED
    BY <2>1, <2>2, <2>3, <2>4
<1>5. Parallel => \A u \in Tasks : worker'[u] = "sent" => u \in EntriesOf(inbox')
  <2>1. ASSUME Parallel, to = "sent" PROVE i \in EntriesOf(inbox')
    BY <1>4, <2>1
  <2>2. ASSUME Parallel, NEW u \in Tasks \ {i}, worker'[u] = "sent" PROVE u \in EntriesOf(inbox')
    BY <1>1, <1>2, <1>4, <2>2 DEF ProgramFits
  <2> QED
    BY <1>2, <2>1, <2>2
<1>6. \A u \in Tasks : helper'[u] => proc'[u] # "none"
  BY <1>1 DEF ProgramFits
<1>7. pc = "single" => ~Parallel
  BY DEF ProgramIInv, IInv, MainFits
<1>8. pc' = "single" => 1 \in Tasks /\ worker'[1] \notin {"pending", "received", "panicked"}
  BY <1>1, <1>2, <1>7 DEF ProgramFits
<1> QED
  BY <1>1, <1>3, <1>5, <1>6, <1>8 DEF ProgramFits, EntriesOf

LEMMA RunStepKeepsFits ==
    ASSUME ProgramIInv, NEW i \in Tasks, Run(i)
    PROVE  ProgramFits'
<1>1. TypeOK
  BY DEF ProgramIInv, IInv
<1>2. CASE FailToLaunch(i)
  BY <1>2, RunKeepsFits DEF FailToLaunch, Finish, procs, RunPlaces
<1>3. CASE Panic(i)
  BY <1>3, RunKeepsFits DEF Panic, NoPlaceToRun, procs, RunPlaces
<1>4. CASE Launch(i)
  <2>1. PICK to \in {"stdin", "parse"} : Step(i, "launch", to)
    BY <1>4 DEF Launch
  <2>2. /\ UNCHANGED <<call, mainVars>> /\ inbox' = inbox
        /\ proc' = [proc EXCEPT ![i] = "running"] /\ helper' = [helper EXCEPT ![i] = call.forks]
    BY <1>4 DEF Launch
  <2>3. /\ \A u \in Tasks : helper'[u] => helper[u] \/ proc'[u] # "none"
        /\ \A u \in Tasks : proc[u] # "none" => proc'[u] # "none"
    BY <1>1, <2>2 DEF TypeOK
  <2> QED
    BY <2>1, <2>2, <2>3, RunKeepsFits DEF RunPlaces
<1>5. CASE WriteStdin(i) \/ EndOfOutput(i) \/ Wait(i)
  BY <1>5, RunKeepsFits DEF WriteStdin, EndOfOutput, Wait, procs, RunPlaces
<1>6. CASE FailStdin(i)
  BY <1>6, RunKeepsFits DEF FailStdin, Finish, procs, RunPlaces
<1>7. CASE JoinStderr(i)
  BY <1>7, RunKeepsFits DEF JoinStderr, Finish, procs, RunPlaces
<1>8. CASE Hear(i)
  BY <1>8, AsideKeepsFits DEF Hear, mainVars, procs
<1>9. CASE Timeout(i)
  <2>1. /\ Step(i, "parse", "wait") /\ UNCHANGED <<call, mainVars>> /\ inbox' = inbox
        /\ proc' = [proc EXCEPT ![i] = IF @ \in Living THEN "killed" ELSE @] /\ helper' = helper
    BY <1>9 DEF Timeout
  <2>2. \A u \in Tasks : proc[u] # "none" => proc'[u] # "none"
    BY <1>1, <2>1 DEF TypeOK
  <2> QED
    BY <2>1, <2>2, RunKeepsFits DEF RunPlaces
<1> QED
  BY <1>2, <1>3, <1>4, <1>5, <1>6, <1>7, <1>8, <1>9 DEF Run

LEMMA OutsideKeepsFits ==
    ASSUME ProgramIInv, NEW i \in Tasks, Outside(i)
    PROVE  ProgramFits'
<1>1. TypeOK /\ call' = call /\ pc' = pc /\ worker' = worker /\ inbox' = inbox
  BY DEF ProgramIInv, IInv, Outside, CloseStdout, BackendEnd, HelperEnd, mainVars
<1>2. \A u \in Tasks : helper'[u] => helper[u]
  BY <1>1 DEF Outside, CloseStdout, BackendEnd, HelperEnd, TypeOK
<1>3. \A u \in Tasks : proc[u] # "none" => proc'[u] # "none"
  <2>1. CASE BackendEnd(i)
    <3>1. PICK status \in {"success", "failure"} : proc' = [proc EXCEPT ![i] = status]
      BY <2>1 DEF BackendEnd
    <3> QED
      BY <1>1, <3>1 DEF TypeOK
  <2>2. CASE CloseStdout(i) \/ HelperEnd(i)
    BY <1>1, <2>2 DEF CloseStdout, HelperEnd, TypeOK
  <2> QED
    BY <2>1, <2>2 DEF Outside
<1> QED
  BY <1>1, <1>2, <1>3, AsideKeepsFits

LEMMA MainKeepsFits ==
    ASSUME ProgramIInv, Main
    PROVE  ProgramFits'
<1>1. /\ IInv /\ TypeOK /\ ProgramFits /\ call' = call /\ Tasks' = Tasks /\ (Parallel' <=> Parallel)
      /\ proc' = proc /\ helper' = helper
  BY SameCall DEF ProgramIInv, IInv, Main, Begin, ExitSingle, Spawn, StopFilling, ReportCircular,
     Receive, procs
<1>2. ASSUME pc' = "exited", worker' = worker, inbox' = inbox
      PROVE  ProgramFits'
  BY <1>1, <1>2, AsideKeepsFits
<1>3. CASE Begin
  <2>1. /\ inbox' = inbox /\ pc = "start" /\ \A u \in Tasks : worker[u] = "pending"
    BY <1>1, <1>3 DEF Begin, IInv, MainFits
  <2>2. CASE pc' = "exited"
    BY <1>2, <1>3, <2>1, <2>2 DEF Begin, Exit
  <2>3. CASE pc' = "fill"
    <3>1. call.workers > 0 /\ worker' = worker
      BY <1>3, <2>3 DEF Begin, Exit
    <3> QED
      BY <1>1, <2>1, <2>3, <3>1 DEF ProgramFits, EntriesOf
  <2>4. CASE pc' = "single"
    <3>1. ~Parallel /\ Tasks # {} /\ worker' = [worker EXCEPT ![1] = "launch"]
      BY <1>3, <2>4 DEF Begin, Exit
    <3>2. 1 \in Tasks
      <4>1. Tasks = 1 .. Len(call.tasks) /\ Len(call.tasks) \in Nat
        BY <1>1, CallFacts DEF TypeOK
      <4> QED
        BY <3>1, <4>1
    <3>3. worker'[1] = "launch"
      BY <1>1, <3>1, <3>2 DEF TypeOK
    <3> QED
      BY <1>1, <2>4, <3>1, <3>2, <3>3 DEF ProgramFits
  <2> QED
    BY <1>3, <2>2, <2>3, <2>4 DEF Begin, Exit
<1>4. CASE ExitSingle
  BY <1>2, <1>4 DEF ExitSingle, Exit
<1>5. CASE Spawn
  <2>1. PICK i \in Pending : worker' = [worker EXCEPT ![i] = "launch"]
    BY <1>5 DEF Spawn
  <2>2. /\ pc = "fill" /\ pc' = pc /\ inbox' = inbox
        /\ \A u \in Tasks : worker'[u] = "sent" => worker[u] = "sent"
    BY <1>1, <1>5, <2>1 DEF Spawn, mainVars, TypeOK
  <2> QED
    BY <1>1, <2>2 DEF ProgramFits, EntriesOf
<1>6. CASE StopFilling
  <2>1. Running # {} /\ pc = "fill" /\ pc' = "receive" /\ worker' = worker /\ inbox' = inbox
    BY <1>6 DEF StopFilling
  <2>2. Running' = Running
    BY <1>1, <2>1 DEF Running
  <2> QED
    BY <1>1, <2>1, <2>2 DEF ProgramFits, EntriesOf
<1>7. CASE ReportCircular
  BY <1>2, <1>7 DEF ReportCircular, Exit
<1>8. CASE Receive
  <2>1. /\ pc = "receive" /\ inbox # <<>> /\ inbox \in Seq(Tasks) /\ inbox' = Tail(inbox)
        /\ pc' \in {"fill", "exited"}
    BY <1>1, <1>8 DEF Receive, Exit, TypeOK
  <2>2. /\ worker'[Head(inbox)] = "received"
        /\ \A u \in Tasks \ {Head(inbox)} : worker'[u] = worker[u]
    BY <1>1, <1>8, ReceiveFacts
  <2>3. Parallel => \A u \in Tasks : worker'[u] = "sent" => u \in EntriesOf(inbox')
    <3>1. ASSUME Parallel, NEW u \in Tasks, worker'[u] = "sent"
          PROVE  u \in EntriesOf(inbox')
      <4>1. u # Head(inbox) /\ worker[u] = "sent"
        BY <2>2, <3>1
      <4>2. u \in EntriesOf(inbox)
        BY <1>1, <3>1, <4>1 DEF ProgramFits
      <4> QED
        BY <2>1, <4>1, <4>2, TailKeepsTheRest
    <3> QED
      BY <3>1
  <2> QED
    BY <1>1, <2>1, <2>3 DEF ProgramFits, EntriesOf
<1> QED
  BY <1>3, <1>4, <1>5, <1>6, <1>7, <1>8 DEF Main

LEMMA SignalKeepsFits ==
    ASSUME ProgramIInv, Signal
    PROVE  ProgramFits'
BY AsideKeepsFits DEF Signal, procs, Exit

LEMMA AbortKeepsFits ==
    ASSUME ProgramIInv, NEW i \in Tasks, PanicAborts(i)
    PROVE  ProgramFits'
BY AsideKeepsFits DEF PanicAborts, procs, Exit

LEMMA ProgramKept == ProgramIInv /\ [Next]_vars => ProgramIInv'
<1> SUFFICES ASSUME ProgramIInv, [Next]_vars PROVE ProgramIInv'
  OBVIOUS
<1>1. IInv'
  BY NextKeeps DEF ProgramIInv
<1>2. CASE UNCHANGED vars
  <2>1. ProgramFits'
    BY <1>2, AsideKeepsFits DEF vars, mainVars, procs
  <2> QED
    BY <1>1, <2>1 DEF ProgramIInv
<1>3. CASE Next
  <2>1. ProgramFits'
    BY <1>3, MainKeepsFits, SignalKeepsFits, AbortKeepsFits, RunStepKeepsFits, OutsideKeepsFits DEF Next
  <2> QED
    BY <1>1, <2>1 DEF ProgramIInv
<1> QED
  BY <1>2, <1>3

LEMMA ProgramInit == Init => ProgramIInv
BY InitEstablishes DEF Init, ProgramIInv, ProgramFits

\* A scheduler that waits has a worker out, and no result that was sent is lost
\* on its way.
THEOREM ProgramInvariant == Spec => []ProgramIInv
BY ProgramInit, ProgramKept, PTL DEF Spec

-----------------------------------------------------------------------------
\* No run and no backend goes back, nothing heard is forgotten, and main
\* returns to filling only for a result received.
NothingGrows ==
    /\ \A i \in Tasks :
          /\ RunRank[worker'[i]] <= RunRank[worker[i]]
          /\ ProcRank[proc'[i]] <= ProcRank[proc[i]]
          /\ proc'[i] = "none" \/ helper'[i] => proc[i] = "none" \/ helper[i]
          /\ heard[i].events <= heard'[i].events
    /\ signalled => signalled'
    /\ pc = "exited" => pc' = "exited"
    /\ pc' = "start" => pc = "start"
    /\ pc' = "fill" => \/ pc \in {"start", "fill"}
                       \/ \E i \in Tasks : worker[i] # "received" /\ worker'[i] = "received"

SomethingShrinks ==
    \/ \E i \in Tasks : \/ RunRank[worker'[i]] < RunRank[worker[i]]
                        \/ ProcRank[proc'[i]] < ProcRank[proc[i]]
                        \/ helper[i] /\ ~helper'[i] /\ proc[i] # "none" /\ proc'[i] # "none"
                        \/ heard[i].events < heard'[i].events
    \/ ~signalled /\ signalled'
    \/ pc = "start" /\ pc' # "start"
    \/ pc # "exited" /\ pc' = "exited"
    \/ pc = "fill" /\ pc' = "receive"

\* What Work' is, with the call unchanged.
LEMMA WorkAfter ==
    ASSUME call' = call
    PROVE  /\ Work'.runs = { r \in Tasks \X (1 .. 8) : r[2] <= RunRank[worker'[r[1]]] }
           /\ Work'.procs = { r \in Tasks \X (1 .. 3) : r[2] <= ProcRank[proc'[r[1]]] }
           /\ Work'.helpers = { i \in Tasks : proc'[i] = "none" \/ helper'[i] }
           /\ Work'.lines = { r \in Tasks \X (1 .. call.lines) : heard'[r[1]].events < r[2] }
           /\ Work'.rounds = 1 .. RoundsLeft'
           /\ Work'.main = { k \in {"begin", "exit"} :
                                pc' # "exited" /\ (k = "begin" => pc' = "start") }
           /\ Work'.signals = {signalled'} \ {TRUE}
           /\ Unreceived' = { i \in Tasks : worker'[i] # "received" }
BY DEF Work, Tasks, RunRank, ProcRank, Unreceived

LEMMA RoundsGetFewer ==
    ASSUME TypeOK, TypeOK', call' = call, NothingGrows
    PROVE  /\ RoundsLeft \in Nat /\ RoundsLeft' \in Nat /\ RoundsLeft' <= RoundsLeft
           /\ pc = "fill" /\ pc' = "receive" => RoundsLeft' < RoundsLeft
<1>1. IsFiniteSet(Unreceived) /\ Cardinality(Unreceived) \in Nat /\ RoundsLeft \in Nat
  BY WorkIsFinite
<1>2. Unreceived' \in SUBSET Unreceived
  <2>1. ASSUME NEW i \in Tasks, worker[i] = "received" PROVE worker'[i] = "received"
    <3>1. RunRank[worker'[i]] <= 0
      BY <2>1 DEF NothingGrows, RunRank
    <3>2. i \in Tasks' /\ Tasks' = Tasks
      BY SameCall
    <3>3. worker'[i] \in DOMAIN RunRank
      BY <3>2 DEF TypeOK, RunRank
    <3> QED
      BY <3>1, <3>3 DEF RunRank
  <2> QED
    BY <2>1, WorkAfter DEF Unreceived
<1>3. /\ Cardinality(Unreceived') <= Cardinality(Unreceived)
      /\ IsFiniteSet(Unreceived')
      /\ Cardinality(Unreceived') = Cardinality(Unreceived) => Unreceived' = Unreceived
  BY <1>1, <1>2, FS_Subset
<1>4. Cardinality(Unreceived') \in Nat
  BY <1>3, FS_CardinalityType
<1>5. pc' \in {"start", "fill"} /\ pc \notin {"start", "fill"} => Unreceived' # Unreceived
  <2>1. ASSUME NEW i \in Tasks, worker[i] # "received", worker'[i] = "received"
        PROVE  i \in Unreceived /\ i \notin Unreceived'
    BY <2>1, WorkAfter DEF Unreceived
  <2> QED
    BY <2>1 DEF NothingGrows
<1>6. RoundsLeft' = 2 * Cardinality(Unreceived') + (IF pc' \in {"start", "fill"} THEN 1 ELSE 0)
  BY DEF RoundsLeft
<1>7. RoundsLeft = 2 * Cardinality(Unreceived) + (IF pc \in {"start", "fill"} THEN 1 ELSE 0)
  BY DEF RoundsLeft
<1>8. RoundsLeft' \in Nat
  BY <1>4, <1>6
<1>9. RoundsLeft' <= RoundsLeft
  <2>1. CASE Unreceived' = Unreceived
    BY <1>1, <1>5, <1>6, <1>7, <2>1
  <2>2. CASE Unreceived' # Unreceived
    <3>1. Cardinality(Unreceived') + 1 <= Cardinality(Unreceived)
      BY <1>1, <1>3, <1>4, <2>2
    <3> QED
      BY <1>1, <1>4, <1>6, <1>7, <3>1
  <2> QED
    BY <2>1, <2>2
<1>10. pc = "fill" /\ pc' = "receive" => RoundsLeft' < RoundsLeft
  BY <1>1, <1>3, <1>4, <1>6, <1>7
<1> QED
  BY <1>1, <1>8, <1>9, <1>10

LEMMA RanksAfter ==
    ASSUME TypeOK, TypeOK', call' = call, NEW i \in Tasks
    PROVE  /\ RunRank[worker[i]] \in 0 .. 8 /\ ProcRank[proc[i]] \in 0 .. 3
           /\ RunRank[worker'[i]] \in 0 .. 8 /\ ProcRank[proc'[i]] \in 0 .. 3
           /\ heard[i].events \in 0 .. call.lines /\ heard'[i].events \in 0 .. call.lines
           /\ call.lines \in Nat
<1>1. i \in Tasks' /\ call.lines \in Nat
  BY SameCall, CallFacts DEF TypeOK
<1>2. worker'[i] \in DOMAIN RunRank /\ \A w \in DOMAIN RunRank : RunRank[w] \in 0 .. 8
  BY <1>1 DEF TypeOK, RunRank
<1>3. proc'[i] \in DOMAIN ProcRank /\ \A b \in DOMAIN ProcRank : ProcRank[b] \in 0 .. 3
  BY <1>1 DEF TypeOK, ProcRank, Living, Ended
<1>4. heard[i].events \in 0 .. call.lines /\ heard'[i].events \in 0 .. call.lines
  BY <1>1 DEF TypeOK
<1> QED
  BY <1>1, <1>2, <1>3, <1>4, RanksAreNumbers

LEMMA NothingIsAdded ==
    ASSUME TypeOK, TypeOK', call' = call, NothingGrows
    PROVE  \A f \in DOMAIN Work : Work'[f] \subseteq Work[f]
<1>1. \A i \in Tasks : /\ RunRank[worker[i]] \in 0 .. 8 /\ ProcRank[proc[i]] \in 0 .. 3
                       /\ RunRank[worker'[i]] \in 0 .. 8 /\ ProcRank[proc'[i]] \in 0 .. 3
                       /\ heard[i].events \in Nat /\ heard'[i].events \in Nat
  BY RanksAfter
<1>2. Work'.runs \subseteq Work.runs
  <2>1. \A r \in Work'.runs : r \in Work.runs
    BY <1>1, WorkAfter DEF Work, NothingGrows
  <2> QED
    BY <2>1
<1>3. Work'.procs \subseteq Work.procs
  <2>1. \A r \in Work'.procs : r \in Work.procs
    BY <1>1, WorkAfter DEF Work, NothingGrows
  <2> QED
    BY <2>1
<1>4. Work'.helpers \subseteq Work.helpers
  BY WorkAfter DEF Work, NothingGrows
<1>5. Work'.lines \subseteq Work.lines
  <2>1. \A r \in Work'.lines : r \in Work.lines
    <3>1. call.lines \in Nat
      BY CallFacts DEF TypeOK
    <3> QED
      BY <1>1, <3>1, WorkAfter DEF Work, NothingGrows
  <2> QED
    BY <2>1
<1>6. Work'.rounds \subseteq Work.rounds
  BY RoundsGetFewer, WorkAfter DEF Work
<1>7. Work'.main \subseteq Work.main
  BY WorkAfter DEF Work, NothingGrows
<1>8. Work'.signals \subseteq Work.signals
  BY WorkAfter DEF Work, NothingGrows, TypeOK
<1>9. DOMAIN Work = {"runs", "procs", "helpers", "lines", "rounds", "main", "signals"}
  BY DEF Work
<1> QED
  BY <1>2, <1>3, <1>4, <1>5, <1>6, <1>7, <1>8, <1>9

LEMMA SomethingIsGone ==
    ASSUME TypeOK, TypeOK', call' = call, NothingGrows, SomethingShrinks
    PROVE  \E f \in DOMAIN Work : Work'[f] # Work[f]
<1>1. DOMAIN Work = {"runs", "procs", "helpers", "lines", "rounds", "main", "signals"}
  BY DEF Work
<1>2. ASSUME NEW i \in Tasks, RunRank[worker'[i]] < RunRank[worker[i]]
      PROVE  Work'.runs # Work.runs
  <2>1. RunRank[worker[i]] \in 1 .. 8 /\ ~(RunRank[worker[i]] <= RunRank[worker'[i]])
    BY <1>2, RanksAfter
  <2>2. <<i, RunRank[worker[i]]>> \in Work.runs
    BY <2>1 DEF Work
  <2>3. <<i, RunRank[worker[i]]>> \notin Work'.runs
    BY <2>1, WorkAfter
  <2> QED
    BY <2>2, <2>3
<1>3. ASSUME NEW i \in Tasks, ProcRank[proc'[i]] < ProcRank[proc[i]]
      PROVE  Work'.procs # Work.procs
  <2>1. ProcRank[proc[i]] \in 1 .. 3 /\ ~(ProcRank[proc[i]] <= ProcRank[proc'[i]])
    BY <1>3, RanksAfter
  <2>2. <<i, ProcRank[proc[i]]>> \in Work.procs
    BY <2>1 DEF Work
  <2>3. <<i, ProcRank[proc[i]]>> \notin Work'.procs
    BY <2>1, WorkAfter
  <2> QED
    BY <2>2, <2>3
<1>4. ASSUME NEW i \in Tasks, helper[i], ~helper'[i], proc[i] # "none", proc'[i] # "none"
      PROVE  Work'.helpers # Work.helpers
  <2>1. i \in Work.helpers
    BY <1>4 DEF Work
  <2>2. i \notin Work'.helpers
    BY <1>4, WorkAfter
  <2> QED
    BY <2>1, <2>2
<1>5. ASSUME NEW i \in Tasks, heard[i].events < heard'[i].events
      PROVE  Work'.lines # Work.lines
  <2>1. /\ heard'[i].events \in 1 .. call.lines /\ heard[i].events < heard'[i].events
        /\ ~(heard'[i].events < heard'[i].events)
    BY <1>5, RanksAfter
  <2>2. <<i, heard'[i].events>> \in Work.lines
    BY <2>1 DEF Work
  <2>3. <<i, heard'[i].events>> \notin Work'.lines
    BY <2>1, WorkAfter
  <2> QED
    BY <2>2, <2>3
<1>6. ~signalled /\ signalled' => Work'.signals # Work.signals
  <2>1. signalled \in BOOLEAN /\ signalled' \in BOOLEAN
    BY DEF TypeOK
  <2> QED
    BY <2>1, WorkAfter DEF Work
<1>7. pc = "start" /\ pc' # "start" => Work'.main # Work.main
  <2>1. pc = "start" => "begin" \in Work.main
    BY DEF Work
  <2>2. pc' # "start" => "begin" \notin Work'.main
    BY WorkAfter
  <2> QED
    BY <2>1, <2>2
<1>8. pc # "exited" /\ pc' = "exited" => Work'.main # Work.main
  <2>1. pc # "exited" => "exit" \in Work.main
    BY DEF Work
  <2>2. pc' = "exited" => "exit" \notin Work'.main
    BY WorkAfter
  <2> QED
    BY <2>1, <2>2
<1>9. pc = "fill" /\ pc' = "receive" => Work'.rounds # Work.rounds
  <2>1. /\ RoundsLeft \in Nat /\ RoundsLeft' \in Nat
        /\ pc = "fill" /\ pc' = "receive" => RoundsLeft' < RoundsLeft
    BY RoundsGetFewer
  <2>2. Work.rounds = 1 .. RoundsLeft /\ Work'.rounds = 1 .. RoundsLeft'
    BY WorkAfter DEF Work
  <2>3. RoundsLeft' < RoundsLeft => RoundsLeft \in 1 .. RoundsLeft /\ RoundsLeft \notin 1 .. RoundsLeft'
    BY <2>1
  <2> QED
    BY <2>1, <2>2, <2>3
<1> QED
  BY <1>1, <1>2, <1>3, <1>4, <1>5, <1>6, <1>7, <1>8, <1>9 DEF SomethingShrinks

LEMMA WorkShrinks ==
    ASSUME TypeOK, TypeOK', call' = call, NothingGrows, SomethingShrinks
    PROVE  Shrinks(Work, Work')
<1>1. DOMAIN Work' = DOMAIN Work
  BY DEF Work
<1> QED
  BY <1>1, NothingIsAdded, SomethingIsGone DEF Shrinks

-----------------------------------------------------------------------------
(***************************************************************************)
(* Every step leaves less to do.                                           *)
(***************************************************************************)
Untouched(u) == /\ worker'[u] = worker[u] /\ proc'[u] = proc[u]
                /\ helper'[u] = helper[u] /\ heard'[u] = heard[u]

\* A step of one task: of its run, of its backend, or of a helper.
LEMMA TaskMoves ==
    ASSUME TypeOK, NEW i \in Tasks, pc' = pc, signalled' = signalled,
           \A u \in Tasks \ {i} : Untouched(u),
           RunRank[worker'[i]] <= RunRank[worker[i]],
           ProcRank[proc'[i]] <= ProcRank[proc[i]],
           proc'[i] = "none" \/ helper'[i] => proc[i] = "none" \/ helper[i],
           heard[i].events <= heard'[i].events,
           \/ RunRank[worker'[i]] < RunRank[worker[i]]
           \/ ProcRank[proc'[i]] < ProcRank[proc[i]]
           \/ helper[i] /\ ~helper'[i] /\ proc[i] # "none" /\ proc'[i] # "none"
           \/ heard[i].events < heard'[i].events
    PROVE  NothingGrows /\ SomethingShrinks
<1>1. \A u \in Tasks : RunRank[worker[u]] <= RunRank[worker[u]] /\ ProcRank[proc[u]] <= ProcRank[proc[u]]
  BY RanksAreNumbers
<1>2. \A u \in Tasks : heard[u].events <= heard[u].events
  BY CallFacts DEF TypeOK
<1>3. NothingGrows
  BY <1>1, <1>2 DEF NothingGrows, Untouched
<1> QED
  BY <1>3 DEF SomethingShrinks

\* A run moves on, and perhaps its backend with it.
LEMMA StepMoves ==
    ASSUME TypeOK, NEW i \in Tasks, NEW from, NEW to, Step(i, from, to),
           RunRank[to] < RunRank[from], RunRank[to] <= RunRank[from],
           UNCHANGED <<mainVars, heard, signalled>>,
           \A u \in Tasks \ {i} : proc'[u] = proc[u] /\ helper'[u] = helper[u],
           ProcRank[proc'[i]] <= ProcRank[proc[i]],
           proc'[i] = "none" \/ helper'[i] => proc[i] = "none" \/ helper[i]
    PROVE  NothingGrows /\ SomethingShrinks
<1>1. worker[i] = from /\ worker'[i] = to /\ \A u \in Tasks \ {i} : worker'[u] = worker[u]
  BY DEF Step, TypeOK
<1>2. heard[i].events <= heard'[i].events
  BY CallFacts DEF TypeOK
<1>3. pc' = pc /\ signalled' = signalled /\ \A u \in Tasks \ {i} : Untouched(u)
  BY <1>1 DEF mainVars, Untouched
<1> QED
  BY <1>1, <1>2, <1>3, TaskMoves

\* The same, where backends and helpers are left alone.
LEMMA QuietStepMoves ==
    ASSUME TypeOK, NEW i \in Tasks, NEW from, NEW to, Step(i, from, to),
           RunRank[to] < RunRank[from], RunRank[to] <= RunRank[from],
           UNCHANGED <<mainVars, procs, heard, signalled>>
    PROVE  NothingGrows /\ SomethingShrinks
<1>1. ProcRank[proc'[i]] <= ProcRank[proc[i]]
  BY RanksAreNumbers DEF procs
<1> QED
  BY <1>1, StepMoves DEF procs

LEMMA RunStepMoves ==
    ASSUME IInv, NEW i \in Tasks, Run(i)
    PROVE  NothingGrows /\ SomethingShrinks
<1>1. TypeOK /\ TaskFits(i) /\ ProcRank[proc[i]] \in 0 .. 3
  BY RanksAreNumbers DEF IInv, TasksFit
<1>2. CASE FailToLaunch(i) \/ Panic(i)
  BY <1>1, <1>2, QuietStepMoves DEF FailToLaunch, Panic, RunRank
<1>3. CASE Launch(i)
  <2>1. PICK to \in {"stdin", "parse"} : Step(i, "launch", to)
    BY <1>3 DEF Launch
  <2>2. RunRank[to] < RunRank["launch"] /\ RunRank[to] <= RunRank["launch"]
    BY DEF RunRank
  <2>3. /\ proc' = [proc EXCEPT ![i] = "running"] /\ helper' = [helper EXCEPT ![i] = call.forks]
        /\ UNCHANGED <<mainVars, heard, signalled>>
    BY <1>3 DEF Launch
  <2>4. proc[i] = "none"
    BY <1>1, <2>1 DEF TaskFits, Step
  <2>5. proc'[i] = "running" /\ ProcRank[proc'[i]] <= ProcRank[proc[i]]
    BY <1>1, <2>3, <2>4 DEF TypeOK, ProcRank
  <2>6. \A u \in Tasks \ {i} : proc'[u] = proc[u] /\ helper'[u] = helper[u]
    BY <1>1, <2>3 DEF TypeOK
  <2> QED
    BY <1>1, <2>1, <2>2, <2>3, <2>4, <2>5, <2>6, StepMoves
<1>4. CASE WriteStdin(i) \/ FailStdin(i)
  BY <1>1, <1>4, QuietStepMoves DEF WriteStdin, FailStdin, RunRank
<1>5. CASE Hear(i)
  <2>1. PICK announced \in BOOLEAN :
            heard' = [heard EXCEPT ![i].events = @ + 1, ![i].session = @ \/ announced]
    BY <1>5 DEF Hear
  <2>2. /\ heard[i].events \in Nat /\ heard'[i].events = heard[i].events + 1
        /\ \A u \in Tasks \ {i} : heard'[u] = heard[u]
    BY <1>1, <2>1, CallFacts DEF TypeOK
  <2>3. heard[i].events < heard'[i].events /\ heard[i].events <= heard'[i].events
    BY <2>2
  <2>4. /\ pc' = pc /\ signalled' = signalled /\ worker' = worker /\ proc' = proc
        /\ helper' = helper
    BY <1>5 DEF Hear, mainVars, procs
  <2>5. RunRank[worker[i]] <= RunRank[worker[i]] /\ ProcRank[proc[i]] <= ProcRank[proc[i]]
    BY <1>1, RanksAreNumbers
  <2> QED
    BY <1>1, <2>2, <2>3, <2>4, <2>5, TaskMoves DEF Untouched
<1>6. CASE EndOfOutput(i) \/ Wait(i)
  BY <1>1, <1>6, QuietStepMoves DEF EndOfOutput, Wait, RunRank
<1>7. CASE Timeout(i)
  <2>1. /\ proc' = [proc EXCEPT ![i] = IF @ \in Living THEN "killed" ELSE @]
        /\ helper' = helper /\ UNCHANGED <<mainVars, heard, signalled>>
        /\ Step(i, "parse", "wait")
    BY <1>7 DEF Timeout
  <2>2. \A u \in Tasks \ {i} : proc'[u] = proc[u]
    BY <1>1, <2>1 DEF TypeOK
  <2>3. proc'[i] = IF proc[i] \in Living THEN "killed" ELSE proc[i]
    BY <1>1, <2>1 DEF TypeOK
  <2>4. ProcRank[proc'[i]] <= ProcRank[proc[i]]
    BY <1>1, <2>3 DEF ProcRank, Living
  <2>5. proc'[i] = "none" => proc[i] = "none"
    BY <2>3
  <2>6. RunRank["wait"] < RunRank["parse"] /\ RunRank["wait"] <= RunRank["parse"]
    BY DEF RunRank
  <2> QED
    BY <1>1, <2>1, <2>2, <2>4, <2>5, <2>6, StepMoves
<1>8. CASE JoinStderr(i)
  BY <1>1, <1>8, QuietStepMoves DEF JoinStderr, RunRank
<1> QED
  BY <1>2, <1>3, <1>4, <1>5, <1>6, <1>7, <1>8 DEF Run

LEMMA OutsideStepMoves ==
    ASSUME ProgramIInv, NEW i \in Tasks, Outside(i)
    PROVE  NothingGrows /\ SomethingShrinks
<1>1. /\ TypeOK /\ TaskFits(i) /\ pc' = pc /\ signalled' = signalled
      /\ worker' = worker /\ heard' = heard
  BY DEF ProgramIInv, IInv, TasksFit, Outside, CloseStdout, BackendEnd, HelperEnd, mainVars
<1>2. RunRank[worker'[i]] <= RunRank[worker[i]] /\ ProcRank[proc[i]] <= ProcRank[proc[i]]
  BY <1>1, RanksAreNumbers
<1>3. heard[i].events <= heard'[i].events
  BY <1>1, CallFacts DEF TypeOK
<1>4. ASSUME NEW new \in {"mute"} \cup Ended, proc[i] \in Living, new = "mute" => proc[i] = "running",
             proc' = [proc EXCEPT ![i] = new], helper' = helper
      PROVE  NothingGrows /\ SomethingShrinks
  <2>1. proc'[i] = new /\ \A u \in Tasks \ {i} : proc'[u] = proc[u]
    BY <1>1, <1>4 DEF TypeOK
  <2>2. /\ ProcRank[proc'[i]] < ProcRank[proc[i]] /\ ProcRank[proc'[i]] <= ProcRank[proc[i]]
        /\ proc'[i] # "none"
    BY <1>4, <2>1 DEF ProcRank, Living, Ended
  <2> QED
    BY <1>1, <1>2, <1>3, <1>4, <2>1, <2>2, TaskMoves DEF Untouched
<1>5. CASE CloseStdout(i)
  BY <1>4, <1>5 DEF CloseStdout, Living
<1>6. CASE BackendEnd(i)
  <2>1. PICK status \in {"success", "failure"} : proc' = [proc EXCEPT ![i] = status]
    BY <1>6 DEF BackendEnd
  <2>2. status \in {"mute"} \cup Ended /\ status # "mute" /\ proc[i] \in Living /\ helper' = helper
    BY <1>6 DEF BackendEnd, Ended
  <2> QED
    BY <1>4, <2>1, <2>2
<1>7. CASE HelperEnd(i)
  <2>1. /\ helper[i] /\ proc' = proc /\ helper' = [helper EXCEPT ![i] = FALSE]
    BY <1>7 DEF HelperEnd
  <2>2. ~helper'[i] /\ \A u \in Tasks \ {i} : helper'[u] = helper[u]
    BY <1>1, <2>1 DEF TypeOK
  <2>3. proc[i] # "none"
    BY <2>1 DEF ProgramIInv, ProgramFits
  <2> QED
    BY <1>1, <1>2, <1>3, <2>1, <2>2, <2>3, TaskMoves DEF Untouched
<1> QED
  BY <1>5, <1>6, <1>7 DEF Outside

LEMMA SameRanks ==
    ASSUME TypeOK, worker' = worker, proc' = proc, helper' = helper, heard' = heard
    PROVE  \A i \in Tasks :
              /\ RunRank[worker'[i]] <= RunRank[worker[i]]
              /\ ProcRank[proc'[i]] <= ProcRank[proc[i]]
              /\ proc'[i] = "none" \/ helper'[i] => proc[i] = "none" \/ helper[i]
              /\ heard[i].events <= heard'[i].events
<1>1. \A i \in Tasks : heard[i].events <= heard[i].events
  BY CallFacts DEF TypeOK
<1> QED
  BY <1>1, RanksAreNumbers

\* A run begins or its result is received.
LEMMA WorkerMoves ==
    ASSUME TypeOK, NEW i \in Tasks, NEW to, UNCHANGED <<procs, heard, signalled>>,
           worker' = [worker EXCEPT ![i] = to],
           RunRank[to] < RunRank[worker[i]], RunRank[to] <= RunRank[worker[i]],
           pc # "exited", pc' # "start",
           pc' = "fill" => pc = "fill" \/ (worker[i] # "received" /\ to = "received")
    PROVE  NothingGrows /\ SomethingShrinks
<1>1. \A u \in Tasks : worker'[u] = IF u = i THEN to ELSE worker[u]
  BY DEF TypeOK
<1>2. \A u \in Tasks : /\ RunRank[worker[u]] <= RunRank[worker[u]]
                       /\ ProcRank[proc[u]] <= ProcRank[proc[u]]
  BY RanksAreNumbers
<1>3. \A u \in Tasks : heard[u].events <= heard[u].events
  BY CallFacts DEF TypeOK
<1> QED
  BY <1>1, <1>2, <1>3 DEF NothingGrows, SomethingShrinks, procs

LEMMA MainMoves ==
    ASSUME ProgramIInv, Main
    PROVE  NothingGrows /\ SomethingShrinks
<1>1. TypeOK
  BY DEF ProgramIInv, IInv
<1>2. /\ UNCHANGED <<procs, heard, signalled>> /\ signalled' = signalled
      /\ proc' = proc /\ helper' = helper /\ heard' = heard
  BY DEF Main, Begin, ExitSingle, Spawn, StopFilling, ReportCircular, Receive, procs
<1>3. ASSUME worker' = worker,
             \/ pc # "exited" /\ pc' = "exited"
             \/ pc = "start" /\ pc' = "fill"
             \/ pc = "fill" /\ pc' = "receive"
      PROVE  NothingGrows /\ SomethingShrinks
  BY <1>1, <1>2, <1>3, SameRanks DEF NothingGrows, SomethingShrinks
<1>4. CASE Begin
  <2>1. CASE pc' \in {"exited", "fill"}
    BY <1>3, <1>4, <2>1 DEF Begin, Exit
  <2>2. CASE pc' = "single"
    <3>1. ~Parallel /\ Tasks # {} /\ worker' = [worker EXCEPT ![1] = "launch"] /\ pc = "start"
      BY <1>4, <2>2 DEF Begin, Exit
    <3>2. 1 \in Tasks
      <4>1. Tasks = 1 .. Len(call.tasks) /\ Len(call.tasks) \in Nat
        BY <1>1, CallFacts DEF TypeOK
      <4> QED
        BY <3>1, <4>1
    <3>3. worker[1] = "pending"
      BY <3>1, <3>2 DEF ProgramIInv, IInv, MainFits
    <3>4. RunRank["launch"] < RunRank[worker[1]] /\ RunRank["launch"] <= RunRank[worker[1]]
      BY <3>3 DEF RunRank
    <3> QED
      BY <1>1, <1>2, <2>2, <3>1, <3>2, <3>4, WorkerMoves
  <2> QED
    BY <1>4, <2>1, <2>2 DEF Begin, Exit
<1>5. CASE ExitSingle
  BY <1>3, <1>5 DEF ExitSingle, Exit
<1>6. CASE Spawn
  <2>1. PICK i \in Pending : worker' = [worker EXCEPT ![i] = "launch"]
    BY <1>6 DEF Spawn
  <2>2. i \in Tasks /\ worker[i] = "pending" /\ pc = "fill" /\ pc' = "fill"
    BY <1>6, <2>1 DEF Spawn, Pending, mainVars
  <2>3. RunRank["launch"] < RunRank[worker[i]] /\ RunRank["launch"] <= RunRank[worker[i]]
    BY <2>2 DEF RunRank
  <2> QED
    BY <1>1, <1>2, <2>1, <2>2, <2>3, WorkerMoves
<1>7. CASE StopFilling
  BY <1>3, <1>7 DEF StopFilling
<1>8. CASE ReportCircular
  BY <1>3, <1>8 DEF ReportCircular, Exit
<1>9. CASE Receive
  <2>1. /\ Head(inbox) \in Tasks /\ worker[Head(inbox)] = "sent" /\ pc = "receive"
    BY <1>9, ReceiveFacts DEF ProgramIInv
  <2>2. worker' = [worker EXCEPT ![Head(inbox)] = "received"] /\ pc' \in {"fill", "exited"}
    BY <1>9 DEF Receive, Exit
  <2>3. /\ RunRank["received"] < RunRank[worker[Head(inbox)]]
        /\ RunRank["received"] <= RunRank[worker[Head(inbox)]]
    BY <2>1 DEF RunRank
  <2> QED
    BY <1>1, <1>2, <2>1, <2>2, <2>3, WorkerMoves
<1> QED
  BY <1>4, <1>5, <1>6, <1>7, <1>8, <1>9 DEF Main

LEMMA SignalMoves ==
    ASSUME ProgramIInv, Signal
    PROVE  NothingGrows /\ SomethingShrinks
<1>1. /\ TypeOK /\ worker' = worker /\ proc' = proc /\ helper' = helper /\ heard' = heard
      /\ ~signalled /\ signalled' = TRUE /\ pc # "exited" /\ pc' \in {pc, "exited"}
  BY DEF ProgramIInv, IInv, Signal, Exit, procs
<1> QED
  BY <1>1, SameRanks DEF NothingGrows, SomethingShrinks

LEMMA AbortMoves ==
    ASSUME ProgramIInv, NEW i \in Tasks, PanicAborts(i)
    PROVE  NothingGrows /\ SomethingShrinks
<1>1. /\ TypeOK /\ worker' = worker /\ proc' = proc /\ helper' = helper /\ heard' = heard
      /\ signalled' = signalled /\ pc # "exited" /\ pc' = "exited"
  BY DEF ProgramIInv, IInv, PanicAborts, Exit, procs
<1> QED
  BY <1>1, SameRanks DEF NothingGrows, SomethingShrinks

\* Whatever the backends, their helpers, timers and signals do: every step of
\* the program and of its backends leaves less to do.  No round of the
\* scheduler is made for nothing, and no task runs or is received twice.
THEOREM ProgramEnds ==
    Spec => /\ [](Left(Work) \in Nat)
            /\ [][Left(Work)' < Left(Work)]_vars
<1>1. ProgramIInv => Left(Work) \in Nat
  BY WorkIsFinite, PartsAreFinite DEF ProgramIInv, IInv
<1>2. ProgramIInv /\ [Next]_vars => [Left(Work)' < Left(Work)]_vars
  <2> SUFFICES ASSUME ProgramIInv, Next
               PROVE  Left(Work)' < Left(Work)
    OBVIOUS
  <2>1. NothingGrows /\ SomethingShrinks
    BY MainMoves, SignalMoves, AbortMoves, RunStepMoves, OutsideStepMoves DEF Next, ProgramIInv
  <2>2. TypeOK /\ TypeOK' /\ call' = call
    BY ProgramKept DEF ProgramIInv, IInv, Next, Main, Begin, ExitSingle, Spawn, StopFilling,
       ReportCircular, Receive, Signal, Run, FailToLaunch, Panic, PanicAborts, Launch, WriteStdin,
       FailStdin, Hear, EndOfOutput, Timeout, Wait, JoinStderr, Outside, CloseStdout, BackendEnd, HelperEnd
  <2>3. Shrinks(Work, Work') /\ AllFinite(Work)
    BY <2>1, <2>2, WorkShrinks, WorkIsFinite
  <2>4. Left(Work') < Left(Work)
    BY <2>3, ShrinkingLeavesLess
  <2> QED
    BY <2>4
<1> QED
  BY <1>1, <1>2, ProgramInvariant, PTL DEF Spec

-----------------------------------------------------------------------------
\* A run can take a step by itself: it launches or fails to, its timer can
\* fire, or what it waits for has happened.
CanMove(i) ==
    \/ worker[i] \in {"launch", "parse"}
    \/ worker[i] = "stdin" /\ proc[i] \notin Living
    \/ worker[i] = "wait" /\ proc[i] \in Ended
    \/ worker[i] = "stderr" /\ ~helper[i]

\* The program waits for nothing but what Held names: otherwise main can take a
\* step (filling, with room for a worker at least, always goes on), or a run.
OnlyHeldWaits ==
    (pc # "exited" /\ \A i \in Tasks : ~Held(i)) =>
        \/ pc = "start"
        \/ pc = "fill" /\ (Running = {} => HasCapacity)
        \/ pc = "single" /\ worker[1] = "sent"
        \/ pc = "receive" /\ inbox # <<>>
        \/ \E i \in Tasks : CanMove(i)

\* In particular the scheduler never waits at a channel nobody will send to,
\* unless a worker panicked: it waits only with a worker out, whose result, once
\* sent, stays in the channel until it is received.
THEOREM WaitsAreKnown == Spec => []OnlyHeldWaits
<1>1. ASSUME ProgramIInv, pc # "exited", \A i \in Tasks : ~Held(i)
      PROVE  \/ pc = "start"
             \/ pc = "fill" /\ (Running = {} => HasCapacity)
             \/ pc = "single" /\ worker[1] = "sent"
             \/ pc = "receive" /\ inbox # <<>>
             \/ \E i \in Tasks : CanMove(i)
  <2>1. TypeOK /\ ProgramFits /\ TasksFit
    BY <1>1 DEF ProgramIInv, IInv
  <2>2. ASSUME NEW i \in Tasks, worker[i] \notin {"pending", "sent", "received"}
        PROVE  CanMove(i)
    <3>1. worker[i] # "panicked" /\ (worker[i] = "stderr" => ~helper[i])
      BY <1>1 DEF Held
    <3>2. worker[i] \in {"stdin", "wait"} => proc[i] \notin Living
      BY <1>1 DEF Held
    <3>3. worker[i] = "wait" => proc[i] \in Ended
      BY <2>1, <3>2 DEF TypeOK, TasksFit, TaskFits, Living
    <3> QED
      BY <2>1, <2>2, <3>1, <3>2, <3>3 DEF TypeOK, CanMove
  <2>3. CASE pc = "fill"
    <3>1. Running = {} => HasCapacity
      BY <2>1, <2>3, FS_EmptySet, CallsAssumption DEF HasCapacity, TypeOK, ProgramFits
    <3> QED
      BY <2>3, <3>1
  <2>4. CASE pc = "single"
    BY <2>1, <2>2, <2>4 DEF ProgramFits
  <2>5. CASE pc = "receive"
    <3>1. PICK i \in Tasks : worker[i] \notin {"pending", "received"}
      BY <2>1, <2>5 DEF ProgramFits, Running
    <3>2. CASE worker[i] = "sent"
      <4>1. Parallel
        BY <1>1, <2>5 DEF ProgramIInv, IInv, MainFits
      <4>2. i \in EntriesOf(inbox)
        BY <2>1, <3>2, <4>1 DEF ProgramFits
      <4>3. inbox # <<>>
        BY <4>2, EmptySeq DEF EntriesOf
      <4> QED
        BY <2>5, <4>3
    <3> QED
      BY <2>2, <3>1, <3>2
  <2> QED
    BY <1>1, <2>1, <2>3, <2>4, <2>5 DEF TypeOK
<1>2. ProgramIInv => OnlyHeldWaits
  BY <1>1 DEF OnlyHeldWaits
<1> QED
  BY <1>2, ProgramInvariant, PTL
=============================================================================
