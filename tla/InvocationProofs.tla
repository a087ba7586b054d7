-------------------------- MODULE InvocationProofs --------------------------
(***************************************************************************)
(* Proofs about Invocation, for every command line, sequence of commands   *)
(* and change of the files: what exit status 0 says, why a backend may     *)
(* outlive wrangle, where it runs, which models file is used, and when the *)
(* form in which a directory is written makes no difference to discovery.  *)
(***************************************************************************)
EXTENDS Invocation, ListsProofs

\* What a run of wrangle was told.
WorkFits == /\ work.path \in Path
            /\ work.path = Cwd \/ (ask.given /\ work.path = ask.path)

AskFits == ask \in Ask /\ disk \in Disks

\* Where wrangle and the plugin are.
ExitFits == /\ exit \in {"none", "zero", "one", "two"} /\ (exit # "none" <=> pc = "exited")
            /\ plugin = "resolve" => pc = "off"
            /\ pc \in {"off", "parse", "logging", "dispatch", "resolve"} => backend = "none"
            /\ plugin = "absent" <=> ask.plugin = "none"
            /\ plugin = "zero" => ask.plugin = "dry" \/ exit = "zero"

\* Exit status 0 of wrangle itself.
ZeroFits == (Told /\ Command # "parallel" /\ exit = "zero") => backend = "succeeded"

\* The backend wrangle itself left when it ended.
LeftFits == (Living /\ pc \in {"exited", "killed"}) => (pc = "killed" \/ exit = "one")

Attachable == ask.transport = "persistent" /\ ask.backend = "opencode"

\* The orphans: those of this command were attached and stand beside its second
\* attempt; those of an earlier one were too, or that command ended with an error.
OrphansFit ==
    /\ step \in Nat \ {0} /\ past \in Seq({"zero", "one", "two"}) /\ Len(past) = step - 1
    /\ backend = "attached" => Attachable
    /\ \A o \in orphans :
          /\ o.command \in 1 .. step
          /\ o.command # step => past[o.command] = "one" \/ (o.attached /\ Attachable)
          /\ o.command = step =>
                /\ pc \in {"run", "exited", "killed"} /\ o.attached /\ Attachable
                /\ exit = "zero" => backend \in {"succeeded", "failed", "killed"}

\* What was printed is what is found, as long as the files are the same.
ShownFits == (shown # 0 /\ ~changed) => shown = Discovery(disk, Cwd, ask.cwd, ask.home).models

EndsFit  == ExitFits /\ ZeroFits /\ LeftFits
FilesFit == ShownFits /\ PathsToldAreUsed

IInv == AskFits /\ WorkFits /\ EndsFit /\ OrphansFit /\ BackendRunsWhereTold /\ FilesFit

LEMMA AskFacts ==
    ASSUME AskFits
    PROVE  /\ Depth \in Nat /\ ask.cwd \in Nat /\ Cwd \in Path /\ ask.path \in Path
           /\ ask.given \in BOOLEAN
BY DepthAssumption DEF AskFits, Ask, Levels, Path, Cwd

LEMMA InitEstablishes == Init => IInv
<1> SUFFICES ASSUME Init PROVE IInv
  OBVIOUS
<1>1. AskFits
  BY AskAssumption DEF Init, AskFits
<1>2. WorkFits
  BY <1>1, AskFacts DEF Init, WorkFits, NoWork
<1>3. EndsFit
  BY DEF Init, EndsFit, ExitFits, ZeroFits, LeftFits, Living
<1>4. BackendRunsWhereTold /\ FilesFit
  BY DEF Init, BackendRunsWhereTold, Living, FilesFit, ShownFits, PathsToldAreUsed
<1>5. OrphansFit
  BY DEF Init, OrphansFit
<1> QED
  BY <1>1, <1>2, <1>3, <1>4, <1>5 DEF IInv

-----------------------------------------------------------------------------
(***************************************************************************)
(* Who runs the task, and how it ends.                                     *)
(***************************************************************************)
LEMMA PluginKeepsEnds ==
    ASSUME EndsFit, PluginResolve \/ PluginCollect \/ PluginTimeout
    PROVE  EndsFit'
<1>1. CASE PluginResolve
  <2>1. /\ UNCHANGED <<ask, step, exit, backend>> /\ plugin = "resolve"
        /\ \/ ask.plugin = "dry" /\ plugin' = "zero" /\ pc' = pc
           \/ plugin' \in {"one", "two"} /\ pc' = pc
           \/ plugin' = "waiting" /\ pc' = "parse"
    BY <1>1 DEF PluginResolve
  <2> QED
    BY <2>1 DEF EndsFit, ExitFits, ZeroFits, LeftFits, Told, Command, Living
<1>2. CASE PluginCollect
  BY <1>2 DEF PluginCollect, EndsFit, ExitFits, ZeroFits, LeftFits, Told, Command, Living
<1>3. CASE PluginTimeout
  BY <1>3 DEF PluginTimeout, EndsFit, ExitFits, ZeroFits, LeftFits, Told, Command, Living
<1> QED
  BY <1>1, <1>2, <1>3

LEMMA MainKeepsEnds ==
    ASSUME EndsFit,
           ParseArgs \/ SetupLogging \/ ListBackends \/ ConfigPaths \/ ReadTask
    PROVE  EndsFit'
<1>1. CASE ParseArgs
  BY <1>1 DEF ParseArgs, Exit, EndsFit, ExitFits, ZeroFits, LeftFits, Told, Command, Living, Flags
<1>2. CASE SetupLogging
  BY <1>2 DEF SetupLogging, Exit, EndsFit, ExitFits, ZeroFits, LeftFits, Told, Command, Living
<1>3. CASE ListBackends
  BY <1>3 DEF ListBackends, Exit, EndsFit, ExitFits, ZeroFits, LeftFits, Told, Command, Living, Runs
<1>4. CASE ConfigPaths
  <2>1. /\ UNCHANGED <<ask, plugin, step, backend>> /\ pc = "dispatch" /\ pc' = "exited"
        /\ Command \notin Runs /\ exit' \in {"zero", "one"}
    BY <1>4 DEF ConfigPaths, Exit, Runs
  <2> QED
    BY <2>1 DEF EndsFit, ExitFits, ZeroFits, LeftFits, Told, Command, Living
<1>5. CASE ReadTask
  BY <1>5 DEF ReadTask, Exit, EndsFit, ExitFits, ZeroFits, LeftFits, Told, Command, Living
<1> QED
  BY <1>1, <1>2, <1>3, <1>4, <1>5

LEMMA ResolveKeepsEnds ==
    ASSUME EndsFit, ResolveAgent \/ NoAgent \/ Refuse
    PROVE  EndsFit'
<1>1. CASE ResolveAgent
  <2>1. /\ UNCHANGED <<ask, plugin, step, backend>> /\ pc = "resolve"
        /\ Dispatch \/ Exit("one")
    BY <1>1 DEF ResolveAgent
  <2> QED
    BY <2>1 DEF Dispatch, Exit, EndsFit, ExitFits, ZeroFits, LeftFits, Told, Command, Living
<1>2. CASE NoAgent
  BY <1>2 DEF NoAgent, Dispatch, Exit, EndsFit, ExitFits, ZeroFits, LeftFits, Told, Command, Living
<1>3. CASE Refuse
  BY <1>3 DEF Refuse, Exit, EndsFit, ExitFits, ZeroFits, LeftFits, Told, Command, Living
<1> QED
  BY <1>1, <1>2, <1>3

LEMMA BackendKeepsEnds ==
    ASSUME EndsFit,
           StartBackend \/ BackendEnd \/ BackendTimeout \/ GiveUp \/ RetryFails \/ Answer
    PROVE  EndsFit'
<1>1. CASE StartBackend
  <2>1. /\ UNCHANGED <<ask, plugin, step, pc, exit>> /\ pc = "run"
        /\ backend' \in {"attached", "alive"}
    BY <1>1 DEF StartBackend
  <2> QED
    BY <2>1 DEF EndsFit, ExitFits, ZeroFits, LeftFits, Told, Command, Living
<1>2. CASE BackendEnd
  BY <1>2 DEF BackendEnd, EndsFit, ExitFits, ZeroFits, LeftFits, Told, Command, Living
<1>3. CASE BackendTimeout
  BY <1>3 DEF BackendTimeout, EndsFit, ExitFits, ZeroFits, LeftFits, Told, Command, Living
<1>4. CASE GiveUp
  BY <1>4 DEF GiveUp, Exit, EndsFit, ExitFits, ZeroFits, LeftFits, Told, Command, Living
<1>5. CASE RetryFails
  BY <1>5 DEF RetryFails, Exit, EndsFit, ExitFits, ZeroFits, LeftFits, Told, Command, Living
<1>6. CASE Answer
  BY <1>6 DEF Answer, Exit, EndsFit, ExitFits, ZeroFits, LeftFits, Told, Command, Living
<1> QED
  BY <1>1, <1>2, <1>3, <1>4, <1>5, <1>6

LEMMA UserKeepsEnds ==
    ASSUME EndsFit, NextCommand \/ OrphanEnd \/ ChangeFiles \/ UNCHANGED vars
    PROVE  EndsFit'
<1>1. CASE NextCommand
  BY <1>1 DEF NextCommand, EndsFit, ExitFits, ZeroFits, LeftFits, Told, Command, Living
<1>2. CASE ChangeFiles
  BY <1>2 DEF ChangeFiles, EndsFit, ExitFits, ZeroFits, LeftFits, Told, Command, Living
<1>3. CASE OrphanEnd
  BY <1>3 DEF OrphanEnd, EndsFit, ExitFits, ZeroFits, LeftFits, Told, Command, Living
<1>4. CASE UNCHANGED vars
  BY <1>4 DEF vars, EndsFit, ExitFits, ZeroFits, LeftFits, Told, Command, Living
<1> QED
  BY <1>1, <1>2, <1>3, <1>4

LEMMA NextKeepsEnds == EndsFit /\ [Next]_vars => EndsFit'
BY PluginKeepsEnds, MainKeepsEnds, ResolveKeepsEnds, BackendKeepsEnds, UserKeepsEnds DEF Next

-----------------------------------------------------------------------------
(***************************************************************************)
(* The backends nobody waits for.                                          *)
(***************************************************************************)
\* A step of a command that leaves the orphans as they are.
LEMMA SameOrphansFit ==
    ASSUME OrphansFit, UNCHANGED <<ask, step, past, orphans>>,
           backend' = "attached" => backend = "attached",
           pc \in {"run", "exited", "killed"} => pc' \in {"run", "exited", "killed"},
           exit' = "zero" => \/ pc \notin {"run", "exited", "killed"}
                             \/ backend' \in {"succeeded", "failed", "killed"}
                             \/ exit = "zero" /\ backend' = backend
    PROVE  OrphansFit'
BY DEF OrphansFit, Attachable

LEMMA NextKeepsOrphans == EndsFit /\ OrphansFit /\ [Next]_vars => OrphansFit'
<1> SUFFICES ASSUME EndsFit, OrphansFit, [Next]_vars PROVE OrphansFit'
  OBVIOUS
<1>1. ExitFits /\ LeftFits
  BY DEF EndsFit
<1>2. CASE PluginResolve \/ PluginCollect \/ PluginTimeout \/ UNCHANGED vars
  <2>1. /\ UNCHANGED <<ask, step, past, orphans, exit, backend>>
        /\ pc' = pc \/ (pc = "off" /\ pc' = "parse") \/ pc' = "killed"
    BY <1>1, <1>2 DEF PluginResolve, PluginCollect, PluginTimeout, vars, ExitFits
  <2> QED
    BY <2>1, SameOrphansFit
<1>3. CASE ParseArgs \/ SetupLogging \/ ListBackends \/ ConfigPaths \/ ReadTask
  <2>1. /\ UNCHANGED <<ask, step, past, orphans, backend>>
        /\ pc \in {"parse", "logging", "dispatch"}
    BY <1>3 DEF ParseArgs, SetupLogging, ListBackends, ConfigPaths, ReadTask
  <2> QED
    BY <2>1, SameOrphansFit
<1>4. CASE ResolveAgent \/ NoAgent
  <2>1. /\ UNCHANGED <<ask, step, past, orphans, backend>> /\ pc = "resolve"
    BY <1>4 DEF ResolveAgent, NoAgent
  <2> QED
    BY <2>1, SameOrphansFit
<1>5. CASE Refuse \/ RetryFails
  <2>1. /\ UNCHANGED <<ask, step, past, orphans, backend>> /\ pc' = "exited" /\ exit' = "one"
    BY <1>5 DEF Refuse, RetryFails, Exit
  <2> QED
    BY <2>1, SameOrphansFit
<1>6. CASE StartBackend
  <2>1. /\ UNCHANGED <<ask, step, past, orphans, pc, exit>> /\ pc = "run" /\ exit = "none"
        /\ backend' = "attached" => Attachable
    BY <1>1, <1>6 DEF StartBackend, ExitFits, Attachable
  <2> QED
    BY <2>1 DEF OrphansFit, Attachable
<1>7. CASE BackendEnd \/ BackendTimeout
  <2>1. /\ UNCHANGED <<ask, step, past, orphans, pc, exit>>
        /\ backend' \in {"succeeded", "failed", "killed"}
    BY <1>7 DEF BackendEnd, BackendTimeout
  <2> QED
    BY <2>1, SameOrphansFit
<1>8. CASE GiveUp
  <2>1. CASE backend = "attached"
    <3>1. /\ UNCHANGED <<ask, step, past, pc, exit>> /\ pc = "run" /\ exit = "none"
          /\ backend' = "retry" /\ orphans' = orphans \cup {Started(TRUE)}
      BY <1>1, <1>8, <2>1 DEF GiveUp, ExitFits
    <3>2. Attachable /\ Started(TRUE).command = step /\ Started(TRUE).attached /\ step \in 1 .. step
      BY <2>1 DEF OrphansFit, Started
    <3>3. /\ Attachable' /\ step' = step /\ past' = past /\ exit' = "none" /\ pc' = "run"
          /\ backend' # "attached"
      BY <3>1, <3>2 DEF Attachable
    <3>4. ASSUME NEW o \in orphans'
          PROVE  /\ o.command \in 1 .. step
                 /\ o.command # step => past[o.command] = "one" \/ (o.attached /\ Attachable)
                 /\ o.command = step => o.attached /\ Attachable
      <4>1. CASE o \in orphans
        BY <4>1 DEF OrphansFit
      <4>2. CASE o = Started(TRUE)
        BY <3>2, <4>2
      <4> QED
        BY <3>1, <4>1, <4>2
    <3> QED
      BY <3>2, <3>3, <3>4 DEF OrphansFit
  <2>2. CASE backend # "attached"
    <3>1. UNCHANGED <<ask, step, past, orphans, backend>> /\ pc' = "exited" /\ exit' = "one"
      BY <1>8, <2>2 DEF GiveUp, Exit
    <3> QED
      BY <3>1, SameOrphansFit
  <2> QED
    BY <2>1, <2>2
<1>9. CASE Answer
  <2>1. /\ UNCHANGED <<ask, step, past, orphans, backend>> /\ pc' = "exited"
        /\ backend \in {"succeeded", "failed", "killed"}
    BY <1>9 DEF Answer, Exit
  <2> QED
    BY <2>1, SameOrphansFit
<1>10. CASE OrphanEnd
  <2>1. UNCHANGED <<ask, step, past, pc, exit, backend>> /\ orphans' \subseteq orphans
    BY <1>10 DEF OrphanEnd
  <2> QED
    BY <2>1 DEF OrphansFit, Attachable
<1>11. CASE NextCommand
  <2>1. /\ UNCHANGED ask /\ pc = "exited" /\ step' = step + 1 /\ backend' = "none"
        /\ orphans' = Outliving /\ past' = Append(past, exit) /\ exit' = "none"
    BY <1>11 DEF NextCommand
  <2>2. /\ exit \in {"zero", "one", "two"} /\ step \in Nat \ {0}
        /\ past \in Seq({"zero", "one", "two"}) /\ Len(past) = step - 1
    BY <1>1, <2>1 DEF ExitFits, OrphansFit
  <2>3. /\ past' \in Seq({"zero", "one", "two"}) /\ Len(past') = step' - 1
        /\ past'[step] = exit /\ \A c \in 1 .. (step - 1) : past'[c] = past[c]
    BY <2>1, <2>2
  <2>4. ASSUME NEW o \in Outliving
        PROVE  /\ o.command \in 1 .. step
               /\ past'[o.command] = "one" \/ (o.attached /\ Attachable)
    <3>1. CASE o \in orphans
      <4>1. o.command \in 1 .. step
        BY <3>1 DEF OrphansFit
      <4>2. CASE o.command = step
        BY <3>1, <4>1, <4>2 DEF OrphansFit
      <4>3. CASE o.command # step
        <5>1. o.command \in 1 .. (step - 1)
          BY <2>2, <4>1, <4>3
        <5>2. past[o.command] = "one" \/ (o.attached /\ Attachable)
          BY <3>1, <4>3 DEF OrphansFit
        <5> QED
          BY <2>3, <4>1, <5>1, <5>2
      <4> QED
        BY <4>2, <4>3
    <3>2. CASE o \notin orphans
      <4>1. Living /\ o = Started(backend = "attached")
        BY <3>2 DEF Outliving
      <4>2. exit = "one" /\ o.command = step
        BY <1>1, <2>1, <4>1 DEF LeftFits, Started
      <4> QED
        BY <2>2, <2>3, <4>2
    <3> QED
      BY <3>1, <3>2
  <2>5. \A o \in orphans' : /\ o.command \in 1 .. step' /\ o.command # step'
                            /\ past'[o.command] = "one" \/ (o.attached /\ Attachable')
    BY <2>1, <2>2, <2>4 DEF Attachable
  <2> QED
    BY <2>1, <2>2, <2>3, <2>5 DEF OrphansFit
<1>12. CASE ChangeFiles
  <2>1. UNCHANGED <<ask, step, past, orphans, pc, exit, backend>>
    BY <1>12 DEF ChangeFiles
  <2> QED
    BY <2>1, SameOrphansFit
<1> QED
  BY <1>2, <1>3, <1>4, <1>5, <1>6, <1>7, <1>8, <1>9, <1>10, <1>11, <1>12 DEF Next

-----------------------------------------------------------------------------
(***************************************************************************)
(* What was asked for, and where the backend works.                        *)
(***************************************************************************)
LEMMA NextKeepsAsk == AskFits /\ [Next]_vars => AskFits' /\ ask' = ask
BY DEF AskFits, Next, vars, PluginResolve, PluginCollect, PluginTimeout, ParseArgs, SetupLogging,
       ListBackends, ConfigPaths, ReadTask, ResolveAgent, NoAgent, Refuse, StartBackend,
       BackendEnd, BackendTimeout, GiveUp, RetryFails, Answer, OrphanEnd, NextCommand, ChangeFiles

LEMMA NextKeepsWork == AskFits /\ WorkFits /\ [Next]_vars => WorkFits'
<1> SUFFICES ASSUME AskFits, WorkFits, [Next]_vars PROVE WorkFits'
  OBVIOUS
<1>1. ask' = ask /\ Cwd' = Cwd /\ Cwd \in Path /\ ask.path \in Path /\ ask.given \in BOOLEAN
  BY NextKeepsAsk, AskFacts DEF Cwd
<1>2. CASE ParseArgs
  BY <1>1, <1>2 DEF ParseArgs, WorkFits, NoWork
<1>3. CASE NextCommand
  BY <1>1, <1>3 DEF NextCommand, WorkFits, NoWork
<1>4. CASE ~ParseArgs /\ ~NextCommand
  <2>1. work' = work
    BY <1>4 DEF Next, vars, PluginResolve, PluginCollect, PluginTimeout, SetupLogging,
       ListBackends, ConfigPaths, ReadTask, ResolveAgent, NoAgent, Refuse, StartBackend,
       BackendEnd, BackendTimeout, GiveUp, RetryFails, Answer, OrphanEnd, ChangeFiles
  <2> QED
    BY <1>1, <2>1 DEF WorkFits
<1> QED
  BY <1>2, <1>3, <1>4

LEMMA NextKeepsPlace == IInv /\ [Next]_vars => BackendRunsWhereTold'
<1> SUFFICES ASSUME IInv, [Next]_vars PROVE BackendRunsWhereTold'
  OBVIOUS
<1>1. /\ ask' = ask /\ work.path \in Path /\ ask.cwd \in Nat /\ Depth \in Nat
      /\ ExitFits /\ BackendRunsWhereTold
  BY NextKeepsAsk, AskFacts DEF IInv, WorkFits, EndsFit
<1>2. CASE ParseArgs
  BY <1>1, <1>2 DEF ParseArgs, ExitFits, BackendRunsWhereTold, Living
<1>3. CASE NextCommand
  BY <1>1, <1>3 DEF NextCommand, BackendRunsWhereTold, Living
<1>4. CASE StartBackend
  <2>1. PICK attached \in BOOLEAN :
            /\ attached => ask.transport = "persistent" /\ backend = "none"
            /\ dir' = WorksIn(attached)
    BY <1>4 DEF StartBackend
  <2>2. work' = work
    BY <1>4 DEF StartBackend
  <2>3. work.path.level \in Nat /\ Here(work.path, ask.cwd) \in Nat
    BY <1>1 DEF Path, Here
  <2>4. ASSUME \/ work.path.absolute \/ work.path.level = 0
               \/ ask.transport = "one-shot" /\ ask.backend # "codex"
        PROVE  WorksIn(attached) = Here(work.path, ask.cwd)
    BY <2>1, <2>3, <2>4 DEF WorksIn
  <2> QED
    BY <1>1, <2>1, <2>2, <2>4 DEF BackendRunsWhereTold
<1>5. CASE ~ParseArgs /\ ~NextCommand /\ ~StartBackend
  <2>1. work' = work /\ dir' = dir /\ (Living' => Living)
    BY <1>5 DEF Next, vars, PluginResolve, PluginCollect, PluginTimeout, SetupLogging,
       ListBackends, ConfigPaths, ReadTask, ResolveAgent, NoAgent, Refuse,
       BackendEnd, BackendTimeout, GiveUp, RetryFails, Answer, OrphanEnd, ChangeFiles, Living
  <2> QED
    BY <1>1, <2>1 DEF BackendRunsWhereTold
<1> QED
  BY <1>2, <1>3, <1>4, <1>5

-----------------------------------------------------------------------------
(***************************************************************************)
(* Which models file is found.                                             *)
(***************************************************************************)
LEMMA NextKeepsFiles == IInv /\ [Next]_vars => FilesFit'
<1> SUFFICES ASSUME IInv, [Next]_vars PROVE FilesFit'
  OBVIOUS
<1>1. ask' = ask /\ Cwd' = Cwd /\ WorkFits /\ ShownFits /\ PathsToldAreUsed
  BY NextKeepsAsk DEF IInv, FilesFit, Cwd
<1>2. CASE ConfigPaths
  <2>1. disk' = disk
    BY <1>2 DEF ConfigPaths
  <2>2. CASE Discovery(disk, Cwd, ask.cwd, ask.home).ok
    <3>1. shown' = Discovery(disk, Cwd, ask.cwd, ask.home).models /\ used' = 0
      BY <1>2, <2>2 DEF ConfigPaths
    <3> QED
      BY <1>1, <2>1, <3>1 DEF FilesFit, ShownFits, PathsToldAreUsed
  <2>3. CASE ~Discovery(disk, Cwd, ask.cwd, ask.home).ok
    <3>1. UNCHANGED <<shown, used, changed>>
      BY <1>2, <2>3 DEF ConfigPaths
    <3> QED
      BY <1>1, <2>1, <3>1 DEF FilesFit, ShownFits, PathsToldAreUsed
  <2> QED
    BY <2>2, <2>3
<1>3. CASE ResolveAgent
  <2>1. UNCHANGED <<disk, shown, changed>>
    BY <1>3 DEF ResolveAgent
  <2>2. used' = used \/ used' = Discovery(disk, work.path, ask.cwd, ask.home).models
    BY <1>3 DEF ResolveAgent
  <2>3. (ask.given => ask.path = Cwd) => work.path = Cwd
    BY <1>1 DEF WorkFits
  <2> QED
    BY <1>1, <2>1, <2>2, <2>3 DEF FilesFit, ShownFits, PathsToldAreUsed
<1>4. CASE ChangeFiles
  BY <1>1, <1>4 DEF ChangeFiles, FilesFit, ShownFits, PathsToldAreUsed
<1>5. CASE ~ConfigPaths /\ ~ResolveAgent /\ ~ChangeFiles
  <2>1. UNCHANGED <<disk, shown, used, changed>>
    BY <1>5 DEF Next, vars, PluginResolve, PluginCollect, PluginTimeout, ParseArgs, SetupLogging,
       ListBackends, ReadTask, NoAgent, Refuse, StartBackend,
       BackendEnd, BackendTimeout, GiveUp, RetryFails, Answer, OrphanEnd, NextCommand
  <2> QED
    BY <1>1, <2>1 DEF FilesFit, ShownFits, PathsToldAreUsed
<1> QED
  BY <1>2, <1>3, <1>4, <1>5

LEMMA NextKeeps == IInv /\ [Next]_vars => IInv'
BY NextKeepsAsk, NextKeepsWork, NextKeepsEnds, NextKeepsOrphans, NextKeepsPlace, NextKeepsFiles DEF IInv

-----------------------------------------------------------------------------
\* The invariant the others follow from.
THEOREM InvocationInvariant == Spec => []IInv
BY InitEstablishes, NextKeeps, PTL DEF Spec

\* Exit status 0, of wrangle or of the plugin, says that a backend ran the
\* task to its end and succeeded.
THEOREM SuccessIsEarned == Spec => []SuccessIsOfTheTask
<1>1. IInv => SuccessIsOfTheTask
  BY DEF IInv, EndsFit, ExitFits, ZeroFits, SuccessIsOfTheTask, Told
<1> QED
  BY <1>1, InvocationInvariant, PTL

\* A backend that nobody waits for any more runs only because the plugin killed
\* wrangle, because its command ended with an error, or because it was attached
\* to a persistent server and its task was run once more beside it.
THEOREM OrphansHaveACause == Spec => []OrphanHasACause
<1>1. ASSUME IInv, NEW o \in Outliving, pc # "killed", Status(o.command) # "one"
      PROVE  /\ o.attached /\ Attachable
             /\ (o.command = step /\ exit = "zero") => backend \in {"succeeded", "failed", "killed"}
  <2>1. OrphansFit /\ LeftFits
    BY <1>1 DEF IInv, EndsFit
  <2>2. CASE o \in orphans
    BY <1>1, <2>1, <2>2 DEF OrphansFit, Status
  <2>3. CASE o \notin orphans
    <3>1. Living /\ pc = "exited" /\ o.command = step
      BY <1>1, <2>3 DEF Outliving, Started
    <3> QED
      BY <1>1, <2>1, <3>1 DEF LeftFits, Status
  <2> QED
    BY <2>2, <2>3
<1>2. IInv => OrphanHasACause
  BY <1>1 DEF OrphanHasACause, Attachable
<1> QED
  BY <1>2, InvocationInvariant, PTL

\* The models file config-paths prints is the one the next command uses.
THEOREM ToldPathsAreUsed == Spec => []PathsToldAreUsed
<1>1. IInv => PathsToldAreUsed
  BY DEF IInv, FilesFit
<1> QED
  BY <1>1, InvocationInvariant, PTL

\* The backend works in the WORKDIR.
THEOREM BackendsRunWhereTold == Spec => []BackendRunsWhereTold
<1>1. IInv => BackendRunsWhereTold
  BY DEF IInv
<1> QED
  BY <1>1, InvocationInvariant, PTL

-----------------------------------------------------------------------------
(***************************************************************************)
(* discover_config: the two ways to name a directory.                      *)
(***************************************************************************)
\* The nearest .wrangle there is on the way up.
LEMMA NearestIsFound ==
    ASSUME NEW d, NEW p \in Path, NEW c \in Nat, NEW h
    PROVE  LET found == { l \in Walked(p, c, h) \cap Levels : d[l].there }
               near  == ProjectDir(d, p, c, h)
           IN  /\ found = {} => near = 0
               /\ found # {} => near \in found /\ \A k \in found : k <= near
<1> DEFINE found == { l \in Walked(p, c, h) \cap Levels : d[l].there }
<1>1. found \in SUBSET (0 .. Depth) /\ Depth \in Nat
  BY DepthAssumption DEF Levels
<1>2. ProjectDir(d, p, c, h) = IF found = {} THEN 0 ELSE CHOOSE l \in found : \A k \in found : k <= l
  BY DEF ProjectDir
<1> HIDE DEF found
<1>3. found # {} => \E l \in found : \A k \in found : k <= l
  BY <1>1, GreatestNatural
<1>4. found = {} => ProjectDir(d, p, c, h) = 0
  BY <1>2
<1>5. found # {} => /\ ProjectDir(d, p, c, h) \in found
                    /\ \A k \in found : k <= ProjectDir(d, p, c, h)
  BY <1>2, <1>3
<1> QED
  BY <1>4, <1>5 DEF found

\* A directory named from the current directory and the same one named from the
\* root: the walk from the first stops at the current directory and does not
\* know the home's .wrangle.  So the two find the same project, unless the first
\* finds the home's, or none; and where it finds none, what the other finds lies
\* above the current directory.
THEOREM FormOfPathMatters ==
    ASSUME NEW d, NEW c \in Levels, NEW h \in Levels,
           NEW r \in Path, ~r.absolute,
           NEW a \in Path, a.absolute, a.level = Here(r, c)
    PROVE  LET fromCwd  == ProjectDir(d, r, c, h)
               fromRoot == ProjectDir(d, a, c, h)
           IN  /\ fromCwd \notin {0, h} => fromRoot = fromCwd
               /\ fromCwd = 0 => fromRoot < c
               /\ fromCwd = h => fromRoot < h
<1> DEFINE F == { l \in Walked(r, c, h) \cap Levels : d[l].there }
           G == { l \in Walked(a, c, h) \cap Levels : d[l].there }
           f == ProjectDir(d, r, c, h)
           g == ProjectDir(d, a, c, h)
<1>1. Depth \in Nat /\ c \in Nat \ {0} /\ h \in Nat \ {0} /\ Levels = 1 .. Depth
  BY DepthAssumption DEF Levels
<1>2. /\ Here(r, c) \in Nat /\ c <= Here(r, c)
      /\ Walked(r, c, h) = c .. Here(r, c)
      /\ Walked(a, c, h) = (1 .. Here(r, c)) \ {h}
  BY <1>1 DEF Walked, Here, Path
<1>3. (F = {} => f = 0) /\ (F # {} => f \in F /\ \A k \in F : k <= f)
  BY <1>1, NearestIsFound
<1>4. (G = {} => g = 0) /\ (G # {} => g \in G /\ \A k \in G : k <= g)
  BY <1>1, NearestIsFound
<1>5. F \subseteq Nat \ {0} /\ G \subseteq Nat \ {0}
  BY <1>1
<1>6. \A l \in F : l # h => l \in G
  BY <1>1, <1>2
<1>7. \A l \in G : l # h /\ (c <= l => l \in F)
  BY <1>1, <1>2
<1>8. \A l \in F : c <= l
  BY <1>1, <1>2
<1> HIDE DEF F, G, f, g
<1>9. f \notin {0, h} => g = f
  <2>1. SUFFICES ASSUME f \notin {0, h} PROVE g = f
    OBVIOUS
  <2>2. f \in F /\ f \in G /\ \A k \in F : k <= f
    BY <1>3, <1>6, <2>1
  <2>3. g \in G /\ f <= g /\ c <= f
    BY <1>4, <1>8, <2>2
  <2>4. g \in F
    BY <1>1, <1>5, <1>7, <2>2, <2>3
  <2> QED
    BY <1>5, <2>2, <2>3, <2>4
<1>10. f = 0 => g < c
  <2>1. SUFFICES ASSUME f = 0 PROVE g < c
    OBVIOUS
  <2>2. F = {}
    BY <1>3, <1>5, <2>1
  <2>3. CASE G = {}
    BY <1>1, <1>4, <2>3
  <2>4. CASE G # {}
    <3>1. g \in G /\ ~(c <= g)
      BY <1>4, <1>7, <2>2, <2>4
    <3>2. g \in Nat
      BY <1>5, <3>1
    <3> QED
      BY <1>1, <3>1, <3>2
  <2> QED
    BY <2>3, <2>4
<1>11. f = h => g < h
  <2>1. SUFFICES ASSUME f = h PROVE g < h
    OBVIOUS
  <2>2. f \in F /\ \A k \in F : k <= h
    BY <1>1, <1>3, <2>1
  <2>3. CASE G = {}
    BY <1>1, <1>4, <2>3
  <2>4. CASE G # {}
    <3>1. g \in G /\ g # h
      BY <1>4, <1>7, <2>4
    <3>2. c <= g => g <= h
      BY <1>7, <2>2, <3>1
    <3>3. c <= h
      BY <1>8, <2>1, <2>2
    <3> QED
      BY <1>1, <1>5, <3>1, <3>2, <3>3
  <2> QED
    BY <2>3, <2>4
<1> QED
  BY <1>9, <1>10, <1>11 DEF f, g
=============================================================================
