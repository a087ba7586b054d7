----------------------------- MODULE Invocation -----------------------------
(***************************************************************************)
(* A user at a shell or the codex plugin (plugins/wrangle-codex) starts    *)
(* wrangle (wrangle-cli/src/main.rs), which starts a backend: what the     *)
(* exit status says, which configuration is used, where the backend runs,  *)
(* and what becomes of it when the plugin loses its patience.              *)
(*                                                                         *)
(* A user may run several commands, one after the other, while the files   *)
(* change.  Of the execution itself only what ParallelPromise and          *)
(* RequestDispatch leave visible is kept: a backend, its end, a fallback.  *)
(* A directory is a level, as in ConfigDiscovery.                          *)
(***************************************************************************)
EXTENDS ConfigDiscovery, Sequences

CONSTANTS Asks,     \* what is asked for, and where
          Disks     \* the .wrangle directories there may be

Runs     == {"task", "resume", "playbook", "parallel"}
Commands == Runs \cup {"backends", "config-paths"}

\* A task that begins with a dash is read as a flag of wrangle.
Flags == {"--version", "--quiet", "--unknown"}

Ask == [ plugin    : {"none", "run", "dry", "usage", "broken"},
         commands  : Seq(Commands),
         task      : {"text", "stdin", "missing"} \cup Flags,
         given     : BOOLEAN, path : Path,     \* WORKDIR
         cwd       : Levels, home : Levels,
         agent     : {"none", "builtin", "listed"},   \* listed in some models.json
         transport : {"one-shot", "persistent", "server"},
         backend   : {"codex", "opencode"},
         dryRun    : BOOLEAN ]

ASSUME AskAssumption == /\ Asks \subseteq Ask
                        /\ Disks \subseteq [Levels -> WrangleDir]

VARIABLES
    ask, disk,
    plugin,     \* where the plugin is, and its exit status
    step,       \* which command runs
    pc, exit,   \* wrangle: where it is, and its exit status
    work,       \* what it was told: the prompt and the directory
    shown,      \* the models file config-paths printed, or 0
    used,       \* the models file an agent came from since then, or 0
    backend,    \* the backend that is waited for
    dir,        \* the level it works in
    orphans,    \* the backends that still run and nobody waits for any more
    past,       \* history: how the earlier commands ended
    changed     \* history: the files changed since config-paths was asked

vars == <<ask, disk, plugin, step, pc, exit, work, shown, used, backend, dir, orphans, past, changed>>

Command == ask.commands[step]
Cwd     == [absolute |-> TRUE, level |-> ask.cwd]
NoWork  == [prompt |-> "none", given |-> FALSE, path |-> Cwd]

Init ==
    /\ ask \in Asks /\ disk \in Disks
    /\ plugin = IF ask.plugin = "none" THEN "absent" ELSE "resolve"
    /\ step = 1 /\ exit = "none"
    /\ pc = IF ask.plugin = "none" THEN "parse" ELSE "off"
    /\ work = NoWork /\ shown = 0 /\ used = 0
    /\ backend = "none" /\ dir = 0 /\ changed = FALSE
    /\ orphans = {} /\ past = <<>>

-----------------------------------------------------------------------------
(***************************************************************************)
(* The plugin                                                              *)
(***************************************************************************)
\* load_config, resolve_request, make_progress_file: a UsageError exits with
\* 2, a TOML error with a traceback, a dry run with 0.
PluginResolve ==
    /\ plugin = "resolve"
    /\ CASE ask.plugin = "usage"  -> plugin' = "two"  /\ UNCHANGED pc
         [] ask.plugin = "broken" -> plugin' = "one"  /\ UNCHANGED pc
         [] ask.plugin = "dry"    -> plugin' = "zero" /\ UNCHANGED pc
         [] OTHER                 -> plugin' = "waiting" /\ pc' = "parse"
    /\ UNCHANGED <<ask, disk, step, exit, work, shown, used, backend, dir, orphans, past, changed>>

\* mutant: whatever wrangle returned, an answer is a success
CollectAnything ==
    /\ plugin = "waiting" /\ pc = "exited"
    /\ plugin' = "zero"
    /\ UNCHANGED <<ask, disk, step, pc, exit, work, shown, used, backend, dir, orphans, past, changed>>

\* wrangle's exit status is the plugin's.
PluginCollect ==
    /\ plugin = "waiting" /\ pc = "exited"
    /\ plugin' = exit
    /\ UNCHANGED <<ask, disk, step, pc, exit, work, shown, used, backend, dir, orphans, past, changed>>

\* subprocess.run kills wrangle, which then drops no SignalGuard, and raises:
\* a traceback, no summary.  Every wait outside wrangle's own timeout, and a
\* second attempt after the first took its time, ends here.
PluginTimeout ==
    /\ plugin = "waiting" /\ pc # "exited"
    /\ plugin' = "one" /\ pc' = "killed"
    /\ UNCHANGED <<ask, disk, step, exit, work, shown, used, backend, dir, orphans, past, changed>>

-----------------------------------------------------------------------------
(***************************************************************************)
(* wrangle: main                                                           *)
(***************************************************************************)
Exit(status) == pc' = "exited" /\ exit' = status

\* Cli::parse.  The plugin puts no "--" before the task: a flag is taken for
\* one, and then the directory that follows is the task.
ParseArgs ==
    /\ pc = "parse"
    /\ \/ Command \in Runs /\ ask.task = "--version" /\ Exit("zero") /\ UNCHANGED work
       \/ Command \in Runs /\ ask.task = "--unknown" /\ Exit("two") /\ UNCHANGED work
       \/ /\ Command \in Runs /\ ask.task = "--quiet"
          /\ pc' = "logging"
          /\ work' = [NoWork EXCEPT !.prompt = IF ask.given THEN "directory" ELSE "missing"]
          /\ UNCHANGED exit
       \/ /\ Command \in Runs => ask.task \notin Flags
          /\ pc' = "logging"
          /\ work' = [ prompt |-> ask.task, given |-> ask.given,
                       path |-> IF ask.given THEN ask.path ELSE Cwd ]
          /\ UNCHANGED exit
    /\ UNCHANGED <<ask, disk, plugin, step, shown, used, backend, dir, orphans, past, changed>>

\* Logging discovers the configuration of the current directory, whatever the
\* command and the WORKDIR: settings that do not parse, or a log directory that
\* cannot be made, end every command.
SetupLogging ==
    /\ pc = "logging"
    /\ \/ Discovery(disk, Cwd, ask.cwd, ask.home).ok /\ pc' = "dispatch" /\ UNCHANGED exit
       \/ Exit("one")
    /\ UNCHANGED <<ask, disk, plugin, step, work, shown, used, backend, dir, orphans, past, changed>>

ListBackends ==
    /\ pc = "dispatch" /\ Command = "backends" /\ Exit("zero")
    /\ UNCHANGED <<ask, disk, plugin, step, work, shown, used, backend, dir, orphans, past, changed>>

ConfigPaths ==
    /\ pc = "dispatch" /\ Command = "config-paths"
    /\ LET found == Discovery(disk, Cwd, ask.cwd, ask.home) IN
       IF found.ok
       THEN Exit("zero") /\ shown' = found.models /\ used' = 0 /\ changed' = FALSE
       ELSE Exit("one") /\ UNCHANGED <<shown, used, changed>>
    /\ UNCHANGED <<ask, disk, plugin, step, work, backend, dir, orphans, past>>

\* The task, or the list of tasks: what stdin holds may be empty, or no task.
\* A playbook takes its text as it is, and its dry run resolves nothing.
ReadTask ==
    /\ pc = "dispatch" /\ Command \in Runs
    /\ \/ Command = "task" /\ work.prompt = "missing" /\ Exit("one")
       \/ Command \in {"task", "resume"} /\ work.prompt = "stdin" /\ Exit("one")
       \/ Command = "parallel" /\ Exit("one")
       \/ Command = "playbook" /\ ask.dryRun /\ Exit("zero")
       \/ /\ Command = "task" => work.prompt # "missing"
          /\ Command = "playbook" => ~ask.dryRun
          /\ pc' = "resolve" /\ UNCHANGED exit
    /\ UNCHANGED <<ask, disk, plugin, step, work, shown, used, backend, dir, orphans, past, changed>>

\* build_playbook: a playbook without an agent is for "develop".
Agent == IF Command = "playbook" /\ ask.agent = "none" THEN "builtin" ELSE ask.agent

Dispatch == IF ask.dryRun THEN Exit("zero") ELSE pc' = "run" /\ UNCHANGED exit

\* mutant: without a WORKDIR the home's agents file serves
ResolveAtHome ==
    /\ pc = "resolve" /\ Agent # "none"
    /\ Dispatch
    /\ used' = IF work.given THEN Discovery(disk, work.path, ask.cwd, ask.home).models
                             ELSE ask.home
    /\ UNCHANGED <<ask, disk, plugin, step, work, shown, backend, dir, orphans, past, changed>>

\* resolve_agent_for_runtime_config discovers the configuration again, from
\* the WORKDIR as it was given.
ResolveAgent ==
    /\ pc = "resolve" /\ Agent # "none"
    /\ LET found == Discovery(disk, work.path, ask.cwd, ask.home)
           holds == disk[found.models].models IN
       IF found.ok /\ holds # "bad" /\ (Agent = "listed" => holds = "good")
       THEN Dispatch /\ used' = found.models
       ELSE Exit("one") /\ UNCHANGED used
    /\ UNCHANGED <<ask, disk, plugin, step, work, shown, backend, dir, orphans, past, changed>>

NoAgent ==
    /\ pc = "resolve" /\ Agent = "none"
    /\ Dispatch
    /\ UNCHANGED <<ask, disk, plugin, step, work, shown, used, backend, dir, orphans, past, changed>>

\* Whatever RequestDispatch refuses, and a backend or a server that does not
\* start: an error, nothing on stdout.
Refuse ==
    /\ pc \in {"resolve", "run"} /\ backend = "none" /\ Exit("one")
    /\ UNCHANGED <<ask, disk, plugin, step, work, shown, used, backend, dir, orphans, past, changed>>
-----------------------------------------------------------------------------
(***************************************************************************)
(* Where the backend runs                                                  *)
(***************************************************************************)
\* mutant: an absolute WORKDIR is taken once more too
TwiceAnyway(attached) ==
    Here(work.path, ask.cwd) + (IF ask.backend = "codex" THEN 1 ELSE 0)

\* Every command is started with current_dir(WORKDIR).  A relative WORKDIR is
\* taken from there once more by codex's -C and by the attached opencode's
\* --dir; the server was started in it, and goes there itself.
WorksIn(attached) ==
    LET below == IF work.path.absolute THEN 0 ELSE work.path.level
        codex == IF ask.backend = "codex" THEN below ELSE 0
    IN  Here(work.path, ask.cwd) +
        (IF ask.transport = "server" THEN below + below + codex
         ELSE IF attached THEN below ELSE codex)

\* A directory that is not there is a refusal; persistent is opencode's only.
StartBackend ==
    /\ pc = "run" /\ backend \in {"none", "retry"}
    /\ ask.transport = "persistent" => ask.backend = "opencode"
    /\ \E attached \in BOOLEAN :
          /\ attached => ask.transport = "persistent" /\ backend = "none"
          /\ WorksIn(attached) \in Levels
          /\ dir' = WorksIn(attached)
          /\ backend' = IF attached THEN "attached" ELSE "alive"
    /\ UNCHANGED <<ask, disk, plugin, step, pc, exit, work, shown, used, orphans, past, changed>>

Living == backend \in {"attached", "alive"}

\* The backend ends, whether or not wrangle still waits for it.
BackendEnd ==
    /\ Living /\ backend' \in {"succeeded", "failed"}
    /\ UNCHANGED <<ask, disk, plugin, step, pc, exit, work, shown, used, dir, orphans, past, changed>>

\* run_subprocess's own timeout kills the backend and answers.
BackendTimeout ==
    /\ pc = "run" /\ Living /\ backend' = "killed"
    /\ UNCHANGED <<ask, disk, plugin, step, pc, exit, work, shown, used, dir, orphans, past, changed>>

Started(attached) == [command |-> step, attached |-> attached]

\* An error while the backend runs: of stdin, of its output, of the log, of
\* the server's connection.  Nothing stops the backend; an attached run is made
\* again, one-shot, beside it.
GiveUp ==
    /\ pc = "run" /\ Living
    /\ IF backend = "attached"
       THEN backend' = "retry" /\ orphans' = orphans \cup {Started(TRUE)} /\ UNCHANGED <<pc, exit>>
       ELSE Exit("one") /\ UNCHANGED <<backend, orphans>>
    /\ UNCHANGED <<ask, disk, plugin, step, work, shown, used, dir, past, changed>>

RetryFails ==
    /\ pc = "run" /\ backend = "retry" /\ Exit("one")
    /\ UNCHANGED <<ask, disk, plugin, step, work, shown, used, backend, dir, orphans, past, changed>>

\* mutant: the answer is printed when the backend's output ends
AnswerEarly ==
    /\ pc = "run" /\ backend \in {"alive", "attached", "succeeded", "failed", "killed"}
    /\ Exit(IF Living \/ backend = "succeeded" \/ Command = "parallel" THEN "zero" ELSE "one")
    /\ UNCHANGED <<ask, disk, plugin, step, work, shown, used, backend, dir, orphans, past, changed>>

\* print_or_run: the result is printed; a task that failed is exit status 1,
\* but a parallel call exits with 0 whatever became of its tasks.
Answer ==
    /\ pc = "run" /\ backend \in {"succeeded", "failed", "killed"}
    /\ Exit(IF backend = "succeeded" \/ Command = "parallel" THEN "zero" ELSE "one")
    /\ UNCHANGED <<ask, disk, plugin, step, work, shown, used, backend, dir, orphans, past, changed>>

\* A backend that wrangle left ends too, while its second attempt, or a later
\* command, runs.
OrphanEnd ==
    /\ \E o \in orphans : orphans' = orphans \ {o}
    /\ UNCHANGED <<ask, disk, plugin, step, pc, exit, work, shown, used, backend, dir, past, changed>>

\* What outlives the wait for it: the orphans, and the backend wrangle left
\* when it ended.
Outliving ==
    orphans \cup (IF Living /\ pc \in {"exited", "killed"}
                  THEN {Started(backend = "attached")} ELSE {})

-----------------------------------------------------------------------------
(* The user: the next command, an edit of the files.                       *)
NextCommand ==
    /\ plugin = "absent" /\ pc = "exited" /\ step < Len(ask.commands)
    /\ step' = step + 1 /\ pc' = "parse" /\ exit' = "none" /\ work' = NoWork
    /\ backend' = "none" /\ dir' = 0
    /\ orphans' = Outliving /\ past' = Append(past, exit)
    /\ UNCHANGED <<ask, disk, plugin, shown, used, changed>>

ChangeFiles ==
    /\ step < Len(ask.commands) /\ disk' \in Disks \ {disk} /\ changed' = TRUE
    /\ UNCHANGED <<ask, plugin, step, pc, exit, work, shown, used, backend, dir, orphans, past>>

Next ==
    \/ PluginResolve \/ PluginCollect \/ PluginTimeout
    \/ ParseArgs \/ SetupLogging \/ ListBackends \/ ConfigPaths \/ ReadTask
    \/ ResolveAgent \/ NoAgent \/ Refuse
    \/ StartBackend \/ BackendEnd \/ BackendTimeout \/ GiveUp \/ RetryFails \/ Answer
    \/ OrphanEnd
    \/ NextCommand \/ ChangeFiles

Spec == Init /\ [][Next]_vars

-----------------------------------------------------------------------------
Told == ask.plugin \in {"none", "run"} /\ Command \in Runs /\ ~ask.dryRun /\ ask.task \notin Flags

\* Exit status 0 of wrangle, or of the plugin, says that a backend ran the task
\* to its end and succeeded: not that it was killed, given up, or never
\* started.  (A parallel call, and a task taken for a flag, promise less.)
SuccessIsOfTheTask ==
    (Told /\ Command # "parallel" /\ "zero" \in {plugin, exit})
        => backend = "succeeded"

Status(command) == IF command = step THEN exit ELSE past[command]

\* A backend that nobody waits for any more, whichever command started it, still
\* runs for one of three causes: the plugin killed wrangle; its command ended
\* with an error; or it was attached to a persistent server and given up, and
\* its task was run once more, one-shot.  In the last case the command may well
\* end with 0: then the second backend has ended, and the first still works on
\* the same task.
OrphanHasACause ==
    \A o \in Outliving :
        \/ pc = "killed" \/ Status(o.command) = "one"
        \/ /\ o.attached /\ ask.transport = "persistent" /\ ask.backend = "opencode"
           /\ (o.command = step /\ exit = "zero") => backend \in {"succeeded", "failed", "killed"}

\* The models file that config-paths prints is the one the next command, run
\* in the same directory, takes its agent from.  (A relative WORKDIR may find
\* another, and the files may change.)
PathsToldAreUsed ==
    (/\ shown # 0 /\ used # 0 /\ ~changed
     /\ ask.given => ask.path = Cwd)
        => used = shown

\* The backend works in the WORKDIR, unless that is a relative path below the
\* current directory and a second change of directory is asked for.
BackendRunsWhereTold ==
    (/\ Living
     /\ \/ work.path.absolute \/ work.path.level = 0
        \/ ask.transport = "one-shot" /\ ask.backend # "codex")
        => dir = Here(work.path, ask.cwd)
=============================================================================
