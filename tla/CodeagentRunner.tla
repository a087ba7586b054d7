--------------------------- MODULE CodeagentRunner ---------------------------
(***************************************************************************)
(* The upstream codeagent-wrapper (resources/codewrapper-agent-rs): main,  *)
(* its scheduler for `--parallel`, the run of a task over a backend        *)
(* process, and its signal handler.  wrangle's own ParallelRunner and      *)
(* Subprocess descend from it; the two programs promise different things.  *)
(*                                                                         *)
(* Tasks are indices into the list.  The parser hears lines of a kind: an  *)
(* event, one with a session id, or one it drops.  What a process wrote    *)
(* may be heard after it ended.                                            *)
(***************************************************************************)
EXTENDS CodeagentConfig, Lists, FiniteSets

CONSTANTS Ids,     \* names in task lists
          Calls    \* command lines, with the machine they meet

Modes == {"new", "resume", "parallel"}

TaskSpec == [ id : Ids, deps : SUBSET Ids,
              backend : STRING, model : STRING, agent : STRING, promptFile : STRING,
              effort : STRING, skip : BOOLEAN, minimalEnv : BOOLEAN,
              session : STRING, dir : STRING, text : STRING ]

\* Without --parallel there is at most one task, and it waits for none.
ASSUME CallsAssumption ==
    \A c \in Calls :
        /\ c.mode \in Modes /\ c.cli \in Options /\ c.tasks \in Seq(TaskSpec)
        /\ c.mode # "parallel" => /\ Len(c.tasks) <= 1
                                 /\ \A i \in DOMAIN c.tasks : c.tasks[i].deps = {}
        /\ IsModels(c.models) /\ c.installed \subseteq Backends
        /\ c.workers \in Nat /\ c.lines \in Nat
        /\ {c.parses, c.cwdExists, c.forks, c.garbles, c.interrupted} \subseteq BOOLEAN

VARIABLES
    call,
    pc,         \* where main is
    exit,       \* the exit status: "none" while the program runs
    worker,     \* where the run of each task is
    proc,       \* the backend of each task; "mute" has closed its stdout
    helper,     \* whether a process it left behind holds its pipes
    outcome,    \* the TaskResult of each task; "error" is the default one
    heard,      \* the events and the session id of each result
    inbox,      \* the channel to the scheduler
    results,    \* the task whose result each id has, or 0
    report,     \* the tasks whose results are printed
    signalled,  \* SIGNAL_RECEIVED
    struck      \* the tasks whose guard signalled a backend that was alive

mainVars == <<pc, exit, results, report>>
procs == <<proc, helper>>
vars  == <<call, mainVars, worker, procs, outcome, heard, inbox, signalled, struck>>

Tasks   == DOMAIN call.tasks
Living  == {"running", "mute"}
Ended   == {"success", "failure", "killed"}
Pending == { i \in Tasks : worker[i] = "pending" }
Running == { i \in Tasks : worker[i] \notin {"pending", "received"} }
Parallel == call.mode = "parallel"

TypeOK ==
    /\ call \in Calls
    /\ pc \in {"start", "single", "fill", "receive", "exited"}
    /\ exit \in {"none", "zero", "one", "panic", "signal"} /\ (pc = "exited" <=> exit # "none")
    /\ worker \in [Tasks -> { "pending", "launch", "stdin", "parse", "wait",
                              "stderr", "sent", "received", "panicked" }]
    /\ proc \in [Tasks -> {"none"} \cup Living \cup Ended]
    /\ helper \in [Tasks -> BOOLEAN]
    /\ outcome \in [Tasks -> {"none", "error"} \cup Ended]
    /\ heard \in [Tasks -> [events : 0 .. call.lines, session : BOOLEAN]]
    /\ inbox \in Seq(Tasks) /\ results \in [Ids -> Tasks \cup {0}]
    /\ report \in Seq(Tasks)
    /\ signalled \in BOOLEAN /\ struck \subseteq Tasks

Init ==
    /\ call \in Calls
    /\ pc = "start" /\ exit = "none"
    /\ worker = [i \in Tasks |-> "pending"]
    /\ proc = [i \in Tasks |-> "none"] /\ helper = [i \in Tasks |-> FALSE]
    /\ outcome = [i \in Tasks |-> "none"]
    /\ heard = [i \in Tasks |-> [events |-> 0, session |-> FALSE]]
    /\ inbox = <<>> /\ results = [id \in Ids |-> 0] /\ report = <<>>
    /\ signalled = FALSE /\ struck = {}

-----------------------------------------------------------------------------
(***************************************************************************)
(* main and run_parallel_tasks                                             *)
(***************************************************************************)
Exit(code) == pc' = "exited" /\ exit' = code

\* The command line and, for "-" (a text that is "blank" came from there) and
\* --parallel, all of stdin are read first.  A channel for no workers panics.
Begin ==
    /\ pc = "start"
    /\ \/ /\ \/ Tasks = {} /\ ~Parallel
             \/ ~Parallel /\ \E i \in Tasks : call.tasks[i].text = "blank"
             \/ call.mode = "resume" /\ \E i \in Tasks : call.tasks[i].session = "invalid"
             \/ Parallel /\ ~call.parses
          /\ Exit("one") /\ UNCHANGED <<report, worker>>
       \/ /\ Parallel /\ call.parses /\ call.workers = 0
          /\ Exit("panic") /\ UNCHANGED <<report, worker>>
       \/ /\ Parallel /\ call.parses /\ call.workers > 0 /\ Tasks = {}
          /\ Exit("zero") /\ UNCHANGED <<report, worker>>
       \/ /\ Parallel /\ call.parses /\ call.workers > 0 /\ Tasks # {}
          /\ pc' = "fill" /\ UNCHANGED <<exit, report, worker>>
       \/ /\ ~Parallel /\ Tasks # {}
          /\ call.tasks[1].text # "blank"
          /\ call.mode = "resume" => call.tasks[1].session # "invalid"
          /\ pc' = "single" /\ worker' = [worker EXCEPT ![1] = "launch"]
          /\ UNCHANGED <<exit, report>>
    /\ UNCHANGED <<call, procs, outcome, heard, inbox, results, signalled, struck>>

\* run_task: its exit status is that of its one result.
ExitSingle ==
    /\ pc = "single" /\ worker[1] = "sent"
    /\ Exit(IF outcome[1] = "success" THEN "zero" ELSE "one")
    /\ report' = IF outcome[1] = "error" THEN <<>> ELSE <<1>>
    /\ UNCHANGED <<call, worker, procs, outcome, heard, inbox, results, signalled, struck>>

\* mutant: a dependency that failed does not count
ReadyAfterSuccess(i) ==
    \A d \in call.tasks[i].deps : results[d] # 0 /\ outcome[results[d]] = "success"

Ready(i) == \A d \in call.tasks[i].deps : results[d] # 0

HasCapacity == Cardinality(Running) < call.workers

\* The first pending task whose dependencies all have a result, good or bad.
Spawn ==
    /\ pc = "fill" /\ HasCapacity
    /\ \E i \in Pending :
          /\ Ready(i) /\ \A j \in Pending : j < i => ~Ready(j)
          /\ worker' = [worker EXCEPT ![i] = "launch"]
    /\ UNCHANGED <<call, mainVars, procs, outcome, heard, inbox, signalled, struck>>

StopFilling ==
    /\ pc = "fill" /\ Running # {}
    /\ ~HasCapacity \/ \A i \in Pending : ~Ready(i)
    /\ pc' = "receive"
    /\ UNCHANGED <<call, exit, results, report, worker, procs, outcome, heard, inbox,
                   signalled, struck>>

\* mutant: the loop breaks without asking whether anything runs, and spins
SpinOnCircular ==
    /\ pc = "fill" /\ Running = {} /\ \A i \in Pending : ~Ready(i)
    /\ UNCHANGED vars

\* "Circular dependency detected": every result so far is dropped.
ReportCircular ==
    /\ pc = "fill" /\ Running = {} /\ \A i \in Pending : ~Ready(i)
    /\ Exit("one")
    /\ UNCHANGED <<call, results, report, worker, procs, outcome, heard, inbox,
                   signalled, struck>>

FirstPlaces ==
    { i \in Tasks : \A j \in Tasks : call.tasks[j].id = call.tasks[i].id => i <= j }

\* Taken out of the map in the order of the list: an id that occurs twice has
\* one result, at its first place.
Collected(res) ==
    LET Firsts == Filter([i \in Tasks |-> i], FirstPlaces)
    IN  [p \in DOMAIN Firsts |-> res[call.tasks[Firsts[p]].id]]

\* mutant: one success is enough
AnySucceeded(list) == \E p \in DOMAIN list : outcome[list[p]] = "success"

AllSucceeded(list) == \A p \in DOMAIN list : outcome[list[p]] = "success"

Receive ==
    /\ pc = "receive" /\ inbox # <<>>
    /\ inbox' = Tail(inbox)
    /\ worker' = [worker EXCEPT ![Head(inbox)] = "received"]
    /\ results' = [results EXCEPT ![call.tasks[Head(inbox)].id] = Head(inbox)]
    /\ IF Pending = {} /\ Running = {Head(inbox)}
       THEN /\ report' = Collected(results')
            /\ Exit(IF AllSucceeded(report') THEN "zero" ELSE "one")
       ELSE pc' = "fill" /\ UNCHANGED <<exit, report>>
    /\ UNCHANGED <<call, procs, outcome, heard, signalled, struck>>

-----------------------------------------------------------------------------
(***************************************************************************)
(* run_single_task and TaskExecutor::run                                   *)
(***************************************************************************)
Config(i) == IF Parallel THEN TaskConfig(call.tasks[i], call.cli)
                         ELSE CliConfig(call.cli, call.tasks[i])

Final(i)   == Resolved(Config(i), call.models)
Backend(i) == Selected(Final(i).backend, call.installed)

\* The command of task i, if it gets as far as a spawn.
Command(i) == CommandOf(Final(i), Backend(i))

Launchable(i) ==
    /\ Resolvable(Config(i), call.models)
    /\ Backend(i) \in call.installed
    /\ TargetReadable(Final(i))
    /\ call.cwdExists \/ Config(i).dir # "none"

Step(i, from, to) ==
    /\ pc # "exited" /\ worker[i] = from
    /\ worker' = [worker EXCEPT ![i] = to]

\* Dropping the SignalGuard: SIGTERM, if a signal came in, to a process that
\* is there or to its number.
DropGuard(i) ==
    struck' = IF signalled /\ proc[i] \in Living THEN struck \cup {i} ELSE struck

\* The result: given to main, or sent to the channel, where an Err has become
\* the default result.
Finish(i, result) ==
    /\ outcome' = [outcome EXCEPT ![i] = result]
    /\ inbox' = IF Parallel THEN Append(inbox, i) ELSE inbox

NoPlaceToRun(i) == ~call.cwdExists /\ Parallel /\ Config(i).dir = "none"

\* Any spawn may fail too.
FailToLaunch(i) ==
    /\ ~NoPlaceToRun(i)
    /\ Step(i, "launch", "sent") /\ Finish(i, "error")
    /\ UNCHANGED <<call, mainVars, procs, heard, signalled, struck>>

\* current_dir().unwrap() in a task of a list: nothing is sent, ever.
Panic(i) ==
    /\ NoPlaceToRun(i)
    /\ Step(i, "launch", "panicked")
    /\ UNCHANGED <<call, mainVars, procs, outcome, heard, inbox, signalled, struck>>

\* The same panic in a release build (panic = "abort"): the program ends at
\* once, and the backends that run go on by themselves.
PanicAborts(i) ==
    /\ pc # "exited" /\ worker[i] = "launch" /\ NoPlaceToRun(i)
    /\ Exit("panic")
    /\ UNCHANGED <<call, worker, procs, outcome, heard, inbox, results, report,
                   signalled, struck>>

\* The backend may leave a helper behind that holds its output pipes.
Launch(i) ==
    /\ Launchable(i)
    /\ Step(i, "launch", IF UsesStdin(Final(i)) THEN "stdin" ELSE "parse")
    /\ proc' = [proc EXCEPT ![i] = "running"]
    /\ helper' = [helper EXCEPT ![i] = call.forks]
    /\ UNCHANGED <<call, mainVars, outcome, heard, inbox, signalled, struck>>

\* write_all waits until the backend has read enough, outside the timeout.
WriteStdin(i) ==
    /\ Step(i, "stdin", "parse")
    /\ UNCHANGED <<call, mainVars, procs, outcome, heard, inbox, signalled, struck>>

\* The backend closed its stdin or ended: `?` returns, and the process, if it
\* lives, goes on by itself.
FailStdin(i) ==
    /\ Step(i, "stdin", "sent") /\ Finish(i, "error") /\ DropGuard(i)
    /\ UNCHANGED <<call, mainVars, procs, heard, signalled>>

\* next_event: a line that is no JSON, too long, or not UTF-8 changes nothing.
Hear(i) ==
    /\ pc # "exited" /\ worker[i] = "parse"
    /\ heard[i].events < call.lines
    /\ \E announced \in BOOLEAN :
          heard' = [heard EXCEPT ![i].events = @ + 1, ![i].session = @ \/ announced]
    /\ UNCHANGED <<call, mainVars, worker, procs, outcome, inbox, signalled, struck>>

EndOfOutput(i) ==
    /\ proc[i] # "running" /\ ~helper[i]
    /\ Step(i, "parse", "wait")
    /\ UNCHANGED <<call, mainVars, procs, outcome, heard, inbox, signalled, struck>>

\* child.kill() also waits for the process, so what is left is its helper.
Timeout(i) ==
    /\ Step(i, "parse", "wait")
    /\ proc' = [proc EXCEPT ![i] = IF @ \in Living THEN "killed" ELSE @]
    /\ UNCHANGED <<call, mainVars, helper, outcome, heard, inbox, signalled, struck>>

\* mutant: the exit status is not waited for
SkipWait(i) ==
    /\ Step(i, "wait", "stderr")
    /\ UNCHANGED <<call, mainVars, procs, outcome, heard, inbox, signalled, struck>>

\* child.wait(), outside the timeout: a process that only closed its stdout is
\* waited for without end.
Wait(i) ==
    /\ proc[i] \in Ended
    /\ Step(i, "wait", "stderr")
    /\ UNCHANGED <<call, mainVars, procs, outcome, heard, inbox, signalled, struck>>

\* The stderr task ends when nobody holds the pipe, or at bytes that are not
\* UTF-8.
JoinStderr(i) ==
    /\ ~helper[i] \/ call.garbles
    /\ Step(i, "stderr", "sent") /\ Finish(i, proc[i]) /\ DropGuard(i)
    /\ UNCHANGED <<call, mainVars, procs, heard, signalled>>

-----------------------------------------------------------------------------
(***************************************************************************)
(* Outside: the backends, their helpers, and whoever sends a signal        *)
(***************************************************************************)
CloseStdout(i) ==
    /\ proc[i] = "running" /\ proc' = [proc EXCEPT ![i] = "mute"]
    /\ UNCHANGED <<call, mainVars, worker, helper, outcome, heard, inbox, signalled, struck>>

BackendEnd(i) ==
    /\ proc[i] \in Living
    /\ \E status \in {"success", "failure"} : proc' = [proc EXCEPT ![i] = status]
    /\ UNCHANGED <<call, mainVars, worker, helper, outcome, heard, inbox, signalled, struck>>

HelperEnd(i) ==
    /\ helper[i] /\ helper' = [helper EXCEPT ![i] = FALSE]
    /\ UNCHANGED <<call, mainVars, worker, proc, outcome, heard, inbox, signalled, struck>>

\* The first launch installs the handler; before it a signal ends the program.
Signal ==
    /\ pc # "exited" /\ call.interrupted /\ ~signalled
    /\ signalled' = TRUE
    /\ IF \E i \in Tasks : proc[i] # "none"
       THEN UNCHANGED <<pc, exit>>
       ELSE Exit("signal")
    /\ UNCHANGED <<call, worker, procs, outcome, heard, inbox, results, report, struck>>

-----------------------------------------------------------------------------
Main == Begin \/ ExitSingle \/ Spawn \/ StopFilling \/ ReportCircular \/ Receive

Run(i) == \/ FailToLaunch(i) \/ Panic(i) \/ Launch(i) \/ WriteStdin(i) \/ FailStdin(i)
          \/ Hear(i) \/ EndOfOutput(i) \/ Timeout(i) \/ Wait(i) \/ JoinStderr(i)

Outside(i) == CloseStdout(i) \/ BackendEnd(i) \/ HelperEnd(i)

Next == Main \/ Signal \/ \E i \in Tasks : Run(i) \/ PanicAborts(i) \/ Outside(i)

Spec == Init /\ [][Next]_vars

\* A run goes on when it can without its backend: it launches or fails to, its
\* timer fires, and a dead process neither blocks a write nor a wait.  Nothing
\* is assumed of backends, helpers and signals; of the caller, that it closes
\* the stdin that Begin reads to its end.
Unhindered(i) == \/ FailToLaunch(i) \/ Panic(i) \/ Launch(i)
                 \/ proc[i] \notin Living /\ (WriteStdin(i) \/ FailStdin(i))
                 \/ Timeout(i) \/ Wait(i) \/ JoinStderr(i)

Places == UNION { DOMAIN c.tasks : c \in Calls }

FairSpec == /\ Spec /\ WF_vars(Main)
            /\ \A i \in Places : WF_vars(i \in Tasks /\ Unhindered(i))

-----------------------------------------------------------------------------
Unique == \A i, j \in Tasks : call.tasks[i].id = call.tasks[j].id => i = j

\* While the backend of a dependency lives, a dependent's backend starts only
\* if the dependency was given up at its stdin: its Err became a result like
\* any other (`unwrap_or_default`), and nothing stopped its process.
LivingDependencyWasAbandoned ==
    \A i, j \in Tasks :
        (Unique /\ proc[i] # "none" /\ call.tasks[j].id \in call.tasks[i].deps)
            => /\ worker[j] = "received"
               /\ proc[j] \in Living => outcome[j] = "error"

\* Exit status 0 means that each id has a result and that each result printed
\* is of a backend that ended with success.  With an id used twice it does not
\* mean that every task succeeded: the map keeps the last result.
ExitZeroIsEarned ==
    (pc = "exited" /\ exit = "zero") =>
        /\ \A p \in DOMAIN report : proc[report[p]] = "success"
        /\ { call.tasks[report[p]].id : p \in DOMAIN report } = { call.tasks[i].id : i \in Tasks }
        /\ Len(report) = Cardinality({ call.tasks[i].id : i \in Tasks })
        /\ Unique => \A i \in Tasks : report[i] = i

\* Unlike wrangle's loop, this one reports a circular dependency only when it
\* is true: each pending task waits for an id that only pending tasks have, or
\* none (an unknown id is reported as a circle too).
CircularIsTrue ==
    (pc = "exited" /\ Parallel /\ exit = "one" /\ Pending # {} /\ call.parses) =>
        \A i \in Pending : \E d \in call.tasks[i].deps :
            \A j \in Tasks : call.tasks[j].id = d => j \in Pending

FirstGiven(values) ==
    LET given == { r \in DOMAIN values : values[r] # "none" }
    IN  IF given = {} THEN "none" ELSE values[Min(given)]

NothingBlank(i) ==
    \A field \in {"backend", "model", "agent", "promptFile", "effort"} :
        "blank" \notin {call.tasks[i][field], call.cli[field]}

\* README.md:100-108: a task's fields come before the flags, the flags before
\* the preset, and a backend is looked for last.  (The prompt file is the
\* exception: a task in a list does not fall back on --prompt-file.)  Stated
\* where no field or flag is blank, for a blank one hides what comes after it.
CommandFollowsPrecedence ==
    \A i \in Tasks : (proc[i] # "none" /\ NothingBlank(i)) =>
        LET Own(field)   == IF Parallel THEN call.tasks[i][field] ELSE "none"
            agent        == FirstGiven(<<Own("agent"), call.cli.agent>>)
            preset       == IF agent = "none" THEN NoPreset ELSE Presets(call.models)[agent]
            First(field) == FirstGiven(<<Own(field), call.cli[field], preset[field]>>)
            prompt       == FirstGiven(<< IF Parallel THEN Own("promptFile")
                                                      ELSE call.cli.promptFile,
                                          preset.promptFile, call.tasks[i].text >>)
            command      == Command(i)
        IN  /\ command.model = First("model") /\ command.prompt = prompt
            /\ command.backend = First("backend")
                  \/ /\ First("backend") = "none"
                     /\ \A r \in DOMAIN Preference : Preference[r] \in call.installed
                           => \E q \in 1 .. r : Preference[q] = command.backend
            /\ command.backend = "codex" => command.effort = First("effort")

\* The guard's SIGTERM finds a living backend only on the one path that gives
\* the backend up; on every other the process was waited for before the guard
\* is dropped, so that a signal stops neither a backend nor the program.
SignalFindsOnlyTheAbandoned == \A i \in struck : signalled /\ outcome[i] = "error"

\* What the program may wait for without end: a panicked worker's message (not
\* in a release build), a backend that does not read, one that lives on after closing its stdout, or
\* a helper that holds stderr.
Held(i) == \/ worker[i] = "panicked"
           \/ worker[i] \in {"stdin", "wait"} /\ proc[i] \in Living
           \/ worker[i] = "stderr" /\ helper[i]

\* The program ends unless from some point on it is held for ever; the timeout
\* alone, which covers only the reading of stdout, does not see to that.
ReturnsUnlessHeld == <>[](pc = "exited" \/ \E i \in Tasks : Held(i))
=============================================================================
