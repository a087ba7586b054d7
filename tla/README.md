# wrangle: verification

wrangle runs coding agents that are command line programs (codex, claude,
gemini, opencode, qwen) or an HTTP API on behalf of a caller: one request, or a
list of tasks with dependencies. This directory holds TLA+ models of it, what
TLC checks of them, and what TLAPS proves. Paths below are relative to `src/`;
`runner` is `crates/wrangle-runner/src/lib.rs`, `transport/` is
`crates/wrangle-transport/src/`, `core/` is `crates/wrangle-core/src/`, `main`
is `crates/wrangle-cli/src/main.rs`, `upstream/` is
`resources/codewrapper-agent-rs/src/`.

## 1. Inventory

| Part | Code | State it keeps | Operations |
|---|---|---|---|
| Parallel scheduler | `runner:641-736` | `pending` Vec, `JoinSet`, `results` map | `execute_parallel` |
| Task validation | `core/config.rs` | none | `ensure_parallel_tasks`, `to_request` |
| Task graph | `core/task_graph.rs` | colours, path; in-degrees | `detect_cycle`, `topological_phases` |
| Dispatch | `runner:407-634`, backend crates, `core/agent_config.rs` | `OnceLock` of the probe | `preview_*`, `execute_request`, `select_backend`, `ensure_request_supported` |
| One-shot process | `transport/subprocess.rs`, `parser.rs`, `signal.rs` | child, pipes, events, session, signal flag | `run_subprocess` |
| Progress file | `transport/subprocess.rs:50-90` | an append-only file | `write_json` |
| opencode client and server | `transport/persistent.rs` | registry file, server process | `ensure_opencode_server`, attached execution, fallback |
| wrangle server, client side | `transport/server.rs`, `wrangle-server` | registry file, server process | `ensure_server`, `send_request` |
| wrangle server | `main:292-384` | `sessions` map, `next_session` | `handle_server_request`, `run_server` |
| Configuration discovery | `core/project_config.rs` | files | `discover_config` |
| Playbooks | `runner:398-535` | none | `build_playbook` |
| Command line | `main` | none; an exit status | `main`: run, resume, parallel, playbook, backends, config-paths |
| Codex plugin | `plugins/wrangle-codex` | a wrapper process, a temporary progress file | `run_wrangle.py` |
| Upstream snapshot, codeagent-wrapper | `upstream/` | pending tasks, channel, running handles, result map, signal flag | run, resume, `--parallel` |

How they interact. `execute_parallel` validates the list, checks every task
against a backend, and spawns `execute_request` for each task into a JoinSet.
`execute_request` resolves the agent, selects a backend, checks that it supports
the request, and hands it to a transport: `run_subprocess`, the opencode client
(which falls back to `run_subprocess`), the API adapter, or a wrangle server,
whose process calls `execute_request` again. Separate wrangle processes share
the registry files, the ports and the servers of the machine, with no lock. In
front of all this stands `main`, and in front of `main` possibly the codex
plugin, which kills it after a timeout of its own. The snapshot is a program of
its own, kept in the repository, from which the scheduler and the process runner
were derived.

What is hard, and what makes each part correct:

* **Scheduler.** Workers end in any order, a finished worker counts until it is
  joined, an error drops the rest. Correct: each task is handed over exactly
  once, in dependency order, within `max_workers`; Ok is complete; it returns.
* **Graph.** `detect_cycle` unwraps a position on its path; the two graph
  algorithms must agree. Correct: Ok if and only if acyclic, a reported cycle is
  one, the plan is minimal and loses only what cannot run.
* **Dispatch.** Preview, validation, worker and server each decide anew, on a
  machine that changes. Correct: a preview is kept, the backend gets the policy
  the caller asked for, nothing answered is run again.
* **One-shot process.** Input, output, stderr, exit, timeout, signal and failed
  writes in any order. Correct: no event lost or invented, the log is bracketed,
  Ok only after the process ended, it returns.
* **Registries.** Check-then-act on a file and a port. Correct, for calls that
  do not overlap: one server is shared, and the registry is always readable.
* **Progress file.** Two writes a record, several tasks, a timeout between the
  two. A reader would rely on one record a line.
* **Command line, discovery, plugin.** The configuration is discovered twice,
  from different places; a relative WORKDIR is resolved at several places; the
  plugin's timeout races the answer. Correct: success means the task succeeded,
  the paths printed are the paths used, the backend runs where it was told.
* **Snapshot.** Errors become results; the guard is dropped after the process
  was waited for; ids may repeat. Correct: exit status 0 is earned, a dependent
  starts after its dependency, the flags' precedence is the documented one.
* **Sessions.** The lookup and the store are separate critical sections; handles
  outlive the server. Correct: conversations do not mix, ids are unique, context
  is not lost.

`PROJECT.json` lists every component with its status and each hazard at its
line, with the properties that watch it or a note saying why none does.

## 2. Modules

| Module | Models | Actions and their code |
|---|---|---|
| `Lists` | the lists that `filter`, `filter_map` and a loop with `push` make | `Filter`, a function of the position |
| `TaskSpecs` | task lists, `ensure_parallel_tasks` | operators; `Acyclic` is the reference definition of a graph without cycles; `tasks`, the list a caller submits, is declared here once for the three modules that read it |
| `ParallelRunner` | `execute_parallel` | `Validate`, `Spawn`, `StopFilling`, `JoinNothing`, `JoinError`, `JoinResult`: the caller's code between two awaits or loop heads; `StartBackend` ... `FailAttached`: a worker; `FallBack`: the persistent transport's second, one-shot attempt beside the process of the first; `Cancel`: the dropped JoinSet; `OrphanExit`, `LeftExit`: a process nobody waits for |
| `ParallelPromise` | what a caller relies on | `Begin`, `End`, `Abandon` (a backend is left and the task begun again), `AnswerOk`, `AnswerErr` |
| `CycleDetection` | `detect_cycle`, `dfs_detect` | the recursion as a stack: `Enter`/`Descend`/`Return` are the calls and returns |
| `TopologicalPhases` | `topological_phases` | `StartPhase`, `TakeOff`, `Leave` |
| `Subprocess` | `run_subprocess`, `JsonLineParser`, `SignalGuard`, `ProgressWriter` | the call from await to await, the stderr task, the backend, its helper, a signal |
| `ServerRegistry` | `ensure_server`, `ensure_opencode_server`, registry reads and writes | each system call that another process can come before is an action |
| `ServerSessions` | `handle_server_request`, `run_server` | `Begin` is the lookup, `AnswerWithSession` the store; `Executed` is what a backend may have done by then |
| `RequestDispatch` | preview, validation, `execute_request`, transports, backend tables | one action per await point of the path a request takes |
| `ProgressFile` | the file that several `ProgressWriter`s append to | `WriteText`, `WriteNewline` hand a piece to tokio's pool, `AppendPiece` is the pool's write, `Timeout` drops the loop that logs |
| `ConfigDiscovery` | `discover_config`, `discover_project_config_dir` | operators |
| `Invocation` | `main`, `build_playbook`, `resolve_agent_for_runtime_config`'s discovery, `run_wrangle.py` | `PluginResolve`, `PluginCollect`, `PluginTimeout`: the plugin; `ParseArgs` ... `ResolveAgent`: `main` up to a backend; `StartBackend` ... `Answer`: its run, a second one after `GiveUp` included; `OrphanEnd`: a backend nobody waits for; `NextCommand`, `ChangeFiles`: the user |
| `CodeagentConfig` | the snapshot's flags, task fields, presets, backend selection, `build_args` | operators |
| `CodeagentRunner` | the snapshot's `main`, `executor.rs`, parser, signal guard | `Begin` ... `Receive`: `main` and `run_parallel_tasks`; `Launch` ... `JoinStderr`: the run of a task from await to await; `Panic`, `PanicAborts`: a worker's panic in the two kinds of build; `CloseStdout` ... `Signal`: outside |

`X` + `Proofs` holds the proofs about X, `MC` + X the values for TLC.
`TaskGraphProofs` is about `CycleDetection` and `TopologicalPhases` together,
`ServerProofs` about `ServerRegistry` and `ServerSessions`; so that both can be
extended at once, the second of each pair calls its specification `PlanSpec` or
`SessionsSpec`, and its `Init`, `Next` and `TypeOK` likewise. Mutants, operators
marked "mutant", are plausible mistakes in the definition that follows them; they
are not used by any specification.

How they fit together. `ParallelRunner` uses `TaskSpecs`; its `Validate` takes
the answer of `detect_cycle` as `~Acyclic`, which `CycleDetection` is proved to
give. A worker of `ParallelRunner` is abstract: it starts a process, then
answers after the process ended or fails and may leave it. A task that asks for
the persistent transport on opencode (`attachable`) may have two: an attached run
that ends in Err leaves its process (`left`), and the same worker starts a
one-shot one (`child`) whose answer is the task's (`transport/persistent.rs:153-171`).
What is said of the limit, of the order and of Ok is said of the processes that
answer; of those given up, that there is at most one for a spawned task that asks
for that transport, and none otherwise.
`ParallelRunner` implements `ParallelPromise` for a whole list, and `Subprocess`
implements the same `ParallelPromise` for a list of one: this is the
interface between them. `RequestDispatch` starts tasks in any order (a
superset of what `ParallelRunner` allows) and says *which* process a worker
starts; it takes "a server was ensured or not" from `ServerRegistry` and "the
run ended in Ok or Err" from `Subprocess`. `ServerSessions` models the server
side of its `EnsureServer` step. `ProgressFile` takes the writes that
`Subprocess` regards as one step apart. `Invocation` extends `ConfigDiscovery`
and keeps of an execution only what the models above leave visible: a backend,
how it ended, whether it was started again after an attached attempt.
`CodeagentRunner` extends `CodeagentConfig` and shares nothing with the others.

## 3. What is abstracted

Names, prompts, models, payloads and messages are members of small sets. Output
lines are kinds: event, event with a session id, not JSON, too long. Pipes hold
`PipeSize` units. Time is absent: a timeout may happen at any moment it is
armed. Backends, helpers, other programs and the file system are external:
anything they may do, at any time.

In `ParallelRunner` the Vec `pending` is a set of indices, since the first ready
one is taken and the order never changes; its processes are those of the runs of
a backend: the `opencode serve` process that attached runs share belongs to
`ServerRegistry` and counts nowhere here. In `Subprocess` a line of the output is
read or not: an I/O error of the parser, which the code records as a parseError
and goes on from, is the same as a line that is skipped. In `ServerSessions` a
backend continues the session it is given, forks, or never gets there, and which
of its sessions the answer names is open, because an announcement beyond
`max_events` or under another key is not noticed (`transport/subprocess.rs:119-125`,
`:249-256`). In `TopologicalPhases` a phase is a
set. In `RequestDispatch` the wrangle server sees the same machine as its client
(they share host, user and work directory); the texts in the argument lists are
left out, a command being determined by backend, form and permission flag; the
probe of `opencode` is cached for the process as its OnceLock is, and a
server never asks for it, its requests being one-shot. In `ConfigDiscovery` and
`Invocation` a directory is a level of one path, 1 the outermost, and a path is
absolute or a number of levels below the current directory; a files' content is
what makes a difference (missing, good, not parsed, naming a log directory).
In `CodeagentConfig` an optional string is none, blank or a name; in
`CodeagentRunner` what a process wrote is a number of lines that the parser may
hear at any time until the pipe ends. In `ProgressFile` a record is its number
and a piece of the file is a record's text or a newline. In `ServerRegistry` an entry stands for
the server it was written for, and `LongEntries` says whose text is the longer
one, which decides what is left when two writers overlap.

## 4. Runs

| Run | Instance | Distinct states | What it shows |
|---|---|---|---|
| `parallel` | every graph of 3 tasks, two of 4, 3 lists with the persistent transport, each kind of rejected list; limits 0 to 3 | 38,640 | the scheduler's safety, the promise, and that it returns |
| `cycle_detection` | every graph of 3 tasks with self-dependencies, odd lists | 2,367 | verdict and reported cycle are true |
| `topological_phases` | the same, with repeated and unknown names | 1,548 | plan valid, minimal, loses only stuck tasks |
| `subprocess` | 6 launches, 2 lines, pipe of 1 | 114,438 | events and log agree; signal; promise; returns unless held |
| `server_registry` | 2 clients, 2 servers, 2 ports, both kinds | 162,169 | calls that do not overlap share one server and can read the registry |
| `server_sessions` | 4 calls, 2 server processes | 1,623,081 | context kept, ids unique, conversations apart |
| `request_dispatch` | 316 calls, 4 machines, 1 change at any step | 512,117 | preview, policy, refusals, retries, reported transport |
| `invocation` | 180 asks, 3 levels, 18 disks, up to 3 commands | 384,118 | exit status, orphans, configuration and directory of a command |
| `codeagent` | 720 mixes of flags and presets, 48 runs, 37 lists | 48,273 | the snapshot's exit status, order, circles, precedence, signal, return |

Each property is stated in words above its definition. What they are for:

* `parallel`: `NoTaskLost` relates Vec, JoinSet and map; `ProcessBound` holds
  also after a return, when aborted workers leave processes, and says what the
  persistent transport adds to `max_workers`; `DependenciesReaped` relates
  processes, not bookkeeping: a dependent starts after the process that answered
  for its dependency, but possibly beside one given up for it; `CircularReportIsSpurious` shows that the
  loop's own CircularDependency error is never true; `KeepsPromise` is the
  refinement.
* `cycle_detection`: `GrayIsPath` is why `position(..).unwrap()` does not panic.
* `topological_phases`: `OmittedAreStuck` says that a task is left out of the
  plan only if it waits for a circle. That the in-degrees are exact, which is
  why `saturating_sub` never cuts anything off, is a theorem.
* `subprocess`: `EventsComplete` says nothing in the pipes is dropped;
  `EventsFollowLog` what the timer may do between a record and its event;
  `SignalledReturnEndsBackend` covers every return path.
* `server_registry`, `server_sessions`: the properties say for which histories
  the guarantee holds (`alone`, `calm`, `shared`), because it does not hold for
  the others; the variables that record this are marked as history.
* `request_dispatch`: `fresh` records whether the machine is still what the
  preview, or the checks, saw.
* `server_sessions`: `SequentialCallsKeepContext` distinguishes the calls that the
  session stored has seen (`answered`) from those answered all the same: after a
  fork that went unnoticed the older session is stored, and the next call under
  the handle does not know the last one.
* `invocation`: `SuccessIsOfTheTask` and `OrphanHasACause` relate what the
  caller sees to what became of the backend, the second also over the commands
  before: exit status 0 may leave an attached backend at work beside the answer
  of the one-shot run that replaced it, and nothing else; `PathsToldAreUsed` relates two
  commands, with `changed` as history; `BackendRunsWhereTold` says for which
  WORKDIRs the several resolutions agree.
* `codeagent`: `LivingDependencyWasAbandoned` and `SignalFindsOnlyTheAbandoned`
  turn on the one path that leaves a process behind; `ExitZeroIsEarned` on ids
  that occur twice.

Bounds. Three tasks are the least for a fan-in, a fan-out, a chain and a cycle
entered from outside, and all such lists are taken; four-task lists add a chain
beside a chain and a diamond. Limits 0 to 3 include the degenerate 0, serial,
and no limit at all. Two lines and a pipe of one make every ordering of
"written, in the pipe, read" and exceed `maxEvents`; two units of input fill the
pipe. Two clients, servers and ports make every pair race; with
`alone` only one call is at work at a time, so a third client adds no new
interference there. Four calls make two conversations of two calls, or three that race on
one handle and a fourth that follows. One change of the machine, at any step,
separates any two checks; the history variable `fresh` is cleared by the first
change, so a second adds nothing to the conclusions guarded by it, and the
properties not guarded by it are proved for any number. Three levels of directories put a `.wrangle` below, at and above the
current directory, with the home at the top; a sequence of commands is as long
as `config-paths` with a run before and after. In `codeagent` the mixes of flags
are taken with a task that writes nothing, and every behaviour of a process with
one or two tasks, as the first only decide whether and how the second starts;
its lists have a chain, a fan-in, two circles, an unknown and a repeated id.

Symmetry is used in `server_registry` only, over clients and ports; servers are
not interchangeable, because one of them has the longer entry.

Deadlock is checked in every run but two: where the code is done, an explicit
stuttering action (`Settled`, `Answered`, `Finished`) says so. `invocation` and
`codeagent` end in the exit of a program, after which nothing happens, and say
CHECK_DEADLOCK FALSE.

### Runs that contradict a document

| Run | What the code does | Where it is said otherwise |
|---|---|---|
| `parallel_valid_graph` | a valid list can end in CircularDependency: the give-up test runs before the newly ready task is scheduled (`runner:713`) | `docs/runner-api.md:272-274` |
| `opencode_unhealthy` | a registry entry is reused if anybody listens on its port (`transport/persistent.rs:72`) | `docs/persistent-backend.md:35-36` |
| `progress_lines` | a record is two appends, its text and a newline (`transport/subprocess.rs:79`), and tasks of a parallel call share the file: two records on a line | `docs/plugins/wrangle-codex.md:90` |

Each checks the one statement, and TLC's counterexample is short. The passing
runs check what does hold in its place (`CircularReportIsSpurious`,
`SequentialCallsShareOneServer`).

Further differences seen while modelling, for which no run is kept:

* Scheduler. `docs/runner-api.md:299`: the results of the other tasks are kept,
  where one task's Err throws them away (`runner:710`; the theorem
  `LeftoversAreGivenUp` says which processes outlive which answer). `:219-221` and
  `docs/security-model.md:71-73`: an unsupported policy is refused before
  anything starts, where `runner:660` checks before the task's agent is resolved
  (`LateRefusalHasACause` says when a refusal comes late). `:425`: NotAvailable,
  where a backend selected by name is not asked whether it is available.
* Servers. `docs/wrangle-server.md:20-21`: the caller gets a handle, where there
  is none if the backend announced no session (`main:333`). `:39`: the inner
  transport depends on the backend, where it is one-shot (`main:306-309`).
  `docs/persistent-backend.md:102-103` speaks of a fallback where the request is
  refused with UnsupportedTransport; `:40` and `:105` of a fallback after a
  failed execution, where only an Err is followed by one and
  `Ok(success = false)` is returned (`transport/persistent.rs:163`).
* Progress. `docs/plugins/wrangle-codex.md` has a parseError record for each
  unparsable line, where such a line is skipped and only one that is too long is
  recorded.
* Configuration. `docs/project-config.md:8-11` describes the search per file,
  where only the nearest `.wrangle` is asked and then the home's. From a relative
  WORKDIR the search stops at the current directory, so that an ancestor's
  `.wrangle` is not found, and the home's own counts as a project's. Logging and
  `config-paths` discover from the current directory, agents from the WORKDIR.
  `default_backend` and `default_model` are read and not used.
* Command line. A relative WORKDIR is applied twice with codex's `-C`, with an
  attached opencode and with a server. `parallel` exits with 0 whatever became of
  its tasks. The plugin passes a task that begins with "-" without a "--", and
  clap takes it for a flag; its timeout kills wrangle and leaves the backend.
* Snapshot. The flag `--prompt-file` is not used for the tasks of a list
  (`resources/codewrapper-agent-rs/README.md:100-108`); of tasks with the same id
  the last result is kept; a signal stops neither the program nor, but for one
  path, a backend; an unknown dependency is reported as a circle.

## 5. Fairness

Safety runs have none. `ParallelRunner` assumes weak fairness of the caller and
of each worker: tokio polls a task whose future is ready, and a worker that is
attached ends because `run_subprocess` and its backend do. Which waits of
`run_subprocess` depend on the backend is the subject of `Subprocess`: it
assumes weak fairness of the call, of the armed timer and of the stderr task
(tokio); that a living backend refuses its input, and the call returns for it,
is possible and not counted on (`Refused`); of a backend it assumes only that it
reads its input when its turn comes, that one that writes first writes, and that
one that does not linger ends. The
property `ReturnsUnlessHeld` names the three waits that the timeout does not
cover: stdin, `child.wait`, and the stderr task. `CodeagentRunner` assumes weak
fairness of `main` and, for each task, of what its run can do without its
backend (`Unhindered`: it launches or fails to, its timer fires, a dead process
blocks neither a write nor a wait), and nothing of backends, helpers and
signals; of the caller, that it closes the stdin that `main` reads to its end
first (a caller that does not holds the program before it begins). Its
`ReturnsUnlessHeld` names the same waits and a worker that panicked, which only
holds a program built without `panic = "abort"`: a release build
(`resources/codewrapper-agent-rs/Cargo.toml:74`) ends there (`PanicAborts`), and
what holds for both kinds of build is checked and proved with both steps.

## 6. Proofs

Every theorem holds for all values of the constants that satisfy the named
assumptions: `TaskListsAssumption` (task lists are sequences of specs and
`BlankId` is a name), `WorkerLimitsAssumption` (limits are naturals, zero
included), `MachinesAssumption`, `CallsAssumption`, `ChangesAssumption`
(machines and calls are well-formed, and a single request carries a policy),
`LaunchAssumption` (launches are well-formed, sizes are naturals),
`RegistryAssumption` (the words for a file without an entry are no servers),
`BoundsAssumption` (the bounds on calls and runs are naturals), `CallsAssumption`
of `CodeagentRunner` (flags, presets and tasks are records of strings and
Booleans, and without `--parallel` there is at most one task, which waits for
none), `AskAssumption` (asks are well-formed) and `DepthAssumption` (there is at
least one directory). TLC evaluates them in the runs.

| Module | Theorems | Inductive invariant, and why it is needed |
|---|---|---|
| `ListsProofs` | lemmas: what `Filter` gives for an empty and an extended list, what it contains, that it repeats nothing new, how long it is; finite sets that shrink | see "Induction" and "Ends and waits" below |
| `ParallelRunnerProofs` | types; `NoTaskLost`, `ProcessBound`, `DependenciesReaped`, `JoinHasWork`, `CircularReportIsSpurious`, `OthersAreGivenUp` (as `LeftoversAreGivenUp`), `ResultsAreFinal`, `OkIsComplete`; `KeepsPromise`; that it ends (`RunnerEnds`) | The bound on processes is not inductive: a process of a failed worker lives on. What is bounded is the union of the JoinSet and the living processes (`Occupancy`), which holds because a failed worker stays in the JoinSet until joined and its join ends the call. `ChildFollowsWorker` ties processes to workers, `LeftFollowsTask` processes given up to spawned tasks that may have one, `DependenciesHaveResults` results to spawned tasks, `LoopIsValidated` and `FillIsComplete` keep what `join` may assume. `OkHasResults`: with nothing pending and nothing in the JoinSet, each task has a result, so the list collected leaves none out. |
| `TaskGraphProofs` | lemmas on lookup, successors, validation; of `CycleDetection` types, `GrayIsPath`, `OkMeansAcyclic`, `ReportedCycleIsReal`; of `TopologicalPhases` types, `InDegreeCountsOpenEntries`, `PhasesRespectDependencies`, `PhasesAreEarliest`, `OmittedAreStuck`, a validated list is planned completely; `SearchAndPlanAgree`; that both end (`SearchEnds`, `PlanEnds`), `RecursionIsBounded` | The search: `BlackIsClosed`: done tasks depend on done tasks only and hold no cycle; `VisitedAreDone`: what a frame has passed is done or on the path above it; `UnenteredAreFresh`. Acyclicity is stated over sets, so that no induction over paths is needed. The plan: `PlacedAreTaken`, `UnplacedWereHeldBack`, `LeftWithNothingFree`: what has been placed, what held the others back when each phase began, and that nothing was free at the end. `TheTwoAgree` runs both algorithms on one list, `Spec /\ PlanSpec`: where references resolve, the search answers Ok exactly if the plan has every task. From a complete plan to acyclic: of a set of tasks, one of the earliest phase depends on none of the set. |
| `RequestDispatchProofs` | types; `PolicyIsExpressed`, `OnlyErrIsRetried`, `TransportTellsFallback`; `PreviewIsKept`, `LateRefusalHasACause` | `BackendFits`: past the check, the backend kept in the config allows the policy and fits the form it is run in; `AttemptsFit`: the attempts there can be at each place; `TransportFits`: the transport in force against the one asked for. `TablesAgree` and `FlaglessAllowDefault` compare the backend tables: a policy a backend advertises has a flag, and a form without flags belongs to a backend that allows the default only. The last two need a second invariant, `JInv`: which base configuration is in force at each stage (`BaseFits`), that the plan was made from it (`PlanFits`), and that whatever lies ahead of a checked task will admit it and leads where its preview said (`Admitted`, `OnTheWay`); resolving an agent a second time changes no backend (`ResolvedTwice`), and a server refuses nothing its client let through (`ServedIsAdmitted`). |
| `SubprocessProofs` | types; `LogIsBracketed`, `SignalledReturnEndsBackend`, `EventsFollowLog`, `EventsComplete`; `KeepsPromise`; that it ends (`RunEnds`), `WaitsAreKnown` | What the child can be at each place of the call (`ChildFits`), and what the log has by then (`LogFits`). For the events, `HeardIsLogged`: at every moment, the timer's included, the events logged are those of the lines parsed; and `NobodyWrites`: from the end of stdout on nothing is unread and nobody holds the pipe, which stays so because only a backend that still writes starts a helper (`SilenceStays`). `EventsFollowLog` is then inductive: where the loop runs its second case is excluded by `LogFits`. |
| `ServerProofs` | of `ServerRegistry` types, `SequentialCallsShareOneServer`, `LoneCallsFindReadableEntries`; of `ServerSessions` types, `IdsAreMintedOnce`, `ConversationsStayApart`, `SequentialCallsKeepContext` | Registry: `HandsFit`: what a client has in hand at each place. `LoneFits`: in a behaviour of lone calls one client at most is at work, and the file is empty only between its two steps. `CalmFits`: over servers that live there is none, one being started, or one that listens and is in the file; from the free port chosen, through the wait, to the entry, the single server stays the single one. Sessions: `MintsFit`: how often an id was minted against the counter. `IdsAreApart`: what every holder of an id, the store or a call between its lookup and its store, can reach. `TurnsAreTaken`: for an id nobody used twice at once, the session it leads to has seen what was answered under it, also while a call is on its way. |
| `CodeagentRunnerProofs` | types; `LivingDependencyWasAbandoned`, `ExitZeroIsEarned`, `CircularIsTrue`, `CommandFollowsPrecedence`, `SignalFindsOnlyTheAbandoned`; that it ends (`ProgramEnds`), `WaitsAreKnown` | `TaskFits`: for each task, its worker against its process and its outcome, and that one past `pending` was ready; `InboxFits`: the channel has each sent result once; `ResultsFit`: the map has, for an id, a task with that id that was received; `MainFits`, `StopFits`: where `main` is, and why it stopped. `CircularIsTrue` needs that a loop that stops with tasks left has nothing running and nothing ready. `CommandFollowsPrecedence` is no induction but a comparison: what the code does in three passes (task over flags, preset into what is unset, search of a backend) against the first of a list of sources. |
| `InvocationProofs` | `SuccessIsOfTheTask`, `OrphanHasACause`, `PathsToldAreUsed`, `BackendRunsWhereTold`; discovery for a relative and an absolute path (`FormOfPathMatters`) | `IInv`, by place: which exit statuses and backends there can be, and in what directory a command discovers and works. `OrphansFit`: each backend nobody waits for against the exit status its command ended with (`past`), those of the running command being attached ones beside a second attempt. Discovery needs no invariant: a bounded set of levels has a greatest one, and the two walks differ by the levels above the current directory and by the home's. |

Induction. The library's induction theorems take an operator as a parameter,
which no prover here instantiates, and `SelectSeq` is a recursive operator.
`Lists` therefore defines `Filter` as a recursive function, and `ListsProofs`
derives two principles that speak of sets: a set of naturals with 0 and closed
under successor is all of them (`NaturalsByInduction`, from the least element of
a set), and a set of lists with `<<>>` and closed under `Append` is all of them
(`ListsByInduction`). A property of lists is proved by giving the set of those
that have it.

Ends and waits. Liveness under fairness and `ENABLED` are beyond this prover; what
can be proved of them is proved. For the two algorithms, the scheduler, a run of
a backend and the snapshot, every step that changes anything lowers a natural
number. It is the size of a record of finite sets (`Left`: tasks to spawn, places
ahead of a worker, processes to end, rounds of a loop), of which a step may take
but not add (`Shrinks`), or a sum (`StepsLeft`). So no behaviour goes on for ever,
and none needs fairness for that: the actions of backends, helpers and signals
count too. The rounds are what needs care: the schedulers go from spawning to
waiting and back, and `RoundsLeft` allows two such moves for each worker still to
be joined, because only a worker joined leads back. What remains of liveness is
that a behaviour does not stop early. `OnlyHeldWaits` of `SubprocessProofs` and
of `CodeagentRunnerProofs` state, over the guards, that outside the waits of
`Held` some step of the call is possible; for the snapshot this needs that a
scheduler at its channel has a worker out and that a result sent stays in the
channel until received (`ProgramFits`). In `ParallelRunner` it is `JoinHasWork`.
The number of lines a backend writes has a bound in these models (`MaxLines`,
`lines`), an arbitrary one in the proofs. A backend that writes for ever is outside
them: there the number of steps is bounded by nothing but the timer.

Each invariant was first checked by TLC as an invariant of a run.
`RunnerKeepsPromise` and `RunKeepsPromise` are step simulations: each step maps
to a step of `ParallelPromise` or to a stutter.

Proof attempts changed the models in these places. `Subprocess`: a backend that
had closed its stdout could still give it to a helper, so that output went on
after its end; `HelperStep` now asks for a child that holds it, and the run has a
launch that does both. `CodeagentRunner`: `CallsAssumption` says that a call
without `--parallel` has one task without dependencies, which the code gives and
the model had left to the values of the run. `ConfigDiscovery`:
`DepthAssumption`.

Model-checked only: liveness (`Returns` and the two `ReturnsUnlessHeld`): that a
step which stays possible is taken, by fairness. Every other property of a passing
run is stated by a theorem. `ProgressFile` has no theorem: its one property is
the one it violates.

## 7. Not modelled

Logging and printing (their formats); serialization and error texts; the HTTP
exchange of the API backend (its guard and its outcomes are in
`RequestDispatch`); memory limits (a line is read whole before its length is
compared; the native stack under `dfs_detect`, though its depth is bounded by the
number of tasks, see `RecursionIsBounded`); pid reuse behind `SignalGuard`. Of the snapshot: `init`, `--cleanup` and the age of log files, the
noise filter of its stderr, the lists of utterance patterns, and the text of its
environment (which of three classes of variables is passed on is modelled). The
hazards of these that a model would not show are in `PROJECT.json` with a note.

## 8. Plan

In order; 9 and 11 are left.

1. `TaskSpecs`, `ParallelRunner`, `ParallelPromise`, `CycleDetection`,
   `TopologicalPhases`, with proofs.
2. `Subprocess`, as an implementation of the same promise.
3. `ServerRegistry`, `ServerSessions`.
4. `RequestDispatch`, with the first proofs.
5. `ProgressFile`: two appends a record, several tasks on one file.
6. `ConfigDiscovery`: the search for `.wrangle`.
7. `Invocation`: the command line and the codex plugin around an execution.
8. `CodeagentConfig`, `CodeagentRunner`: the snapshot.
9. `ServedRequest`: `ServerRegistry` and `ServerSessions` composed, with
   `send_request` waiting for its line, and a handle used with another backend.
10. Proofs: the safety properties of `CodeagentRunner` and of `Invocation`, and
    the properties that speak of lists; that the algorithms, the schedulers and
    a run end, and what they wait for. (Done.)
11. Proofs of what no run states: what `ProgressFile` does keep (each record's
    text is written whole, and one file has each record of a task in its order),
    the precedence of `resolve_agent_for_runtime_config` as for the snapshot.
