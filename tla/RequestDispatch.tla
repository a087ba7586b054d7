--------------------------- MODULE RequestDispatch ---------------------------
(***************************************************************************)
(* How a request finds its backend and its transport: `preview_request`,   *)
(* `preview_parallel`, `execute_request` and the checks of                 *)
(* `execute_parallel` (wrangle-runner/src/lib.rs), agent resolution        *)
(* (wrangle-core/src/agent_config.rs), the backend tables (wrangle-        *)
(* backends-cli and -api), the persistent transport with its fallback      *)
(* (persistent.rs) and the client side of the wrangle server (server.rs).  *)
(*                                                                         *)
(* One call is previewed or not and then executed, on a machine that may   *)
(* change between any two steps: programs come and go, the agents file is  *)
(* edited.  When a task of a parallel call may start is ParallelRunner's   *)
(* matter; here it may start at any time, which includes every schedule.   *)
(***************************************************************************)
EXTENDS Naturals, Sequences

CONSTANTS
    Agents,       \* names of agents
    Machines,     \* what the machine may look like
    Calls,        \* the calls to make
    MaxChanges    \* bound: changes of the machine during the call

None == "none"

-----------------------------------------------------------------------------
(* Backends, configurations, requests.                                     *)

\* all_cli_backends, in the order they are tried, and all_api_backends.
CliBackends == <<"codex", "claude", "gemini", "opencode", "qwen">>
CliNames    == { CliBackends[i] : i \in DOMAIN CliBackends }
ApiName     == "codex-api"
Backends    == CliNames \cup {ApiName}

Transports == {"one-shot", "persistent", "server"}
Policies   == {"default", "ask", "auto", "bypass"}

\* BackendDescriptor.transport_modes and .permission_policies.
TransportModes(b) ==
    {"one-shot", "server"} \cup (IF b = "opencode" THEN {"persistent"} ELSE {})

\* mutant: a backend advertises a policy it has no flag for
EveryPolicy(b) ==
    IF b \in {"opencode", ApiName} THEN {"default"} ELSE {"default", "auto", "bypass"}

PermissionPolicies(b) ==
    CASE b = "codex" -> {"default", "auto", "bypass"}
      [] b \in {"claude", "gemini", "qwen"} -> {"default", "bypass"}
      [] OTHER -> {"default"}

\* map_permission_flag; a flag is named after the policy it asks for.
PermissionFlag(b, policy) ==
    IF \/ policy = "auto" /\ b = "codex"
       \/ policy = "bypass" /\ b \in CliNames \ {"opencode"}
    THEN policy ELSE None

Names   == Backends \cup {"unknown", None}
Configs == [ backend : Names, agent : Agents \cup {None}, transport : Transports,
             policy : Policies, allowPromptFiles : BOOLEAN ]
\* A ParallelTaskSpec; in a single call, the request, whose policy is given.
Specs   == [ backend : Names, agent : Agents \cup {None},
             transport : Transports \cup {None}, policy : Policies \cup {None},
             promptFile : BOOLEAN ]
AgentConfigs == [ backend : Names, policy : Policies \cup {None} ]

\* The programs on PATH, whether opencode knows `serve` and `--attach`, whether
\* a wrangle launcher is found, OPENAI_API_KEY, and the agents file as loaded.
IsMachine(m) ==
    /\ m.installed \subseteq CliNames
    /\ {m.attach, m.launcher, m.key} \subseteq BOOLEAN
    /\ DOMAIN m.agents \subseteq Agents
    /\ \A a \in DOMAIN m.agents : m.agents[a] \in AgentConfigs

IsCall(c) ==
    /\ c.kind \in {"single", "parallel"}
    /\ c.base \in Configs
    /\ \A t \in DOMAIN c.specs : c.specs[t] \in Specs
    /\ c.kind = "single" => \A t \in DOMAIN c.specs : c.specs[t].policy # None

ASSUME MachinesAssumption == \A m \in Machines : IsMachine(m)
ASSUME CallsAssumption    == \A c \in Calls : IsCall(c)
ASSUME ChangesAssumption  == MaxChanges \in Nat

VARIABLES
    call,       \* the call being made
    machine, changes,
    probe,      \* the OnceLock AVAILABLE: "unset", "yes" or "no"
    stage,      \* the call: "start", "planning", "planned", "validating",
                \* "running" or "over"
    base,       \* its RuntimeConfig, the agent's settings once resolved
    plan,       \* what the preview answered for each task
    pc, config, policy, served,   \* execute_request for each task: its place,
                \* its config, its request's policy, and whether a wrangle
                \* server runs it
    attempts,   \* each task: the runs of a backend made for it
    error, result,
    fresh       \* history: "plan" and "checks" while the machine is as it was
                \* when the preview, or the execution, first looked

callVars   == <<call, stage, base, plan>>
taskVars   == <<pc, config, policy, served, attempts, error, result>>
vars       == <<callVars, taskVars, machine, changes, probe, fresh>>

Tasks == DOMAIN call.specs
NoPlan == [ t \in {} |-> None ]
NoResult == [ transport |-> None, success |-> FALSE ]

Refusals == { "AgentNotFound", "NotFound", "NotAvailable", "UnsupportedTransport",
              "UnsupportedPermissionPolicy", "TaskPromptFilesDisabled" }

-----------------------------------------------------------------------------
(* Resolution and checks.                                                  *)

\* apply_agent_to_runtime_config
Applied(c, agent) ==
    [ c EXCEPT !.backend = IF @ = None THEN agent.backend ELSE @,
               !.policy  = IF @ = "default" /\ agent.policy # None
                           THEN agent.policy ELSE @ ]

\* resolve_agent_for_runtime_config: it fails for an agent the file lacks.
Resolvable(c) == c.agent = None \/ c.agent \in DOMAIN machine.agents
Resolved(c)   == IF c.agent = None THEN c ELSE Applied(c, machine.agents[c.agent])

\* The first backend of the list that `which` finds.
IsFirstInstalled(b) ==
    \E i \in DOMAIN CliBackends :
        /\ CliBackends[i] = b
        /\ b \in machine.installed
        /\ \A j \in 1 .. i - 1 : CliBackends[j] \notin machine.installed

\* select_backend: a backend named is taken as it is, available or not.
SelectBackend(name) ==
    IF name # None THEN (IF name \in Backends THEN name ELSE "NotFound")
    ELSE IF machine.installed # {} THEN CHOOSE b \in CliNames : IsFirstInstalled(b)
    ELSE IF machine.key THEN ApiName
    ELSE "NotAvailable"

\* ensure_request_supported: the refusal, or None.
Unsupported(b, c, requested) ==
    IF \/ c.transport = "server" /\ ~machine.launcher
       \/ c.transport \notin TransportModes(b)
    THEN "UnsupportedTransport"
    ELSE IF requested \notin PermissionPolicies(b) THEN "UnsupportedPermissionPolicy"
    ELSE None

Refusal(c, requested) ==
    IF SelectBackend(c.backend) \in Backends
    THEN Unsupported(SelectBackend(c.backend), c, requested)
    ELSE SelectBackend(c.backend)

Or(value, otherwise) == IF value = None THEN otherwise ELSE value

\* What execute_parallel and preview_parallel make of the base configuration
\* for a task; a single request runs under the caller's own.
TaskConfig(t) ==
    IF call.kind = "single" THEN base
    ELSE LET spec == call.specs[t]
         IN  [ base EXCEPT !.backend   = Or(spec.backend, @),
                           !.agent     = Or(spec.agent, @),
                           !.transport = Or(spec.transport, @),
                           !.policy    = Or(spec.policy, @) ]

\* The policy of the ExecutionRequest, which to_request takes from the config.
RequestPolicy(t) == Or(call.specs[t].policy, base.policy)

\* mutant: the validation loop checks the base configuration's policy
TaskRefusalOfBase(t) ==
    IF call.specs[t].promptFile /\ ~base.allowPromptFiles /\ call.kind = "parallel"
    THEN "TaskPromptFilesDisabled"
    ELSE Refusal(TaskConfig(t), base.policy)

\* to_request, select_backend and ensure_request_supported for one task.
TaskRefusal(t) ==
    IF call.specs[t].promptFile /\ ~base.allowPromptFiles /\ call.kind = "parallel"
    THEN "TaskPromptFilesDisabled"
    ELSE Refusal(TaskConfig(t), RequestPolicy(t))

\* The form a backend is run in: its own process, a client attached to an
\* opencode server, an HTTP call, or left to a wrangle server.
Via(b, transport) ==
    IF transport = "server" THEN "server"
    ELSE IF transport = "persistent" /\ b = "opencode" THEN "attach"
    ELSE IF b = ApiName THEN "api"
    ELSE "process"

\* build_command of the client attached to an opencode server: no flag at all.
AttachedFlag == None

\* build_command of a backend; an API call has no flags.
Flag(b, via, requested) ==
    IF via = "process" THEN PermissionFlag(b, requested)
    ELSE IF via = "attach" THEN AttachedFlag
    ELSE None

-----------------------------------------------------------------------------
(* Preview.                                                                *)

Init ==
    /\ call \in Calls /\ machine \in Machines /\ changes = 0 /\ probe = "unset"
    /\ stage = "start" /\ base = call.base /\ plan = NoPlan
    /\ pc       = [ t \in Tasks |-> "waiting" ]
    /\ config   = [ t \in Tasks |-> call.base ]
    /\ policy   = [ t \in Tasks |-> None ]
    /\ served   = [ t \in Tasks |-> FALSE ]
    /\ attempts = [ t \in Tasks |-> <<>> ]
    /\ error    = [ t \in Tasks |-> None ]
    /\ result   = [ t \in Tasks |-> NoResult ]
    /\ fresh = {}

\* Between any two steps the machine may become another.
Change(m) ==
    /\ stage # "over"
    /\ changes < MaxChanges /\ m # machine
    /\ machine' = m /\ changes' = changes + 1 /\ fresh' = {}
    /\ UNCHANGED <<callVars, taskVars, probe>>

PreviewResolve ==
    /\ stage = "start"
    /\ IF Resolvable(base)
       THEN stage' = "planning" /\ base' = Resolved(base)
       ELSE stage' = "planned" /\ UNCHANGED base
    /\ fresh' = {"plan"}
    /\ UNCHANGED <<call, plan, taskVars, machine, changes, probe>>

\* The backend, transport and policy shown for a task, and the command of a
\* single request's plan, which these determine: nobody asks here whether the
\* persistent client is available.
Planned(t) ==
    LET b   == SelectBackend(TaskConfig(t).backend)
        via == Via(b, TaskConfig(t).transport)
    IN  [ backend |-> b, transport |-> TaskConfig(t).transport,
          policy |-> RequestPolicy(t), via |-> via,
          flag |-> Flag(b, via, RequestPolicy(t)) ]

Plan ==
    /\ stage = "planning"
    /\ plan' = IF \E t \in Tasks : TaskRefusal(t) # None
               THEN NoPlan ELSE [ t \in Tasks |-> Planned(t) ]
    /\ stage' = "planned"
    /\ base' = call.base
    /\ UNCHANGED <<call, taskVars, machine, changes, probe, fresh>>

-----------------------------------------------------------------------------
(* Execution.                                                              *)

\* execute_request, or execute_parallel up to its loop: the base agent is
\* resolved, then every task is checked without an await in between.
Execute ==
    /\ stage \in {"start", "planned"}
    /\ CASE call.kind = "single" -> stage' = "running" /\ base' = call.base
         [] call.kind = "parallel" /\ Resolvable(call.base) ->
              stage' = "validating" /\ base' = Resolved(call.base)
         [] OTHER -> stage' = "over" /\ base' = call.base
    /\ fresh' = fresh \cup {"checks"}
    /\ UNCHANGED <<call, plan, taskVars, machine, changes, probe>>

Validate ==
    /\ stage = "validating"
    /\ stage' = IF \E t \in Tasks : TaskRefusal(t) # None THEN "over" ELSE "running"
    /\ UNCHANGED <<call, base, plan, taskVars, machine, changes, probe, fresh>>

At(t, place) == stage = "running" /\ pc[t] = place

Goto(t, place) == pc' = [pc EXCEPT ![t] = place]
Fail(t, why)   == Goto(t, "failed") /\ error' = [error EXCEPT ![t] = why]

Start(t) ==
    /\ At(t, "waiting")
    /\ Goto(t, "resolve")
    /\ config' = [config EXCEPT ![t] = TaskConfig(t)]
    /\ policy' = [policy EXCEPT ![t] = RequestPolicy(t)]
    /\ UNCHANGED <<callVars, served, attempts, error, result, machine, changes, probe, fresh>>

ResolveAgent(t) ==
    /\ At(t, "resolve")
    /\ \/ /\ Resolvable(config[t])
          /\ config' = [config EXCEPT ![t] = Resolved(@)]
          /\ Goto(t, "dispatch")
          /\ UNCHANGED error
       \/ /\ ~Resolvable(config[t])
          /\ Fail(t, "AgentNotFound")
          /\ UNCHANGED config
    /\ UNCHANGED <<callVars, policy, served, attempts, result, machine, changes, probe, fresh>>

\* select_backend, ensure_request_supported and the choice of the transport;
\* the backend chosen is kept in the task's config.
Dispatch(t) ==
    /\ At(t, "dispatch")
    /\ LET c == config[t]
           b == SelectBackend(c.backend)
       IN  \/ /\ Refusal(c, policy[t]) # None
              /\ Fail(t, Refusal(c, policy[t]))
              /\ UNCHANGED config
           \/ /\ Refusal(c, policy[t]) = None
              /\ Goto(t, IF Via(b, c.transport) = "attach" THEN "persistent"
                         ELSE Via(b, c.transport))
              /\ config' = [config EXCEPT ![t].backend = b]
              /\ UNCHANGED error
    /\ UNCHANGED <<callVars, policy, served, attempts, result, machine, changes, probe, fresh>>

\* opencode_persistent_cli_available: its help texts are read once in the life
\* of the process.
Probed == IF probe # "unset" THEN probe ELSE IF machine.attach THEN "yes" ELSE "no"

\* is_persistent_available: `which` is asked each time, and first.
HasPersistentCli == "opencode" \in machine.installed /\ Probed = "yes"

CheckPersistent(t) ==
    /\ At(t, "persistent")
    /\ probe' = IF "opencode" \in machine.installed THEN Probed ELSE probe
    /\ Goto(t, IF HasPersistentCli THEN "ensure" ELSE "process")
    /\ UNCHANGED <<callVars, config, policy, served, attempts, error, result, machine, changes, fresh>>

\* ensure_opencode_server (ServerRegistry says how) succeeds or does not.
EnsureOpencodeServer(t) ==
    /\ At(t, "ensure")
    /\ \E next \in {"attach", "process"} : Goto(t, next)
    /\ UNCHANGED <<callVars, config, policy, served, attempts, error, result, machine, changes, probe, fresh>>

\* run_subprocess starts (Subprocess says how it goes on); a program that is
\* not there cannot be spawned.
Launch(t) ==
    \E via \in {"process", "attach"} :
        /\ At(t, via)
        /\ attempts' = [attempts EXCEPT ![t] = Append(@,
              [ backend |-> config[t].backend, via |-> via,
                flag    |-> Flag(config[t].backend, via, policy[t]),
                started |-> config[t].backend \in machine.installed,
                outcome |-> "pending" ])]
        /\ Goto(t, "attempt")
        /\ UNCHANGED <<callVars, config, policy, served, error, result, machine, changes, probe, fresh>>

\* execute_api needs the key, whatever select_backend saw.
CallApi(t) ==
    /\ At(t, "api")
    /\ \/ /\ machine.key
          /\ attempts' = [attempts EXCEPT ![t] = Append(@,
                [ backend |-> config[t].backend, via |-> "api", flag |-> None,
                  started |-> TRUE, outcome |-> "pending" ])]
          /\ Goto(t, "attempt")
          /\ UNCHANGED error
       \/ /\ ~machine.key
          /\ Fail(t, "KeyMissing")
          /\ UNCHANGED attempts
    /\ UNCHANGED <<callVars, config, policy, served, result, machine, changes, probe, fresh>>

\* ensure_server and send_request: the server runs execute_request itself, with
\* the client's backend and the one-shot transport (inner_transport_for).
EnsureServer(t) ==
    /\ At(t, "server")
    /\ \/ /\ Goto(t, "resolve")
          /\ config' = [config EXCEPT ![t].transport = "one-shot"]
          /\ served' = [served EXCEPT ![t] = TRUE]
          /\ UNCHANGED error
       \/ /\ Fail(t, "ServerUnavailable")
          /\ UNCHANGED <<config, served>>
    /\ UNCHANGED <<callVars, policy, attempts, result, machine, changes, probe, fresh>>

Last(t) == attempts[t][Len(attempts[t])]

End(t, outcome) == attempts' = [attempts EXCEPT ![t][Len(attempts[t])].outcome = outcome]

\* mutant: the server passes the inner result's transport through
InnerTransport(t) == IF Last(t).via = "attach" THEN "persistent" ELSE "one-shot"

\* The transport run_subprocess and execute_api report, which
\* handle_server_request overwrites.
ReportedTransport(t) ==
    IF served[t] THEN "server"
    ELSE IF Last(t).via = "attach" THEN "persistent" ELSE "one-shot"

\* The backend ran to its end, well or not.
Answer(t, success) ==
    /\ At(t, "attempt") /\ Last(t).started
    /\ End(t, IF success THEN "success" ELSE "failure")
    /\ result' = [result EXCEPT ![t] = [ transport |-> ReportedTransport(t), success |-> success ]]
    /\ Goto(t, "done")
    /\ UNCHANGED <<callVars, config, policy, served, error, machine, changes, probe, fresh>>

\* mutant: the fallback also follows an attempt of any other kind
ErrRetried(t) ==
    /\ At(t, "attempt")
    /\ End(t, "err")
    /\ \/ Goto(t, "process") /\ UNCHANGED error
       \/ Fail(t, "ExecutionFailed")
    /\ UNCHANGED <<callVars, config, policy, served, result, machine, changes, probe, fresh>>

\* The attempt ends in an Err; an attached one is followed by a process of the
\* backend's own.
Err(t) ==
    /\ At(t, "attempt")
    /\ End(t, "err")
    /\ \/ Last(t).via = "attach" /\ Goto(t, "process") /\ UNCHANGED error
       \/ Last(t).via # "attach" /\ Fail(t, "ExecutionFailed")
    /\ UNCHANGED <<callVars, config, policy, served, result, machine, changes, probe, fresh>>

\* All tasks are done, or the failure of one is joined and ends the call.
Return ==
    /\ stage = "running"
    /\ \/ \A t \in Tasks : pc[t] = "done"
       \/ \E t \in Tasks : pc[t] = "failed"
    /\ stage' = "over"
    /\ UNCHANGED <<call, base, plan, taskVars, machine, changes, probe, fresh>>

Settled == stage = "over" /\ UNCHANGED vars

Task(t) ==
    \/ Start(t) \/ ResolveAgent(t) \/ Dispatch(t)
    \/ CheckPersistent(t) \/ EnsureOpencodeServer(t) \/ EnsureServer(t)
    \/ Launch(t) \/ CallApi(t) \/ Err(t)
    \/ \E success \in BOOLEAN : Answer(t, success)

Next ==
    \/ \E m \in Machines : Change(m)
    \/ PreviewResolve \/ Plan \/ Execute \/ Validate \/ Return
    \/ \E t \in Tasks : Task(t)
    \/ Settled

Spec == Init /\ [][Next]_vars

-----------------------------------------------------------------------------
(* Properties.                                                             *)

Started(t) == \E i \in DOMAIN attempts[t] : attempts[t][i].started

IsAttempt(a) ==
    /\ a.backend \in Backends /\ a.via \in {"process", "attach", "api"}
    /\ a.flag \in Policies \cup {None} /\ a.started \in BOOLEAN
    /\ a.outcome \in {"pending", "success", "failure", "err"}

\* Variables have their types, the plan covers the call or nothing, and a task
\* is at an attempt exactly while its last attempt is pending.
TypeOK ==
    /\ call \in Calls /\ machine \in Machines /\ changes \in 0 .. MaxChanges
    /\ probe \in {"unset", "yes", "no"} /\ fresh \subseteq {"plan", "checks"}
    /\ stage \in {"start", "planning", "planned", "validating", "running", "over"}
    /\ base \in Configs /\ config \in [Tasks -> Configs]
    /\ DOMAIN plan \in {{}, Tasks}
    /\ policy \in [Tasks -> Policies \cup {None}]
    /\ served \in [Tasks -> BOOLEAN]
    /\ \A t \in Tasks : \A i \in DOMAIN attempts[t] :
           /\ IsAttempt(attempts[t][i])
           /\ attempts[t][i].outcome = "pending" <=> pc[t] = "attempt" /\ i = Len(attempts[t])

\* What the preview answered for a task, a run of its backend agrees with.
Foretold(p, a) ==
    /\ a.backend = p.backend
    /\ CASE p.via = "server" -> a.via \in {"process", "api"}
         [] p.via = "attach" -> a.via \in {"attach", "process"} /\ a.flag = p.flag
         [] OTHER -> a.via = p.via /\ a.flag = p.flag

(* If the machine did not change since, what a preview accepted is neither  *)
(* refused nor run on another backend, in another form or with another      *)
(* permission: for single requests, and for tasks without an agent of       *)
(* their own.  Agents are resolved, backends chosen and policies checked    *)
(* anew by each of preview, validation, worker and wrangle server.          *)
PreviewIsKept ==
    \A t \in DOMAIN plan :
        "plan" \in fresh /\ (call.kind = "single" \/ call.specs[t].agent = None) =>
            /\ error[t] \notin Refusals
            /\ \A i \in DOMAIN attempts[t] : Foretold(plan[t], attempts[t][i])

(* No run of a backend is given more or less than the request's policy,     *)
(* whether directly, through a wrangle server or after a fallback: a policy *)
(* that passed ensure_request_supported always has a flag, and the form     *)
(* that has no flags is only used with the default policy.                  *)
PolicyIsExpressed ==
    \A t \in Tasks : \A i \in DOMAIN attempts[t] :
        attempts[t][i].flag = IF policy[t] = "default" THEN None ELSE policy[t]

(* A parallel call that has started a backend refuses another of its tasks  *)
(* only for the sake of an agent of the task's own, or because the machine  *)
(* changed since the tasks were checked.                                    *)
LateRefusalHasACause ==
    \A t \in Tasks :
        (call.kind = "parallel" /\ error[t] \in Refusals /\ \E u \in Tasks : Started(u)) =>
            call.specs[t].agent # None \/ "checks" \notin fresh

(* A task is run a second time only by the one-shot process of the same     *)
(* backend that follows an attached run that ended in an Err; a run that    *)
(* was answered, well or badly, is never repeated.                          *)
OnlyErrIsRetried ==
    \A t \in Tasks :
        /\ Len(attempts[t]) <= 2
        /\ Len(attempts[t]) = 2 =>
              /\ attempts[t][1].via = "attach" /\ attempts[t][1].outcome = "err"
              /\ attempts[t][2].via = "process"
              /\ attempts[t][2].backend = attempts[t][1].backend

(* A caller can tell from the transport of a result whether a fallback      *)
(* took place: it differs from the one asked for exactly if an attached run *)
(* was given up or never begun (docs/persistent-backend.md).                *)
TransportTellsFallback ==
    \A t \in Tasks :
        pc[t] = "done" =>
            (result[t].transport # TaskConfig(t).transport)
              <=> (TaskConfig(t).transport = "persistent" /\ Last(t).via = "process")
=============================================================================
