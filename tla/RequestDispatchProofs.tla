----------------------- MODULE RequestDispatchProofs -----------------------
(***************************************************************************)
(* Proofs about RequestDispatch: the policy a backend is given, what is    *)
(* retried, what the reported transport tells, and what a preview and the  *)
(* checks of a parallel call are worth, for every set of calls, every set  *)
(* of machines and any number of changes between them.                     *)
(***************************************************************************)
EXTENDS RequestDispatch, SequenceTheorems, TLAPS

Places == { "waiting", "resolve", "dispatch", "persistent", "ensure", "process",
            "attach", "api", "server", "attempt", "done", "failed" }

Attempt == [ backend : Backends, via : {"process", "attach", "api"},
             flag : Policies \cup {None}, started : BOOLEAN,
             outcome : {"pending", "success", "failure", "err"} ]

Types ==
    /\ call \in Calls /\ machine \in Machines
    /\ changes \in 0 .. MaxChanges /\ probe \in {"unset", "yes", "no"}
    /\ fresh \subseteq {"plan", "checks"}
    /\ stage \in {"start", "planning", "planned", "validating", "running", "over"}
    /\ base \in Configs /\ DOMAIN plan \in {{}, Tasks}
    /\ pc \in [Tasks -> Places]
    /\ config \in [Tasks -> Configs]
    /\ policy \in [Tasks -> Policies \cup {None}]
    /\ served \in [Tasks -> BOOLEAN]
    /\ attempts \in [Tasks -> Seq(Attempt)]
    /\ DOMAIN error = Tasks
    /\ DOMAIN result = Tasks

\* Where ensure_request_supported has said yes to the backend kept in config.
Accepted == {"persistent", "ensure", "process", "attach", "api", "attempt"}

\* The backend fits the form it is run in, and allows the request's policy.
BackendFits(t) ==
    pc[t] \in Accepted =>
        /\ config[t].backend \in Backends
        /\ policy[t] \in PermissionPolicies(config[t].backend)
        /\ pc[t] \in {"persistent", "ensure", "attach"} => config[t].backend = "opencode"
        /\ pc[t] = "process" => config[t].backend \in CliNames
        /\ pc[t] = "api" => config[t].backend = ApiName

\* How many attempts there are at each place, and how they ended.
AttemptsFit(t) ==
    /\ pc[t] \in {"waiting", "resolve", "dispatch", "persistent", "ensure", "attach", "api", "server"}
          => attempts[t] = <<>>
    /\ pc[t] = "process" =>
          \/ attempts[t] = <<>>
          \/ /\ Len(attempts[t]) = 1
             /\ attempts[t][1].via = "attach"
             /\ attempts[t][1].outcome = "err"
             /\ attempts[t][1].backend = config[t].backend
    /\ pc[t] \in {"attempt", "done"} => Len(attempts[t]) # 0
    /\ pc[t] = "attempt" => Last(t).backend = config[t].backend
    /\ pc[t] = "attempt" /\ Last(t).via = "attach" => /\ Len(attempts[t]) = 1
                                                      /\ config[t].backend = "opencode"
    /\ \A i \in DOMAIN attempts[t] :
          attempts[t][i].outcome = "pending" <=> pc[t] = "attempt" /\ i = Len(attempts[t])
    /\ Len(attempts[t]) <= 2
    /\ Len(attempts[t]) = 2 =>
          /\ attempts[t][1].via = "attach" /\ attempts[t][1].outcome = "err"
          /\ attempts[t][2].via = "process"
          /\ attempts[t][2].backend = attempts[t][1].backend

\* The policy of each attempt is the request's.
Expressed(t) ==
    \A i \in DOMAIN attempts[t] :
        attempts[t][i].flag = IF policy[t] = "default" THEN None ELSE policy[t]

\* The transport in force is the one asked for, or the server's one-shot; and
\* the form each attempt has follows from it.
TransportFits(t) ==
    /\ pc[t] # "waiting" =>
          /\ stage \in {"running", "over"}
          /\ IF served[t]
             THEN TaskConfig(t).transport = "server" /\ config[t].transport = "one-shot"
             ELSE config[t].transport = TaskConfig(t).transport
    /\ pc[t] = "waiting" => ~served[t]
    /\ pc[t] \in {"persistent", "ensure", "attach"} => config[t].transport = "persistent"
    /\ pc[t] = "process" => config[t].transport \in {"one-shot", "persistent"}
    /\ pc[t] = "api" => config[t].transport = "one-shot"
    /\ pc[t] = "server" => config[t].transport = "server"
    /\ pc[t] \in {"attempt", "done"} =>
          /\ Last(t).via = "attach" => config[t].transport = "persistent"
          /\ Last(t).via = "process" => config[t].transport \in {"one-shot", "persistent"}
          /\ Last(t).via = "api" => config[t].transport = "one-shot"
    /\ pc[t] = "done" => result[t].transport = ReportedTransport(t)

TaskInv(t) == BackendFits(t) /\ AttemptsFit(t) /\ Expressed(t) /\ TransportFits(t)

IInv == Types /\ \A t \in Tasks : TaskInv(t)

-----------------------------------------------------------------------------
(* The backend tables.                                                     *)

LEMMA CliNamesAre == CliNames = {"codex", "claude", "gemini", "opencode", "qwen"}
BY DEF CliNames, CliBackends

\* map_permission_flag has a flag for every policy but the default that
\* CliBackend::new lists: the two tables agree.
LEMMA TablesAgree ==
    ASSUME NEW b \in CliNames, NEW p \in PermissionPolicies(b)
    PROVE  PermissionFlag(b, p) = IF p = "default" THEN None ELSE p
BY CliNamesAre DEF PermissionPolicies, PermissionFlag

\* The forms without flags are those of backends that allow the default only.
LEMMA FlaglessAllowDefault ==
    ASSUME NEW b \in {"opencode", ApiName}, NEW p \in PermissionPolicies(b)
    PROVE  p = "default"
BY DEF PermissionPolicies, ApiName

LEMMA SomeIsFirst ==
    ASSUME machine.installed # {}, machine.installed \subseteq CliNames
    PROVE  \E b \in CliNames : IsFirstInstalled(b)
<1> DEFINE m == machine.installed
<1>1. CASE "codex" \in m
  <2>. IsFirstInstalled("codex")
    BY <1>1 DEF IsFirstInstalled, CliBackends
  <2>. QED  BY CliNamesAre
<1>2. CASE "codex" \notin m /\ "claude" \in m
  <2>. IsFirstInstalled("claude")
    <3>. CliBackends[2] = "claude" /\ 2 \in DOMAIN CliBackends
      BY DEF CliBackends
    <3>. \A j \in 1 .. 1 : CliBackends[j] \notin m
      BY <1>2 DEF CliBackends
    <3>. QED  BY <1>2 DEF IsFirstInstalled
  <2>. QED  BY CliNamesAre
<1>3. CASE {"codex", "claude"} \cap m = {} /\ "gemini" \in m
  <2>. IsFirstInstalled("gemini")
    <3>. CliBackends[3] = "gemini" /\ 3 \in DOMAIN CliBackends
      BY DEF CliBackends
    <3>. \A j \in 1 .. 2 : CliBackends[j] \notin m
      BY <1>3 DEF CliBackends
    <3>. QED  BY <1>3 DEF IsFirstInstalled
  <2>. QED  BY CliNamesAre
<1>4. CASE {"codex", "claude", "gemini"} \cap m = {} /\ "opencode" \in m
  <2>. IsFirstInstalled("opencode")
    <3>. CliBackends[4] = "opencode" /\ 4 \in DOMAIN CliBackends
      BY DEF CliBackends
    <3>. \A j \in 1 .. 3 : CliBackends[j] \notin m
      BY <1>4 DEF CliBackends
    <3>. QED  BY <1>4 DEF IsFirstInstalled
  <2>. QED  BY CliNamesAre
<1>5. CASE {"codex", "claude", "gemini", "opencode"} \cap m = {} /\ "qwen" \in m
  <2>. IsFirstInstalled("qwen")
    <3>. CliBackends[5] = "qwen" /\ 5 \in DOMAIN CliBackends
      BY DEF CliBackends
    <3>. \A j \in 1 .. 4 : CliBackends[j] \notin m
      BY <1>5 DEF CliBackends
    <3>. QED  BY <1>5 DEF IsFirstInstalled
  <2>. QED  BY CliNamesAre
<1>. QED  BY <1>1, <1>2, <1>3, <1>4, <1>5, CliNamesAre

LEMMA Selected ==
    ASSUME Types, NEW name
    PROVE  SelectBackend(name) \in Backends \cup {"NotFound", "NotAvailable"}
<1>1. machine.installed \subseteq CliNames
  BY MachinesAssumption DEF Types, IsMachine
<1>2. machine.installed # {} => (CHOOSE b \in CliNames : IsFirstInstalled(b)) \in CliNames
  BY <1>1, SomeIsFirst
<1>. QED  BY <1>2 DEF SelectBackend, Backends

\* What a worker knows when its request was not refused.
LEMMA NotRefused ==
    ASSUME Types, NEW c, NEW p, Refusal(c, p) = None
    PROVE  /\ SelectBackend(c.backend) \in Backends
           /\ c.transport \in TransportModes(SelectBackend(c.backend))
           /\ p \in PermissionPolicies(SelectBackend(c.backend))
<1>1. SelectBackend(c.backend) \in Backends \cup {"NotFound", "NotAvailable"}
  BY Selected
<1>2. SelectBackend(c.backend) \in Backends
  BY <1>1 DEF Refusal, None
<1>3. Unsupported(SelectBackend(c.backend), c, p) = None
  BY <1>2 DEF Refusal
<1>. QED  BY <1>2, <1>3 DEF Unsupported, None

-----------------------------------------------------------------------------
(* Configurations.                                                         *)

LEMMA ResolvedIsConfig ==
    ASSUME Types, NEW c \in Configs, Resolvable(c)
    PROVE  Resolved(c) \in Configs /\ Resolved(c).transport = c.transport
<1>1. CASE c.agent = None
  BY <1>1 DEF Resolved
<1>2. CASE c.agent # None
  <2>1. machine.agents[c.agent] \in AgentConfigs
    BY <1>2, MachinesAssumption DEF Resolvable, Types, IsMachine
  <2>. QED  BY <1>2, <2>1 DEF Resolved, Applied, Configs, AgentConfigs
<1>. QED  BY <1>1, <1>2

LEMMA CallFacts ==
    ASSUME Types
    PROVE  /\ call.base \in Configs
           /\ \A t \in Tasks : call.specs[t] \in Specs
           /\ \A t \in Tasks : TaskConfig(t) \in Configs
           /\ \A t \in Tasks : RequestPolicy(t) \in Policies
<1>1. call.base \in Configs /\ \A t \in Tasks : call.specs[t] \in Specs
  BY CallsAssumption DEF Types, IsCall, Tasks
<1>2. base \in Configs
  BY DEF Types
<1>3. ASSUME NEW t \in Tasks PROVE TaskConfig(t) \in Configs
  <2> DEFINE spec == call.specs[t]
  <2>1. /\ Or(spec.backend, base.backend) \in Names
        /\ Or(spec.agent, base.agent) \in Agents \cup {None}
    BY <1>1, <1>2 DEF Or, Configs, Specs
  <2>2. /\ Or(spec.transport, base.transport) \in Transports
        /\ Or(spec.policy, base.policy) \in Policies
    BY <1>1, <1>2 DEF Or, Configs, Specs
  <2>. QED  BY <1>2, <2>1, <2>2 DEF TaskConfig, Configs
<1>4. ASSUME NEW t \in Tasks PROVE RequestPolicy(t) \in Policies
  BY <1>1, <1>2 DEF RequestPolicy, Or, Configs, Specs
<1>. QED  BY <1>1, <1>3, <1>4

-----------------------------------------------------------------------------
(* The initial state, and steps that leave a task alone.                   *)

LEMMA InitEstablishes == Init => IInv
<1> SUFFICES ASSUME Init PROVE IInv
  OBVIOUS
<1> USE DEF Init
<1>1. call.base \in Configs
  BY CallsAssumption DEF IsCall
<1>2. <<>> \in Seq(Attempt)
  BY EmptySeq
<1>3. Types
  BY <1>1, <1>2, ChangesAssumption DEF Types, Places, NoPlan
<1>4. ASSUME NEW t \in Tasks PROVE TaskInv(t)
  BY <1>4 DEF TaskInv, BackendFits, AttemptsFit, Expressed, TransportFits, Accepted
<1>. QED  BY <1>3, <1>4 DEF IInv

\* A task that has not begun needs nothing of the call's variables.
LEMMA WaitingTask ==
    ASSUME Types, NEW u \in Tasks, TaskInv(u), pc[u] = "waiting", UNCHANGED taskVars
    PROVE  TaskInv(u)'
BY DEF TaskInv, BackendFits, AttemptsFit, Expressed, TransportFits, Accepted, taskVars, Last

\* A step that changes nothing the invariant of a task speaks of.
LEMMA TaskLeftAlone ==
    ASSUME NEW u \in Tasks, TaskInv(u),
           call' = call, base' = base,
           stage' = stage \/ stage' \in {"running", "over"},
           pc'[u] = pc[u], config'[u] = config[u], policy'[u] = policy[u],
           served'[u] = served[u], attempts'[u] = attempts[u], result'[u] = result[u]
    PROVE  TaskInv(u)'
<1>1. Last(u)' = Last(u) /\ TaskConfig(u)' = TaskConfig(u)
  BY DEF Last, TaskConfig
<1>2. ReportedTransport(u)' = ReportedTransport(u)
  BY <1>1 DEF ReportedTransport
<1>3. BackendFits(u)' /\ Expressed(u)'
  BY DEF TaskInv, BackendFits, Expressed
<1>4. AttemptsFit(u)'
  BY <1>1 DEF TaskInv, AttemptsFit
<1>5. TransportFits(u)'
  BY <1>1, <1>2 DEF TaskInv, TransportFits
<1>. QED  BY <1>3, <1>4, <1>5 DEF TaskInv

LEMMA ChangeStep == ASSUME IInv, NEW m \in Machines, Change(m) PROVE IInv'
<1> USE DEF Change, callVars, taskVars
<1>1. Types'
  BY ChangesAssumption DEF IInv, Types, Tasks
<1>2. ASSUME NEW u \in Tasks' PROVE TaskInv(u)'
  BY <1>2, TaskLeftAlone DEF IInv, Tasks
<1>. QED  BY <1>1, <1>2 DEF IInv

LEMMA NobodyBegan ==
    ASSUME IInv, stage \notin {"running", "over"}, NEW u \in Tasks
    PROVE  pc[u] = "waiting"
BY DEF IInv, TaskInv, TransportFits

LEMMA PreviewStep == IInv /\ (PreviewResolve \/ Plan) => IInv'
<1> SUFFICES ASSUME IInv, PreviewResolve \/ Plan PROVE IInv'
  OBVIOUS
<1>1. stage \notin {"running", "over"} /\ call' = call /\ UNCHANGED taskVars
  BY DEF PreviewResolve, Plan
<1>2. base' \in Configs
  BY CallFacts, ResolvedIsConfig DEF PreviewResolve, Plan, IInv, Types
<1>3. DOMAIN plan' \in {{}, Tasks}
  BY DEF PreviewResolve, Plan, NoPlan, IInv, Types
<1>4. Types'
  BY <1>1, <1>2, <1>3 DEF PreviewResolve, Plan, IInv, Types, Tasks, taskVars
<1>5. ASSUME NEW u \in Tasks' PROVE TaskInv(u)'
  BY <1>1, <1>5, NobodyBegan, WaitingTask DEF IInv, Tasks
<1>. QED  BY <1>4, <1>5 DEF IInv

LEMMA ExecuteStep == IInv /\ Execute => IInv'
<1> SUFFICES ASSUME IInv, Execute PROVE IInv'
  OBVIOUS
<1>1. stage \notin {"running", "over"} /\ call' = call /\ UNCHANGED taskVars
  BY DEF Execute
<1>2. call.base \in Configs
  BY CallFacts DEF IInv
<1>3. base' \in Configs /\ stage' \in {"running", "validating", "over"}
  BY <1>2, ResolvedIsConfig DEF Execute, IInv
<1>4. Types'
  BY <1>1, <1>3 DEF Execute, IInv, Types, Tasks, taskVars
<1>5. ASSUME NEW u \in Tasks' PROVE TaskInv(u)'
  BY <1>1, <1>5, NobodyBegan, WaitingTask DEF IInv, Tasks
<1>. QED  BY <1>4, <1>5 DEF IInv

LEMMA ValidateOrReturnStep == IInv /\ (Validate \/ Return) => IInv'
<1> SUFFICES ASSUME IInv, Validate \/ Return PROVE IInv'
  OBVIOUS
<1>1. /\ call' = call /\ base' = base /\ UNCHANGED taskVars
      /\ stage' \in {"running", "over"}
  BY DEF Validate, Return
<1>2. Types'
  BY <1>1 DEF Validate, Return, IInv, Types, Tasks, taskVars
<1>3. ASSUME NEW u \in Tasks' PROVE TaskInv(u)'
  BY <1>1, <1>3, TaskLeftAlone DEF IInv, Tasks, taskVars
<1>. QED  BY <1>2, <1>3 DEF IInv

LEMMA StutterStep == IInv /\ UNCHANGED vars => IInv'
<1> SUFFICES ASSUME IInv, UNCHANGED vars PROVE IInv'
  OBVIOUS
<1> USE DEF vars, callVars, taskVars
<1>1. Types'
  BY DEF IInv, Types, Tasks
<1>2. ASSUME NEW u \in Tasks' PROVE TaskInv(u)'
  BY <1>2, TaskLeftAlone DEF IInv, Tasks
<1>. QED  BY <1>1, <1>2 DEF IInv

-----------------------------------------------------------------------------
(* Steps of a task.                                                        *)

\* Only the task that takes the step needs to be looked at.
LEMMA OneTask ==
    ASSUME IInv, NEW t \in Tasks, UNCHANGED callVars, Types', TaskInv(t)',
           \A u \in Tasks \ {t} :
               /\ pc'[u] = pc[u] /\ config'[u] = config[u] /\ policy'[u] = policy[u]
               /\ served'[u] = served[u] /\ attempts'[u] = attempts[u]
               /\ result'[u] = result[u]
    PROVE  IInv'
<1>1. ASSUME NEW u \in Tasks' PROVE TaskInv(u)'
  BY <1>1, TaskLeftAlone DEF callVars, IInv, Tasks
<1>. QED  BY <1>1 DEF IInv

LEMMA StartStep == ASSUME IInv, NEW t \in Tasks, Start(t) PROVE IInv'
<1> USE DEF Start, Goto
<1>1. /\ pc[t] = "waiting" /\ stage = "running" /\ UNCHANGED callVars
      /\ pc' = [pc EXCEPT ![t] = "resolve"]
      /\ config' = [config EXCEPT ![t] = TaskConfig(t)]
      /\ policy' = [policy EXCEPT ![t] = RequestPolicy(t)]
      /\ UNCHANGED <<served, attempts, error, result, machine, changes, probe, fresh>>
  BY DEF At
<1>2. Types'
  BY <1>1, CallFacts DEF IInv, Types, Tasks, callVars, Places
<1>3. /\ pc'[t] = "resolve" /\ config'[t] = TaskConfig(t)
      /\ attempts'[t] = attempts[t] /\ ~served'[t] /\ attempts[t] = <<>>
  BY <1>1 DEF IInv, Types, TaskInv, TransportFits, AttemptsFit
<1>4. TaskConfig(t)' = TaskConfig(t)
  BY <1>1 DEF TaskConfig, callVars
<1>5. TaskInv(t)'
  BY <1>1, <1>3, <1>4
     DEF TaskInv, BackendFits, AttemptsFit, Expressed, TransportFits, Accepted, callVars
<1>. QED  BY <1>1, <1>2, <1>5, OneTask DEF IInv, Types

LEMMA ResolveAgentStep == ASSUME IInv, NEW t \in Tasks, ResolveAgent(t) PROVE IInv'
<1>1. /\ pc[t] = "resolve" /\ stage = "running" /\ UNCHANGED callVars
      /\ UNCHANGED <<policy, served, attempts, result, machine, changes, probe, fresh>>
  BY DEF ResolveAgent, At
<1>2. config[t] \in Configs
  BY DEF IInv, Types
<1>3. \/ /\ config' = [config EXCEPT ![t] = Resolved(config[t])]
         /\ pc' = [pc EXCEPT ![t] = "dispatch"] /\ error' = error
         /\ Resolvable(config[t])
      \/ /\ config' = config /\ pc' = [pc EXCEPT ![t] = "failed"]
         /\ error' = [error EXCEPT ![t] = "AgentNotFound"]
  BY DEF ResolveAgent, Goto, Fail, IInv, Types
<1>4. Resolvable(config[t]) =>
         Resolved(config[t]) \in Configs /\ Resolved(config[t]).transport = config[t].transport
  BY <1>2, ResolvedIsConfig DEF IInv
<1>5. Types'
  <2>1. config' \in [Tasks -> Configs]
    BY <1>3, <1>4 DEF IInv, Types
  <2>2. pc' \in [Tasks -> Places] /\ DOMAIN error' = Tasks
    BY <1>3 DEF IInv, Types, Places
  <2>. QED  BY <1>1, <2>1, <2>2 DEF IInv, Types, Tasks, callVars
<1>6. /\ pc'[t] \in {"dispatch", "failed"}
      /\ attempts'[t] = attempts[t] /\ served'[t] = served[t] /\ attempts[t] = <<>>
      /\ config'[t].transport = config[t].transport
  <2>1. pc'[t] \in {"dispatch", "failed"}
    BY <1>3 DEF IInv, Types
  <2>2. attempts'[t] = attempts[t] /\ served'[t] = served[t] /\ attempts[t] = <<>>
    BY <1>1 DEF IInv, TaskInv, AttemptsFit
  <2>3. config'[t].transport = config[t].transport
    BY <1>3, <1>4 DEF IInv, Types
  <2>. QED  BY <2>1, <2>2, <2>3
<1>7. TaskConfig(t)' = TaskConfig(t)
  BY <1>1 DEF TaskConfig, callVars
<1>8. TaskInv(t)'
  BY <1>1, <1>6, <1>7
     DEF IInv, TaskInv, BackendFits, AttemptsFit, Expressed, TransportFits, Accepted, callVars
<1>. QED  BY <1>1, <1>3, <1>5, <1>8, OneTask DEF IInv, Types

LEMMA DispatchStep == ASSUME IInv, NEW t \in Tasks, Dispatch(t) PROVE IInv'
<1> DEFINE b == SelectBackend(config[t].backend)
           form == Via(b, config[t].transport)
           place == IF form = "attach" THEN "persistent" ELSE form
<1>1. /\ pc[t] = "dispatch" /\ stage = "running" /\ UNCHANGED callVars
      /\ UNCHANGED <<policy, served, attempts, result, machine, changes, probe, fresh>>
      /\ config[t] \in Configs /\ attempts[t] = <<>>
      /\ TaskConfig(t)' = TaskConfig(t)
  BY DEF Dispatch, At, IInv, Types, TaskInv, AttemptsFit, TaskConfig, callVars
<1>2. CASE /\ Refusal(config[t], policy[t]) # None
           /\ Fail(t, Refusal(config[t], policy[t])) /\ UNCHANGED config
  <2>1. Types'
    BY <1>1, <1>2 DEF IInv, Types, Tasks, callVars, Places, Fail, Goto
  <2>2. pc'[t] = "failed"
    BY <1>2 DEF Fail, Goto, IInv, Types
  <2>3. TaskInv(t)'
    BY <1>1, <1>2, <2>2
       DEF IInv, TaskInv, BackendFits, AttemptsFit, Expressed, TransportFits, Accepted, callVars
  <2>. QED  BY <1>1, <1>2, <2>1, <2>3, OneTask DEF IInv, Types, Fail, Goto
<1>3. CASE /\ Refusal(config[t], policy[t]) = None
           /\ Goto(t, place)
           /\ config' = [config EXCEPT ![t].backend = b] /\ UNCHANGED error
  <2>1. /\ b \in Backends /\ config[t].transport \in TransportModes(b)
        /\ policy[t] \in PermissionPolicies(b)
    BY <1>3, NotRefused DEF IInv
  <2>2. /\ place \in {"persistent", "process", "api", "server"}
        /\ place = "persistent" => b = "opencode" /\ config[t].transport = "persistent"
        /\ place = "process" => b \in CliNames /\ config[t].transport = "one-shot"
        /\ place = "api" => b = ApiName /\ config[t].transport = "one-shot"
        /\ place = "server" => config[t].transport = "server"
    <3>1. CASE config[t].transport = "server"
      BY <3>1 DEF Via
    <3>2. CASE config[t].transport = "persistent"
      <4>1. b = "opencode"
        BY <2>1, <3>2 DEF TransportModes
      <4>. QED  BY <3>2, <4>1 DEF Via
    <3>3. CASE config[t].transport = "one-shot"
      BY <2>1, <3>3 DEF Via, Backends
    <3>. QED  BY <1>1, <3>1, <3>2, <3>3 DEF Configs, Transports
  <2>3. pc'[t] = place /\ config'[t] = [config[t] EXCEPT !.backend = b]
    BY <1>3 DEF Goto, IInv, Types
  <2>4. /\ config'[t] \in Configs /\ config'[t].backend = b
        /\ config'[t].transport = config[t].transport
    BY <1>1, <2>1, <2>3 DEF Configs, Names
  <2>5. config' \in [Tasks -> Configs]
    BY <1>3, <2>3, <2>4 DEF IInv, Types
  <2>6. Types'
    BY <1>1, <1>3, <2>2, <2>5 DEF IInv, Types, Tasks, callVars, Places, Goto
  <2>7. BackendFits(t)' /\ Expressed(t)' /\ AttemptsFit(t)'
    BY <1>1, <2>1, <2>2, <2>3, <2>4
       DEF IInv, TaskInv, BackendFits, AttemptsFit, Expressed, Accepted, Backends
  <2>8. TransportFits(t)'
    BY <1>1, <2>2, <2>3, <2>4 DEF IInv, TaskInv, TransportFits, callVars
  <2>. QED  BY <1>1, <1>3, <2>6, <2>7, <2>8, OneTask DEF TaskInv, IInv, Types, Goto
<1>. QED  BY <1>2, <1>3 DEF Dispatch

\* The steps that only move a task on, within one transport.
LEMMA MoveStep ==
    ASSUME IInv, NEW t \in Tasks, CheckPersistent(t) \/ EnsureOpencodeServer(t)
    PROVE  IInv'
<1>1. /\ pc[t] \in {"persistent", "ensure"} /\ stage = "running" /\ UNCHANGED callVars
      /\ UNCHANGED <<config, policy, served, attempts, error, result, machine, changes, fresh>>
      /\ TaskConfig(t)' = TaskConfig(t)
  BY DEF CheckPersistent, EnsureOpencodeServer, At, TaskConfig, callVars
<1>2. PICK place \in {"ensure", "attach", "process"} : pc' = [pc EXCEPT ![t] = place]
  BY DEF CheckPersistent, EnsureOpencodeServer, Goto
<1>3. probe' \in {"unset", "yes", "no"}
  BY DEF CheckPersistent, EnsureOpencodeServer, Probed, IInv, Types
<1>4. Types'
  BY <1>1, <1>2, <1>3 DEF IInv, Types, Tasks, callVars, Places
<1>5. pc'[t] = place
  BY <1>2 DEF IInv, Types
<1>6. BackendFits(t)' /\ AttemptsFit(t)' /\ Expressed(t)'
  BY <1>1, <1>5, CliNamesAre
     DEF IInv, TaskInv, BackendFits, AttemptsFit, Expressed, Accepted
<1>7. TransportFits(t)'
  BY <1>1, <1>5 DEF IInv, TaskInv, TransportFits, callVars
<1>. QED  BY <1>1, <1>2, <1>4, <1>6, <1>7, OneTask DEF TaskInv, IInv, Types

LEMMA EnsureServerStep == ASSUME IInv, NEW t \in Tasks, EnsureServer(t) PROVE IInv'
<1>1. /\ pc[t] = "server" /\ stage = "running" /\ UNCHANGED callVars
      /\ UNCHANGED <<policy, attempts, result, machine, changes, probe, fresh>>
      /\ TaskConfig(t)' = TaskConfig(t) /\ attempts[t] = <<>>
      /\ config[t].transport = "server" /\ config[t] \in Configs
  BY DEF EnsureServer, At, TaskConfig, callVars, IInv, Types, TaskInv, AttemptsFit, TransportFits
<1>2. CASE /\ pc' = [pc EXCEPT ![t] = "resolve"]
           /\ config' = [config EXCEPT ![t].transport = "one-shot"]
           /\ served' = [served EXCEPT ![t] = TRUE] /\ UNCHANGED error
  <2>1. /\ pc'[t] = "resolve" /\ served'[t] = TRUE
        /\ config'[t] = [config[t] EXCEPT !.transport = "one-shot"]
    BY <1>2 DEF IInv, Types
  <2>2. config'[t] \in Configs /\ config'[t].transport = "one-shot"
    BY <1>1, <2>1 DEF Configs, Transports
  <2>3. config' \in [Tasks -> Configs]
    BY <1>2, <2>2 DEF IInv, Types
  <2>4. Types'
    BY <1>1, <1>2, <2>3 DEF IInv, Types, Tasks, callVars, Places
  <2>5. TaskConfig(t).transport = "server"
    BY <1>1 DEF IInv, TaskInv, TransportFits
  <2>6. TaskInv(t)'
    BY <1>1, <2>1, <2>2, <2>5
       DEF TaskInv, BackendFits, AttemptsFit, Expressed, TransportFits, Accepted, callVars
  <2>. QED  BY <1>1, <1>2, <2>4, <2>6, OneTask DEF IInv, Types
<1>3. CASE Fail(t, "ServerUnavailable") /\ UNCHANGED <<config, served>>
  <2>1. Types'
    BY <1>1, <1>3 DEF IInv, Types, Tasks, callVars, Places, Fail, Goto
  <2>2. pc'[t] = "failed"
    BY <1>3 DEF Fail, Goto, IInv, Types
  <2>3. TaskInv(t)'
    BY <1>1, <1>3, <2>2
       DEF IInv, TaskInv, BackendFits, AttemptsFit, Expressed, TransportFits, Accepted, callVars
  <2>. QED  BY <1>1, <1>3, <2>1, <2>3, OneTask DEF IInv, Types, Fail, Goto
<1>. QED  BY <1>2, <1>3 DEF EnsureServer, Goto

-----------------------------------------------------------------------------
(* Attempts.                                                               *)

\* A new attempt goes behind those there are.
LEMMA Appended ==
    ASSUME NEW t \in Tasks, Types, NEW a \in Attempt,
           attempts' = [attempts EXCEPT ![t] = Append(attempts[t], a)]
    PROVE  /\ attempts' \in [Tasks -> Seq(Attempt)]
           /\ Len(attempts'[t]) = Len(attempts[t]) + 1
           /\ DOMAIN attempts'[t] = 1 .. Len(attempts[t]) + 1
           /\ Last(t)' = a /\ attempts'[t][Len(attempts[t]) + 1] = a
           /\ \A i \in 1 .. Len(attempts[t]) : attempts'[t][i] = attempts[t][i]
           /\ DOMAIN attempts[t] = 1 .. Len(attempts[t]) /\ Len(attempts[t]) \in Nat
<1>1. attempts[t] \in Seq(Attempt)
  BY DEF Types
<1>2. attempts'[t] = Append(attempts[t], a)
  BY DEF Types
<1>3. Append(attempts[t], a) \in Seq(Attempt)
  BY <1>1, AppendProperties
<1>4. attempts' \in [Tasks -> Seq(Attempt)]
  BY <1>3 DEF Types
<1>5. /\ Len(attempts'[t]) = Len(attempts[t]) + 1
      /\ DOMAIN attempts'[t] = 1 .. Len(attempts[t]) + 1
      /\ attempts'[t][Len(attempts[t]) + 1] = a
      /\ \A i \in 1 .. Len(attempts[t]) : attempts'[t][i] = attempts[t][i]
  BY <1>1, <1>2
<1>. QED  BY <1>1, <1>4, <1>5 DEF Last

\* The last attempt ends; nothing else about the attempts changes.
LEMMA Ended ==
    ASSUME NEW t \in Tasks, Types, Len(attempts[t]) # 0,
           NEW outcome \in {"success", "failure", "err"}, End(t, outcome)
    PROVE  /\ attempts' \in [Tasks -> Seq(Attempt)]
           /\ Len(attempts'[t]) = Len(attempts[t])
           /\ DOMAIN attempts'[t] = DOMAIN attempts[t]
           /\ DOMAIN attempts[t] = 1 .. Len(attempts[t]) /\ Len(attempts[t]) \in Nat
           /\ Last(t)' = [Last(t) EXCEPT !.outcome = outcome] /\ Last(t) \in Attempt
           /\ \A i \in DOMAIN attempts[t] :
                 /\ i # Len(attempts[t]) => attempts'[t][i] = attempts[t][i]
                 /\ attempts'[t][i].via = attempts[t][i].via
                 /\ attempts'[t][i].flag = attempts[t][i].flag
                 /\ attempts'[t][i].backend = attempts[t][i].backend
                 /\ i = Len(attempts[t]) => attempts'[t][i].outcome = outcome
<1> DEFINE n == Len(attempts[t])
           a == [attempts[t][n] EXCEPT !.outcome = outcome]
<1>1. attempts[t] \in Seq(Attempt) /\ n \in 1 .. n /\ attempts[t][n] \in Attempt
  BY DEF Types
<1>2. attempts'[t] = [attempts[t] EXCEPT ![n] = a]
  BY DEF End, Types
<1>3. /\ a \in Attempt /\ a.outcome = outcome
      /\ a.via = attempts[t][n].via /\ a.flag = attempts[t][n].flag
      /\ a.backend = attempts[t][n].backend
  BY <1>1 DEF Attempt
<1>4. /\ attempts'[t] \in Seq(Attempt) /\ Len(attempts'[t]) = n
      /\ attempts'[t][n] = a
      /\ \A i \in 1 .. n : i # n => attempts'[t][i] = attempts[t][i]
  BY <1>1, <1>2, <1>3, ExceptSeq
<1>5. attempts' \in [Tasks -> Seq(Attempt)]
  BY <1>4 DEF End, Types
<1>6. DOMAIN attempts'[t] = 1 .. n /\ DOMAIN attempts[t] = 1 .. n /\ n \in Nat
  BY <1>1, <1>4
<1>. QED  BY <1>1, <1>3, <1>4, <1>5, <1>6 DEF Last

\* What holds when an attempt begins: there is at most one before it, an
\* attached one that ended in an Err.
LEMMA NewAttempt ==
    ASSUME IInv, NEW t \in Tasks, NEW a \in Attempt,
           attempts' = [attempts EXCEPT ![t] = Append(attempts[t], a)],
           pc' = [pc EXCEPT ![t] = "attempt"],
           a.outcome = "pending", a.backend = config[t].backend,
           a.flag = (IF policy[t] = "default" THEN None ELSE policy[t]),
           config[t].backend \in Backends,
           policy[t] \in PermissionPolicies(config[t].backend),
           \/ attempts[t] = <<>>
           \/ pc[t] = "process" /\ a.via = "process",
           a.via = "attach" => config[t].backend = "opencode" /\ config[t].transport = "persistent",
           a.via = "process" => config[t].transport \in {"one-shot", "persistent"},
           a.via = "api" => config[t].transport = "one-shot",
           pc[t] \in {"process", "attach", "api"}, stage = "running",
           UNCHANGED callVars,
           UNCHANGED <<config, policy, served, error, result, machine, changes, probe, fresh>>
    PROVE  IInv'
<1> DEFINE n == Len(attempts[t])
<1>1. /\ attempts' \in [Tasks -> Seq(Attempt)]
      /\ Len(attempts'[t]) = n + 1 /\ DOMAIN attempts'[t] = 1 .. n + 1
      /\ Last(t)' = a /\ attempts'[t][n + 1] = a
      /\ \A i \in 1 .. n : attempts'[t][i] = attempts[t][i]
      /\ DOMAIN attempts[t] = 1 .. n /\ n \in Nat
  BY Appended DEF IInv
<1>2. Types'
  BY <1>1 DEF IInv, Types, Tasks, callVars, Places
<1>3. pc'[t] = "attempt" /\ TaskConfig(t)' = TaskConfig(t)
  BY DEF IInv, Types, TaskConfig, callVars
<1>4. \/ n = 0
      \/ /\ n = 1 /\ a.via = "process" /\ attempts[t][1].via = "attach"
         /\ attempts[t][1].outcome = "err"
         /\ attempts[t][1].backend = config[t].backend
  BY DEF IInv, TaskInv, AttemptsFit
<1>5. BackendFits(t)'
  BY <1>3 DEF BackendFits
<1>6. Expressed(t)'
  <2>1. \A i \in 1 .. n : attempts[t][i].flag = IF policy[t] = "default" THEN None ELSE policy[t]
    BY <1>1 DEF IInv, TaskInv, Expressed
  <2>. QED  BY <1>1, <2>1 DEF Expressed
<1>7. AttemptsFit(t)'
  <2>1. \A i \in DOMAIN attempts'[t] :
            attempts'[t][i].outcome = "pending" <=> i = n + 1
    BY <1>1, <1>4
  <2>2. n + 1 <= 2 /\ n + 1 # 0
    BY <1>1, <1>4
  <2>3. n + 1 = 2 => /\ attempts'[t][1].via = "attach" /\ attempts'[t][1].outcome = "err"
                     /\ attempts'[t][2].via = "process"
                     /\ attempts'[t][2].backend = attempts'[t][1].backend
    BY <1>1, <1>4
  <2>4. a.via = "attach" => n + 1 = 1
    BY <1>4
  <2>. QED  BY <1>1, <1>3, <2>1, <2>2, <2>3, <2>4 DEF AttemptsFit
<1>8. TransportFits(t)'
  BY <1>1, <1>3 DEF IInv, TaskInv, TransportFits, callVars
<1>. QED  BY <1>2, <1>5, <1>6, <1>7, <1>8, OneTask DEF TaskInv, IInv, Types

\* The flag of a run of a program is the policy of the request.
LEMMA FlagIsThePolicy ==
    ASSUME IInv, NEW t \in Tasks, pc[t] \in {"process", "attach"}
    PROVE  Flag(config[t].backend, pc[t], policy[t])
              = IF policy[t] = "default" THEN None ELSE policy[t]
<1>1. /\ policy[t] \in PermissionPolicies(config[t].backend)
      /\ pc[t] = "attach" => config[t].backend = "opencode"
      /\ pc[t] = "process" => config[t].backend \in CliNames
  BY DEF IInv, TaskInv, BackendFits, Accepted
<1>2. CASE pc[t] = "process"
  BY <1>1, <1>2, TablesAgree DEF Flag
<1>3. CASE pc[t] = "attach"
  <2>1. policy[t] = "default"
    BY <1>1, <1>3, FlaglessAllowDefault
  <2>. QED  BY <1>3, <2>1 DEF Flag, AttachedFlag
<1>. QED  BY <1>2, <1>3

LEMMA LaunchStep == ASSUME IInv, NEW t \in Tasks, Launch(t) PROVE IInv'
<1>1. PICK via \in {"process", "attach"} :
        /\ At(t, via)
        /\ attempts' = [attempts EXCEPT ![t] = Append(@,
              [ backend |-> config[t].backend, via |-> via,
                flag    |-> Flag(config[t].backend, via, policy[t]),
                started |-> config[t].backend \in machine.installed,
                outcome |-> "pending" ])]
        /\ Goto(t, "attempt")
        /\ UNCHANGED <<callVars, config, policy, served, error, result, machine, changes, probe, fresh>>
  BY DEF Launch
<1> DEFINE a == [ backend |-> config[t].backend, via |-> via,
                  flag    |-> Flag(config[t].backend, via, policy[t]),
                  started |-> config[t].backend \in machine.installed,
                  outcome |-> "pending" ]
<1>2. pc[t] = via /\ stage = "running"
  BY <1>1 DEF At
<1>3. /\ config[t].backend \in Backends
      /\ policy[t] \in PermissionPolicies(config[t].backend)
      /\ via = "attach" => config[t].backend = "opencode"
      /\ via = "process" => config[t].backend \in CliNames
  BY <1>2 DEF IInv, TaskInv, BackendFits, Accepted
<1>4. Flag(config[t].backend, via, policy[t]) = IF policy[t] = "default" THEN None ELSE policy[t]
  BY <1>2, FlagIsThePolicy
<1>5. policy[t] \in Policies \cup {None}
  BY DEF IInv, Types
<1>6. a \in Attempt
  BY <1>3, <1>4, <1>5 DEF Attempt, None
<1>7. /\ via = "attach" => attempts[t] = <<>> /\ config[t].transport = "persistent"
      /\ via = "process" => config[t].transport \in {"one-shot", "persistent"}
  BY <1>2 DEF IInv, TaskInv, AttemptsFit, TransportFits
<1>8. /\ attempts' = [attempts EXCEPT ![t] = Append(attempts[t], a)]
      /\ pc' = [pc EXCEPT ![t] = "attempt"]
      /\ UNCHANGED callVars
      /\ UNCHANGED <<config, policy, served, error, result, machine, changes, probe, fresh>>
  BY <1>1 DEF Goto
<1>. HIDE DEF a
<1>9. /\ a.outcome = "pending" /\ a.backend = config[t].backend /\ a.via = via
      /\ a.flag = IF policy[t] = "default" THEN None ELSE policy[t]
  BY <1>4 DEF a
<1>. QED  BY <1>2, <1>3, <1>6, <1>7, <1>8, <1>9, NewAttempt

LEMMA CallApiStep == ASSUME IInv, NEW t \in Tasks, CallApi(t) PROVE IInv'
<1> DEFINE a == [ backend |-> config[t].backend, via |-> "api", flag |-> None,
                  started |-> TRUE, outcome |-> "pending" ]
<1>1. /\ pc[t] = "api" /\ stage = "running" /\ UNCHANGED callVars
      /\ UNCHANGED <<config, policy, served, result, machine, changes, probe, fresh>>
      /\ TaskConfig(t)' = TaskConfig(t)
  BY DEF CallApi, At, TaskConfig, callVars
<1>2. /\ config[t].backend = ApiName
      /\ policy[t] \in PermissionPolicies(config[t].backend)
      /\ attempts[t] = <<>> /\ config[t].transport = "one-shot"
  BY <1>1 DEF IInv, TaskInv, BackendFits, AttemptsFit, TransportFits, Accepted
<1>3. policy[t] = "default"
  BY <1>2, FlaglessAllowDefault
<1>4. CASE /\ attempts' = [attempts EXCEPT ![t] = Append(attempts[t], a)]
           /\ pc' = [pc EXCEPT ![t] = "attempt"] /\ UNCHANGED error
  <2>1. a \in Attempt /\ config[t].backend \in Backends
    BY <1>2 DEF Attempt, Backends
  <2>. HIDE DEF a
  <2>2. /\ a.outcome = "pending" /\ a.backend = config[t].backend /\ a.via = "api"
        /\ a.flag = None
    BY DEF a
  <2>. QED  BY <1>1, <1>2, <1>3, <1>4, <2>1, <2>2, NewAttempt
<1>5. CASE Fail(t, "KeyMissing") /\ UNCHANGED attempts
  <2>1. Types'
    BY <1>1, <1>5 DEF IInv, Types, Tasks, callVars, Places, Fail, Goto
  <2>2. pc'[t] = "failed"
    BY <1>5 DEF Fail, Goto, IInv, Types
  <2>3. TaskInv(t)'
    BY <1>1, <1>2, <1>5, <2>2
       DEF IInv, TaskInv, BackendFits, AttemptsFit, Expressed, TransportFits, Accepted, callVars
  <2>. QED  BY <1>1, <1>5, <2>1, <2>3, OneTask DEF IInv, Types, Fail, Goto
<1>. QED  BY <1>4, <1>5 DEF CallApi, Goto

\* The invariant of a task whose attempt ends and which goes on elsewhere.
LEMMA EndedTask ==
    ASSUME IInv, NEW t \in Tasks, pc[t] = "attempt",
           NEW outcome \in {"success", "failure", "err"}, End(t, outcome),
           NEW place \in {"process", "done", "failed"},
           pc' = [pc EXCEPT ![t] = place],
           place = "process" => Last(t).via = "attach" /\ outcome = "err",
           place = "done" => result'[t].transport = ReportedTransport(t),
           DOMAIN result' = Tasks, DOMAIN error' = Tasks,
           \A u \in Tasks \ {t} : result'[u] = result[u],
           stage = "running", UNCHANGED callVars,
           UNCHANGED <<config, policy, served, machine, changes, probe, fresh>>
    PROVE  IInv'
<1> DEFINE n == Len(attempts[t])
<1>1. n # 0 /\ Last(t).backend = config[t].backend
  BY DEF IInv, TaskInv, AttemptsFit
<1>2. /\ attempts' \in [Tasks -> Seq(Attempt)]
      /\ Len(attempts'[t]) = n /\ DOMAIN attempts'[t] = 1 .. n
      /\ DOMAIN attempts[t] = 1 .. n /\ n \in Nat
      /\ Last(t)' = [Last(t) EXCEPT !.outcome = outcome] /\ Last(t) \in Attempt
      /\ \A i \in 1 .. n :
            /\ i # n => attempts'[t][i] = attempts[t][i]
            /\ attempts'[t][i].via = attempts[t][i].via
            /\ attempts'[t][i].flag = attempts[t][i].flag
            /\ attempts'[t][i].backend = attempts[t][i].backend
            /\ i = n => attempts'[t][i].outcome = outcome
  BY <1>1, Ended DEF IInv
<1>3. Types'
  BY <1>2 DEF IInv, Types, Tasks, callVars, Places
<1>4. /\ pc'[t] = place /\ TaskConfig(t)' = TaskConfig(t)
      /\ Last(t)'.via = Last(t).via
  BY <1>2 DEF IInv, Types, TaskConfig, callVars, Attempt
<1>5. ReportedTransport(t)' = ReportedTransport(t)
  BY <1>4 DEF ReportedTransport
<1>6. Last(t).via = "attach" =>
         /\ n = 1 /\ config[t].backend = "opencode" /\ config[t].transport = "persistent"
         /\ attempts[t][1].via = "attach" /\ attempts[t][1].backend = "opencode"
  BY <1>1 DEF IInv, TaskInv, AttemptsFit, TransportFits, Last
<1>7. BackendFits(t)'
  BY <1>4, <1>6, CliNamesAre DEF IInv, TaskInv, BackendFits, Accepted
<1>8. Expressed(t)'
  BY <1>2 DEF IInv, TaskInv, Expressed
<1>9. AttemptsFit(t)'
  <2>1. \A i \in 1 .. n : attempts'[t][i].outcome # "pending"
    BY <1>2 DEF IInv, TaskInv, AttemptsFit
  <2>2. /\ n <= 2
        /\ n = 2 => /\ attempts[t][1].via = "attach" /\ attempts[t][1].outcome = "err"
                    /\ attempts[t][2].via = "process"
                    /\ attempts[t][2].backend = attempts[t][1].backend
    BY DEF IInv, TaskInv, AttemptsFit
  <2>3. n = 2 => /\ attempts'[t][1].via = "attach" /\ attempts'[t][1].outcome = "err"
                 /\ attempts'[t][2].via = "process"
                 /\ attempts'[t][2].backend = attempts'[t][1].backend
    BY <1>2, <2>2
  <2>4. place = "process" => /\ n = 1 /\ attempts'[t][1].via = "attach"
                             /\ attempts'[t][1].outcome = "err"
                             /\ attempts'[t][1].backend = config[t].backend
    BY <1>2, <1>6
  <2>. QED  BY <1>1, <1>2, <1>4, <2>1, <2>2, <2>3, <2>4 DEF AttemptsFit
<1>10. TransportFits(t)'
  BY <1>4, <1>5, <1>6 DEF IInv, TaskInv, TransportFits, callVars
<1>11. \A u \in Tasks \ {t} : pc'[u] = pc[u] /\ attempts'[u] = attempts[u]
  BY DEF IInv, Types, End
<1>. QED  BY <1>3, <1>7, <1>8, <1>9, <1>10, <1>11, OneTask DEF TaskInv

LEMMA ErrStep == ASSUME IInv, NEW t \in Tasks, Err(t) PROVE IInv'
<1>1. /\ pc[t] = "attempt" /\ stage = "running" /\ End(t, "err")
      /\ UNCHANGED callVars
      /\ UNCHANGED <<config, policy, served, result, machine, changes, probe, fresh>>
      /\ DOMAIN result = Tasks /\ DOMAIN error = Tasks
  BY DEF Err, At, IInv, Types
<1>2. CASE Last(t).via = "attach" /\ Goto(t, "process") /\ UNCHANGED error
  BY <1>1, <1>2, EndedTask DEF Goto
<1>3. CASE Fail(t, "ExecutionFailed")
  <2>1. pc' = [pc EXCEPT ![t] = "failed"] /\ DOMAIN error' = Tasks
    BY <1>1, <1>3 DEF Fail, Goto
  <2>. QED  BY <1>1, <2>1, EndedTask
<1>. QED  BY <1>2, <1>3 DEF Err

LEMMA AnswerStep ==
    ASSUME IInv, NEW t \in Tasks, NEW success \in BOOLEAN, Answer(t, success)
    PROVE  IInv'
<1> DEFINE outcome == IF success THEN "success" ELSE "failure"
<1>1. /\ pc[t] = "attempt" /\ stage = "running" /\ End(t, outcome)
      /\ UNCHANGED callVars /\ pc' = [pc EXCEPT ![t] = "done"]
      /\ UNCHANGED <<config, policy, served, error, machine, changes, probe, fresh>>
      /\ DOMAIN result = Tasks /\ DOMAIN error = Tasks
      /\ result' = [result EXCEPT ![t] = [ transport |-> ReportedTransport(t), success |-> success ]]
  BY DEF Answer, At, Goto, IInv, Types
<1>2. /\ DOMAIN result' = Tasks /\ result'[t].transport = ReportedTransport(t)
      /\ \A u \in Tasks \ {t} : result'[u] = result[u]
  BY <1>1
<1>3. outcome \in {"success", "failure", "err"}
  OBVIOUS
<1>. HIDE DEF outcome
<1>. QED  BY <1>1, <1>2, <1>3, EndedTask

-----------------------------------------------------------------------------
(* What the preview and the checks were told, while the machine is as it   *)
(* was: a second invariant, on top of the first.                           *)

\* The settings of the call, once its agent is resolved.
Settings == Resolved(call.base)

\* TaskConfig and RequestPolicy over settings c.
ConfigOver(t, c) ==
    IF call.kind = "single" THEN c
    ELSE LET spec == call.specs[t]
         IN  [ c EXCEPT !.backend   = Or(spec.backend, @),
                        !.agent     = Or(spec.agent, @),
                        !.transport = Or(spec.transport, @),
                        !.policy    = Or(spec.policy, @) ]
PolicyOver(t, c) == Or(call.specs[t].policy, c.policy)

\* What the preview answers for a configuration and a policy.
Foresight(c, p) ==
    LET b   == SelectBackend(c.backend)
        via == Via(b, c.transport)
    IN  [ backend |-> b, transport |-> c.transport, policy |-> p,
          via |-> via, flag |-> Flag(b, via, p) ]

\* The base configuration in force at each stage.
BaseFits ==
    /\ stage \in {"start", "planning"} => DOMAIN plan = {}
    /\ stage \in {"start", "planned"} => base = call.base
    /\ stage = "planning" /\ "plan" \in fresh => Resolvable(call.base) /\ base = Settings
    /\ stage = "validating" => call.kind = "parallel"
    /\ stage = "running" /\ call.kind = "single" => base = call.base
    /\ stage \in {"validating", "running"} /\ call.kind = "parallel" /\ "checks" \in fresh
          => Resolvable(call.base) /\ base = Settings
    /\ stage \in {"validating", "running", "over"} /\ "plan" \in fresh => "checks" \in fresh

\* The preview's answer was made from the settings of the call.
PlanFits ==
    "plan" \in fresh =>
        \A t \in DOMAIN plan :
            /\ Resolvable(call.base)
            /\ Refusal(ConfigOver(t, Settings), PolicyOver(t, Settings)) = None
            /\ plan[t] = Foresight(ConfigOver(t, Settings), PolicyOver(t, Settings))

\* The configuration a task has, the one it will have once its agent is
\* resolved, and the policy of its request.
Now(t)   == IF pc[t] = "waiting" THEN TaskConfig(t) ELSE config[t]
After(t) == IF pc[t] \in {"waiting", "resolve"} THEN Resolved(Now(t)) ELSE config[t]
Asked(t) == IF pc[t] = "waiting" THEN RequestPolicy(t) ELSE policy[t]

\* Tasks that were checked, by preview or validation, as they are run.
Checked(t) ==
    IF call.kind = "single" THEN "plan" \in fresh /\ t \in DOMAIN plan
    ELSE "checks" \in fresh /\ call.specs[t].agent = None

Previewed(t) ==
    /\ "plan" \in fresh /\ t \in DOMAIN plan
    /\ call.kind = "single" \/ call.specs[t].agent = None

\* Nothing that lies before a checked task will refuse it.
Admitted(t) ==
    stage = "running" =>
        /\ pc[t] \in {"waiting", "resolve", "dispatch", "server"} => Resolvable(Now(t))
        /\ pc[t] \in {"waiting", "resolve", "dispatch"} => Refusal(After(t), Asked(t)) = None
        /\ pc[t] = "server" => /\ config[t].backend \in Backends
                               /\ policy[t] \in PermissionPolicies(config[t].backend)

\* A previewed task is on its way to the backend, the form and the flag shown.
OnTheWay(t) ==
    stage = "running" /\ pc[t] \notin {"done", "failed"} =>
        /\ plan[t].policy = Asked(t)
        /\ plan[t].backend = SelectBackend(After(t).backend)
        /\ plan[t].via = IF served[t] THEN "server"
                         ELSE Via(plan[t].backend, After(t).transport)
        /\ plan[t].flag = Flag(plan[t].backend, plan[t].via, plan[t].policy)

AsForetold(t) == \A i \in DOMAIN attempts[t] : Foretold(plan[t], attempts[t][i])

Promised(t) ==
    /\ pc[t] = "waiting" => error[t] = None
    /\ Checked(t) => error[t] \notin Refusals /\ Admitted(t)
    /\ Previewed(t) => AsForetold(t) /\ OnTheWay(t)

JInv == BaseFits /\ PlanFits /\ \A t \in Tasks : Promised(t)

-----------------------------------------------------------------------------
\* What the machine determines does not change while it does not.
LEMMA SameMachine ==
    ASSUME machine' = machine
    PROVE  /\ \A c : Resolvable(c)' <=> Resolvable(c)
           /\ \A c : Resolved(c)' = Resolved(c)
           /\ \A name : SelectBackend(name)' = SelectBackend(name)
           /\ \A c, p : Refusal(c, p)' = Refusal(c, p)
<1>1. \A c : Resolvable(c)' <=> Resolvable(c)
  BY DEF Resolvable
<1>2. \A c : Resolved(c)' = Resolved(c)
  BY DEF Resolved, Applied
<1>3. \A name : SelectBackend(name)' = SelectBackend(name)
  BY DEF SelectBackend, IsFirstInstalled
<1>4. \A c, p : Refusal(c, p)' = Refusal(c, p)
  BY <1>3 DEF Refusal, Unsupported
<1>. QED  BY <1>1, <1>2, <1>3, <1>4

\* A backend chosen is chosen again.
LEMMA ChosenAgain == \A b \in Backends : SelectBackend(b) = b
BY CliNamesAre DEF SelectBackend, Backends, None, ApiName

LEMMA InitPromised == Init => JInv
<1>. SUFFICES ASSUME Init PROVE JInv
  OBVIOUS
<1>1. BaseFits /\ PlanFits
  BY DEF Init, BaseFits, PlanFits, NoPlan
<1>2. ASSUME NEW t \in Tasks PROVE Promised(t)
  BY <1>2 DEF Init, Promised, Checked, Previewed
<1>. QED  BY <1>1, <1>2 DEF JInv

\* Once the machine has changed, nothing is promised.
LEMMA ChangeKeepsPromise == ASSUME JInv, NEW m \in Machines, Change(m) PROVE JInv'
<1>1. fresh' = {} /\ UNCHANGED callVars /\ UNCHANGED taskVars
  BY DEF Change
<1>2. BaseFits' /\ PlanFits'
  BY <1>1 DEF JInv, BaseFits, PlanFits, callVars
<1>3. ASSUME NEW u \in Tasks' PROVE Promised(u)'
  BY <1>1, <1>3 DEF JInv, Promised, Checked, Previewed, callVars, taskVars, Tasks
<1>. QED  BY <1>2, <1>3 DEF JInv

\* A step that leaves a task and all that was promised to it alone.
LEMMA PromiseLeftAlone ==
    ASSUME NEW u \in Tasks, Promised(u),
           call' = call, base' = base, plan' = plan, machine' = machine, fresh' = fresh,
           stage' = stage \/ stage' = "over",
           pc'[u] = pc[u], config'[u] = config[u], policy'[u] = policy[u],
           served'[u] = served[u], attempts'[u] = attempts[u], error'[u] = error[u]
    PROVE  Promised(u)'
<1>1. TaskConfig(u)' = TaskConfig(u) /\ RequestPolicy(u)' = RequestPolicy(u)
  BY DEF TaskConfig, RequestPolicy
<1>2. Now(u)' = Now(u) /\ Asked(u)' = Asked(u)
  BY <1>1 DEF Now, Asked
<1>3. After(u)' = After(u)
  BY <1>2, SameMachine DEF After
<1>4. (Checked(u)' <=> Checked(u)) /\ (Previewed(u)' <=> Previewed(u))
  BY DEF Checked, Previewed
<1>5. Admitted(u) => Admitted(u)'
  BY <1>2, <1>3, SameMachine DEF Admitted
<1>6. OnTheWay(u) => OnTheWay(u)'
  BY <1>2, <1>3, SameMachine DEF OnTheWay
<1>7. AsForetold(u) => AsForetold(u)'
  BY DEF AsForetold
<1>. QED  BY <1>4, <1>5, <1>6, <1>7 DEF Promised

LEMMA PlanLeftAlone ==
    ASSUME PlanFits, call' = call, plan' = plan, machine' = machine,
           "plan" \in fresh' => "plan" \in fresh
    PROVE  PlanFits'
<1>1. Settings' = Settings /\ (Resolvable(call.base)' <=> Resolvable(call.base))
  BY SameMachine DEF Settings
<1>2. \A t : /\ ConfigOver(t, Settings)' = ConfigOver(t, Settings)
             /\ PolicyOver(t, Settings)' = PolicyOver(t, Settings)
  BY <1>1 DEF ConfigOver, PolicyOver
<1>3. \A c, p : Foresight(c, p)' = Foresight(c, p)
  BY SameMachine DEF Foresight
<1>. QED  BY <1>1, <1>2, <1>3, SameMachine DEF PlanFits

LEMMA CallKeepsPromise ==
    ASSUME BaseFits, PlanFits, UNCHANGED callVars, machine' = machine, fresh' = fresh
    PROVE  BaseFits' /\ PlanFits'
<1>. USE DEF callVars
<1>1. Settings' = Settings /\ (Resolvable(call.base)' <=> Resolvable(call.base))
  BY SameMachine DEF Settings
<1>2. BaseFits'
  BY <1>1 DEF BaseFits
<1>. QED  BY <1>2, PlanLeftAlone

\* Only the task that takes the step needs to be looked at.
LEMMA OnePromise ==
    ASSUME JInv, NEW t \in Tasks, UNCHANGED callVars, machine' = machine, fresh' = fresh,
           Promised(t)',
           \A u \in Tasks \ {t} :
               /\ pc'[u] = pc[u] /\ config'[u] = config[u] /\ policy'[u] = policy[u]
               /\ served'[u] = served[u] /\ attempts'[u] = attempts[u] /\ error'[u] = error[u]
    PROVE  JInv'
<1>1. ASSUME NEW u \in Tasks' PROVE Promised(u)'
  BY <1>1, PromiseLeftAlone DEF callVars, JInv, Tasks
<1>. QED  BY <1>1, CallKeepsPromise DEF JInv

-----------------------------------------------------------------------------
(* The call's own steps.                                                   *)

\* The parts of the module are those of the proofs, over the base in force.
LEMMA OverBase ==
    \A t : /\ TaskConfig(t) = ConfigOver(t, base)
           /\ RequestPolicy(t) = PolicyOver(t, base)
           /\ Planned(t) = Foresight(TaskConfig(t), RequestPolicy(t))
BY DEF TaskConfig, ConfigOver, RequestPolicy, PolicyOver, Planned, Foresight

\* While nobody has begun, a promise is about waiting tasks.
LEMMA WaitingPromise ==
    ASSUME IInv, JInv, stage \notin {"running", "over"}, NEW u \in Tasks
    PROVE  /\ pc[u] = "waiting" /\ error[u] = None /\ attempts[u] = <<>> /\ ~served[u]
           /\ None \notin Refusals
<1>1. pc[u] = "waiting"
  BY NobodyBegan
<1>. QED  BY <1>1 DEF IInv, JInv, Promised, TaskInv, AttemptsFit, TransportFits, Refusals, None

\* As long as the stage is not "running", that is all there is to promise.
LEMMA NothingToPromise ==
    ASSUME IInv, JInv, stage \notin {"running", "over"}, UNCHANGED taskVars,
           call' = call, stage' # "running", NEW u \in Tasks
    PROVE  Promised(u)'
<1>1. /\ pc'[u] = "waiting" /\ error'[u] = None /\ attempts'[u] = <<>>
      /\ None \notin Refusals
  BY WaitingPromise DEF taskVars
<1>2. Admitted(u)' /\ OnTheWay(u)' /\ AsForetold(u)'
  BY <1>1 DEF Admitted, OnTheWay, AsForetold
<1>. QED  BY <1>1, <1>2 DEF Promised

LEMMA PreviewKeepsPromise ==
    ASSUME IInv, JInv, PreviewResolve \/ Plan
    PROVE  JInv'
<1>1. /\ stage \in {"start", "planning"} /\ call' = call /\ machine' = machine
      /\ UNCHANGED taskVars /\ stage' \in {"planning", "planned"}
  BY DEF PreviewResolve, Plan
<1>2. Settings' = Settings /\ (Resolvable(call.base)' <=> Resolvable(call.base))
  BY <1>1, SameMachine DEF Settings
<1>3. BaseFits'
  <2>1. CASE PreviewResolve
    BY <1>2, <2>1 DEF PreviewResolve, JInv, BaseFits, Settings
  <2>2. CASE Plan
    BY <2>2 DEF Plan, JInv, BaseFits
  <2>. QED  BY <2>1, <2>2
<1>4. PlanFits'
  <2>1. CASE PreviewResolve
    BY <2>1 DEF PreviewResolve, JInv, BaseFits, PlanFits
  <2>2. CASE Plan
    <3>. SUFFICES ASSUME "plan" \in fresh', NEW t \in DOMAIN plan'
         PROVE  (/\ Resolvable(call.base)
                 /\ Refusal(ConfigOver(t, Settings), PolicyOver(t, Settings)) = None
                 /\ plan[t] = Foresight(ConfigOver(t, Settings), PolicyOver(t, Settings)))'
      BY DEF PlanFits
    <3>1. Resolvable(call.base) /\ base = Settings /\ fresh' = fresh
      BY <2>2 DEF Plan, JInv, BaseFits
    <3>2. /\ t \in Tasks /\ TaskRefusal(t) = None /\ plan'[t] = Planned(t)
      BY <2>2 DEF Plan, NoPlan
    <3>3. /\ Refusal(ConfigOver(t, Settings), PolicyOver(t, Settings)) = None
          /\ plan'[t] = Foresight(ConfigOver(t, Settings), PolicyOver(t, Settings))
      BY <3>1, <3>2, OverBase DEF TaskRefusal, None
    <3>4. /\ ConfigOver(t, Settings)' = ConfigOver(t, Settings)
          /\ PolicyOver(t, Settings)' = PolicyOver(t, Settings)
      BY <1>1, <1>2 DEF ConfigOver, PolicyOver
    <3>5. \A c, p : Foresight(c, p)' = Foresight(c, p)
      BY <1>1, SameMachine DEF Foresight
    <3>. QED  BY <1>1, <1>2, <3>1, <3>3, <3>4, <3>5, SameMachine
  <2>. QED  BY <2>1, <2>2
<1>5. ASSUME NEW u \in Tasks' PROVE Promised(u)'
  BY <1>1, <1>5, NothingToPromise DEF Tasks
<1>. QED  BY <1>3, <1>4, <1>5 DEF JInv

\* Resolving the agent of the settings again does not change the backend.
LEMMA ResolvedTwice ==
    ASSUME Types, NEW t \in Tasks, call.kind = "parallel", call.specs[t].agent = None,
           Resolvable(call.base), base = Settings
    PROVE  /\ Resolvable(TaskConfig(t))
           /\ Resolved(TaskConfig(t)).backend = TaskConfig(t).backend
           /\ Resolved(TaskConfig(t)).transport = TaskConfig(t).transport
<1>1. call.base \in Configs /\ base \in Configs /\ TaskConfig(t) \in Configs
  BY CallFacts DEF Types
<1>2. TaskConfig(t).agent = base.agent
  BY <1>1 DEF TaskConfig, Or, Configs
<1>3. base.agent = call.base.agent
  BY <1>1 DEF Settings, Resolved, Applied, Configs
<1>4. Resolvable(TaskConfig(t))
  BY <1>2, <1>3 DEF Resolvable
<1>5. Resolved(TaskConfig(t)).transport = TaskConfig(t).transport
  BY <1>1, <1>4, ResolvedIsConfig
<1>6. Resolved(TaskConfig(t)).backend = TaskConfig(t).backend
  <2>1. CASE call.base.agent = None
    BY <1>2, <1>3, <2>1 DEF Resolved
  <2>2. CASE call.base.agent # None
    <3> DEFINE agent == machine.agents[call.base.agent]
    <3>1. base = Applied(call.base, agent) /\ Resolved(TaskConfig(t)) = Applied(TaskConfig(t), agent)
      BY <1>2, <1>3, <2>2 DEF Settings, Resolved
    <3>2. base.backend = IF call.base.backend = None THEN agent.backend ELSE call.base.backend
      BY <1>1, <3>1 DEF Applied, Configs
    <3>3. TaskConfig(t).backend = None => base.backend = None
      BY <1>1 DEF TaskConfig, Or, Configs
    <3>4. Applied(TaskConfig(t), agent).backend =
             IF TaskConfig(t).backend = None THEN agent.backend ELSE TaskConfig(t).backend
      BY <1>1 DEF Applied, Configs
    <3>. HIDE DEF agent
    <3>. QED  BY <3>1, <3>2, <3>3, <3>4
  <2>. QED  BY <2>1, <2>2
<1>. QED  BY <1>4, <1>5, <1>6

\* What a refusal depends on.
LEMMA RefusalDependsOn ==
    ASSUME NEW c, NEW d, NEW p, c.backend = d.backend, c.transport = d.transport
    PROVE  Refusal(c, p) = Refusal(d, p)
BY DEF Refusal, Unsupported

\* A task still waits after the step: it is promised what its resolved
\* configuration leads to.
LEMMA PromiseToWaiting ==
    ASSUME IInv, JInv, stage \notin {"running", "over"}, UNCHANGED taskVars,
           call' = call, plan' = plan, machine' = machine, NEW u \in Tasks,
           Checked(u)' => /\ Resolvable(TaskConfig(u)')
                          /\ Refusal(Resolved(TaskConfig(u)'), RequestPolicy(u)') = None,
           Previewed(u)' => plan[u] = Foresight(Resolved(TaskConfig(u)'), RequestPolicy(u)')
    PROVE  Promised(u)'
<1>1. /\ pc'[u] = "waiting" /\ error'[u] = None /\ attempts'[u] = <<>> /\ ~served'[u]
      /\ None \notin Refusals
  BY WaitingPromise DEF taskVars
<1>2. /\ Now(u)' = TaskConfig(u)' /\ After(u)' = Resolved(TaskConfig(u)')
      /\ Asked(u)' = RequestPolicy(u)'
  BY <1>1, SameMachine DEF Now, After, Asked
<1>3. Checked(u)' => Admitted(u)'
  BY <1>1, <1>2, SameMachine DEF Admitted
<1>4. Previewed(u)' => OnTheWay(u)' /\ AsForetold(u)'
  BY <1>1, <1>2, SameMachine DEF OnTheWay, AsForetold, Foresight
<1>. QED  BY <1>1, <1>3, <1>4 DEF Promised

LEMMA ExecuteKeepsPromise == ASSUME IInv, JInv, Execute PROVE JInv'
<1>1. /\ stage \in {"start", "planned"} /\ base = call.base
      /\ call' = call /\ plan' = plan /\ machine' = machine /\ UNCHANGED taskVars
      /\ fresh' = fresh \cup {"checks"}
  BY DEF Execute, JInv, BaseFits
<1>2. Settings' = Settings /\ (Resolvable(call.base)' <=> Resolvable(call.base))
  BY <1>1, SameMachine DEF Settings
<1>3. \/ call.kind = "single" /\ stage' = "running" /\ base' = call.base
      \/ /\ call.kind = "parallel" /\ Resolvable(call.base)
         /\ stage' = "validating" /\ base' = Settings
      \/ call.kind = "parallel" /\ stage' = "over"
  BY CallsAssumption DEF Execute, Settings, IInv, Types, IsCall
<1>4. BaseFits'
  BY <1>1, <1>2, <1>3 DEF BaseFits
<1>5. PlanFits'
  BY <1>1, PlanLeftAlone DEF JInv
<1>6. ASSUME NEW u \in Tasks' PROVE Promised(u)'
  <2>1. u \in Tasks
    BY <1>1, <1>6 DEF Tasks
  <2>2. CASE stage' # "running"
    BY <1>1, <2>1, <2>2, NothingToPromise
  <2>3. CASE call.kind = "single" /\ base' = call.base
    <3>1. TaskConfig(u)' = call.base /\ RequestPolicy(u)' = RequestPolicy(u)
      BY <1>1, <2>3 DEF TaskConfig, RequestPolicy
    <3>2. RequestPolicy(u) = PolicyOver(u, Settings) /\ ConfigOver(u, Settings) = Settings
      <4>1. call.specs[u].policy # None
        BY <2>1, <2>3, CallsAssumption DEF IInv, Types, IsCall, Tasks
      <4>. QED  BY <2>3, <4>1 DEF RequestPolicy, PolicyOver, ConfigOver, Or
    <3>3. Checked(u)' \/ Previewed(u)' => "plan" \in fresh /\ u \in DOMAIN plan
      BY <1>1, <2>3 DEF Checked, Previewed
    <3>4. "plan" \in fresh /\ u \in DOMAIN plan =>
             /\ Resolvable(call.base) /\ Refusal(Settings, RequestPolicy(u)) = None
             /\ plan[u] = Foresight(Settings, RequestPolicy(u))
      BY <3>2 DEF JInv, PlanFits
    <3>. QED  BY <1>1, <2>1, <3>1, <3>3, <3>4, PromiseToWaiting DEF Settings
  <2>. QED  BY <1>3, <2>2, <2>3
<1>. QED  BY <1>4, <1>5, <1>6 DEF JInv

LEMMA ValidateKeepsPromise == ASSUME IInv, JInv, Validate PROVE JInv'
<1>1. /\ stage = "validating" /\ call.kind = "parallel"
      /\ UNCHANGED <<call, base, plan, taskVars, machine, changes, probe, fresh>>
      /\ stage' \in {"running", "over"}
  BY DEF Validate, JInv, BaseFits
<1>2. Settings' = Settings /\ (Resolvable(call.base)' <=> Resolvable(call.base))
  BY <1>1, SameMachine DEF Settings
<1>3. BaseFits'
  BY <1>1, <1>2 DEF JInv, BaseFits
<1>4. PlanFits'
  BY <1>1, PlanLeftAlone DEF JInv
<1>5. ASSUME NEW u \in Tasks' PROVE Promised(u)'
  <2>1. u \in Tasks
    BY <1>1, <1>5 DEF Tasks
  <2>2. CASE stage' # "running"
    BY <1>1, <2>1, <2>2, NothingToPromise
  <2>3. CASE stage' = "running"
    <3>1. /\ TaskRefusal(u) = None
          /\ TaskConfig(u)' = TaskConfig(u) /\ RequestPolicy(u)' = RequestPolicy(u)
      BY <1>1, <2>1, <2>3 DEF Validate, TaskConfig, RequestPolicy
    <3>2. Refusal(TaskConfig(u), RequestPolicy(u)) = None
      BY <3>1 DEF TaskRefusal, None
    <3>3. Checked(u)' \/ Previewed(u)' =>
             call.specs[u].agent = None /\ Resolvable(call.base) /\ base = Settings
      BY <1>1 DEF Checked, Previewed, JInv, BaseFits
    <3>4. ASSUME call.specs[u].agent = None, Resolvable(call.base), base = Settings
          PROVE  /\ Resolvable(TaskConfig(u))
                 /\ Refusal(Resolved(TaskConfig(u)), RequestPolicy(u)) = None
                 /\ Foresight(Resolved(TaskConfig(u)), RequestPolicy(u))
                       = Foresight(TaskConfig(u), RequestPolicy(u))
      <4>1. /\ Resolvable(TaskConfig(u))
            /\ Resolved(TaskConfig(u)).backend = TaskConfig(u).backend
            /\ Resolved(TaskConfig(u)).transport = TaskConfig(u).transport
        BY <1>1, <2>1, <3>4, ResolvedTwice DEF IInv
      <4>2. Refusal(Resolved(TaskConfig(u)), RequestPolicy(u)) = None
        BY <3>2, <4>1, RefusalDependsOn
      <4>3. Foresight(Resolved(TaskConfig(u)), RequestPolicy(u))
               = Foresight(TaskConfig(u), RequestPolicy(u))
        BY <4>1 DEF Foresight
      <4>. QED  BY <4>1, <4>2, <4>3
    <3>5. Previewed(u)' => plan[u] = Foresight(TaskConfig(u), RequestPolicy(u))
      BY <1>1, <3>3, OverBase DEF Previewed, JInv, PlanFits
    <3>. QED  BY <1>1, <2>1, <3>1, <3>3, <3>4, <3>5, PromiseToWaiting
  <2>. QED  BY <2>2, <2>3
<1>. QED  BY <1>3, <1>4, <1>5 DEF JInv

LEMMA ReturnKeepsPromise == ASSUME IInv, JInv, Return PROVE JInv'
<1>1. /\ UNCHANGED <<call, base, plan, taskVars, machine, changes, probe, fresh>>
      /\ stage = "running" /\ stage' = "over"
  BY DEF Return
<1>2. Settings' = Settings /\ (Resolvable(call.base)' <=> Resolvable(call.base))
  BY <1>1, SameMachine DEF Settings
<1>3. BaseFits'
  BY <1>1, <1>2 DEF JInv, BaseFits
<1>4. PlanFits'
  BY <1>1, PlanLeftAlone DEF JInv
<1>5. ASSUME NEW u \in Tasks' PROVE Promised(u)'
  BY <1>1, <1>5, PromiseLeftAlone DEF taskVars, JInv, Tasks
<1>. QED  BY <1>3, <1>4, <1>5 DEF JInv

LEMMA StutterKeepsPromise == ASSUME JInv, UNCHANGED vars PROVE JInv'
<1>. USE DEF vars, callVars, taskVars
<1>1. BaseFits' /\ PlanFits'
  BY CallKeepsPromise DEF JInv
<1>2. ASSUME NEW u \in Tasks' PROVE Promised(u)'
  BY <1>2, PromiseLeftAlone DEF JInv, Tasks
<1>. QED  BY <1>1, <1>2 DEF JInv

-----------------------------------------------------------------------------
(* The steps of a task.                                                    *)

LEMMA StartKeepsPromise == ASSUME IInv, JInv, NEW t \in Tasks, Start(t) PROVE JInv'
<1>1. /\ pc[t] = "waiting" /\ stage = "running" /\ UNCHANGED callVars
      /\ UNCHANGED <<served, attempts, error, result, machine, changes, probe, fresh>>
      /\ pc' = [pc EXCEPT ![t] = "resolve"]
      /\ config' = [config EXCEPT ![t] = TaskConfig(t)]
      /\ policy' = [policy EXCEPT ![t] = RequestPolicy(t)]
  BY DEF Start, At, Goto
<1>2. /\ pc'[t] = "resolve" /\ config'[t] = TaskConfig(t) /\ policy'[t] = RequestPolicy(t)
      /\ error'[t] = None /\ None \notin Refusals
      /\ served'[t] = served[t] /\ attempts'[t] = attempts[t] /\ attempts[t] = <<>>
  BY <1>1 DEF IInv, Types, JInv, Promised, TaskInv, AttemptsFit, Refusals, None
<1>3. Now(t)' = Now(t) /\ After(t)' = After(t) /\ Asked(t)' = Asked(t)
  BY <1>1, <1>2, SameMachine DEF Now, After, Asked
<1>4. (Checked(t)' <=> Checked(t)) /\ (Previewed(t)' <=> Previewed(t))
  BY <1>1 DEF Checked, Previewed, callVars
<1>5. Admitted(t) => Admitted(t)'
  BY <1>1, <1>2, <1>3, SameMachine DEF Admitted, callVars
<1>6. Previewed(t) => OnTheWay(t)' /\ AsForetold(t)'
  BY <1>1, <1>2, <1>3, SameMachine DEF JInv, Promised, OnTheWay, AsForetold, callVars
<1>7. Promised(t)'
  BY <1>2, <1>4, <1>5, <1>6 DEF JInv, Promised
<1>. QED  BY <1>1, <1>7, OnePromise DEF IInv, Types

LEMMA ResolveAgentKeepsPromise ==
    ASSUME IInv, JInv, NEW t \in Tasks, ResolveAgent(t)
    PROVE  JInv'
<1>1. /\ pc[t] = "resolve" /\ stage = "running" /\ UNCHANGED callVars
      /\ UNCHANGED <<policy, served, attempts, result, machine, changes, probe, fresh>>
  BY DEF ResolveAgent, At
<1>2. (Checked(t)' <=> Checked(t)) /\ (Previewed(t)' <=> Previewed(t))
  BY <1>1 DEF Checked, Previewed, callVars
<1>3. CASE /\ Resolvable(config[t])
           /\ config' = [config EXCEPT ![t] = Resolved(config[t])]
           /\ pc' = [pc EXCEPT ![t] = "dispatch"] /\ error' = error
  <2>1. pc'[t] = "dispatch" /\ config'[t] = Resolved(config[t])
    BY <1>3 DEF IInv, Types
  <2>2. After(t)' = After(t) /\ Asked(t)' = Asked(t) /\ Now(t)' = Resolved(config[t])
    BY <1>1, <2>1 DEF Now, After, Asked
  <2>3. Resolvable(Resolved(config[t]))
    <3>1. config[t] \in Configs
      BY DEF IInv, Types
    <3>2. Resolved(config[t]).agent = config[t].agent
      BY <3>1 DEF Resolved, Applied, Configs
    <3>. QED  BY <1>3, <3>2 DEF Resolvable
  <2>4. Checked(t) => error'[t] \notin Refusals /\ Admitted(t)'
    BY <1>1, <1>3, <2>1, <2>2, <2>3, SameMachine DEF JInv, Promised, Admitted, callVars
  <2>5. Previewed(t) => OnTheWay(t)' /\ AsForetold(t)'
    BY <1>1, <2>1, <2>2, SameMachine DEF JInv, Promised, OnTheWay, AsForetold, callVars
  <2>6. Promised(t)'
    BY <1>2, <2>1, <2>4, <2>5 DEF Promised
  <2>. QED  BY <1>1, <1>3, <2>6, OnePromise DEF IInv, Types
<1>4. CASE ~Resolvable(config[t]) /\ Fail(t, "AgentNotFound") /\ config' = config
  <2>1. pc'[t] = "failed" /\ \A u \in Tasks \ {t} : pc'[u] = pc[u] /\ error'[u] = error[u]
    BY <1>4 DEF Fail, Goto, IInv, Types
  <2>2. ~Checked(t)
    BY <1>1, <1>4 DEF JInv, Promised, Admitted, Now
  <2>3. Previewed(t) => OnTheWay(t)' /\ AsForetold(t)'
    BY <1>1, <2>1 DEF JInv, Promised, OnTheWay, AsForetold, callVars
  <2>4. Promised(t)'
    BY <1>2, <2>1, <2>2, <2>3 DEF Promised
  <2>. QED  BY <1>1, <1>4, <2>1, <2>4, OnePromise
<1>. QED  BY <1>3, <1>4 DEF ResolveAgent, Goto

LEMMA DispatchKeepsPromise ==
    ASSUME IInv, JInv, NEW t \in Tasks, Dispatch(t)
    PROVE  JInv'
<1> DEFINE b == SelectBackend(config[t].backend)
           form == Via(b, config[t].transport)
           place == IF form = "attach" THEN "persistent" ELSE form
<1>1. /\ pc[t] = "dispatch" /\ stage = "running" /\ UNCHANGED callVars
      /\ UNCHANGED <<policy, served, attempts, result, machine, changes, probe, fresh>>
      /\ config[t] \in Configs
  BY DEF Dispatch, At, IInv, Types
<1>2. (Checked(t)' <=> Checked(t)) /\ (Previewed(t)' <=> Previewed(t))
  BY <1>1 DEF Checked, Previewed, callVars
<1>3. CASE /\ Refusal(config[t], policy[t]) # None
           /\ Fail(t, Refusal(config[t], policy[t])) /\ UNCHANGED config
  <2>1. pc'[t] = "failed" /\ \A u \in Tasks \ {t} : pc'[u] = pc[u] /\ error'[u] = error[u]
    BY <1>3 DEF Fail, Goto, IInv, Types
  <2>2. ~Checked(t)
    BY <1>1, <1>3 DEF JInv, Promised, Admitted, After, Asked
  <2>3. Previewed(t) => OnTheWay(t)' /\ AsForetold(t)'
    BY <1>1, <2>1 DEF JInv, Promised, OnTheWay, AsForetold, callVars
  <2>4. Promised(t)'
    BY <1>2, <2>1, <2>2, <2>3 DEF Promised
  <2>. QED  BY <1>1, <1>3, <2>1, <2>4, OnePromise
<1>4. CASE /\ Refusal(config[t], policy[t]) = None
           /\ Goto(t, place)
           /\ config' = [config EXCEPT ![t].backend = b] /\ UNCHANGED error
  <2>1. b \in Backends /\ policy[t] \in PermissionPolicies(b)
    BY <1>4, NotRefused DEF IInv
  <2>2. /\ pc'[t] = place /\ config'[t] = [config[t] EXCEPT !.backend = b]
        /\ place \notin {"waiting", "resolve", "dispatch", "done", "failed"}
        /\ \A u \in Tasks \ {t} : pc'[u] = pc[u] /\ config'[u] = config[u]
    BY <1>4 DEF Goto, IInv, Types, Via
  <2>3. /\ config'[t].backend = b /\ config'[t].transport = config[t].transport
        /\ config'[t].agent = config[t].agent
    BY <1>1, <2>2 DEF Configs
  <2>4. Now(t)' = config'[t] /\ After(t)' = config'[t] /\ Asked(t)' = Asked(t)
    BY <1>1, <2>2 DEF Now, After, Asked
  <2>5. Resolvable(config[t]) => Resolvable(config[t])'
    BY <1>1, <2>3 DEF Resolvable
  <2>6. Checked(t) => error'[t] \notin Refusals /\ Admitted(t)'
    <3>. SUFFICES ASSUME Checked(t) PROVE error'[t] \notin Refusals /\ Admitted(t)'
      OBVIOUS
    <3>1. error[t] \notin Refusals /\ Resolvable(config[t])
      BY <1>1 DEF JInv, Promised, Admitted, Now
    <3>. QED  BY <1>1, <1>4, <2>1, <2>2, <2>3, <2>4, <2>5, <3>1, SameMachine DEF Admitted
  <2>7. Previewed(t) => OnTheWay(t)' /\ AsForetold(t)'
    <3>. SUFFICES ASSUME Previewed(t) PROVE OnTheWay(t)' /\ AsForetold(t)'
      OBVIOUS
    <3>1. /\ plan[t].policy = policy[t] /\ plan[t].backend = b
          /\ plan[t].via = IF served[t] THEN "server" ELSE Via(b, config[t].transport)
          /\ plan[t].flag = Flag(b, plan[t].via, plan[t].policy)
          /\ AsForetold(t)
      BY <1>1 DEF JInv, Promised, OnTheWay, After, Asked
    <3>2. SelectBackend(b) = b
      BY <2>1, ChosenAgain
    <3>. QED  BY <1>1, <2>2, <2>3, <2>4, <3>1, <3>2, SameMachine
              DEF OnTheWay, AsForetold, Asked, callVars
  <2>8. Promised(t)'
    BY <1>2, <2>2, <2>6, <2>7 DEF Promised
  <2>. QED  BY <1>1, <1>4, <2>2, <2>8, OnePromise
<1>. QED  BY <1>3, <1>4 DEF Dispatch

LEMMA MoveKeepsPromise ==
    ASSUME IInv, JInv, NEW t \in Tasks, CheckPersistent(t) \/ EnsureOpencodeServer(t)
    PROVE  JInv'
<1>1. /\ pc[t] \in {"persistent", "ensure"} /\ stage = "running" /\ UNCHANGED callVars
      /\ UNCHANGED <<config, policy, served, attempts, error, result, machine, changes, fresh>>
  BY DEF CheckPersistent, EnsureOpencodeServer, At
<1>2. PICK place \in {"ensure", "attach", "process"} : pc' = [pc EXCEPT ![t] = place]
  BY DEF CheckPersistent, EnsureOpencodeServer, Goto
<1>3. pc'[t] = place /\ \A u \in Tasks \ {t} : pc'[u] = pc[u]
  BY <1>2 DEF IInv, Types
<1>4. (Checked(t)' <=> Checked(t)) /\ (Previewed(t)' <=> Previewed(t))
  BY <1>1 DEF Checked, Previewed, callVars
<1>5. After(t)' = After(t) /\ Asked(t)' = Asked(t)
  BY <1>1, <1>3 DEF After, Asked
<1>6. Admitted(t)'
  BY <1>3 DEF Admitted
<1>7. Previewed(t) => OnTheWay(t)' /\ AsForetold(t)'
  BY <1>1, <1>3, <1>5, SameMachine DEF JInv, Promised, OnTheWay, AsForetold, callVars
<1>8. Promised(t)'
  BY <1>1, <1>3, <1>4, <1>6, <1>7 DEF JInv, Promised
<1>. QED  BY <1>1, <1>3, <1>8, OnePromise

\* The server refuses nothing that the client let through: the backend is
\* named by now, and the transport is one that every backend has.
LEMMA ServedIsAdmitted ==
    ASSUME NEW c \in Configs, c.backend \in Backends, c.transport = "one-shot",
           NEW p \in PermissionPolicies(c.backend), Resolvable(c), IInv
    PROVE  /\ Resolved(c).backend = c.backend
           /\ Refusal(Resolved(c), p) = None
<1>1. Resolved(c).transport = "one-shot"
  BY ResolvedIsConfig DEF IInv
<1>2. Resolved(c).backend = c.backend
  BY DEF Resolved, Applied, Configs, None, Backends, ApiName, CliNames, CliBackends
<1>3. SelectBackend(c.backend) = c.backend
  BY ChosenAgain
<1>4. Unsupported(c.backend, Resolved(c), p) = None
  BY <1>1 DEF Unsupported, TransportModes
<1>. QED  BY <1>2, <1>3, <1>4 DEF Refusal

LEMMA EnsureServerKeepsPromise ==
    ASSUME IInv, JInv, NEW t \in Tasks, EnsureServer(t)
    PROVE  JInv'
<1>1. /\ pc[t] = "server" /\ stage = "running" /\ UNCHANGED callVars
      /\ UNCHANGED <<policy, attempts, result, machine, changes, probe, fresh>>
      /\ config[t] \in Configs /\ config[t].transport = "server" /\ ~served[t]
  BY DEF EnsureServer, At, IInv, Types, TaskInv, TransportFits
<1>2. (Checked(t)' <=> Checked(t)) /\ (Previewed(t)' <=> Previewed(t))
  BY <1>1 DEF Checked, Previewed, callVars
<1>3. CASE /\ pc' = [pc EXCEPT ![t] = "resolve"]
           /\ config' = [config EXCEPT ![t].transport = "one-shot"]
           /\ served' = [served EXCEPT ![t] = TRUE] /\ UNCHANGED error
  <2> DEFINE c == [config[t] EXCEPT !.transport = "one-shot"]
  <2>1. /\ pc'[t] = "resolve" /\ served'[t] /\ config'[t] = c
        /\ \A u \in Tasks \ {t} : pc'[u] = pc[u] /\ config'[u] = config[u] /\ served'[u] = served[u]
    BY <1>3 DEF IInv, Types
  <2>2. /\ c \in Configs /\ c.transport = "one-shot"
        /\ c.backend = config[t].backend /\ c.agent = config[t].agent
    BY <1>1 DEF Configs, Transports
  <2>. HIDE DEF c
  <2>3. Now(t)' = c /\ After(t)' = Resolved(c) /\ Asked(t)' = policy[t]
    BY <1>1, <2>1, SameMachine DEF Now, After, Asked
  <2>4. Checked(t) => error'[t] \notin Refusals /\ Admitted(t)'
    <3>. SUFFICES ASSUME Checked(t) PROVE error'[t] \notin Refusals /\ Admitted(t)'
      OBVIOUS
    <3>1. /\ error[t] \notin Refusals /\ Resolvable(config[t])
          /\ config[t].backend \in Backends
          /\ policy[t] \in PermissionPolicies(config[t].backend)
      BY <1>1 DEF JInv, Promised, Admitted, Now
    <3>2. Resolvable(c)
      BY <2>2, <3>1 DEF Resolvable
    <3>3. Refusal(Resolved(c), policy[t]) = None
      BY <2>2, <3>1, <3>2, ServedIsAdmitted
    <3>. QED  BY <1>1, <1>3, <2>1, <2>3, <3>1, <3>2, <3>3, SameMachine DEF Admitted
  <2>5. Previewed(t) => OnTheWay(t)' /\ AsForetold(t)'
    <3>. SUFFICES ASSUME Previewed(t) PROVE OnTheWay(t)' /\ AsForetold(t)'
      OBVIOUS
    <3>1. /\ plan[t].policy = policy[t] /\ plan[t].backend = SelectBackend(config[t].backend)
          /\ plan[t].via = "server"
          /\ plan[t].flag = Flag(plan[t].backend, plan[t].via, plan[t].policy)
          /\ AsForetold(t)
      BY <1>1 DEF JInv, Promised, OnTheWay, After, Asked, Via
    <3>2. Checked(t)
      BY <1>1 DEF Previewed, Checked, JInv, BaseFits
    <3>3. /\ Resolvable(config[t]) /\ config[t].backend \in Backends
          /\ policy[t] \in PermissionPolicies(config[t].backend)
      BY <1>1, <3>2 DEF JInv, Promised, Admitted, Now
    <3>4. Resolvable(c)
      BY <2>2, <3>3 DEF Resolvable
    <3>5. Resolved(c).backend = config[t].backend
      BY <2>2, <3>3, <3>4, ServedIsAdmitted
    <3>. QED  BY <1>1, <2>1, <2>3, <3>1, <3>5, SameMachine DEF OnTheWay, AsForetold, callVars
  <2>6. Promised(t)'
    BY <1>2, <2>1, <2>4, <2>5 DEF Promised
  <2>. QED  BY <1>1, <1>3, <2>1, <2>6, OnePromise
<1>4. CASE Fail(t, "ServerUnavailable") /\ UNCHANGED <<config, served>>
  <2>1. /\ pc'[t] = "failed" /\ error'[t] = "ServerUnavailable"
        /\ \A u \in Tasks \ {t} : pc'[u] = pc[u] /\ error'[u] = error[u]
    BY <1>4 DEF Fail, Goto, IInv, Types
  <2>2. error'[t] \notin Refusals /\ Admitted(t)'
    BY <2>1 DEF Refusals, Admitted
  <2>3. Previewed(t) => OnTheWay(t)' /\ AsForetold(t)'
    BY <1>1, <2>1 DEF JInv, Promised, OnTheWay, AsForetold, callVars
  <2>4. Promised(t)'
    BY <1>2, <2>1, <2>2, <2>3 DEF Promised
  <2>. QED  BY <1>1, <1>4, <2>1, <2>4, OnePromise
<1>. QED  BY <1>3, <1>4 DEF EnsureServer, Goto

\* A run that begins where a previewed task was sent is the one foretold.
LEMMA BegunAsForetold ==
    ASSUME IInv, JInv, NEW t \in Tasks, Previewed(t), stage = "running",
           pc[t] \in {"process", "attach", "api"}, NEW a,
           a.backend = config[t].backend, a.via = pc[t],
           a.flag = (IF policy[t] = "default" THEN None ELSE policy[t])
    PROVE  Foretold(plan[t], a)
<1> DEFINE b == config[t].backend
<1>1. /\ b \in Backends /\ policy[t] \in PermissionPolicies(b)
      /\ pc[t] = "attach" => b = "opencode" /\ config[t].transport = "persistent"
      /\ pc[t] = "process" => b \in CliNames /\ config[t].transport \in {"one-shot", "persistent"}
      /\ pc[t] = "api" => b = ApiName /\ config[t].transport = "one-shot"
      /\ served[t] => config[t].transport = "one-shot"
  BY DEF IInv, TaskInv, BackendFits, TransportFits, Accepted
<1>2. /\ plan[t].policy = policy[t] /\ plan[t].backend = SelectBackend(b)
      /\ plan[t].via = IF served[t] THEN "server" ELSE Via(plan[t].backend, config[t].transport)
      /\ plan[t].flag = Flag(plan[t].backend, plan[t].via, plan[t].policy)
  BY DEF JInv, Promised, OnTheWay, After, Asked
<1>3. plan[t].backend = b
  BY <1>1, <1>2, ChosenAgain
<1>. HIDE DEF b
<1>4. a.backend = b
  BY DEF b
<1>5. CASE served[t]
  BY <1>1, <1>2, <1>3, <1>4, <1>5 DEF Foretold
<1>6. CASE ~served[t] /\ plan[t].via = "attach"
  <2>1. b = "opencode" /\ pc[t] \in {"attach", "process"} /\ plan[t].flag = None
    BY <1>1, <1>2, <1>3, <1>6 DEF Via, Flag, AttachedFlag, ApiName
  <2>2. policy[t] = "default"
    BY <1>1, <2>1, FlaglessAllowDefault
  <2>. QED  BY <1>3, <1>4, <1>6, <2>1, <2>2 DEF Foretold
<1>7. CASE ~served[t] /\ plan[t].via # "attach"
  <2>1. CASE pc[t] = "process"
    <3>1. b \in CliNames /\ b # ApiName
      BY <1>1, <2>1, CliNamesAre DEF ApiName
    <3>2. plan[t].via = "process" /\ plan[t].flag = PermissionFlag(b, policy[t])
      BY <1>1, <1>2, <1>3, <1>7, <2>1, <3>1 DEF Via, Flag
    <3>3. PermissionFlag(b, policy[t]) = a.flag
      BY <1>1, <3>1, TablesAgree
    <3>. QED  BY <1>3, <1>4, <2>1, <3>2, <3>3 DEF Foretold
  <2>2. CASE pc[t] = "attach"
    BY <1>1, <1>2, <1>3, <1>7, <2>2 DEF Via
  <2>3. CASE pc[t] = "api"
    <3>1. plan[t].via = "api" /\ plan[t].flag = None
      BY <1>1, <1>2, <1>3, <1>7, <2>3 DEF Via, Flag
    <3>2. policy[t] = "default"
      BY <1>1, <2>3, FlaglessAllowDefault
    <3>. QED  BY <1>3, <1>4, <2>3, <3>1, <3>2 DEF Foretold
  <2>. QED  BY <2>1, <2>2, <2>3
<1>. QED  BY <1>5, <1>6, <1>7

\* A run begins.
LEMMA BeginKeepsPromise ==
    ASSUME IInv, JInv, NEW t \in Tasks, stage = "running", pc[t] \in {"process", "attach", "api"},
           NEW a \in Attempt, a.backend = config[t].backend, a.via = pc[t],
           a.flag = (IF policy[t] = "default" THEN None ELSE policy[t]),
           attempts' = [attempts EXCEPT ![t] = Append(attempts[t], a)],
           pc' = [pc EXCEPT ![t] = "attempt"], UNCHANGED callVars,
           UNCHANGED <<config, policy, served, error, result, machine, changes, probe, fresh>>
    PROVE  JInv'
<1> DEFINE n == Len(attempts[t])
<1>1. /\ DOMAIN attempts'[t] = 1 .. n + 1 /\ attempts'[t][n + 1] = a
      /\ \A i \in 1 .. n : attempts'[t][i] = attempts[t][i]
      /\ DOMAIN attempts[t] = 1 .. n /\ n \in Nat
  BY Appended DEF IInv
<1>2. pc'[t] = "attempt" /\ \A u \in Tasks \ {t} : pc'[u] = pc[u] /\ attempts'[u] = attempts[u]
  BY DEF IInv, Types
<1>3. (Checked(t)' <=> Checked(t)) /\ (Previewed(t)' <=> Previewed(t))
  BY DEF Checked, Previewed, callVars
<1>4. After(t)' = After(t) /\ Asked(t)' = Asked(t) /\ Admitted(t)'
  BY <1>2 DEF After, Asked, Admitted
<1>5. Previewed(t) => OnTheWay(t)'
  BY <1>2, <1>4, SameMachine DEF JInv, Promised, OnTheWay, callVars
<1>6. Previewed(t) => AsForetold(t)'
  <2>. SUFFICES ASSUME Previewed(t), NEW i \in 1 .. n + 1 PROVE Foretold(plan[t], attempts'[t][i])
    BY <1>1 DEF AsForetold, Foretold, callVars
  <2>1. CASE i = n + 1
    BY <1>1, <2>1, BegunAsForetold
  <2>2. CASE i \in 1 .. n
    BY <1>1, <2>2 DEF JInv, Promised, AsForetold
  <2>. QED  BY <1>1, <2>1, <2>2
<1>7. Promised(t)'
  BY <1>2, <1>3, <1>4, <1>5, <1>6 DEF JInv, Promised
<1>. QED  BY <1>2, <1>7, OnePromise

LEMMA LaunchKeepsPromise == ASSUME IInv, JInv, NEW t \in Tasks, Launch(t) PROVE JInv'
<1>1. PICK via \in {"process", "attach"} :
        /\ At(t, via)
        /\ attempts' = [attempts EXCEPT ![t] = Append(@,
              [ backend |-> config[t].backend, via |-> via,
                flag    |-> Flag(config[t].backend, via, policy[t]),
                started |-> config[t].backend \in machine.installed,
                outcome |-> "pending" ])]
        /\ Goto(t, "attempt")
        /\ UNCHANGED <<callVars, config, policy, served, error, result, machine, changes, probe, fresh>>
  BY DEF Launch
<1> DEFINE a == [ backend |-> config[t].backend, via |-> via,
                  flag    |-> Flag(config[t].backend, via, policy[t]),
                  started |-> config[t].backend \in machine.installed,
                  outcome |-> "pending" ]
<1>2. pc[t] = via /\ stage = "running"
  BY <1>1 DEF At
<1>3. /\ Flag(config[t].backend, via, policy[t]) = IF policy[t] = "default" THEN None ELSE policy[t]
      /\ config[t].backend \in Backends
  BY <1>2, FlagIsThePolicy DEF IInv, TaskInv, BackendFits, Accepted
<1>4. policy[t] \in Policies \cup {None}
  BY DEF IInv, Types
<1>5. a \in Attempt
  BY <1>3, <1>4 DEF Attempt
<1>6. /\ attempts' = [attempts EXCEPT ![t] = Append(attempts[t], a)]
      /\ pc' = [pc EXCEPT ![t] = "attempt"] /\ UNCHANGED callVars
      /\ UNCHANGED <<config, policy, served, error, result, machine, changes, probe, fresh>>
  BY <1>1 DEF Goto
<1>7. /\ a.backend = config[t].backend /\ a.via = via
      /\ a.flag = IF policy[t] = "default" THEN None ELSE policy[t]
  BY <1>3
<1>. HIDE DEF a
<1>. QED  BY <1>2, <1>5, <1>6, <1>7, BeginKeepsPromise

LEMMA CallApiKeepsPromise == ASSUME IInv, JInv, NEW t \in Tasks, CallApi(t) PROVE JInv'
<1> DEFINE a == [ backend |-> config[t].backend, via |-> "api", flag |-> None,
                  started |-> TRUE, outcome |-> "pending" ]
<1>1. /\ pc[t] = "api" /\ stage = "running" /\ UNCHANGED callVars
      /\ UNCHANGED <<config, policy, served, result, machine, changes, probe, fresh>>
  BY DEF CallApi, At
<1>2. CASE /\ attempts' = [attempts EXCEPT ![t] = Append(attempts[t], a)]
           /\ pc' = [pc EXCEPT ![t] = "attempt"] /\ UNCHANGED error
  <2>1. config[t].backend = ApiName /\ policy[t] = "default"
    BY <1>1, FlaglessAllowDefault DEF IInv, TaskInv, BackendFits, Accepted
  <2>2. a \in Attempt
    BY <2>1 DEF Attempt, Backends
  <2>3. /\ a.backend = config[t].backend /\ a.via = "api" /\ a.flag = None
    OBVIOUS
  <2>. HIDE DEF a
  <2>. QED  BY <1>1, <1>2, <2>1, <2>2, <2>3, BeginKeepsPromise
<1>3. CASE Fail(t, "KeyMissing") /\ UNCHANGED attempts
  <2>1. /\ pc'[t] = "failed" /\ error'[t] = "KeyMissing"
        /\ \A u \in Tasks \ {t} : pc'[u] = pc[u] /\ error'[u] = error[u]
    BY <1>3 DEF Fail, Goto, IInv, Types
  <2>2. (Checked(t)' <=> Checked(t)) /\ (Previewed(t)' <=> Previewed(t))
    BY <1>1 DEF Checked, Previewed, callVars
  <2>3. error'[t] \notin Refusals /\ Admitted(t)'
    BY <2>1 DEF Refusals, Admitted
  <2>4. Previewed(t) => OnTheWay(t)' /\ AsForetold(t)'
    BY <1>1, <1>3, <2>1 DEF JInv, Promised, OnTheWay, AsForetold, callVars
  <2>5. Promised(t)'
    BY <2>1, <2>2, <2>3, <2>4 DEF Promised
  <2>. QED  BY <1>1, <1>3, <2>1, <2>5, OnePromise
<1>. QED  BY <1>2, <1>3 DEF CallApi, Goto

\* A run ends: it stays the one foretold, and so is the one that follows.
LEMMA EndKeepsPromise ==
    ASSUME IInv, JInv, NEW t \in Tasks, pc[t] = "attempt", stage = "running",
           NEW outcome \in {"success", "failure", "err"}, End(t, outcome),
           NEW place \in {"process", "done", "failed"},
           pc' = [pc EXCEPT ![t] = place],
           error' = error \/ error' = [error EXCEPT ![t] = "ExecutionFailed"],
           UNCHANGED callVars,
           UNCHANGED <<config, policy, served, machine, changes, probe, fresh>>
    PROVE  JInv'
<1>1. Len(attempts[t]) # 0 /\ Types
  BY DEF IInv, TaskInv, AttemptsFit
<1>2. /\ DOMAIN attempts'[t] = DOMAIN attempts[t]
      /\ \A i \in DOMAIN attempts[t] :
            /\ attempts'[t][i].via = attempts[t][i].via
            /\ attempts'[t][i].flag = attempts[t][i].flag
            /\ attempts'[t][i].backend = attempts[t][i].backend
  BY <1>1, Ended
<1>3. /\ pc'[t] = place
      /\ \A u \in Tasks \ {t} :
            pc'[u] = pc[u] /\ attempts'[u] = attempts[u] /\ error'[u] = error[u]
  BY DEF IInv, Types, End
<1>4. (Checked(t)' <=> Checked(t)) /\ (Previewed(t)' <=> Previewed(t))
  BY DEF Checked, Previewed, callVars
<1>5. After(t)' = After(t) /\ Asked(t)' = Asked(t) /\ Admitted(t)'
  BY <1>3 DEF After, Asked, Admitted
<1>6. Previewed(t) => OnTheWay(t)'
  BY <1>3, <1>5, SameMachine DEF JInv, Promised, OnTheWay, callVars
<1>7. Previewed(t) => AsForetold(t)'
  BY <1>2 DEF JInv, Promised, AsForetold, Foretold, callVars
<1>8. Checked(t) => error'[t] \notin Refusals
  BY DEF JInv, Promised, Refusals, IInv, Types
<1>9. Promised(t)'
  BY <1>3, <1>4, <1>5, <1>6, <1>7, <1>8 DEF Promised
<1>. QED  BY <1>3, <1>9, OnePromise

LEMMA EndingKeepsPromise ==
    ASSUME IInv, JInv, NEW t \in Tasks,
           Err(t) \/ \E success \in BOOLEAN : Answer(t, success)
    PROVE  JInv'
<1>1. CASE Err(t)
  <2>1. /\ pc[t] = "attempt" /\ stage = "running" /\ End(t, "err") /\ UNCHANGED callVars
        /\ UNCHANGED <<config, policy, served, machine, changes, probe, fresh>>
    BY <1>1 DEF Err, At
  <2>2. PICK place \in {"process", "failed"} : pc' = [pc EXCEPT ![t] = place]
    BY <1>1 DEF Err, Goto, Fail
  <2>3. error' = error \/ error' = [error EXCEPT ![t] = "ExecutionFailed"]
    BY <1>1 DEF Err, Fail
  <2>. QED  BY <2>1, <2>2, <2>3, EndKeepsPromise
<1>2. CASE \E success \in BOOLEAN : Answer(t, success)
  <2>1. PICK outcome \in {"success", "failure"} : End(t, outcome)
    BY <1>2 DEF Answer
  <2>2. /\ pc[t] = "attempt" /\ stage = "running" /\ UNCHANGED callVars
        /\ pc' = [pc EXCEPT ![t] = "done"]
        /\ UNCHANGED <<config, policy, served, error, machine, changes, probe, fresh>>
    BY <1>2 DEF Answer, At, Goto
  <2>. QED  BY <2>1, <2>2, EndKeepsPromise
<1>. QED  BY <1>1, <1>2

LEMMA NextKeepsPromise == IInv /\ JInv /\ [Next]_vars => JInv'
<1> SUFFICES ASSUME IInv, JInv, [Next]_vars PROVE JInv'
  OBVIOUS
<1>1. ASSUME NEW t \in Tasks, Task(t) PROVE JInv'
  BY <1>1, StartKeepsPromise, ResolveAgentKeepsPromise, DispatchKeepsPromise, MoveKeepsPromise,
     EnsureServerKeepsPromise, LaunchKeepsPromise, CallApiKeepsPromise, EndingKeepsPromise DEF Task
<1>2. ASSUME NEW m \in Machines, Change(m) PROVE JInv'
  BY <1>2, ChangeKeepsPromise
<1>3. CASE PreviewResolve \/ Plan \/ Execute \/ Validate \/ Return
  BY <1>3, PreviewKeepsPromise, ExecuteKeepsPromise, ValidateKeepsPromise, ReturnKeepsPromise
<1>4. CASE Settled \/ UNCHANGED vars
  BY <1>4, StutterKeepsPromise DEF Settled
<1>. QED  BY <1>1, <1>2, <1>3, <1>4 DEF Next

-----------------------------------------------------------------------------
(* The theorems.                                                           *)

LEMMA NextKeeps == IInv /\ [Next]_vars => IInv'
<1> SUFFICES ASSUME IInv, [Next]_vars PROVE IInv'
  OBVIOUS
<1>1. ASSUME NEW t \in Tasks, Task(t) PROVE IInv'
  BY <1>1, StartStep, ResolveAgentStep, DispatchStep, MoveStep, EnsureServerStep,
     LaunchStep, CallApiStep, ErrStep, AnswerStep DEF Task
<1>2. ASSUME NEW m \in Machines, Change(m) PROVE IInv'
  BY <1>2, ChangeStep
<1>3. CASE PreviewResolve \/ Plan \/ Execute \/ Validate \/ Return
  BY <1>3, PreviewStep, ExecuteStep, ValidateOrReturnStep
<1>4. CASE Settled \/ UNCHANGED vars
  BY <1>4, StutterStep DEF Settled
<1>. QED  BY <1>1, <1>2, <1>3, <1>4 DEF Next

\* Every reachable state has a task where its backend, its transport and its
\* attempts say it is.
THEOREM InductiveInvariant == Spec => []IInv
BY InitEstablishes, NextKeeps, PTL DEF Spec

\* Type correctness, with the plan's domain and the pending attempts, for every
\* set of agents, machines and calls.
THEOREM TypeCorrect == Spec => []TypeOK
<1>1. IInv => TypeOK
  <2> SUFFICES ASSUME IInv PROVE TypeOK
    OBVIOUS
  <2>1. ASSUME NEW t \in Tasks, NEW i \in DOMAIN attempts[t]
        PROVE  /\ IsAttempt(attempts[t][i])
               /\ attempts[t][i].outcome = "pending" <=> pc[t] = "attempt" /\ i = Len(attempts[t])
    <3>1. attempts[t][i] \in Attempt
      BY DEF IInv, Types
    <3>2. IsAttempt(attempts[t][i])
      BY <3>1 DEF Attempt, IsAttempt
    <3>. QED  BY <3>2 DEF IInv, TaskInv, AttemptsFit
  <2>. QED  BY <2>1 DEF TypeOK, IInv, Types
<1>. QED  BY <1>1, InductiveInvariant, PTL

\* No backend is ever given more or less than the request's policy, whatever
\* the machine turns into between the check and the run.
THEOREM PolicyIsAlwaysExpressed == Spec => []PolicyIsExpressed
<1>1. IInv => PolicyIsExpressed
  BY DEF IInv, TaskInv, Expressed, PolicyIsExpressed
<1>. QED  BY <1>1, InductiveInvariant, PTL

\* The only second run of a task is the fallback from an attached run that
\* ended in an Err, and there is no third.
THEOREM AnsweredIsNeverRepeated == Spec => []OnlyErrIsRetried
<1>1. IInv => OnlyErrIsRetried
  BY DEF IInv, TaskInv, AttemptsFit, OnlyErrIsRetried
<1>. QED  BY <1>1, InductiveInvariant, PTL

\* The transport of a result differs from the one asked for exactly after a
\* fallback.
THEOREM TransportIsTruthful == Spec => []TransportTellsFallback
<1>1. ASSUME IInv, NEW t \in Tasks, pc[t] = "done"
      PROVE  (result[t].transport # TaskConfig(t).transport)
                <=> (TaskConfig(t).transport = "persistent" /\ Last(t).via = "process")
  <2>1. attempts[t] \in Seq(Attempt) /\ Len(attempts[t]) # 0
    BY <1>1 DEF IInv, Types, TaskInv, AttemptsFit
  <2>2. Last(t).via \in {"process", "attach", "api"}
    <3>1. Last(t) \in Attempt
      BY <2>1 DEF Last
    <3>. QED  BY <3>1 DEF Attempt
  <2>3. TaskConfig(t).transport \in Transports
    BY <1>1, CallFacts DEF IInv, Configs
  <2>. QED
    BY <1>1, <2>2, <2>3 DEF IInv, TaskInv, TransportFits, ReportedTransport, Transports
<1>2. IInv => TransportTellsFallback
  BY <1>1 DEF TransportTellsFallback
<1>. QED  BY <1>2, InductiveInvariant, PTL

\* What was promised at the preview and at the checks is kept in every
\* reachable state, as long as the machine is as it was then.
THEOREM PromiseInvariant == Spec => []JInv
<1>1. Init => JInv
  BY InitPromised
<1>2. IInv /\ JInv /\ [Next]_vars => JInv'
  BY NextKeepsPromise
<1>. QED  BY <1>1, <1>2, InductiveInvariant, PTL DEF Spec

\* If the machine does not change, a request that was previewed is not refused,
\* and is run on the backend, in the form and with the flag shown.
THEOREM PreviewIsBinding == Spec => []PreviewIsKept
<1>1. IInv /\ JInv => PreviewIsKept
  <2>. SUFFICES ASSUME IInv, JInv, NEW t \in DOMAIN plan, "plan" \in fresh,
                       call.kind = "single" \/ call.specs[t].agent = None
       PROVE  /\ error[t] \notin Refusals
              /\ \A i \in DOMAIN attempts[t] : Foretold(plan[t], attempts[t][i])
    BY DEF PreviewIsKept
  <2>1. t \in Tasks
    BY DEF IInv, Types
  <2>2. AsForetold(t)
    BY <2>1 DEF JInv, Promised, Previewed
  <2>3. error[t] \notin Refusals
    <3>1. CASE stage \in {"validating", "running", "over"}
      <4>1. Checked(t)
        BY <3>1 DEF JInv, BaseFits, Checked
      <4>. QED  BY <2>1, <4>1 DEF JInv, Promised
    <3>2. CASE stage \notin {"validating", "running", "over"}
      BY <2>1, <3>2, WaitingPromise
    <3>. QED  BY <3>1, <3>2
  <2>. QED  BY <2>2, <2>3 DEF AsForetold
<1>. QED  BY <1>1, InductiveInvariant, PromiseInvariant, PTL

\* A parallel call that has started a backend refuses another task only for an
\* agent of the task's own or for a machine that has changed.
THEOREM ChecksAreBinding == Spec => []LateRefusalHasACause
<1>1. JInv => LateRefusalHasACause
  BY DEF JInv, Promised, Checked, LateRefusalHasACause
<1>. QED  BY <1>1, PromiseInvariant, PTL
=============================================================================
