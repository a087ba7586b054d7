--------------------------- MODULE ServerRegistry ---------------------------
(***************************************************************************)
(* How wrangle processes find or start the long-lived server of one work   *)
(* directory: `ensure_server` (wrangle-transport/src/server.rs, over       *)
(* wrangle-server/src/lib.rs) and `ensure_opencode_server`                 *)
(* (wrangle-transport/src/persistent.rs).  The two differ in one step:     *)
(* the second removes a registry file whose server does not answer; `kind` *)
(* says which of them a behaviour is about.                                *)
(*                                                                         *)
(* Clients are separate processes that share the registry file and the     *)
(* ports of the machine, and no lock.  An entry is the server it was       *)
(* written for: its port and pid.  std::fs::write truncates the file when  *)
(* it opens it and writes at the start, so the longer of two entries can   *)
(* leave its tail behind the shorter one.                                  *)
(***************************************************************************)
EXTENDS Naturals, FiniteSets

CONSTANTS
    Clients,       \* wrangle processes that ensure a server, again and again
    Servers,       \* bound: the server processes that may be started
    LongEntries,   \* the servers whose entry is the longer text
    Ports,
    Kinds          \* "wrangle" for ensure_server, "opencode" for ensure_opencode_server

ASSUME RegistryAssumption ==
    /\ LongEntries \subseteq Servers
    /\ Kinds \subseteq {"wrangle", "opencode"}
    /\ "none" \notin Servers \cup Ports
    /\ {"absent", "empty", "torn", "mixed"} \cap Servers = {}

VARIABLES
    kind,      \* the kind of server, the same throughout a behaviour
    file,      \* the registry file: absent, an entry, or a text that does not
               \* parse: "empty" (opened, not yet written), "torn" (its writer
               \* died) or "mixed" (two entries on top of each other)
    openers,   \* the clients that have that file open for writing
    pc,        \* where each client is
    target,    \* the server whose address it has in hand
    chosen,    \* the port it chose
    why,       \* why its last call failed
    server,    \* each server process
    port,      \* the port it was started with
    strangers, \* the ports other programs listen on
    alone,     \* history: no two calls overlapped, and none died half way
    calm       \* history: no server crashed or was late, no port was taken

clientVars == <<pc, target, chosen, why>>
serverVars == <<server, port, strangers>>
history    == <<alone, calm>>
vars == <<kind, file, openers, clientVars, serverVars, history>>

TypeOK ==
    /\ kind \in Kinds
    /\ file \in {"absent", "empty", "torn", "mixed"} \cup Servers
    /\ openers \subseteq { c \in Clients : pc[c] = "write" }
    /\ pc \in [Clients -> { "idle", "read", "connect", "choose", "spawn", "wait",
                            "save", "write", "attached", "failed" }]
    /\ target \in [Clients -> Servers \cup {"none"}]
    /\ chosen \in [Clients -> Ports \cup {"none"}]
    /\ why \in [Clients -> {"none", "registry", "start"}]
    /\ server \in [Servers -> {"unborn", "starting", "listening", "dead"}]
    /\ port \in [Servers -> Ports \cup {"none"}]
    /\ \A s \in Servers : server[s] = "unborn" <=> port[s] = "none"
    /\ strangers \subseteq Ports
    /\ alone \in BOOLEAN /\ calm \in BOOLEAN

Init ==
    /\ kind \in Kinds
    /\ file = "absent" /\ openers = {}
    /\ pc = [c \in Clients |-> "idle"]
    /\ target = [c \in Clients |-> "none"]
    /\ chosen = [c \in Clients |-> "none"]
    /\ why = [c \in Clients |-> "none"]
    /\ server = [s \in Servers |-> "unborn"]
    /\ port = [s \in Servers |-> "none"]
    /\ strangers = {}
    /\ alone = TRUE /\ calm = TRUE

-----------------------------------------------------------------------------
Listening == { s \in Servers : server[s] = "listening" }

\* can_connect: somebody accepts connections on the port.
CanConnect(p) == p \in strangers \/ \E s \in Listening : port[s] = p

Idle(c) == pc[c] \in {"idle", "attached", "failed"}

Goto(c, to) == pc' = [pc EXCEPT ![c] = to]

Fail(c, reason) == Goto(c, "failed") /\ why' = [why EXCEPT ![c] = reason]

-----------------------------------------------------------------------------
(***************************************************************************)
(* A client.                                                               *)
(***************************************************************************)
\* A call begins with path.exists().
Look(c) ==
    /\ Idle(c)
    /\ Goto(c, IF file = "absent" THEN "choose" ELSE "read")
    /\ target' = [target EXCEPT ![c] = "none"]
    /\ chosen' = [chosen EXCEPT ![c] = "none"]
    /\ why' = [why EXCEPT ![c] = "none"]
    /\ alone' = (alone /\ \A d \in Clients \ {c} : Idle(d))
    /\ UNCHANGED <<file, openers, serverVars, calm>>

\* read_to_string and from_str: the file may be gone by now, or not parse.
Read(c) ==
    /\ pc[c] = "read"
    /\ \/ /\ file \in Servers
          /\ target' = [target EXCEPT ![c] = file]
          /\ Goto(c, "connect")
          /\ UNCHANGED why
       \/ /\ file \notin Servers
          /\ Fail(c, "registry")
          /\ UNCHANGED target
    /\ UNCHANGED <<file, openers, chosen, serverVars, history>>

Reuse(c) ==
    /\ pc[c] = "connect"
    /\ CanConnect(port[target[c]])
    /\ Goto(c, "attached")
    /\ UNCHANGED <<file, openers, target, chosen, why, serverVars, history>>

\* ensure_server leaves the entry; ensure_opencode_server removes whatever is
\* at the path now.
FindStale(c) ==
    /\ pc[c] = "connect"
    /\ ~CanConnect(port[target[c]])
    /\ Goto(c, "choose")
    /\ IF kind = "opencode" THEN file' = "absent" /\ openers' = {}
                     ELSE UNCHANGED <<file, openers>>
    /\ UNCHANGED <<target, chosen, why, serverVars, history>>

\* choose_port binds port 0 and drops the listener: the port is free now.
ChoosePort(c) ==
    /\ pc[c] = "choose"
    /\ \E p \in Ports : ~CanConnect(p) /\ chosen' = [chosen EXCEPT ![c] = p]
    /\ Goto(c, "spawn")
    /\ UNCHANGED <<file, openers, target, why, serverVars, history>>

SpawnServer(c, s) ==
    /\ pc[c] = "spawn"
    /\ server[s] = "unborn"
    /\ server' = [server EXCEPT ![s] = "starting"]
    /\ port' = [port EXCEPT ![s] = chosen[c]]
    /\ target' = [target EXCEPT ![c] = s]
    /\ Goto(c, "wait")
    /\ UNCHANGED <<file, openers, chosen, why, strangers, history>>

\* No launcher, or the spawn fails.
SpawnFails(c) ==
    /\ pc[c] = "spawn"
    /\ Fail(c, "start")
    /\ UNCHANGED <<file, openers, target, chosen, serverVars, history>>

\* mutant: the server is saved without waiting for it
Unawaited(c) == TRUE

\* wait_for_server succeeds when anybody answers on the port.
Awaited(c) == CanConnect(chosen[c])

ServerUp(c) ==
    /\ pc[c] = "wait"
    /\ Awaited(c)
    /\ Goto(c, "save")
    /\ UNCHANGED <<file, openers, target, chosen, why, serverVars, history>>

\* Fifty attempts failed.  The server started stays.
GiveUp(c) ==
    /\ pc[c] = "wait"
    /\ ~CanConnect(chosen[c])
    /\ Fail(c, "start")
    /\ calm' = FALSE
    /\ UNCHANGED <<file, openers, target, chosen, serverVars, alone>>

NotTruncated == IF file = "absent" THEN "empty" ELSE file     \* mutant
Truncated    == "empty"

\* fs::write opens the file, which creates or truncates it ...
OpenEntry(c) ==
    /\ pc[c] = "save"
    /\ file' = Truncated
    /\ openers' = openers \cup {c}
    /\ Goto(c, "write")
    /\ UNCHANGED <<target, chosen, why, serverVars, history>>

\* What is in the file once s's entry was written over it.
Overwritten(s) ==
    IF file \in LongEntries \cup {"mixed"} /\ s \notin LongEntries THEN "mixed" ELSE s

Closed(c)    == openers \ {c}

\* ... and writes it, unless the file was removed meanwhile.
WriteEntry(c) ==
    /\ pc[c] = "write"
    /\ file' = IF c \in openers THEN Overwritten(target[c]) ELSE file
    /\ openers' = Closed(c)
    /\ Goto(c, "attached")
    /\ UNCHANGED <<target, chosen, why, serverVars, history>>

\* The process is killed, or its write fails, half way.
Die(c) ==
    /\ ~Idle(c)
    /\ Goto(c, "idle")
    /\ openers' = openers \ {c}
    /\ file' = IF file = "empty" /\ openers = {c} THEN "torn" ELSE file
    /\ alone' = FALSE
    /\ UNCHANGED <<target, chosen, why, serverVars, calm>>

-----------------------------------------------------------------------------
(***************************************************************************)
(* The servers (run_server binds its port or exits), and other programs.   *)
(***************************************************************************)
Bind(s) ==
    /\ server[s] = "starting"
    /\ server' = [server EXCEPT ![s] = IF CanConnect(port[s]) THEN "dead" ELSE "listening"]
    /\ UNCHANGED <<file, openers, clientVars, port, strangers, history>>

Crash(s) ==
    /\ server[s] \in {"starting", "listening"}
    /\ server' = [server EXCEPT ![s] = "dead"]
    /\ calm' = FALSE
    /\ UNCHANGED <<file, openers, clientVars, port, strangers, alone>>

Stranger(p) ==
    /\ strangers' = IF p \in strangers THEN strangers \ {p} ELSE strangers \cup {p}
    /\ ~CanConnect(p) \/ p \in strangers
    /\ calm' = FALSE
    /\ UNCHANGED <<file, openers, clientVars, server, port, alone>>

-----------------------------------------------------------------------------
Ensure(c) ==
    \/ Look(c) \/ Read(c) \/ Reuse(c) \/ FindStale(c)
    \/ ChoosePort(c) \/ SpawnFails(c) \/ ServerUp(c) \/ GiveUp(c)
    \/ \E s \in Servers : SpawnServer(c, s)
    \/ OpenEntry(c) \/ WriteEntry(c)

Next ==
    /\ \/ \E c \in Clients : Ensure(c) \/ Die(c)
       \/ \E s \in Servers : Bind(s) \/ Crash(s)
       \/ \E p \in Ports : Stranger(p)
    /\ UNCHANGED kind

Spec == Init /\ [][Next]_vars

-----------------------------------------------------------------------------
Started == { s \in Servers : server[s] # "unborn" }

\* Calls that do not overlap, over servers that live, share one server: it is
\* started once, stays in the registry, and every call gets it.
SequentialCallsShareOneServer ==
    (alone /\ calm) =>
        /\ Cardinality(Started) <= 1
        /\ \A c \in Clients : pc[c] = "attached" =>
               file = target[c] /\ server[target[c]] = "listening"

\* As long as calls do not overlap and none dies, no call fails for what it
\* finds in the registry, whatever happens to the servers and ports.
LoneCallsFindReadableEntries ==
    alone => \A c \in Clients : why[c] # "registry"

-----------------------------------------------------------------------------
\* docs/persistent-backend.md:35-36: an entry is reused if it is healthy, that
\* is, if its own server answers.
ReusedServerIsHealthy ==
    [][\A c \in Clients : (pc[c] = "connect" /\ pc'[c] = "attached")
            => server[target[c]] = "listening"]_vars
=============================================================================
