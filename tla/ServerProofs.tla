---------------------------- MODULE ServerProofs ----------------------------
(***************************************************************************)
(* Proofs about the long-lived server.  ServerRegistry: what the registry  *)
(* promises to calls that do not overlap, for any number of clients,       *)
(* servers and ports.  ServerSessions: ids are minted once, conversations  *)
(* stay apart, and callers that take turns keep their context, for any     *)
(* number of calls and of server processes.                                *)
(***************************************************************************)
EXTENDS ServerRegistry, ServerSessions, FiniteSetTheorems, TLAPS

\* What a client has in hand at each place.
HandsFit ==
    \A c \in Clients :
        /\ pc[c] = "spawn" => chosen[c] \in Ports
        /\ pc[c] \in {"connect", "wait", "save", "write"} => target[c] \in Servers
        /\ pc[c] \in {"wait", "save", "write"} => server[target[c]] # "unborn" /\ port[target[c]] = chosen[c]

\* A lone caller finds an entry or nothing; the file is empty only between its
\* two steps.
LoneFits ==
    alone =>
        /\ \A c, d \in Clients : c = d \/ Idle(c) \/ Idle(d)
        /\ \A c \in Clients :
              /\ why[c] # "registry"
              /\ pc[c] = "read" => file \in Servers
              /\ pc[c] = "write" => file = "empty" /\ openers = {c}
        /\ (\A c \in Clients : pc[c] # "write") => file \in Servers \cup {"absent"}

\* Over servers that live there is no server, or one that is being started, or
\* one that listens and is in the file.
CalmFits ==
    (alone /\ calm) =>
        /\ strangers = {}
        /\ \A s, t \in Started : s = t
        /\ \A s \in Servers : server[s] # "dead"
        /\ file \in Servers => server[file] = "listening"
        /\ (file = "absent" /\ \A c \in Clients : pc[c] \notin {"wait", "save"}) => Started = {}
        /\ \A c \in Clients :
              /\ pc[c] \in {"choose", "spawn"} => file = "absent" /\ Started = {}
              /\ pc[c] \in {"wait", "save"} => file = "absent"
              /\ pc[c] \in {"save", "write"} => server[target[c]] = "listening"
              /\ pc[c] \in {"connect", "attached"} => file \in Servers /\ target[c] = file

RegistryIInv == TypeOK /\ HandsFit /\ LoneFits /\ CalmFits

-----------------------------------------------------------------------------
LEMMA RegistryInitIInv == Init => RegistryIInv
<1>. SUFFICES ASSUME Init PROVE RegistryIInv
  OBVIOUS
<1>1. TypeOK
  BY DEF Init, TypeOK
<1>2. HandsFit
  BY DEF Init, HandsFit
<1>3. LoneFits
  BY DEF Init, LoneFits, Idle
<1>4. CalmFits
  BY RegistryAssumption DEF Init, CalmFits, Started
<1>. QED  BY <1>1, <1>2, <1>3, <1>4 DEF RegistryIInv

\* No entry is one of the words for a file without one.
LEMMA EntriesAreServers ==
    /\ LongEntries \subseteq Servers
    /\ \A s \in Servers : s \notin {"absent", "empty", "torn", "mixed", "none"}
    /\ "none" \notin Ports
BY RegistryAssumption

-----------------------------------------------------------------------------
LEMMA ClientKeepsTypes ==
    ASSUME TypeOK, HandsFit, NEW c \in Clients, Ensure(c) \/ Die(c), kind' = kind
    PROVE  TypeOK'
<1>. USE DEF TypeOK
<1>1. pc' \in [Clients -> { "idle", "read", "connect", "choose", "spawn", "wait",
                            "save", "write", "attached", "failed" }]
  BY DEF Ensure, Look, Read, Reuse, FindStale, ChoosePort, SpawnFails, ServerUp, GiveUp,
     SpawnServer, OpenEntry, WriteEntry, Die, Goto, Fail
<1>2. target' \in [Clients -> Servers \cup {"none"}] /\ chosen' \in [Clients -> Ports \cup {"none"}]
  BY DEF Ensure, Look, Read, Reuse, FindStale, ChoosePort, SpawnFails, ServerUp, GiveUp,
     SpawnServer, OpenEntry, WriteEntry, Die
<1>3. why' \in [Clients -> {"none", "registry", "start"}] /\ alone' \in BOOLEAN /\ calm' \in BOOLEAN
  <2>1. why' = why \/ \E reason \in {"none", "registry", "start"} :
                         why' = [why EXCEPT ![c] = reason]
    BY DEF Ensure, Look, Read, Reuse, FindStale, ChoosePort, SpawnFails, ServerUp, GiveUp,
       SpawnServer, OpenEntry, WriteEntry, Die, Fail
  <2>2. alone' \in BOOLEAN /\ calm' \in BOOLEAN
    BY DEF Ensure, Look, Read, Reuse, FindStale, ChoosePort, SpawnFails, ServerUp, GiveUp,
       SpawnServer, OpenEntry, WriteEntry, Die, history
  <2>. QED  BY <2>1, <2>2
<1>4. file' \in {"absent", "empty", "torn", "mixed"} \cup Servers
  <2>1. pc[c] = "write" => target[c] \in Servers
    BY DEF HandsFit
  <2>. QED
    BY <2>1 DEF Ensure, Look, Read, Reuse, FindStale, ChoosePort, SpawnFails, ServerUp, GiveUp,
       SpawnServer, OpenEntry, WriteEntry, Die, Truncated, Overwritten
<1>5. openers' \subseteq { d \in Clients : pc'[d] = "write" }
  BY DEF Ensure, Look, Read, Reuse, FindStale, ChoosePort, SpawnFails, ServerUp, GiveUp,
     SpawnServer, OpenEntry, WriteEntry, Die, Goto, Fail, Closed, Idle
<1>6. /\ server' \in [Servers -> {"unborn", "starting", "listening", "dead"}]
      /\ port' \in [Servers -> Ports \cup {"none"}]
      /\ \A s \in Servers : server'[s] = "unborn" <=> port'[s] = "none"
      /\ strangers' \subseteq Ports
  <2>1. CASE \E s \in Servers : SpawnServer(c, s)
    <3>1. PICK s \in Servers : SpawnServer(c, s)
      BY <2>1
    <3>2. chosen[c] \in Ports
      BY <3>1 DEF SpawnServer, HandsFit
    <3>. QED  BY <3>1, <3>2, EntriesAreServers DEF SpawnServer
  <2>2. CASE ~\E s \in Servers : SpawnServer(c, s)
    <3>1. UNCHANGED serverVars
      BY <2>2 DEF Ensure, Look, Read, Reuse, FindStale, ChoosePort, SpawnFails, ServerUp, GiveUp,
         OpenEntry, WriteEntry, Die
    <3>. QED  BY <3>1 DEF serverVars
  <2>. QED  BY <2>1, <2>2
<1>. QED  BY <1>1, <1>2, <1>3, <1>4, <1>5, <1>6

LEMMA ClientKeepsHands ==
    ASSUME TypeOK, HandsFit, NEW c \in Clients, Ensure(c) \/ Die(c)
    PROVE  HandsFit'
<1>. USE DEF TypeOK, HandsFit
<1>1. CASE \E s \in Servers : SpawnServer(c, s)
  <2>1. PICK s \in Servers : SpawnServer(c, s)
    BY <1>1
  <2>2. \A d \in Clients : pc[d] \in {"wait", "save", "write"} => target[d] # s
    BY <2>1 DEF SpawnServer
  <2>. QED  BY <2>1, <2>2 DEF SpawnServer, Goto
<1>2. CASE Look(c) \/ Read(c) \/ Reuse(c) \/ FindStale(c) \/ ChoosePort(c)
  BY <1>2 DEF Look, Read, Reuse, FindStale, ChoosePort, Goto, Fail, serverVars
<1>3. CASE SpawnFails(c) \/ ServerUp(c) \/ GiveUp(c) \/ OpenEntry(c) \/ WriteEntry(c) \/ Die(c)
  BY <1>3 DEF SpawnFails, ServerUp, GiveUp, OpenEntry, WriteEntry, Die, Goto, Fail, serverVars
<1>. QED  BY <1>1, <1>2, <1>3 DEF Ensure

\* In a behaviour that is still of lone calls, the client at work is alone.
LEMMA LoneAtWork ==
    ASSUME LoneFits, alone, NEW c \in Clients, ~Idle(c)
    PROVE  \A d \in Clients \ {c} : Idle(d) /\ pc[d] \in {"idle", "attached", "failed"}
BY DEF LoneFits, Idle

LEMMA ClientKeepsLone ==
    ASSUME TypeOK, HandsFit, LoneFits, NEW c \in Clients, Ensure(c) \/ Die(c)
    PROVE  LoneFits'
<1>. USE DEF TypeOK
<1>. SUFFICES ASSUME alone' PROVE LoneFits'
  BY DEF LoneFits
<1>1. alone /\ ~Die(c) /\ Ensure(c)
  BY DEF Ensure, Look, Read, Reuse, FindStale, ChoosePort, SpawnFails, ServerUp, GiveUp,
     SpawnServer, OpenEntry, WriteEntry, Die, history
<1>2. \A d \in Clients \ {c} : pc[d] \in {"idle", "attached", "failed"} /\ pc'[d] = pc[d]
  <2>1. CASE Look(c)
    BY <1>1, <2>1 DEF Look, Goto, Idle
  <2>2. CASE ~Look(c)
    <3>1. ~Idle(c)
      BY <1>1, <2>2 DEF Ensure, Read, Reuse, FindStale, ChoosePort, SpawnFails, ServerUp, GiveUp,
         SpawnServer, OpenEntry, WriteEntry, Idle
    <3>2. \A d \in Clients \ {c} : pc[d] \in {"idle", "attached", "failed"}
      BY <1>1, <3>1, LoneAtWork
    <3>3. \A d \in Clients \ {c} : pc'[d] = pc[d]
      BY <1>1, <2>2 DEF Ensure, Read, Reuse, FindStale, ChoosePort, SpawnFails, ServerUp, GiveUp,
         SpawnServer, OpenEntry, WriteEntry, Goto, Fail
    <3>. QED  BY <3>2, <3>3
  <2>. QED  BY <2>1, <2>2
<1>3. \A d, e \in Clients : d = e \/ Idle(d)' \/ Idle(e)'
  BY <1>2 DEF Idle
<1>4. \A d \in Clients \ {c} : why[d] # "registry" /\ why'[d] # "registry"
  <2>1. why' = why \/ \E reason : why' = [why EXCEPT ![c] = reason]
    BY <1>1 DEF Ensure, Look, Read, Reuse, FindStale, ChoosePort, SpawnFails, ServerUp,
       GiveUp, SpawnServer, OpenEntry, WriteEntry, Fail
  <2>. QED  BY <1>1, <2>1 DEF LoneFits
<1>5. why[c] # "registry" /\ (pc[c] = "read" => file \in Servers)
      /\ (pc[c] = "write" => file = "empty" /\ openers = {c})
      /\ (pc[c] # "write" => file \in Servers \cup {"absent"})
  BY <1>1, <1>2 DEF LoneFits
<1>6. /\ why'[c] # "registry" /\ (pc'[c] = "read" => file' \in Servers)
      /\ (pc'[c] = "write" => file' = "empty" /\ openers' = {c})
      /\ (pc'[c] # "write" => file' \in Servers \cup {"absent"})
  <2>1. CASE Look(c)
    BY <1>5, <2>1 DEF Look, Goto, Idle
  <2>2. CASE Read(c) \/ Reuse(c) \/ FindStale(c) \/ ChoosePort(c)
    BY <1>5, <2>2 DEF Read, Reuse, FindStale, ChoosePort, Goto, Fail
  <2>3. CASE SpawnFails(c) \/ ServerUp(c) \/ GiveUp(c) \/ \E s \in Servers : SpawnServer(c, s)
    <3>1. pc[c] \in {"spawn", "wait"} /\ file' = file
      BY <2>3 DEF SpawnFails, ServerUp, GiveUp, SpawnServer
    <3>2. \E place \in {"failed", "save", "wait"} : pc' = [pc EXCEPT ![c] = place]
      <4>1. CASE SpawnFails(c)
        BY <4>1 DEF SpawnFails, Goto, Fail
      <4>2. CASE ServerUp(c)
        BY <4>2 DEF ServerUp, Goto
      <4>3. CASE GiveUp(c)
        BY <4>3 DEF GiveUp, Goto, Fail
      <4>4. CASE \E s \in Servers : SpawnServer(c, s)
        BY <4>4 DEF SpawnServer, Goto
      <4>. QED  BY <2>3, <4>1, <4>2, <4>3, <4>4
    <3>3. why'[c] = "start" \/ why'[c] = why[c]
      BY <2>3 DEF SpawnFails, ServerUp, GiveUp, SpawnServer, Fail
    <3>. QED  BY <1>5, <3>1, <3>2, <3>3
  <2>4. CASE OpenEntry(c)
    <3>1. openers = {}
      BY <1>2, <2>4 DEF OpenEntry
    <3>. QED  BY <1>5, <2>4, <3>1 DEF OpenEntry, Goto, Truncated
  <2>5. CASE WriteEntry(c)
    <3>1. target[c] \in Servers /\ file' = target[c]
      BY <1>5, <2>5, EntriesAreServers DEF WriteEntry, Overwritten, HandsFit
    <3>. QED  BY <1>5, <2>5, <3>1 DEF WriteEntry, Goto
  <2>. QED  BY <1>1, <2>1, <2>2, <2>3, <2>4, <2>5 DEF Ensure
<1>. QED  BY <1>2, <1>3, <1>4, <1>6 DEF LoneFits

LEMMA ClientKeepsCalm ==
    ASSUME TypeOK, HandsFit, LoneFits, CalmFits, LoneFits', NEW c \in Clients, Ensure(c) \/ Die(c)
    PROVE  CalmFits'
<1>. USE DEF TypeOK
<1>. SUFFICES ASSUME alone', calm' PROVE CalmFits'
  BY DEF CalmFits
<1>1. alone /\ calm /\ Ensure(c) /\ ~GiveUp(c)
  BY DEF Ensure, Look, Read, Reuse, FindStale, ChoosePort, SpawnFails, ServerUp, GiveUp,
     SpawnServer, OpenEntry, WriteEntry, Die, history
<1>2. /\ strangers = {} /\ \A s, t \in Started : s = t
      /\ \A s \in Servers : server[s] # "dead"
      /\ file \in Servers => server[file] = "listening"
      /\ (file = "absent" /\ \A d \in Clients : pc[d] \notin {"wait", "save"}) => Started = {}
  BY <1>1 DEF CalmFits
<1>3. \A d \in Clients : /\ pc[d] \in {"choose", "spawn"} => file = "absent" /\ Started = {}
                         /\ pc[d] \in {"wait", "save"} => file = "absent"
                         /\ pc[d] \in {"save", "write"} => server[target[d]] = "listening"
                         /\ pc[d] \in {"connect", "attached"} => file \in Servers /\ target[d] = file
  BY <1>1 DEF CalmFits
<1>4. \A d \in Clients \ {c} : pc'[d] = pc[d] /\ target'[d] = target[d]
  <2>1. \E place : pc' = [pc EXCEPT ![c] = place]
    BY <1>1 DEF Ensure, Look, Read, Reuse, FindStale, ChoosePort, SpawnFails, ServerUp, GiveUp,
       SpawnServer, OpenEntry, WriteEntry, Goto, Fail
  <2>2. target' = target \/ \E s : target' = [target EXCEPT ![c] = s]
    BY <1>1 DEF Ensure, Look, Read, Reuse, FindStale, ChoosePort, SpawnFails, ServerUp, GiveUp,
       SpawnServer, OpenEntry, WriteEntry
  <2>. QED  BY <2>1, <2>2
<1>5. \A d \in Clients \ {c} : pc'[d] \in {"idle", "attached", "failed"} \/ Idle(c)'
  BY <1>1 DEF LoneFits, Idle
<1>6. CASE Look(c)
  <2>1. \A d \in Clients \ {c} : pc[d] \in {"idle", "attached", "failed"}
    BY <1>6 DEF Look, Idle
  <2>2. /\ UNCHANGED <<file, server, port, strangers>> /\ Started' = Started
        /\ pc[c] \in {"idle", "attached", "failed"}
        /\ pc'[c] = IF file = "absent" THEN "choose" ELSE "read"
    BY <1>6 DEF Look, Goto, serverVars, Started, Idle
  <2>3. file = "absent" => Started = {}
    BY <1>2, <2>1, <2>2
  <2>. QED  BY <1>2, <1>3, <1>4, <2>1, <2>2, <2>3 DEF CalmFits
<1>7. CASE Read(c)
  <2>1. file \in Servers
    BY <1>1, <1>7 DEF Read, LoneFits
  <2>2. /\ UNCHANGED <<file, server, port, strangers>> /\ Started' = Started
        /\ pc'[c] = "connect" /\ target'[c] = file
    BY <1>7, <2>1 DEF Read, Goto, serverVars, Started
  <2>. QED  BY <1>2, <1>3, <1>4, <2>1, <2>2, EntriesAreServers DEF CalmFits
<1>8. CASE Reuse(c) \/ FindStale(c)
  <2>1. pc[c] = "connect" /\ file \in Servers /\ target[c] = file /\ server[file] = "listening"
    BY <1>2, <1>3, <1>8 DEF Reuse, FindStale
  <2>2. CanConnect(port[target[c]])
    BY <2>1 DEF CanConnect, Listening
  <2>3. /\ UNCHANGED <<file, target, server, port, strangers>> /\ Started' = Started
        /\ pc'[c] = "attached"
    BY <1>8, <2>2 DEF Reuse, FindStale, Goto, serverVars, Started
  <2>. QED  BY <1>2, <1>3, <1>4, <2>1, <2>3, EntriesAreServers DEF CalmFits
<1>9. CASE ChoosePort(c) \/ SpawnFails(c)
  <2>1. /\ pc[c] \in {"choose", "spawn"} /\ file = "absent" /\ Started = {}
        /\ UNCHANGED <<file, target, server, port, strangers>> /\ Started' = Started
        /\ pc'[c] \in {"spawn", "failed"}
    BY <1>3, <1>9 DEF ChoosePort, SpawnFails, Goto, Fail, serverVars, Started
  <2>. QED  BY <1>2, <1>3, <1>4, <2>1 DEF CalmFits
<1>10. CASE \E s \in Servers : SpawnServer(c, s)
  <2>1. PICK s \in Servers : SpawnServer(c, s)
    BY <1>10
  <2>2. file = "absent" /\ file' = file /\ Started = {} /\ strangers' = strangers
    BY <1>3, <2>1 DEF SpawnServer
  <2>3. /\ server' = [server EXCEPT ![s] = "starting"] /\ Started' = {s}
        /\ target'[c] = s /\ pc'[c] = "wait"
    BY <2>1, <2>2 DEF SpawnServer, Goto, Started
  <2>4. \A d \in Clients \ {c} : pc[d] \in {"idle", "attached", "failed"} /\ pc[d] # "attached"
    BY <1>1, <1>3, <2>1, <2>2, LoneAtWork, EntriesAreServers DEF SpawnServer, Idle
  <2>. QED  BY <1>2, <1>4, <2>2, <2>3, <2>4, EntriesAreServers DEF CalmFits
<1>11. CASE ServerUp(c)
  <2>1. /\ pc[c] = "wait" /\ pc'[c] = "save" /\ file = "absent"
        /\ UNCHANGED <<file, target, server, port, strangers>> /\ Started' = Started
        /\ CanConnect(chosen[c])
    BY <1>3, <1>11 DEF ServerUp, Goto, serverVars, Started, Awaited
  <2>2. PICK s \in Servers : server[s] = "listening"
    BY <1>2, <2>1 DEF CanConnect, Listening
  <2>3. target[c] \in Started /\ s \in Started
    BY <2>1, <2>2 DEF HandsFit, Started
  <2>4. server[target[c]] = "listening"
    BY <1>2, <2>2, <2>3
  <2>. QED  BY <1>2, <1>3, <1>4, <2>1, <2>4 DEF CalmFits
<1>12. CASE OpenEntry(c)
  <2>1. /\ pc[c] = "save" /\ pc'[c] = "write" /\ file = "absent" /\ file' = "empty"
        /\ UNCHANGED <<target, server, port, strangers>> /\ Started' = Started
    BY <1>3, <1>12 DEF OpenEntry, Goto, serverVars, Started, Truncated
  <2>2. \A d \in Clients \ {c} : pc[d] \in {"idle", "failed"}
    BY <1>1, <1>3, <2>1, LoneAtWork, EntriesAreServers DEF Idle
  <2>. QED  BY <1>2, <1>3, <1>4, <2>1, <2>2, EntriesAreServers DEF CalmFits
<1>13. CASE WriteEntry(c)
  <2>1. /\ pc[c] = "write" /\ pc'[c] = "attached" /\ file = "empty" /\ openers = {c}
        /\ UNCHANGED <<target, server, port, strangers>> /\ Started' = Started
        /\ target[c] \in Servers /\ server[target[c]] = "listening"
    BY <1>1, <1>3, <1>13 DEF WriteEntry, Goto, serverVars, Started, LoneFits, HandsFit
  <2>2. file' = target[c]
    BY <1>13, <2>1, EntriesAreServers DEF WriteEntry, Overwritten
  <2>3. \A d \in Clients \ {c} : pc[d] \in {"idle", "failed"}
    BY <1>1, <1>3, <2>1, LoneAtWork, EntriesAreServers DEF Idle
  <2>. QED  BY <1>2, <1>4, <2>1, <2>2, <2>3, EntriesAreServers DEF CalmFits
<1>. QED
  BY <1>1, <1>6, <1>7, <1>8, <1>9, <1>10, <1>11, <1>12, <1>13 DEF Ensure

-----------------------------------------------------------------------------
\* The steps of the servers and of other programs.
Elsewhere ==
    \/ \E s \in Servers : Bind(s) \/ Crash(s)
    \/ \E p \in Ports : Stranger(p)

LEMMA ElsewhereTouchesNoClient ==
    ASSUME TypeOK, Elsewhere
    PROVE  /\ UNCHANGED <<file, openers, pc, target, chosen, why, alone, port>>
           /\ \A s \in Servers : server'[s] = "unborn" <=> server[s] = "unborn"
           /\ Started' = Started
BY DEF TypeOK, Elsewhere, Bind, Crash, Stranger, clientVars, history, Started

LEMMA ElsewhereKeepsTypes ==
    ASSUME TypeOK, Elsewhere, kind' = kind
    PROVE  TypeOK'
<1>. USE DEF TypeOK
<1>1. /\ UNCHANGED <<file, openers, pc, target, chosen, why, alone, port>>
      /\ \A s \in Servers : server'[s] = "unborn" <=> server[s] = "unborn"
  BY ElsewhereTouchesNoClient
<1>2. server' \in [Servers -> {"unborn", "starting", "listening", "dead"}]
  BY DEF Elsewhere, Bind, Crash, Stranger
<1>3. strangers' \subseteq Ports /\ calm' \in BOOLEAN
  BY DEF Elsewhere, Bind, Crash, Stranger, history
<1>. QED  BY <1>1, <1>2, <1>3

LEMMA ElsewhereKeepsCalm ==
    ASSUME TypeOK, HandsFit, CalmFits, Elsewhere
    PROVE  CalmFits'
<1>. USE DEF TypeOK
<1>. SUFFICES ASSUME alone', calm' PROVE CalmFits'
  BY DEF CalmFits
<1>1. PICK s \in Servers : Bind(s)
  BY DEF Elsewhere, Crash, Stranger
<1>2. alone /\ calm
  BY <1>1 DEF Bind, history
<1>3. /\ UNCHANGED <<file, pc, target, port>> /\ Started' = Started
      /\ strangers' = strangers
  BY <1>1, ElsewhereTouchesNoClient DEF Bind
<1>4. strangers = {} /\ \A r, t \in Started : r = t
  BY <1>2 DEF CalmFits
<1>5. server' = [server EXCEPT ![s] = "listening"]
  <2>1. s \in Started /\ server[s] = "starting"
    BY <1>1 DEF Bind, Started
  <2>2. \A r \in Servers : server[r] # "listening"
    BY <1>4, <2>1 DEF Started
  <2>3. ~CanConnect(port[s])
    BY <1>4, <2>2 DEF CanConnect, Listening
  <2>. QED  BY <1>1, <2>3 DEF Bind
<1>6. \A r \in Servers : /\ server[r] # "dead" => server'[r] # "dead"
                         /\ server[r] = "listening" => server'[r] = "listening"
  BY <1>5
<1>7. \A c \in Clients : pc[c] \in {"save", "write"} => server'[target[c]] = "listening"
  <2>1. \A c \in Clients : pc[c] \in {"save", "write"} =>
            target[c] \in Servers /\ server[target[c]] = "listening"
    BY <1>2 DEF CalmFits, HandsFit
  <2>. QED  BY <1>6, <2>1
<1>8. file \in Servers => server'[file] = "listening"
  BY <1>2, <1>6 DEF CalmFits
<1>9. \A r \in Servers : server'[r] # "dead"
  BY <1>2, <1>6 DEF CalmFits
<1>. QED  BY <1>2, <1>3, <1>4, <1>7, <1>8, <1>9 DEF CalmFits

LEMMA RegistryNextIInv == RegistryIInv /\ [Next]_vars => RegistryIInv'
<1>. SUFFICES ASSUME RegistryIInv, [Next]_vars PROVE RegistryIInv'
  OBVIOUS
<1>1. TypeOK /\ HandsFit /\ LoneFits /\ CalmFits
  BY DEF RegistryIInv
<1>2. ASSUME NEW c \in Clients, Ensure(c) \/ Die(c), kind' = kind
      PROVE  RegistryIInv'
  <2>1. TypeOK'
    BY <1>1, <1>2, ClientKeepsTypes
  <2>2. HandsFit'
    BY <1>1, <1>2, ClientKeepsHands
  <2>3. LoneFits'
    BY <1>1, <1>2, ClientKeepsLone
  <2>4. CalmFits'
    BY <1>1, <1>2, <2>3, ClientKeepsCalm
  <2>. QED  BY <2>1, <2>2, <2>3, <2>4 DEF RegistryIInv
<1>3. ASSUME Elsewhere, kind' = kind
      PROVE  RegistryIInv'
  <2>1. /\ UNCHANGED <<file, openers, pc, target, chosen, why, alone, port>>
        /\ \A s \in Servers : server'[s] = "unborn" <=> server[s] = "unborn"
    BY <1>1, <1>3, ElsewhereTouchesNoClient
  <2>2. TypeOK'
    BY <1>1, <1>3, ElsewhereKeepsTypes
  <2>3. HandsFit'
    BY <1>1, <2>1 DEF HandsFit
  <2>4. LoneFits'
    BY <1>1, <2>1 DEF LoneFits, Idle
  <2>5. CalmFits'
    BY <1>1, <1>3, ElsewhereKeepsCalm
  <2>. QED  BY <2>2, <2>3, <2>4, <2>5 DEF RegistryIInv
<1>4. CASE UNCHANGED vars
  <2>. USE <1>4 DEF vars, clientVars, serverVars, history
  <2>1. TypeOK'
    BY <1>1 DEF TypeOK
  <2>2. HandsFit' /\ LoneFits'
    BY <1>1 DEF HandsFit, LoneFits, Idle
  <2>3. CalmFits'
    BY <1>1 DEF CalmFits, Started
  <2>. QED  BY <2>1, <2>2, <2>3 DEF RegistryIInv
<1>. QED  BY <1>2, <1>3, <1>4 DEF Next, Elsewhere

\* The invariant holds in every reachable state.
THEOREM RegistryIInvHolds == Spec => []RegistryIInv
BY RegistryInitIInv, RegistryNextIInv, PTL DEF Spec

-----------------------------------------------------------------------------
\* The state has its types; a port is known of exactly the servers started.
THEOREM RegistryTypesHold == Spec => []TypeOK
<1>1. RegistryIInv => TypeOK
  BY DEF RegistryIInv
<1>. QED  BY <1>1, RegistryIInvHolds, PTL

\* Calls of ensure_server or ensure_opencode_server that do not overlap, over
\* servers that live, share one server, although path.exists, the read, the
\* probe, the spawn and the two halves of fs::write are steps of their own.
THEOREM OneServerIsShared == Spec => []SequentialCallsShareOneServer
<1>1. RegistryIInv => SequentialCallsShareOneServer
  <2>. SUFFICES ASSUME RegistryIInv, alone, calm
       PROVE  /\ Cardinality(Started) <= 1
              /\ \A c \in Clients : pc[c] = "attached" =>
                     file = target[c] /\ server[target[c]] = "listening"
    BY DEF SequentialCallsShareOneServer
  <2>1. Cardinality(Started) <= 1
    <3>1. \A s, t \in Started : s = t
      BY DEF RegistryIInv, CalmFits
    <3>2. CASE Started = {}
      BY <3>2, FS_EmptySet
    <3>3. CASE Started # {}
      <4>1. PICK s \in Started : TRUE
        BY <3>3
      <4>2. Started = {s}
        BY <3>1, <4>1
      <4>3. Cardinality({s}) = 1
        BY FS_Singleton
      <4>. QED  BY <4>2, <4>3
    <3>. QED  BY <3>2, <3>3
  <2>2. \A c \in Clients : pc[c] = "attached" => file \in Servers /\ target[c] = file
    BY DEF RegistryIInv, CalmFits
  <2>3. file \in Servers => server[file] = "listening"
    BY DEF RegistryIInv, CalmFits
  <2>. QED  BY <2>1, <2>2, <2>3
<1>. QED  BY <1>1, RegistryIInvHolds, PTL

\* As long as calls do not overlap and none dies half way, none fails for a
\* registry file it cannot read, whatever becomes of servers and ports.
THEOREM EntriesAreReadable == Spec => []LoneCallsFindReadableEntries
<1>1. RegistryIInv => LoneCallsFindReadableEntries
  BY DEF RegistryIInv, LoneFits, LoneCallsFindReadableEntries
<1>. QED  BY <1>1, RegistryIInvHolds, PTL

-----------------------------------------------------------------------------
(***************************************************************************)
(* ServerSessions                                                          *)
(***************************************************************************)
Over == { n \in Calls : phase[n] = "over" }

Working == { n \in Calls : phase[n] \in {"running", "deserted"} }

\* The counter runs behind the calls that are over and ahead of the ids that
\* were minted.
MintsFit ==
    /\ nextSession <= Cardinality(Over)
    /\ \A id \in MintedIds :
          /\ mint[id] <= 1
          /\ id.run > run => mint[id] = 0
          /\ (id.run = run /\ id.counter >= nextSession) => mint[id] = 0

\* A handle names an id that was minted, or is the one a caller brought along.
HandlesFit ==
    /\ \A h \in known : /\ h.id \in MintedIds => mint[h.id] > 0
                        /\ ~IsServerHandle(h) => h = RawHandle
    /\ \A id \in Ids : answered[id] # {} =>
          [id |-> id, transport |-> "wrangleServer"] \in known

\* The session named after a call is not in use before the call is over.
SessionsAreFresh ==
    /\ context[0] = {}
    /\ \A n \in Calls :
          /\ phase[n] \in {"unmade", "asked"} => inner[n] = 0
          /\ handle[n] = NoHandle => inner[n] = 0
          /\ phase[n] # "over" =>
                /\ \A i \in InnerSessions : n \notin context[i]
                /\ \A id \in DOMAIN sessions : sessions[id] # n
                /\ \A m \in Calls : inner[m] # n

\* The backend sessions of an id: what the map has for it, what its calls run
\* in, and the session the raw handle names.
Holds(id, i) ==
    \/ id \in DOMAIN sessions /\ sessions[id] = i
    \/ \E n \in Working : handle[n] # NoHandle /\ handle[n].id = id /\ inner[n] = i /\ i # 0
    \/ id = RawId /\ i = RawSession

IdsAreApart ==
    \A a, b \in Ids : \A i, j \in InnerSessions :
        (a # b /\ Holds(a, i) /\ Holds(b, j)) => i # j /\ context[i] \cap context[j] = {}

\* Who holds an id that is not shared is alone with it, and has its context.
TurnsAreTaken ==
    \A id \in Ids \ shared :
        /\ answered[id] # {} => /\ id \in DOMAIN sessions
                                /\ answered[id] \subseteq context[sessions[id]]
        /\ \A n, m \in InFlight :
              (/\ handle[n] # NoHandle /\ handle[n].id = id
               /\ handle[m] # NoHandle /\ handle[m].id = id) => n = m
        /\ \A n \in Working :
              (handle[n] # NoHandle /\ handle[n].id = id) => answered[id] \subseteq context[inner[n]]
        /\ \A n \in InFlight : (handle[n] = RawHandle /\ id = RawId) => answered[id] = {}

SessionsIInv == SessionsTypeOK /\ MintsFit /\ HandlesFit /\ SessionsAreFresh /\ IdsAreApart /\ TurnsAreTaken

-----------------------------------------------------------------------------
(* Facts about the constants of the model.                                 *)

LEMMA NumbersFit ==
    /\ Calls \subseteq InnerSessions \ {0, RawSession}
    /\ RawSession \in InnerSessions \ {0} /\ 0 \in InnerSessions
    /\ RawId \in Ids /\ RawId \notin MintedIds /\ MintedIds \subseteq Ids
    /\ \A id \in Ids : id = RawId \/ id \in MintedIds
BY BoundsAssumption DEF Calls, InnerSessions, RawSession, RawId, Ids, MintedIds

LEMMA HandlesAre ==
    /\ RawHandle \in Handles /\ ~IsServerHandle(RawHandle) /\ RawHandle.id = RawId
    /\ NoHandle \notin Handles /\ RawHandle # NoHandle
    /\ \A h \in Handles : h.id \in Ids
    /\ \A id \in Ids : LET h == [id |-> id, transport |-> "wrangleServer"]
                      IN  h \in Handles /\ IsServerHandle(h) /\ h.id = id
BY DEF RawHandle, NoHandle, Handles, IsServerHandle, RawId, Ids

\* A handle a call carries is one its caller was given, or none.
LEMMA CarriedIsKnown ==
    ASSUME SessionsTypeOK, NEW n \in Calls, handle[n] # NoHandle
    PROVE  handle[n] \in known /\ handle[n] \in Handles /\ handle[n].id \in Ids
BY HandlesAre DEF SessionsTypeOK

\* A call that is not over leaves room for one more id.
LEMMA CounterHasRoom ==
    ASSUME SessionsTypeOK, MintsFit, NEW n \in Calls, phase[n] # "over"
    PROVE  /\ nextSession < MaxCalls
           /\ NextId \in MintedIds
           /\ IsFiniteSet(Over) /\ Cardinality(Over) \in Nat
           /\ IsFiniteSet(Over \cup {n})
           /\ Cardinality(Over \cup {n}) = Cardinality(Over) + 1
<1>1. IsFiniteSet(Calls) /\ Cardinality(Calls) = MaxCalls
  BY FS_Interval, BoundsAssumption DEF Calls
<1>2. n \notin Over /\ Over \cup {n} \subseteq Calls
  BY DEF Over
<1>3. IsFiniteSet(Over)
  BY <1>1, <1>2, FS_Subset
<1>4. /\ IsFiniteSet(Over \cup {n}) /\ Cardinality(Over) \in Nat
      /\ Cardinality(Over \cup {n}) = Cardinality(Over) + 1
  BY <1>2, <1>3, FS_AddElement, FS_CardinalityType
<1>5. Cardinality(Over \cup {n}) <= MaxCalls
  BY <1>1, <1>2, FS_Subset
<1>6. nextSession < MaxCalls
  BY <1>4, <1>5, BoundsAssumption DEF SessionsTypeOK, MintsFit
<1>. QED  BY <1>3, <1>4, <1>6, BoundsAssumption DEF NextId, MintedIds, SessionsTypeOK

LEMMA OverGrows ==
    ASSUME SessionsTypeOK, NEW n \in Calls, phase' = [phase EXCEPT ![n] = "over"]
    PROVE  Over' = Over \cup {n}
BY DEF Over, SessionsTypeOK

LEMMA OverStays ==
    ASSUME SessionsTypeOK, NEW n \in Calls, NEW place, phase[n] # "over", place # "over",
           phase' = [phase EXCEPT ![n] = place]
    PROVE  Over' = Over
BY DEF Over, SessionsTypeOK

-----------------------------------------------------------------------------
LEMMA SessionsInitIInv == SessionsInit => SessionsIInv
<1>. SUFFICES ASSUME SessionsInit PROVE SessionsIInv
  OBVIOUS
<1>1. SessionsTypeOK
  BY BoundsAssumption, HandlesAre, NumbersFit DEF SessionsInit, SessionsTypeOK
<1>2. MintsFit
  <2>1. Over = {}
    BY DEF SessionsInit, Over
  <2>. QED  BY <2>1, FS_EmptySet, NumbersFit DEF SessionsInit, MintsFit
<1>3. HandlesFit
  BY HandlesAre, NumbersFit DEF SessionsInit, HandlesFit
<1>4. SessionsAreFresh
  BY NumbersFit DEF SessionsInit, SessionsAreFresh
<1>5. IdsAreApart
  BY DEF SessionsInit, IdsAreApart, Holds, Working
<1>6. TurnsAreTaken
  BY DEF SessionsInit, TurnsAreTaken, InFlight, Working
<1>. QED  BY <1>1, <1>2, <1>3, <1>4, <1>5, <1>6 DEF SessionsIInv

-----------------------------------------------------------------------------
LEMMA AskKeepsIInv ==
    ASSUME SessionsIInv, NEW n \in Calls, NEW h \in known \cup {NoHandle}, Ask(n, h)
    PROVE  SessionsIInv'
<1>1. /\ phase[n] = "unmade" /\ phase' = [phase EXCEPT ![n] = "asked"]
      /\ handle' = [handle EXCEPT ![n] = h]
      /\ shared \subseteq shared' /\ n \in InFlight' /\ InFlight' = InFlight \cup {n}
      /\ Working' = Working /\ n \notin Working /\ n \notin InFlight
      /\ UNCHANGED <<run, sessions, nextSession, known, inner, context, succeeded, answered, mint>>
  BY DEF Ask, SessionsIInv, SessionsTypeOK, InFlight, Working, runVars
<1>2. h # NoHandle => h.id \in Ids
  BY HandlesAre DEF SessionsIInv, SessionsTypeOK
<1>3. SessionsTypeOK'
  <2>1. phase' \in [Calls -> {"unmade", "asked", "running", "deserted", "over"}]
    BY <1>1 DEF SessionsIInv, SessionsTypeOK
  <2>2. handle' \in [Calls -> known' \cup {NoHandle}]
    BY <1>1 DEF SessionsIInv, SessionsTypeOK
  <2>3. shared' \subseteq Ids
    BY <1>2, NumbersFit DEF Ask, SessionsIInv, SessionsTypeOK, NoHandle
  <2>. QED  BY <1>1, <2>1, <2>2, <2>3 DEF SessionsIInv, SessionsTypeOK
<1>4. MintsFit'
  <2>1. Over' = Over
    BY <1>1, OverStays DEF SessionsIInv
  <2>. QED  BY <1>1, <2>1 DEF SessionsIInv, MintsFit
<1>5. HandlesFit'
  BY <1>1 DEF SessionsIInv, HandlesFit
<1>6. SessionsAreFresh'
  <2>1. inner[n] = 0
    BY <1>1 DEF SessionsIInv, SessionsAreFresh
  <2>. QED  BY <1>1, <2>1 DEF SessionsIInv, SessionsAreFresh, SessionsTypeOK
<1>7. IdsAreApart'
  <2>1. \A m \in Working : handle'[m] = handle[m]
    BY <1>1 DEF SessionsIInv, SessionsTypeOK, Working
  <2>2. \A id, i : Holds(id, i)' <=> Holds(id, i)
    BY <1>1, <2>1 DEF Holds
  <2>. QED  BY <1>1, <2>2 DEF SessionsIInv, IdsAreApart
<1>8. TurnsAreTaken'
  <2>. SUFFICES ASSUME NEW id \in Ids \ shared'
       PROVE  /\ answered[id] # {} => /\ id \in DOMAIN sessions
                                      /\ answered[id] \subseteq context[sessions[id]]
              /\ \A k, m \in InFlight' :
                    (/\ handle'[k] # NoHandle /\ handle'[k].id = id
                     /\ handle'[m] # NoHandle /\ handle'[m].id = id) => k = m
              /\ \A k \in Working :
                    (handle'[k] # NoHandle /\ handle'[k].id = id)
                        => answered[id] \subseteq context[inner[k]]
              /\ \A k \in InFlight' : (handle'[k] = RawHandle /\ id = RawId) => answered[id] = {}
    BY <1>1 DEF TurnsAreTaken
  <2>1. id \in Ids \ shared
    BY <1>1
  <2>2. /\ handle'[n] = h
        /\ \A k \in InFlight : k # n /\ handle'[k] = handle[k]
        /\ \A k \in Working : k \in InFlight /\ handle'[k] = handle[k]
    BY <1>1 DEF SessionsIInv, SessionsTypeOK, InFlight, Working
  <2>3. (h # NoHandle /\ h.id = id) =>
            \A k \in InFlight : ~(handle[k] # NoHandle /\ handle[k].id = id)
    BY DEF Ask
  <2>4. (h = RawHandle /\ id = RawId) => answered[id] = {}
    BY HandlesAre DEF Ask
  <2>. QED  BY <1>1, <2>1, <2>2, <2>3, <2>4 DEF SessionsIInv, TurnsAreTaken
<1>. QED  BY <1>3, <1>4, <1>5, <1>6, <1>7, <1>8 DEF SessionsIInv

LEMMA BeginKeepsIInv ==
    ASSUME SessionsIInv, NEW n \in Calls, Begin(n)
    PROVE  SessionsIInv'
<1> DEFINE s == SessionFor(handle[n])
<1>1. /\ phase[n] = "asked" /\ phase' = [phase EXCEPT ![n] = "running"]
      /\ inner' = [inner EXCEPT ![n] = s]
      /\ n \in InFlight /\ InFlight' = InFlight /\ Working' = Working \cup {n} /\ n \notin Working
      /\ UNCHANGED <<run, sessions, nextSession, known, handle, context, succeeded, answered, shared, mint>>
  BY DEF Begin, SessionsIInv, SessionsTypeOK, InFlight, Working, runVars, pastVars
<1>2. /\ handle[n] = NoHandle => s = 0
      /\ (handle[n] # NoHandle /\ ~IsServerHandle(handle[n])) =>
            handle[n] = RawHandle /\ handle[n].id = RawId /\ s = RawSession
      /\ (handle[n] # NoHandle /\ IsServerHandle(handle[n])) =>
            s = IF handle[n].id \in DOMAIN sessions THEN sessions[handle[n].id] ELSE 0
  BY CarriedIsKnown, HandlesAre DEF SessionFor, Found, SessionsIInv, HandlesFit
<1>3. s \in InnerSessions
  BY <1>2, NumbersFit DEF SessionsIInv, SessionsTypeOK
<1>4. s # 0 => handle[n] # NoHandle /\ Holds(handle[n].id, s)
  BY <1>2 DEF Holds
<1>5. \A m \in Calls : phase[m] # "over" => s # m
  BY <1>2, NumbersFit DEF SessionsIInv, SessionsAreFresh
<1>6. SessionsTypeOK'
  <2>1. phase' \in [Calls -> {"unmade", "asked", "running", "deserted", "over"}]
    BY <1>1 DEF SessionsIInv, SessionsTypeOK
  <2>2. inner' \in [Calls -> InnerSessions]
    BY <1>1, <1>3 DEF SessionsIInv, SessionsTypeOK
  <2>. QED  BY <1>1, <2>1, <2>2 DEF SessionsIInv, SessionsTypeOK
<1>7. MintsFit'
  <2>1. Over' = Over
    BY <1>1, OverStays DEF SessionsIInv
  <2>. QED  BY <1>1, <2>1 DEF SessionsIInv, MintsFit
<1>8. HandlesFit'
  BY <1>1 DEF SessionsIInv, HandlesFit
<1>9. SessionsAreFresh'
  <2>1. \A m \in Calls :
          /\ (phase'[m] # "over") => (phase[m] # "over")
          /\ phase'[m] \in {"unmade", "asked"} => (m # n /\ phase[m] = phase'[m])
          /\ inner'[m] = IF m = n THEN s ELSE inner[m]
    BY <1>1 DEF SessionsIInv, SessionsTypeOK
  <2>. QED  BY <1>1, <1>2, <1>5, <2>1 DEF SessionsIInv, SessionsAreFresh
<1>10. IdsAreApart'
  <2>1. \A m \in Working : inner'[m] = inner[m]
    BY <1>1 DEF SessionsIInv, SessionsTypeOK, Working
  <2>2. inner'[n] = s
    BY <1>1 DEF SessionsIInv, SessionsTypeOK
  <2>3. \A id, i : Holds(id, i)' => Holds(id, i)
    BY <1>1, <1>4, <2>1, <2>2 DEF Holds
  <2>. QED  BY <1>1, <2>3 DEF SessionsIInv, IdsAreApart
<1>11. TurnsAreTaken'
  <2>. SUFFICES ASSUME NEW id \in Ids \ shared, NEW k \in Working \cup {n},
                       handle[k] # NoHandle, handle[k].id = id
       PROVE  answered[id] \subseteq context[inner'[k]]
    BY <1>1 DEF SessionsIInv, TurnsAreTaken
  <2>1. CASE k = n
    <3>1. inner'[n] = s
      BY <1>1 DEF SessionsIInv, SessionsTypeOK
    <3>2. CASE IsServerHandle(handle[n])
      BY <1>2, <2>1, <3>1, <3>2 DEF SessionsIInv, TurnsAreTaken
    <3>3. CASE ~IsServerHandle(handle[n])
      BY <1>1, <1>2, <2>1, <3>3 DEF SessionsIInv, TurnsAreTaken
    <3>. QED  BY <3>2, <3>3
  <2>2. CASE k # n
    <3>1. k \in Working /\ inner'[k] = inner[k]
      BY <1>1, <2>2 DEF SessionsIInv, SessionsTypeOK, Working
    <3>. QED  BY <3>1 DEF SessionsIInv, TurnsAreTaken
  <2>. QED  BY <2>1, <2>2
<1>. QED  BY <1>6, <1>7, <1>8, <1>9, <1>10, <1>11 DEF SessionsIInv

\* What an answer with session i does to the sessions in use: their contexts
\* only grow, and the new one grows out of the one the call ran in.
LEMMA AnswerKeepsIInv ==
    ASSUME SessionsIInv, NEW n \in Calls, NEW i \in {inner[n], n}, AnswerWithSession(n, i, i)
    PROVE  SessionsIInv'
<1> DEFINE o == OuterId(n)
           new == [id |-> o, transport |-> "wrangleServer"]
           seen == context[inner[n]] \cup {n}
<1>1. /\ n \in Working /\ n \in InFlight /\ phase[n] # "over"
      /\ phase' = [phase EXCEPT ![n] = "over"]
      /\ Working' = Working \ {n} /\ InFlight' = InFlight \ {n}
  BY DEF AnswerWithSession, SessionsIInv, SessionsTypeOK, InFlight, Working
<1>2. /\ i \in InnerSessions \ {0} /\ inner[n] \in InnerSessions
      /\ inner[n] # n
      /\ inner[n] # 0 => handle[n] # NoHandle
  BY <1>1, NumbersFit DEF AnswerWithSession, SessionsIInv, SessionsTypeOK, SessionsAreFresh
<1>3. nextSession < MaxCalls /\ NextId \in MintedIds
  BY <1>1, CounterHasRoom DEF SessionsIInv
<1>4. /\ o \in Ids
      /\ handle[n] # NoHandle => o = handle[n].id
      /\ handle[n] = NoHandle => o = NextId
  BY <1>3, CarriedIsKnown, NumbersFit DEF OuterId, SessionsIInv
<1>5. /\ DOMAIN sessions' = DOMAIN sessions \cup {o} /\ sessions'[o] = i
      /\ \A id \in DOMAIN sessions \ {o} : sessions'[id] = sessions[id]
  BY DEF AnswerWithSession, Stored
<1>6. /\ context' = [context EXCEPT ![i] = seen]
      /\ context'[i] = seen /\ \A j \in InnerSessions \ {i} : context'[j] = context[j]
  BY <1>2 DEF AnswerWithSession, SessionsIInv, SessionsTypeOK
<1>7. \/ UNCHANGED <<known, answered>>
      \/ known' = known \cup {new} /\ answered' = [answered EXCEPT ![o] = @ \cup {n}]
  BY DEF AnswerWithSession
<1>8. UNCHANGED <<run, handle, inner, shared>>
  BY DEF AnswerWithSession
<1>9. SessionsTypeOK'
  <2>1. phase' \in [Calls -> {"unmade", "asked", "running", "deserted", "over"}]
    BY <1>1 DEF SessionsIInv, SessionsTypeOK
  <2>2. \A id \in DOMAIN sessions' : id \in Ids /\ sessions'[id] \in InnerSessions \ {0}
    BY <1>2, <1>4, <1>5 DEF SessionsIInv, SessionsTypeOK
  <2>3. nextSession' \in 0 .. MaxCalls
    BY <1>3, BoundsAssumption DEF AnswerWithSession, SessionsIInv, SessionsTypeOK
  <2>4. known \subseteq known' /\ known' \subseteq Handles
    BY <1>4, <1>7, HandlesAre DEF SessionsIInv, SessionsTypeOK
  <2>5. context' \in [InnerSessions -> SUBSET Calls]
    BY <1>2, <1>6 DEF SessionsIInv, SessionsTypeOK
  <2>6. succeeded' \subseteq Calls
    BY DEF AnswerWithSession, Tell, SessionsIInv, SessionsTypeOK
  <2>7. answered' \in [Ids -> SUBSET Calls]
    BY <1>4, <1>7 DEF SessionsIInv, SessionsTypeOK
  <2>8. mint' \in [Ids -> Nat]
    BY <1>3, NumbersFit DEF AnswerWithSession, SessionsIInv, SessionsTypeOK
  <2>9. handle' \in [Calls -> known' \cup {NoHandle}]
    BY <1>8, <2>4 DEF SessionsIInv, SessionsTypeOK
  <2>. QED  BY <1>8, <2>1, <2>2, <2>3, <2>4, <2>5, <2>6, <2>7, <2>8, <2>9 DEF SessionsIInv, SessionsTypeOK
<1>10. MintsFit'
  <2>1. Over' = Over \cup {n} /\ Cardinality(Over') = Cardinality(Over) + 1 /\ Cardinality(Over) \in Nat
    BY <1>1, OverGrows, CounterHasRoom DEF SessionsIInv
  <2>2. CASE handle[n] # NoHandle
    BY <1>8, <2>1, <2>2 DEF AnswerWithSession, SessionsIInv, MintsFit, SessionsTypeOK
  <2>3. CASE handle[n] = NoHandle
    <3>1. nextSession' = nextSession + 1 /\ mint' = [mint EXCEPT ![NextId] = @ + 1]
      BY <2>3 DEF AnswerWithSession
    <3>2. mint[NextId] = 0 /\ NextId.run = run /\ NextId.counter = nextSession
      BY <1>3 DEF NextId, SessionsIInv, MintsFit, SessionsTypeOK
    <3>3. nextSession' <= Cardinality(Over')
      BY <2>1, <3>1 DEF SessionsIInv, MintsFit, SessionsTypeOK
    <3>4. ASSUME NEW id \in MintedIds
          PROVE  /\ mint'[id] <= 1
                 /\ id.run > run => mint'[id] = 0
                 /\ (id.run = run /\ id.counter >= nextSession + 1) => mint'[id] = 0
      <4>1. CASE id = NextId
        BY <1>3, <3>1, <3>2, <4>1, NumbersFit, BoundsAssumption DEF SessionsIInv, SessionsTypeOK
      <4>2. CASE id # NextId
        <5>1. mint'[id] = mint[id]
          BY <3>1, <4>2, NumbersFit DEF SessionsIInv, SessionsTypeOK
        <5>2. id.counter \in Nat
          BY BoundsAssumption DEF MintedIds
        <5>. QED  BY <5>1, <5>2, BoundsAssumption DEF SessionsIInv, MintsFit, SessionsTypeOK
      <4>. QED  BY <4>1, <4>2
    <3>. QED  BY <1>8, <3>1, <3>3, <3>4 DEF MintsFit
  <2>. QED  BY <2>2, <2>3
<1>11. HandlesFit'
  <2>1. \A id \in MintedIds : mint[id] > 0 => mint'[id] > 0
    BY <1>3, NumbersFit DEF AnswerWithSession, SessionsIInv, SessionsTypeOK
  <2>2. o \in MintedIds => mint'[o] > 0
    <3>1. CASE handle[n] # NoHandle
      BY <1>4, <2>1, <3>1, CarriedIsKnown DEF SessionsIInv, HandlesFit
    <3>2. CASE handle[n] = NoHandle
      BY <1>3, <1>4, <3>2, NumbersFit DEF AnswerWithSession, SessionsIInv, SessionsTypeOK
    <3>. QED  BY <3>1, <3>2
  <2>3. ASSUME NEW h \in known'
        PROVE  (h.id \in MintedIds => mint'[h.id] > 0) /\ (~IsServerHandle(h) => h = RawHandle)
    BY <1>4, <1>7, <2>1, <2>2, HandlesAre DEF SessionsIInv, HandlesFit
  <2>4. ASSUME NEW id \in Ids, answered'[id] # {}
        PROVE  [id |-> id, transport |-> "wrangleServer"] \in known'
    BY <1>4, <1>7, <2>4 DEF SessionsIInv, SessionsTypeOK, HandlesFit
  <2>. QED  BY <2>3, <2>4 DEF HandlesFit
<1>12. SessionsAreFresh'
  <2>1. context'[0] = {}
    BY <1>2, <1>6, NumbersFit DEF SessionsIInv, SessionsAreFresh
  <2>2. ASSUME NEW m \in Calls
        PROVE  /\ phase'[m] \in {"unmade", "asked"} => inner[m] = 0
               /\ handle[m] = NoHandle => inner[m] = 0
    BY <1>1 DEF SessionsIInv, SessionsTypeOK, SessionsAreFresh
  <2>3. ASSUME NEW m \in Calls, phase'[m] # "over"
        PROVE  /\ \A j \in InnerSessions : m \notin context'[j]
               /\ \A id \in DOMAIN sessions' : sessions'[id] # m
               /\ \A k \in Calls : inner[k] # m
    <3>1. m # n /\ phase[m] # "over"
      BY <1>1, <2>3 DEF SessionsIInv, SessionsTypeOK
    <3>2. m \notin seen /\ i # m
      BY <1>2, <3>1 DEF SessionsIInv, SessionsAreFresh
    <3>. QED  BY <1>5, <1>6, <3>1, <3>2 DEF SessionsIInv, SessionsAreFresh
  <2>. QED  BY <1>8, <2>1, <2>2, <2>3 DEF SessionsAreFresh
<1>13. ASSUME NEW id \in Ids, NEW j \in InnerSessions, Holds(id, j)
       PROVE  j # n /\ n \notin context[j]
  BY <1>1, <1>13, NumbersFit DEF Holds, SessionsIInv, SessionsAreFresh, Working
<1>14. IdsAreApart'
  <2>1. ASSUME NEW id \in Ids, NEW j \in InnerSessions, Holds(id, j)'
        PROVE  (id = o /\ j = i) \/ Holds(id, j)
    BY <1>1, <1>5, <1>8, <2>1 DEF Holds
  <2>2. inner[n] # 0 => Holds(o, inner[n])
    BY <1>1, <1>2, <1>4 DEF Holds
  <2>3. inner[n] = 0 => seen = {n} /\ i = n
    BY <1>2 DEF SessionsIInv, SessionsAreFresh
  <2>4. ASSUME NEW id \in Ids, id # o, NEW j \in InnerSessions, Holds(id, j)
        PROVE  j # i /\ context'[j] = context[j] /\ context[j] \cap seen = {}
    <3>1. j # n /\ n \notin context[j]
      BY <1>13, <2>4
    <3>2. inner[n] # 0 => j # inner[n] /\ context[j] \cap context[inner[n]] = {}
      BY <1>2, <1>4, <2>2, <2>4 DEF SessionsIInv, IdsAreApart
    <3>3. j # i
      BY <1>2, <3>1, <3>2
    <3>. QED  BY <1>6, <2>3, <3>1, <3>2, <3>3
  <2>5. ASSUME NEW a \in Ids, NEW b \in Ids, NEW j \in InnerSessions, NEW k \in InnerSessions,
               a # b, Holds(a, j)', Holds(b, k)'
        PROVE  j # k /\ context'[j] \cap context'[k] = {}
    <3>1. CASE a = o /\ j = i
      <4>1. Holds(b, k) /\ b # o
        BY <2>1, <2>5, <3>1
      <4>. QED  BY <1>6, <2>4, <3>1, <4>1
    <3>2. CASE b = o /\ k = i
      <4>1. Holds(a, j) /\ a # o
        BY <2>1, <2>5, <3>2
      <4>. QED  BY <1>6, <2>4, <3>2, <4>1
    <3>3. CASE Holds(a, j) /\ Holds(b, k)
      <4>1. j # k /\ context[j] \cap context[k] = {}
        BY <2>5, <3>3 DEF SessionsIInv, IdsAreApart
      <4>2. \A id \in Ids : id # o => ~(Holds(id, i))
        BY <1>2, <2>4
      <4>3. CASE a # o /\ b # o
        BY <2>4, <3>3, <4>1, <4>3
      <4>4. CASE a = o
        <5>1. k # i /\ context'[k] = context[k] /\ context[k] \cap seen = {}
          BY <2>4, <2>5, <3>3, <4>4
        <5>. QED  BY <1>6, <4>1, <5>1
      <4>5. CASE b = o
        <5>1. j # i /\ context'[j] = context[j] /\ context[j] \cap seen = {}
          BY <2>4, <2>5, <3>3, <4>5
        <5>. QED  BY <1>6, <4>1, <5>1
      <4>. QED  BY <4>3, <4>4, <4>5
    <3>. QED  BY <2>1, <2>5, <3>1, <3>2, <3>3
  <2>. QED  BY <2>5 DEF IdsAreApart
<1>15. TurnsAreTaken'
  <2>1. \A j \in InnerSessions \ {n} : context[j] \subseteq context'[j]
    BY <1>2, <1>6
  <2>2. \A id \in Ids : /\ answered'[id] \subseteq answered[id] \cup {n}
                        /\ id # o => answered'[id] = answered[id]
    BY <1>4, <1>7 DEF SessionsIInv, SessionsTypeOK
  <2>3. handle[n] = NoHandle => /\ answered[o] = {}
                                /\ \A m \in Calls : handle[m] # NoHandle => handle[m].id # o
    <3>. SUFFICES ASSUME handle[n] = NoHandle
         PROVE  /\ answered[o] = {}
                /\ \A m \in Calls : handle[m] # NoHandle => handle[m].id # o
      OBVIOUS
    <3>1. o \in MintedIds /\ o \in Ids /\ mint[o] = 0
      BY <1>3, <1>4, NumbersFit DEF NextId, SessionsIInv, MintsFit, SessionsTypeOK
    <3>2. \A h \in known : h.id # o
      BY <3>1 DEF SessionsIInv, HandlesFit
    <3>3. answered[o] = {}
      BY <3>1, <3>2 DEF SessionsIInv, HandlesFit
    <3>. QED  BY <3>2, <3>3, CarriedIsKnown DEF SessionsIInv
  <2>. SUFFICES ASSUME NEW id \in Ids \ shared
       PROVE  /\ answered'[id] # {} => /\ id \in DOMAIN sessions'
                                       /\ answered'[id] \subseteq context'[sessions'[id]]
              /\ \A k, m \in InFlight' :
                    (/\ handle[k] # NoHandle /\ handle[k].id = id
                     /\ handle[m] # NoHandle /\ handle[m].id = id) => k = m
              /\ \A k \in Working' :
                    (handle[k] # NoHandle /\ handle[k].id = id)
                        => answered'[id] \subseteq context'[inner[k]]
              /\ \A k \in InFlight' : (handle[k] = RawHandle /\ id = RawId) => answered'[id] = {}
    BY <1>8 DEF TurnsAreTaken
  <2>4. CASE id = o
    <3>1. answered[o] \subseteq context[inner[n]]
      BY <1>1, <1>4, <2>3, <2>4 DEF SessionsIInv, TurnsAreTaken
    <3>2. ASSUME NEW k \in InFlight', handle[k] # NoHandle, handle[k].id = o
          PROVE  FALSE
      <4>1. k \in InFlight /\ k # n /\ k \in Calls
        BY <1>1 DEF InFlight
      <4>2. handle[n] # NoHandle
        BY <2>3, <3>2, <4>1
      <4>. QED  BY <1>1, <1>4, <2>4, <3>2, <4>1, <4>2 DEF SessionsIInv, TurnsAreTaken
    <3>3. Working' \subseteq InFlight'
      BY DEF Working, InFlight
    <3>4. o \in DOMAIN sessions' /\ answered'[o] \subseteq context'[sessions'[o]]
      <4>1. sessions'[o] = i /\ o \in DOMAIN sessions'
        BY <1>5
      <4>2. context'[i] = context[inner[n]] \cup {n}
        BY <1>6
      <4>3. answered'[o] \subseteq answered[o] \cup {n}
        BY <1>4, <2>2
      <4>. QED  BY <3>1, <4>1, <4>2, <4>3
    <3>5. \A k \in InFlight' : handle[k] = RawHandle => RawId # o
      BY <3>2, HandlesAre
    <3>6. \A k \in InFlight' : ~(handle[k] # NoHandle /\ handle[k].id = o)
      BY <3>2
    <3>. QED  BY <2>4, <3>3, <3>4, <3>5, <3>6
  <2>5. CASE id # o
    <3>1. answered'[id] = answered[id]
      BY <2>2, <2>5
    <3>2. answered[id] # {} => /\ id \in DOMAIN sessions'
                               /\ answered[id] \subseteq context'[sessions'[id]]
      <4>. SUFFICES ASSUME answered[id] # {}
           PROVE  id \in DOMAIN sessions' /\ answered[id] \subseteq context'[sessions'[id]]
        OBVIOUS
      <4>1. id \in DOMAIN sessions /\ answered[id] \subseteq context[sessions[id]]
        BY DEF SessionsIInv, TurnsAreTaken
      <4>2. sessions[id] \in InnerSessions \ {n}
        BY <1>1, <4>1 DEF SessionsIInv, SessionsTypeOK, SessionsAreFresh
      <4>. QED  BY <1>5, <2>1, <2>5, <4>1, <4>2
    <3>3. ASSUME NEW k \in Working', handle[k] # NoHandle, handle[k].id = id
          PROVE  answered[id] \subseteq context'[inner[k]]
      <4>1. k \in Working /\ k \in Calls
        BY <1>1 DEF Working
      <4>2. inner[k] \in InnerSessions \ {n}
        BY <1>1, <4>1 DEF SessionsIInv, SessionsTypeOK, SessionsAreFresh
      <4>. QED  BY <2>1, <3>3, <4>1, <4>2 DEF SessionsIInv, TurnsAreTaken
    <3>. QED  BY <1>1, <3>1, <3>2, <3>3 DEF SessionsIInv, TurnsAreTaken
  <2>. QED  BY <2>4, <2>5
<1>. QED  BY <1>9, <1>10, <1>11, <1>12, <1>14, <1>15 DEF SessionsIInv

\* An answer that names the session the call was given, which has not seen the
\* call: its fork was not noticed, or it never got there.
LEMMA UnseenKeepsIInv ==
    ASSUME SessionsIInv, NEW n \in Calls, inner[n] # 0, NEW s \in {0, n},
           AnswerWithSession(n, inner[n], s)
    PROVE  SessionsIInv'
<1> DEFINE o == handle[n].id
           new == [id |-> o, transport |-> "wrangleServer"]
<1>1. /\ n \in Working /\ n \in InFlight /\ phase[n] # "over"
      /\ phase' = [phase EXCEPT ![n] = "over"]
      /\ Working' = Working \ {n} /\ InFlight' = InFlight \ {n}
  BY DEF AnswerWithSession, SessionsIInv, SessionsTypeOK, InFlight, Working
<1>2. /\ inner[n] \in InnerSessions \ {0} /\ inner[n] # n /\ n \in InnerSessions /\ n # 0
      /\ handle[n] # NoHandle
  BY <1>1, NumbersFit DEF SessionsIInv, SessionsTypeOK, SessionsAreFresh
<1>3. o \in Ids /\ handle[n] \in known /\ OuterId(n) = o
  BY <1>2, CarriedIsKnown DEF OuterId, SessionsIInv
<1>4. /\ DOMAIN sessions' = DOMAIN sessions \cup {o} /\ sessions'[o] = inner[n]
      /\ \A id \in DOMAIN sessions \ {o} : sessions'[id] = sessions[id]
  BY <1>3 DEF AnswerWithSession, Stored
<1>5. /\ UNCHANGED <<run, handle, inner, shared, nextSession, mint>>
      /\ answered' = answered
      /\ known' = known \/ known' = known \cup {new}
      /\ succeeded' \subseteq Calls
  BY <1>2, <1>3 DEF AnswerWithSession, Tell, SessionsIInv, SessionsTypeOK
<1>6. /\ context' \in [InnerSessions -> SUBSET Calls]
      /\ \A j \in InnerSessions \ {n} : context'[j] = context[j]
      /\ context'[n] \subseteq context[n] \cup context[inner[n]] \cup {n}
  BY <1>2 DEF AnswerWithSession, SessionsIInv, SessionsTypeOK
<1>7. SessionsTypeOK'
  <2>1. phase' \in [Calls -> {"unmade", "asked", "running", "deserted", "over"}]
    BY <1>1 DEF SessionsIInv, SessionsTypeOK
  <2>2. \A id \in DOMAIN sessions' : id \in Ids /\ sessions'[id] \in InnerSessions \ {0}
    BY <1>2, <1>3, <1>4 DEF SessionsIInv, SessionsTypeOK
  <2>3. known \subseteq known' /\ known' \subseteq Handles
    BY <1>3, <1>5, HandlesAre DEF SessionsIInv, SessionsTypeOK
  <2>. QED  BY <1>5, <1>6, <2>1, <2>2, <2>3 DEF SessionsIInv, SessionsTypeOK
<1>8. MintsFit'
  <2>1. /\ Over' = Over \cup {n} /\ Cardinality(Over) \in Nat
        /\ Cardinality(Over') = Cardinality(Over) + 1
    BY <1>1, OverGrows, CounterHasRoom DEF SessionsIInv
  <2>. QED  BY <1>5, <2>1 DEF SessionsIInv, MintsFit, SessionsTypeOK
<1>9. HandlesFit'
  <2>1. /\ new.id \in MintedIds => mint[new.id] > 0
        /\ IsServerHandle(new)
    BY <1>3, HandlesAre DEF SessionsIInv, HandlesFit
  <2>. QED  BY <1>5, <2>1 DEF SessionsIInv, HandlesFit
<1>10. SessionsAreFresh'
  <2>1. \A m \in Calls : (m # n /\ phase'[m] = phase[m]) \/ (m = n /\ phase'[m] = "over")
    BY <1>1 DEF SessionsIInv, SessionsTypeOK
  <2>2. context'[0] = {}
    BY <1>2, <1>6, NumbersFit DEF SessionsIInv, SessionsAreFresh
  <2>3. ASSUME NEW m \in Calls, phase'[m] # "over"
        PROVE  /\ \A j \in InnerSessions : m \notin context'[j]
               /\ \A id \in DOMAIN sessions' : sessions'[id] # m
               /\ \A k \in Calls : inner[k] # m
    <3>1. m # n /\ phase[m] # "over"
      BY <2>1, <2>3
    <3>2. \A j \in InnerSessions : m \notin context[j]
      BY <3>1 DEF SessionsIInv, SessionsAreFresh
    <3>3. \A j \in InnerSessions : m \notin context'[j]
      BY <1>2, <1>6, <3>1, <3>2
    <3>4. /\ \A id \in DOMAIN sessions : sessions[id] # m
          /\ \A k \in Calls : inner[k] # m
      BY <3>1 DEF SessionsIInv, SessionsAreFresh
    <3>. QED  BY <1>4, <3>3, <3>4
  <2>. QED  BY <1>5, <2>1, <2>2, <2>3 DEF SessionsIInv, SessionsAreFresh
<1>11. \A id, j : Holds(id, j)' => Holds(id, j)
  <2>1. Holds(o, inner[n])
    BY <1>1, <1>2 DEF Holds
  <2>. QED  BY <1>1, <1>4, <1>5, <2>1 DEF Holds
<1>12. \A id, j : Holds(id, j) => j # n
  BY <1>1, NumbersFit DEF Holds, Working, SessionsIInv, SessionsAreFresh
<1>13. IdsAreApart'
  BY <1>6, <1>11, <1>12 DEF SessionsIInv, IdsAreApart
<1>14. TurnsAreTaken'
  <2>1. \A id \in DOMAIN sessions : sessions[id] \in InnerSessions \ {n}
    BY <1>1 DEF SessionsIInv, SessionsTypeOK, SessionsAreFresh
  <2>2. \A k \in Working : inner[k] \in InnerSessions \ {n}
    BY <1>1 DEF SessionsIInv, SessionsTypeOK, SessionsAreFresh, Working
  <2>3. o \notin shared => answered[o] \subseteq context[inner[n]]
    BY <1>1, <1>2, <1>3 DEF SessionsIInv, TurnsAreTaken
  <2>4. ASSUME NEW id \in Ids \ shared, answered[id] # {}
        PROVE  id \in DOMAIN sessions' /\ answered[id] \subseteq context'[sessions'[id]]
    <3>1. CASE id = o
      BY <1>2, <1>4, <1>6, <2>3, <3>1
    <3>2. CASE id # o
      <4>1. id \in DOMAIN sessions /\ answered[id] \subseteq context[sessions[id]]
        BY <2>4 DEF SessionsIInv, TurnsAreTaken
      <4>. QED  BY <1>4, <1>6, <2>1, <3>2, <4>1
    <3>. QED  BY <3>1, <3>2
  <2>5. ASSUME NEW id \in Ids \ shared, NEW k \in Working',
               handle[k] # NoHandle, handle[k].id = id
        PROVE  answered[id] \subseteq context'[inner[k]]
    <3>1. k \in Working /\ answered[id] \subseteq context[inner[k]]
      BY <1>1, <2>5 DEF SessionsIInv, TurnsAreTaken
    <3>. QED  BY <1>6, <2>2, <3>1
  <2>. QED  BY <1>1, <1>5, <2>4, <2>5 DEF SessionsIInv, TurnsAreTaken
<1>. QED  BY <1>7, <1>8, <1>9, <1>10, <1>13, <1>14 DEF SessionsIInv

\* The other ends of a call: what the sessions know may grow by this call, and
\* nothing else changes but who was told.
LEMMA EndKeepsIInv ==
    ASSUME SessionsIInv, NEW n \in Working,
           phase' = [phase EXCEPT ![n] = "over"],
           context' \in { context, [context EXCEPT ![inner[n]] =
                                      IF inner[n] = 0 THEN {} ELSE @ \cup {n}] },
           succeeded' \subseteq Calls,
           UNCHANGED <<runVars, known, handle, inner, answered, shared, mint>>
    PROVE  SessionsIInv'
<1>1. /\ n \in Calls /\ n \in InFlight /\ phase[n] # "over"
      /\ Working' = Working \ {n} /\ InFlight' = InFlight \ {n}
      /\ UNCHANGED <<run, sessions, nextSession>>
  BY DEF SessionsIInv, SessionsTypeOK, InFlight, Working, runVars
<1>2. /\ inner[n] \in InnerSessions /\ 0 \in InnerSessions
      /\ inner[n] # n
      /\ inner[n] # 0 => handle[n] # NoHandle
  BY <1>1, NumbersFit DEF SessionsIInv, SessionsTypeOK, SessionsAreFresh
<1>3. /\ context' \in [InnerSessions -> SUBSET Calls] /\ context'[0] = {}
      /\ \A j \in InnerSessions : context[j] \subseteq context'[j]
      /\ \A j \in InnerSessions : context'[j] \subseteq context[j] \cup {n}
      /\ \A j \in InnerSessions \ {inner[n]} : context'[j] = context[j]
  BY <1>1, <1>2 DEF SessionsIInv, SessionsTypeOK, SessionsAreFresh
<1>4. SessionsTypeOK'
  <2>1. phase' \in [Calls -> {"unmade", "asked", "running", "deserted", "over"}]
    BY <1>1 DEF SessionsIInv, SessionsTypeOK
  <2>. QED  BY <1>1, <1>3, <2>1 DEF SessionsIInv, SessionsTypeOK
<1>5. MintsFit'
  <2>1. /\ Over' = Over \cup {n} /\ Cardinality(Over) \in Nat
        /\ Cardinality(Over') = Cardinality(Over) + 1
    BY <1>1, OverGrows, CounterHasRoom DEF SessionsIInv
  <2>. QED  BY <1>1, <2>1 DEF SessionsIInv, MintsFit, SessionsTypeOK
<1>6. HandlesFit'
  BY DEF SessionsIInv, HandlesFit
<1>7. SessionsAreFresh'
  <2>1. \A m \in Calls : (m # n /\ phase'[m] = phase[m]) \/ (m = n /\ phase'[m] = "over")
    BY <1>1 DEF SessionsIInv, SessionsTypeOK
  <2>. QED  BY <1>1, <1>3, <2>1 DEF SessionsIInv, SessionsAreFresh
<1>8. IdsAreApart'
  <2>1. \A id, j : Holds(id, j)' => Holds(id, j)
    BY <1>1 DEF Holds
  <2>2. ASSUME NEW id \in Ids, NEW j \in InnerSessions, Holds(id, j)
        PROVE  n \notin context[j]
    BY <1>1 DEF SessionsIInv, SessionsAreFresh
  <2>3. inner[n] # 0 => handle[n].id \in Ids /\ Holds(handle[n].id, inner[n])
    BY <1>1, <1>2, CarriedIsKnown DEF Holds, SessionsIInv
  <2>4. inner[n] = 0 => \A j \in InnerSessions : context'[j] = context[j]
    BY <1>3 DEF SessionsIInv, SessionsAreFresh
  <2>5. ASSUME NEW a \in Ids, NEW b \in Ids, NEW j \in InnerSessions, NEW k \in InnerSessions,
               a # b, Holds(a, j), Holds(b, k)
        PROVE  j # k /\ context'[j] \cap context'[k] = {}
    <3>1. j # k /\ context[j] \cap context[k] = {}
      BY <2>5 DEF SessionsIInv, IdsAreApart
    <3>2. n \notin context[j] /\ n \notin context[k]
      BY <2>2, <2>5
    <3>3. context'[j] = context[j] \/ context'[k] = context[k]
      BY <1>3, <3>1
    <3>. QED  BY <1>3, <3>1, <3>2, <3>3
  <2>. QED  BY <2>1, <2>5 DEF IdsAreApart
<1>9. TurnsAreTaken'
  <2>1. \A id \in DOMAIN sessions : sessions[id] \in InnerSessions
    BY DEF SessionsIInv, SessionsTypeOK
  <2>2. \A k \in Working : inner[k] \in InnerSessions
    BY DEF SessionsIInv, SessionsTypeOK, Working
  <2>. QED  BY <1>1, <1>3, <2>1, <2>2 DEF SessionsIInv, TurnsAreTaken
<1>. QED  BY <1>4, <1>5, <1>6, <1>7, <1>8, <1>9 DEF SessionsIInv

LEMMA DesertKeepsIInv ==
    ASSUME SessionsIInv, NEW n \in Calls, Desert(n)
    PROVE  SessionsIInv'
<1>1. /\ phase[n] = "running" /\ phase' = [phase EXCEPT ![n] = "deserted"]
      /\ Working' = Working /\ InFlight' = InFlight
      /\ UNCHANGED <<runVars, known, handle, inner, context, pastVars>>
  BY DEF Desert, SessionsIInv, SessionsTypeOK, InFlight, Working
<1>2. SessionsTypeOK'
  BY <1>1 DEF SessionsIInv, SessionsTypeOK, runVars, pastVars
<1>3. MintsFit'
  <2>1. Over' = Over
    BY <1>1, OverStays DEF SessionsIInv
  <2>. QED  BY <1>1, <2>1 DEF SessionsIInv, MintsFit, runVars, pastVars
<1>4. HandlesFit'
  BY <1>1 DEF SessionsIInv, HandlesFit, pastVars
<1>5. SessionsAreFresh'
  BY <1>1 DEF SessionsIInv, SessionsAreFresh, SessionsTypeOK, runVars
<1>6. IdsAreApart'
  BY <1>1 DEF SessionsIInv, IdsAreApart, Holds, runVars
<1>7. TurnsAreTaken'
  BY <1>1 DEF SessionsIInv, TurnsAreTaken, runVars, pastVars
<1>. QED  BY <1>2, <1>3, <1>4, <1>5, <1>6, <1>7 DEF SessionsIInv

LEMMA RestartKeepsIInv ==
    ASSUME SessionsIInv, Restart
    PROVE  SessionsIInv'
<1>1. /\ phase' \in [Calls -> {"unmade", "asked", "running", "deserted", "over"}]
      /\ \A n \in Calls : phase'[n] \in {"unmade", "over"} /\ (phase'[n] # "over" => phase[n] = "unmade")
      /\ Working' = {} /\ InFlight' = {} /\ Over \subseteq Over'
      /\ DOMAIN sessions' = {} /\ run' = run + 1 /\ nextSession' = 0
      /\ UNCHANGED <<known, handle, inner, context, succeeded, answered, mint>>
  BY DEF Restart, SessionsIInv, SessionsTypeOK, InFlight, Working, Over
<1>2. SessionsTypeOK'
  <2>1. shared' \subseteq Ids
    BY HandlesAre DEF Restart, SessionsIInv, SessionsTypeOK
  <2>. QED  BY <1>1, <2>1, BoundsAssumption DEF Restart, SessionsIInv, SessionsTypeOK
<1>3. MintsFit'
  <2>1. Cardinality(Over') \in Nat
    <3>1. IsFiniteSet(Calls)
      BY FS_Interval, BoundsAssumption DEF Calls
    <3>2. Over' \subseteq Calls
      BY DEF Over
    <3>. QED  BY <3>1, <3>2, FS_Subset, FS_CardinalityType
  <2>2. nextSession' <= Cardinality(Over')
    BY <1>1, <2>1
  <2>. QED  BY <1>1, <2>2, BoundsAssumption DEF SessionsIInv, MintsFit, SessionsTypeOK, MintedIds
<1>4. HandlesFit'
  BY <1>1 DEF SessionsIInv, HandlesFit
<1>5. SessionsAreFresh'
  BY <1>1 DEF SessionsIInv, SessionsAreFresh
<1>6. IdsAreApart'
  BY <1>1 DEF IdsAreApart, Holds
<1>7. TurnsAreTaken'
  <2>1. ASSUME NEW id \in Ids \ shared' PROVE answered[id] = {}
    <3>1. \A h \in known : h.id # id
      BY DEF Restart
    <3>. QED  BY <3>1, HandlesAre DEF SessionsIInv, HandlesFit
  <2>. QED  BY <1>1, <2>1 DEF TurnsAreTaken
<1>. QED  BY <1>2, <1>3, <1>4, <1>5, <1>6, <1>7 DEF SessionsIInv

LEMMA SessionsNextIInv == SessionsIInv /\ [SessionsNext]_sessionsVars => SessionsIInv'
<1>. SUFFICES ASSUME SessionsIInv, [SessionsNext]_sessionsVars PROVE SessionsIInv'
  OBVIOUS
<1>1. CASE UNCHANGED sessionsVars
  <2>1. UNCHANGED <<run, sessions, nextSession, phase, handle, inner, known, context,
                    succeeded, answered, shared, mint>>
    BY <1>1 DEF sessionsVars, runVars, callVars, pastVars
  <2>2. Over' = Over /\ Working' = Working /\ InFlight' = InFlight
    BY <2>1 DEF Over, Working, InFlight
  <2>3. SessionsTypeOK' /\ MintsFit' /\ HandlesFit' /\ SessionsAreFresh'
    BY <2>1, <2>2 DEF SessionsIInv, SessionsTypeOK, MintsFit, HandlesFit, SessionsAreFresh
  <2>4. IdsAreApart'
    BY <2>1, <2>2 DEF SessionsIInv, IdsAreApart, Holds
  <2>5. TurnsAreTaken'
    BY <2>1, <2>2 DEF SessionsIInv, TurnsAreTaken
  <2>. QED  BY <2>3, <2>4, <2>5 DEF SessionsIInv
<1>2. ASSUME NEW n \in Calls, NEW h \in known \cup {NoHandle}, Ask(n, h)
      PROVE  SessionsIInv'
  BY <1>2, AskKeepsIInv
<1>3. ASSUME NEW n \in Calls, Begin(n)
      PROVE  SessionsIInv'
  BY <1>3, BeginKeepsIInv
<1>4. ASSUME NEW n \in Calls, Executed(n)
      PROVE  SessionsIInv'
  <2>1. PICK s \in {0, inner[n], n} : \E i \in {inner[n], s} : AnswerWithSession(n, i, s)
    BY <1>4 DEF Executed
  <2>2. PICK i \in {inner[n], s} : AnswerWithSession(n, i, s)
    BY <2>1
  <2>3. i # 0
    BY <2>2 DEF AnswerWithSession
  <2>4. CASE i = s
    BY <2>2, <2>3, <2>4, AnswerKeepsIInv
  <2>5. CASE i # s
    BY <2>2, <2>3, <2>5, UnseenKeepsIInv
  <2>. QED  BY <2>4, <2>5
<1>5. ASSUME NEW n \in Calls, AnswerWithout(n)
      PROVE  SessionsIInv'
  <2>1. n \in Working /\ succeeded' \subseteq Calls
    BY <1>5 DEF AnswerWithout, Tell, Working, SessionsIInv, SessionsTypeOK
  <2>. QED  BY <1>5, <2>1, EndKeepsIInv DEF AnswerWithout
<1>6. ASSUME NEW n \in Calls, AnswerError(n)
      PROVE  SessionsIInv'
  <2>1. n \in Working /\ succeeded' \subseteq Calls
    BY <1>6 DEF AnswerError, pastVars, Working, SessionsIInv, SessionsTypeOK
  <2>. QED  BY <1>6, <2>1, EndKeepsIInv DEF AnswerError, pastVars
<1>7. ASSUME NEW n \in Calls, Desert(n)
      PROVE  SessionsIInv'
  BY <1>7, DesertKeepsIInv
<1>8. CASE Restart
  BY <1>8, RestartKeepsIInv
<1>9. CASE Settled
  BY <1>1, <1>9 DEF Settled
<1>. QED  BY <1>1, <1>2, <1>3, <1>4, <1>5, <1>6, <1>7, <1>8, <1>9 DEF SessionsNext

\* The invariant holds in every reachable state.
THEOREM SessionsIInvHolds == SessionsSpec => []SessionsIInv
BY SessionsInitIInv, SessionsNextIInv, PTL DEF SessionsSpec

-----------------------------------------------------------------------------
\* The state has its types; the counter of ids never passes the number of
\* calls made.
THEOREM SessionsTypesHold == SessionsSpec => []SessionsTypeOK
<1>1. SessionsIInv => SessionsTypeOK
  BY DEF SessionsIInv
<1>. QED  BY <1>1, SessionsIInvHolds, PTL

\* No server process mints an id that it, or one before it, has minted
\* (`next_session` is read and counted on in one atomic step).
THEOREM MintedOnce == SessionsSpec => []IdsAreMintedOnce
<1>1. SessionsIInv => IdsAreMintedOnce
  BY DEF SessionsIInv, MintsFit, IdsAreMintedOnce
<1>. QED  BY <1>1, SessionsIInvHolds, PTL

\* Two ids never lead to sessions that have seen the same call, although the
\* lookup and the store of a call are apart and other calls come between.
THEOREM StayApart == SessionsSpec => []ConversationsStayApart
<1>1. SessionsIInv => ConversationsStayApart
  <2>. SUFFICES ASSUME SessionsIInv, NEW a \in DOMAIN sessions, NEW b \in DOMAIN sessions, a # b
       PROVE  context[sessions[a]] \cap context[sessions[b]] = {}
    BY DEF ConversationsStayApart
  <2>1. /\ a \in Ids /\ sessions[a] \in InnerSessions
        /\ b \in Ids /\ sessions[b] \in InnerSessions
    BY DEF SessionsIInv, SessionsTypeOK
  <2>2. Holds(a, sessions[a]) /\ Holds(b, sessions[b])
    BY DEF Holds
  <2>. QED  BY <2>1, <2>2 DEF SessionsIInv, IdsAreApart
<1>. QED  BY <1>1, SessionsIInvHolds, PTL

\* A caller that takes its turns, with a server that lives, finds in the
\* session it is given every call that the session stored for its handle had
\* seen when it was answered, unnoticed forks between them or not.
THEOREM ContextIsKept == SessionsSpec => []SequentialCallsKeepContext
<1>1. SessionsIInv => SequentialCallsKeepContext
  <2>. SUFFICES ASSUME SessionsIInv, NEW n \in Calls, phase[n] = "running",
                       IsServerHandle(handle[n]), handle[n].id \notin shared
       PROVE  answered[handle[n].id] \subseteq context[inner[n]]
    BY DEF SequentialCallsKeepContext
  <2>1. n \in Working /\ handle[n] # NoHandle
    BY DEF Working, IsServerHandle, NoHandle
  <2>2. handle[n].id \in Ids
    BY <2>1, CarriedIsKnown DEF SessionsIInv
  <2>. QED  BY <2>1, <2>2 DEF SessionsIInv, TurnsAreTaken
<1>. QED  BY <1>1, SessionsIInvHolds, PTL
=============================================================================
