--------------------------- MODULE ServerSessions ---------------------------
(***************************************************************************)
(* The session map of a wrangle server: `handle_server_request` and        *)
(* `run_server` (wrangle-cli/src/main.rs), with concurrent connections,    *)
(* callers that go away, and a server that is replaced by a fresh one.     *)
(*                                                                         *)
(* Calls are numbered.  A backend session is named after the call that     *)
(* created it, and its context is the set of calls it has seen; what a     *)
(* backend does with the session it is given is external: it continues it, *)
(* forks it under a new name, ends before it gets to it, or knows no       *)
(* sessions at all.  Which session the server stores is the runner's word: *)
(* the one announced, if it noticed (it looks at the first max_events      *)
(* events, and for two spellings of the key), or else the one it was given *)
(* (run_subprocess, wrangle-transport/src/subprocess.rs).                  *)
(***************************************************************************)
EXTENDS Naturals, FiniteSets

CONSTANTS
    MaxCalls,      \* bound: calls made
    MaxRuns        \* bound: server processes

ASSUME BoundsAssumption == MaxCalls \in Nat /\ MaxRuns \in Nat \ {0}

VARIABLES
    run,           \* the server process, counted
    sessions,      \* ServerState.sessions: the backend session of each outer id
    nextSession,   \* ServerState.next_session
    known,         \* the handles callers have been given
    phase,         \* each call: "unmade", "asked", "running", "deserted" (its
                   \* caller went away) or "over"
    handle,        \* the handle each call carries
    inner,         \* the backend session each call runs in, 0 for none
    context,       \* external: the calls each backend session has seen
    succeeded,     \* history: the calls whose caller was told of success
    answered,      \* history: the calls answered with each outer id, those
                   \* that the session stored under it has not seen left out
    shared,        \* history: the ids that two calls used at once, that a caller
                   \* began anew with its raw handle, or that died with a server
    mint           \* history: how many calls each id was minted for

runVars      == <<run, sessions, nextSession>>
callVars     == <<phase, handle, inner>>
pastVars     == <<succeeded, answered, shared, mint>>
sessionsVars == <<runVars, callVars, known, context, pastVars>>

Calls == 1 .. MaxCalls

\* "srv-<millis>-<counter>", minted by one server process ...
MintedIds == [ run : 1 .. MaxRuns, counter : 0 .. MaxCalls ]
\* ... and a backend's own session id that a caller brings along.
RawId == [ run |-> 0, counter |-> 0 ]
Ids   == MintedIds \cup {RawId}

Handles  == [ id : Ids, transport : {"wrangleServer", "oneShotProcess"} ]
RawHandle == [ id |-> RawId, transport |-> "oneShotProcess" ]
NoHandle  == [ id |-> RawId, transport |-> "none" ]

\* Backend sessions: 0 is none, a call's number names the one it created, and
\* the last is the one RawId names.
RawSession    == MaxCalls + 1
InnerSessions == 0 .. MaxCalls + 1

InFlight == { n \in Calls : phase[n] \in {"asked", "running", "deserted"} }

SessionsTypeOK ==
    /\ run \in 1 .. MaxRuns
    /\ DOMAIN sessions \subseteq Ids
    /\ \A id \in DOMAIN sessions : sessions[id] \in InnerSessions \ {0}
    /\ nextSession \in 0 .. MaxCalls
    /\ known \subseteq Handles
    /\ phase \in [Calls -> {"unmade", "asked", "running", "deserted", "over"}]
    /\ handle \in [Calls -> known \cup {NoHandle}]
    /\ inner \in [Calls -> InnerSessions]
    /\ context \in [InnerSessions -> SUBSET Calls]
    /\ succeeded \subseteq Calls
    /\ answered \in [Ids -> SUBSET Calls]
    /\ shared \subseteq Ids
    /\ mint \in [Ids -> Nat]

SessionsInit ==
    /\ run = 1 /\ sessions = [id \in {} |-> 0] /\ nextSession = 0
    /\ known = {RawHandle}
    /\ phase = [n \in Calls |-> "unmade"]
    /\ handle = [n \in Calls |-> NoHandle]
    /\ inner = [n \in Calls |-> 0]
    /\ context = [i \in InnerSessions |-> {}]
    /\ succeeded = {}
    /\ answered = [id \in Ids |-> {}]
    /\ shared = {}
    /\ mint = [id \in Ids |-> 0]

-----------------------------------------------------------------------------
IsServerHandle(h) == h.transport = "wrangleServer"

\* A caller sends Execute with any handle it holds, or none.
Ask(n, h) ==
    /\ phase[n] = "unmade"
    /\ \A k \in 1 .. n - 1 : phase[k] # "unmade"
    /\ phase' = [phase EXCEPT ![n] = "asked"]
    /\ handle' = [handle EXCEPT ![n] = h]
    /\ shared' = shared \cup
         { id \in {h.id} :
             \/ h # NoHandle /\ \E k \in InFlight : handle[k] # NoHandle /\ handle[k].id = id
             \/ h = RawHandle /\ answered[id] # {} }
    /\ UNCHANGED <<runVars, known, inner, context, succeeded, answered, mint>>

\* mutant: an id the server does not know gets some other session
FoundOrAny(id) ==
    IF id \in DOMAIN sessions THEN sessions[id]
    ELSE IF DOMAIN sessions = {} THEN 0
    ELSE sessions[CHOOSE other \in DOMAIN sessions : TRUE]

\* sessions.get(id).cloned(): None for an id the server does not know.
Found(id) == IF id \in DOMAIN sessions THEN sessions[id] ELSE 0

\* The session execute_request gets: looked up for a server handle, as it is
\* for another transport's.  The lock is released here.
SessionFor(h) == IF h = NoHandle THEN 0
                 ELSE IF IsServerHandle(h) THEN Found(h.id)
                 ELSE RawSession

Begin(n) ==
    /\ phase[n] = "asked"
    /\ phase' = [phase EXCEPT ![n] = "running"]
    /\ inner' = [inner EXCEPT ![n] = SessionFor(handle[n])]
    /\ UNCHANGED <<runVars, known, handle, context, pastVars>>

-----------------------------------------------------------------------------
NextIdReused == [ run |-> run, counter |-> 0 ]             \* mutant
NextId       == [ run |-> run, counter |-> nextSession ]

\* outer_session_id, or a minted one
OuterId(n) == IF handle[n] = NoHandle THEN NextId ELSE handle[n].id

\* mutant: only the first session of an id is stored
StoredFirst(id, i) == IF id \in DOMAIN sessions THEN sessions
                      ELSE [k \in DOMAIN sessions \cup {id} |-> IF k = id THEN i ELSE sessions[k]]
Stored(id, i) == [k \in DOMAIN sessions \cup {id} |-> IF k = id THEN i ELSE sessions[k]]

\* The response reaches the caller if it is still there.
Tell(n) == succeeded' = IF phase[n] = "running" THEN succeeded \cup {n} ELSE succeeded

\* execute_request answers Ok with session i, and s is the one that saw the
\* call, 0 for none: i is stored under the outer id, and the caller, if it is
\* still there, is told the outer id.
AnswerWithSession(n, i, s) ==
    /\ phase[n] \in {"running", "deserted"}
    /\ i # 0
    /\ sessions' = Stored(OuterId(n), i)
    /\ nextSession' = IF handle[n] = NoHandle THEN nextSession + 1 ELSE nextSession
    /\ mint' = IF handle[n] = NoHandle THEN [mint EXCEPT ![NextId] = @ + 1] ELSE mint
    /\ phase' = [phase EXCEPT ![n] = "over"]
    /\ context' = IF s = 0 THEN context
                  ELSE [context EXCEPT ![s] = context[inner[n]] \cup {n}]
    /\ known' = IF phase[n] = "running"
                THEN known \cup {[ id |-> OuterId(n), transport |-> "wrangleServer" ]}
                ELSE known
    /\ answered' = IF phase[n] = "running" /\ s = i
                   THEN [answered EXCEPT ![OuterId(n)] = @ \cup {n}]
                   ELSE answered
    /\ Tell(n)
    /\ UNCHANGED <<run, handle, inner, shared>>

\* The backend ends before it works in a session, continues the one it was
\* given, or starts one of its own, out of that one if there is one.  The
\* answer names the session that saw the call if it was noticed, and else the
\* one of the request.
Executed(n) ==
    \E s \in {0, inner[n], n} : \E i \in {inner[n], s} : AnswerWithSession(n, i, s)

\* Ok without a session: a backend that announces none, one whose own session
\* goes unnoticed and is never heard of again, or a stateless API adapter.  The
\* map is left alone, and the caller gets no handle.
AnswerWithout(n) ==
    /\ phase[n] \in {"running", "deserted"}
    /\ phase' = [phase EXCEPT ![n] = "over"]
    /\ Tell(n)
    /\ UNCHANGED <<runVars, known, handle, inner, context, answered, shared, mint>>

\* execute_request fails, after the backend may have worked in the session.
AnswerError(n) ==
    /\ phase[n] \in {"running", "deserted"}
    /\ phase' = [phase EXCEPT ![n] = "over"]
    /\ context' \in { context, [context EXCEPT ![inner[n]] =
                                  IF inner[n] = 0 THEN {} ELSE @ \cup {n}] }
    /\ UNCHANGED <<runVars, known, handle, inner, pastVars>>

-----------------------------------------------------------------------------
\* The caller closes its connection; the server goes on.
Desert(n) ==
    /\ phase[n] = "running"
    /\ phase' = [phase EXCEPT ![n] = "deserted"]
    /\ UNCHANGED <<runVars, known, handle, inner, context, pastVars>>

\* The server dies with its map and its connections; callers keep their
\* handles and find, or start, another one.
Restart ==
    /\ run < MaxRuns
    /\ run' = run + 1
    /\ sessions' = [id \in {} |-> 0]
    /\ nextSession' = 0
    /\ phase' = [n \in Calls |-> IF n \in InFlight THEN "over" ELSE phase[n]]
    /\ shared' = shared \cup { h.id : h \in known }
    /\ UNCHANGED <<known, handle, inner, context, succeeded, answered, mint>>

Settled == (\A n \in Calls : phase[n] = "over") /\ UNCHANGED sessionsVars

SessionsNext ==
    \/ \E n \in Calls :
          \/ \E h \in known \cup {NoHandle} : Ask(n, h)
          \/ Begin(n) \/ Executed(n) \/ AnswerWithout(n) \/ AnswerError(n) \/ Desert(n)
    \/ Restart
    \/ Settled

SessionsSpec == SessionsInit /\ [][SessionsNext]_sessionsVars

-----------------------------------------------------------------------------
\* A caller that uses its handle for one call at a time, with a server that
\* lives, never loses what its conversation once had: each call runs in a
\* backend session that has seen every call that was in the session stored for
\* the handle when it was answered, whatever came between: forks, noticed or
\* not, calls that failed or never got to the session.  What it may miss are
\* calls answered with success whose own fork was not noticed.
SequentialCallsKeepContext ==
    \A n \in Calls :
        (phase[n] = "running" /\ IsServerHandle(handle[n]) /\ handle[n].id \notin shared)
            => answered[handle[n].id] \subseteq context[inner[n]]

\* No id is minted for two conversations.
IdsAreMintedOnce == \A id \in MintedIds : mint[id] <= 1

\* Conversations never see each other's calls, whatever is interleaved, forked,
\* forgotten or brought along.
ConversationsStayApart ==
    \A a, b \in DOMAIN sessions :
        a # b => context[sessions[a]] \cap context[sessions[b]] = {}
=============================================================================
