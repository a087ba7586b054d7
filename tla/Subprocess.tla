----------------------------- MODULE Subprocess -----------------------------
(***************************************************************************)
(* `run_subprocess` (wrangle-transport/src/subprocess.rs): one request     *)
(* over one backend process.  Four things run at once: the call itself,    *)
(* the task that drains stderr, the backend, and a helper process the      *)
(* backend may leave behind with its pipes inherited.                      *)
(*                                                                         *)
(* A line of output is a kind: an event, an event that carries a session   *)
(* id, a line that is not JSON ("junk"), or one above MAX_JSON_LINE_BYTES  *)
(* ("huge").  Pipes hold PipeSize units; of stderr only who holds it open  *)
(* is kept.  A run without a progress file is one where no write to it     *)
(* fails and nobody reads the log.                                         *)
(***************************************************************************)
EXTENDS Lists, SequencesExt

CONSTANTS
    Sessions,      \* the session ids a backend may announce
    Launches,      \* what is asked, and how the backend behaves
    PipeSize,      \* lines (or units of input) a pipe holds
    MaxLines       \* bound: lines the backend writes to stdout

Launch == [ input      : Nat,                      \* units of prompt sent to stdin
            session    : Sessions \cup {"none"},   \* request.session
            maxEvents  : Nat,
            talksFirst : BOOLEAN,   \* the backend writes before it reads its stdin
            lingers    : BOOLEAN,   \* it does not end by itself
            forks      : BOOLEAN ]  \* it starts a helper

ASSUME LaunchAssumption ==
    /\ Launches \subseteq Launch
    /\ PipeSize \in Nat \ {0} /\ MaxLines \in Nat
    /\ Sessions \cap {"none", "event", "junk", "huge"} = {}

VARIABLES
    launch,
    pc,          \* where run_subprocess is
    reply,       \* "none", "Ok" or "Err"
    log,         \* the progress file
    events, session,     \* what the result will hold
    child,       \* "none", "running", "mute" (it closed its stdout), "doomed"
                 \* (sent SIGTERM, not dead yet), or its status
    helper,      \* "none", "alive" or "gone"
    errReader,   \* the stderr task: "off", "reading", "truncated" or "done"
    sent, consumed,      \* units of input written, and read by the backend
    said, heard,         \* the lines written to stdout, and how many were parsed
    signalled    \* SIGNAL_RECEIVED

result == <<launch, events, session>>
procs  == <<child, helper>>
input  == <<sent, consumed>>
output == <<said, heard>>
vars   == <<result, procs, input, output, pc, reply, log, errReader, signalled>>

Events  == Sessions \cup {"event"}               \* the lines that parse
Lines   == Events \cup {"junk", "huge"}
Living  == {"running", "mute", "doomed"}
Ended   == {"success", "failure", "killed"}      \* "killed" has no exit code: -1

Records == [ type : { "started", "backendEvent", "parseError", "timeout",
                      "stderrSummary", "completed" },
             what : Events \cup Ended \cup {"none"} ]

TypeOK ==
    /\ launch \in Launches
    /\ pc \in { "prepare", "stdin", "parse", "timeout", "wait", "stderr",
                "complete", "returned" }
    /\ reply \in {"none", "Ok", "Err"}
    /\ log \in Seq(Records)
    /\ events \in Seq(Events) /\ Len(events) <= launch.maxEvents
    /\ session \in Sessions \cup {"none"}
    /\ child \in {"none"} \cup Living \cup Ended
    /\ helper \in {"none", "alive", "gone"}
    /\ errReader \in {"off", "reading", "truncated", "done"}
    /\ sent \in 0 .. launch.input /\ consumed \in 0 .. sent
    /\ said \in Seq(Lines) /\ heard \in 0 .. Len(said)
    /\ signalled \in BOOLEAN

Init ==
    /\ launch \in Launches
    /\ pc = "prepare" /\ reply = "none" /\ log = <<>>
    /\ events = <<>> /\ session = launch.session
    /\ child = "none" /\ helper = "none" /\ errReader = "off"
    /\ sent = 0 /\ consumed = 0 /\ said = <<>> /\ heard = 0
    /\ signalled = FALSE

-----------------------------------------------------------------------------
Rec(type, what) == [type |-> type, what |-> what]

Unread   == heard < Len(said)
NextLine == said[heard + 1]

Move(to) == pc' = to /\ UNCHANGED <<reply, signalled>>

\* mutant: no SignalGuard
ReturnUnguarded(r) == pc' = "returned" /\ reply' = r /\ UNCHANGED <<child, signalled>>

\* Every return drops the SignalGuard, which sends SIGTERM to the child if a
\* signal came in.
Return(r) ==
    /\ pc' = "returned" /\ reply' = r
    /\ child' = IF signalled /\ child \in Living THEN "doomed" ELSE child
    /\ UNCHANGED signalled

-----------------------------------------------------------------------------
(***************************************************************************)
(* The call                                                                *)
(***************************************************************************)
\* build_command, the progress file, its first record, or the spawn fails.
FailToStart ==
    /\ pc = "prepare"
    /\ log' \in {log, Append(log, Rec("started", "none"))}
    /\ Return("Err")
    /\ UNCHANGED <<result, helper, input, output, errReader>>

Start ==
    /\ pc = "prepare"
    /\ log' = Append(log, Rec("started", "none"))
    /\ child' = "running"
    /\ Move("stdin")
    /\ UNCHANGED <<result, helper, input, output, errReader>>

\* write_all: the call does nothing else meanwhile, and no timer is set.
WriteInput ==
    /\ pc = "stdin" /\ sent < launch.input
    /\ child \in Living /\ sent - consumed < PipeSize
    /\ sent' = sent + 1
    /\ UNCHANGED <<result, procs, consumed, output, pc, reply, log, errReader, signalled>>

\* Nobody reads any more: the backend ended, or it closed its stdin.
InputBroken ==
    /\ pc = "stdin" /\ sent < launch.input
    /\ Return("Err")
    /\ UNCHANGED <<result, helper, input, output, log, errReader>>

\* stdin is closed and the stderr task spawned.
InputDone ==
    /\ pc = "stdin" /\ sent = launch.input
    /\ errReader' = "reading"
    /\ Move("parse")
    /\ UNCHANGED <<result, procs, input, output, log>>

\* next_event: what is not JSON is skipped, a huge line is an error.  (A read
\* that fails, which is logged like a huge line, is left out.)
SkipLine ==
    /\ pc = "parse" /\ Unread /\ NextLine \notin Events
    /\ heard' = heard + 1
    /\ log' = IF NextLine = "huge" THEN Append(log, Rec("parseError", "none")) ELSE log
    /\ UNCHANGED <<result, procs, input, said, pc, reply, errReader, signalled>>

HasRoom           == Len(events) < launch.maxEvents

NextSession(line)  == IF line \in Sessions THEN line ELSE session

\* mutant: the latest events are kept
KeptLatest(line) == IF HasRoom THEN Append(events, line) ELSE Append(Tail(events), line)
Kept(line)       == IF HasRoom THEN Append(events, line) ELSE events

\* Every event is logged; only the first max_events are kept, and only those
\* are searched for a session id.
TakeEvent ==
    /\ pc = "parse" /\ Unread /\ NextLine \in Events
    /\ heard' = heard + 1
    /\ log' = Append(log, Rec("backendEvent", NextLine))
    /\ events' = Kept(NextLine)
    /\ session' = IF HasRoom THEN NextSession(NextLine) ELSE session
    /\ UNCHANGED <<launch, procs, input, said, pc, reply, errReader, signalled>>

StdoutHeld == child = "running" \/ helper = "alive"

OutputEndsWithChild == child \in Ended       \* mutant: buffered lines are dropped
OutputEnds          == ~Unread /\ ~StdoutHeld

EndOfOutput ==
    /\ pc = "parse" /\ OutputEnds
    /\ Move("wait")
    /\ UNCHANGED <<result, procs, input, output, log, errReader>>

\* The timer drops the loop at an await: while it waits for a line, or for the
\* record of an event to reach the file, which it may or may not do then.
Timeout ==
    /\ pc = "parse"
    /\ \/ UNCHANGED <<heard, log>>
       \/ /\ Unread /\ NextLine \in Events
          /\ heard' = heard + 1
          /\ log' = Append(log, Rec("backendEvent", NextLine))
    /\ Move("timeout")
    /\ UNCHANGED <<result, procs, input, said, errReader>>

\* mutant: the loop is entered again
LogTimeoutAndResume ==
    /\ pc = "timeout"
    /\ log' = Append(log, Rec("timeout", "none"))
    /\ Move("parse")
    /\ UNCHANGED <<result, procs, input, output, errReader>>

NotKilled   == child                                                    \* mutant
AfterKill   == IF child \in Living THEN "killed" ELSE child

\* The timeout is recorded, then the child is killed if it has not ended; the
\* helper is not.
LogTimeoutAndKill ==
    /\ pc = "timeout"
    /\ log' = Append(log, Rec("timeout", "none"))
    /\ child' = AfterKill
    /\ Move("wait")
    /\ UNCHANGED <<result, helper, input, output, errReader>>

Unreapable == {}                             \* mutant: child.wait is left out
NotEnded   == Living

Reap ==
    /\ pc = "wait" /\ child \notin NotEnded
    /\ Move("stderr")
    /\ UNCHANGED <<result, procs, input, output, log, errReader>>

JoinStderr ==
    /\ pc = "stderr" /\ errReader \in {"truncated", "done"}
    /\ Move("complete")
    /\ UNCHANGED <<result, procs, input, output, log, errReader>>

\* The summary, if the backend wrote to stderr; truncation means it did.
Summaries == { Append(log, Rec("stderrSummary", "none")) }
             \cup (IF errReader = "truncated" THEN {} ELSE {log})

Complete ==
    /\ pc = "complete"
    /\ \E l \in Summaries : log' = Append(l, Rec("completed", child))
    /\ Return("Ok")
    /\ UNCHANGED <<result, helper, input, output, errReader>>

\* Any write to the progress file may fail, and `?` returns at once: nothing
\* is killed or awaited, not even after a timeout.
ProgressFails ==
    /\ \/ pc = "timeout" /\ UNCHANGED log
       \/ pc = "parse" /\ Unread /\ NextLine # "junk" /\ UNCHANGED log
       \/ pc = "complete" /\ log' \in Summaries \cup {log}
    /\ Return("Err")
    /\ UNCHANGED <<result, helper, input, output, errReader>>

-----------------------------------------------------------------------------
\* The stderr task reads to the end, or until a line does not fit; then it
\* closes the pipe.
DrainStderr ==
    /\ errReader = "reading"
    /\ \/ errReader' = "done" /\ child \notin Living /\ helper # "alive"
       \/ errReader' = "truncated"
    /\ UNCHANGED <<result, procs, input, output, pc, reply, log, signalled>>

(***************************************************************************)
(* The backend and its helper: external programs, which may write lines of *)
(* any kind and end at any time.                                           *)
(***************************************************************************)
BackendOnly == UNCHANGED <<result, pc, reply, log, errReader, sent, heard, signalled>>

ReadInput ==
    /\ child \in Living /\ consumed < sent
    /\ launch.talksFirst => Len(said) = MaxLines
    /\ consumed' = consumed + 1
    /\ UNCHANGED <<procs, said>> /\ BackendOnly

InputRead == consumed = launch.input /\ pc # "stdin"

Say(line) ==
    /\ StdoutHeld /\ pc # "returned"
    /\ launch.talksFirst \/ InputRead
    /\ Len(said) < MaxLines /\ Len(said) - heard < PipeSize
    /\ said' = Append(said, line)
    /\ UNCHANGED <<procs, consumed>> /\ BackendOnly

CloseStdout ==
    /\ child = "running" /\ launch.lingers
    /\ child' = "mute"
    /\ UNCHANGED <<helper, consumed, said>> /\ BackendOnly

Exit(outcome) ==
    /\ child \in Living
    /\ child' = IF child = "doomed" THEN "killed" ELSE outcome
    /\ UNCHANGED <<helper, consumed, said>> /\ BackendOnly

HelperStep ==
    /\ \/ child = "running" /\ launch.forks /\ helper = "none" /\ helper' = "alive"
       \/ helper = "alive" /\ helper' = "gone"
    /\ UNCHANGED <<child, consumed, said>> /\ BackendOnly

\* SIGINT or SIGTERM to wrangle, once its handler is installed.
Interrupt ==
    /\ child # "none" /\ pc # "returned" /\ ~signalled
    /\ signalled' = TRUE
    /\ UNCHANGED <<result, procs, input, output, pc, reply, log, errReader>>

Settled == pc = "returned" /\ UNCHANGED vars

-----------------------------------------------------------------------------
Call == \/ FailToStart \/ Start \/ WriteInput \/ InputBroken \/ InputDone
        \/ SkipLine \/ TakeEvent \/ EndOfOutput
        \/ LogTimeoutAndKill \/ Reap \/ JoinStderr \/ Complete \/ ProgressFails

SayAnything == \E line \in Lines : Say(line)
ExitAnyhow  == \E outcome \in {"success", "failure"} : Exit(outcome)

Next == \/ Call \/ Timeout \/ DrainStderr \/ Interrupt \/ Settled
        \/ ReadInput \/ SayAnything \/ CloseStdout \/ ExitAnyhow \/ HelperStep

Spec == Init /\ [][Next]_vars

\* A living backend need not close its stdin.
Refused == pc = "stdin" /\ pc' = "returned" /\ child \in Living

\* The executor polls the call, its timer and its stderr task.  Of the backend
\* it is assumed that it reads its input when it should, that one that talks
\* first talks, and that one that does not linger ends when nothing is left.
FairSpec ==
    /\ Spec
    /\ WF_vars(Call /\ ~Refused) /\ WF_vars(Timeout) /\ WF_vars(DrainStderr)
    /\ WF_vars(ReadInput)
    /\ WF_vars(launch.talksFirst /\ SayAnything)
    /\ WF_vars(/\ InputRead /\ ~launch.lingers
               /\ launch.talksFirst => Len(said) = MaxLines
               /\ ExitAnyhow)

-----------------------------------------------------------------------------
Logged(type) == \E p \in DOMAIN log : log[p].type = type

LoggedEvents ==
    LET Entries == Filter(log, { Rec("backendEvent", line) : line \in Events })
    IN  [p \in DOMAIN Entries |-> Entries[p].what]

FirstEvents(lines) == SubSeq(lines, 1, IF Len(lines) < launch.maxEvents
                                       THEN Len(lines) ELSE launch.maxEvents)

\* The events kept are the first max_events of those logged; only the timer
\* can lose one between the file and the list, and at most one.
EventsFollowLog ==
    \/ events = FirstEvents(LoggedEvents)
    \/ /\ pc = "timeout" \/ Logged("timeout") \/ reply = "Err"
       /\ events = FirstEvents(Front(LoggedEvents))

\* Ok without a timeout carries every event the backend and its helper ever
\* wrote, up to max_events: the loop ends only when nobody can write any more.
EventsComplete ==
    (reply = "Ok" /\ ~Logged("timeout")) =>
        events = FirstEvents(Filter(said, Events))

\* The progress file of one request: started first, completed last and only
\* with Ok, and no event after a timeout or the summary of stderr.
LogIsBracketed ==
    /\ \A p \in DOMAIN log :
          /\ log[p].type = "started" <=> p = 1
          /\ log[p].type = "completed" => (p = Len(log) /\ reply = "Ok")
    /\ \A p, q \in DOMAIN log :
          (p < q /\ log[p].type \in {"timeout", "stderrSummary"}) =>
              log[q].type \notin {"backendEvent", "parseError", "timeout"}

\* A call that returns after a signal leaves no backend that was not told to
\* end, whichever path it returns by.
SignalledReturnEndsBackend ==
    [][(pc # "returned" /\ pc' = "returned" /\ signalled)
            => child' \notin {"running", "mute"}]_vars

\* What the timeout does not cover: a backend that does not read its input, one
\* that closed its stdout and stays, and a helper that holds stderr.
Held ==
    \/ pc = "stdin" /\ (launch.talksFirst \/ launch.lingers) /\ child \in Living
    \/ pc = "wait" /\ child = "mute"
    \/ pc = "stderr" /\ helper = "alive"

\* Apart from those three waits, run_subprocess always returns.
ReturnsUnlessHeld == ~<>[]Held => <>(pc = "returned")

-----------------------------------------------------------------------------
Promise == INSTANCE ParallelPromise WITH
               needs     <- << {} >>,
               limit     <- 1,
               again     <- {},
               abandoned <- {},
               status    <- << IF child = "none" THEN "todo"
                               ELSE IF child \in Living THEN "active" ELSE "done" >>,
               answer    <- reply

\* One request keeps, for its one process, what ParallelRunner assumes of a
\* worker: Ok comes after the process ended, Err may leave it running.
KeepsPromise == Promise!Spec
=============================================================================
