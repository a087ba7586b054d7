-------------------------- MODULE SubprocessProofs --------------------------
(***************************************************************************)
(* Proofs about Subprocess, for every set of launches, pipe size and       *)
(* number of lines: the progress file is bracketed, a signal reaches the   *)
(* backend, no event of an answer is lost or out of place, and one run     *)
(* keeps the promise of a parallel call of one task.  It ends, and what it *)
(* may wait for is known.                                                  *)
(***************************************************************************)
EXTENDS Subprocess, ListsProofs

\* What the log may hold at each place.
LogFits ==
    /\ pc = "prepare" => log = <<>>
    /\ \A p \in DOMAIN log : log[p].type = "started" <=> p = 1
    /\ \A p \in DOMAIN log : /\ log[p].type = "completed" => (p = Len(log) /\ reply = "Ok")
                             /\ pc \in {"stdin", "parse", "timeout"}
                                    => log[p].type \in {"started", "backendEvent", "parseError"}
                             /\ pc \in {"wait", "stderr", "complete"}
                                    => /\ log[p].type # "stderrSummary"
                                       /\ log[p].type = "timeout" => p = Len(log)
    /\ \A p, q \in DOMAIN log :
          (p < q /\ log[p].type \in {"timeout", "stderrSummary"})
              => log[q].type \notin {"backendEvent", "parseError", "timeout"}
    /\ pc \notin {"prepare", "returned"} => log # <<>>

\* The child at each place: not before the spawn, and ended after the wait.
ChildFits ==
    /\ pc = "returned" <=> reply # "none"
    /\ pc = "prepare" => child = "none"
    /\ pc \notin {"prepare", "returned"} => child # "none"
    /\ pc \in {"stderr", "complete"} => child \in Ended

IInv == TypeOK /\ LogFits /\ ChildFits

-----------------------------------------------------------------------------
LEMMA NamesDiffer == Events \subseteq Lines /\ Sessions \subseteq Events /\ "junk" \notin Events /\ "huge" \notin Events
BY LaunchAssumption DEF Events, Lines

LEMMA LaunchesAre ==
    ASSUME launch \in Launches
    PROVE  launch.input \in Nat /\ launch.maxEvents \in Nat /\ launch.session \in Sessions \cup {"none"}
BY LaunchAssumption DEF Launch

LEMMA RecordsAre ==
    /\ \A what \in Events \cup Ended \cup {"none"} :
          /\ Rec("backendEvent", what) \in Records /\ Rec("completed", what) \in Records
    /\ \A type \in {"started", "parseError", "timeout", "stderrSummary"} :
          Rec(type, "none") \in Records
    /\ \A type, what : Rec(type, what).type = type
BY DEF Rec, Records

LEMMA InitIInv == Init => IInv
<1>. SUFFICES ASSUME Init PROVE IInv
  OBVIOUS
<1>1. <<>> \in Seq(Records) /\ <<>> \in Seq(Events) /\ <<>> \in Seq(Lines) /\ Len(<<>>) = 0
      /\ \A i \in DOMAIN <<>> : FALSE
  OBVIOUS
<1>2. TypeOK
  <2>1. launch.input \in Nat /\ launch.maxEvents \in Nat /\ launch.session \in Sessions \cup {"none"}
    BY LaunchesAre DEF Init
  <2>2. Len(events) <= launch.maxEvents /\ sent \in 0 .. launch.input /\ heard \in 0 .. Len(said)
    BY <1>1, <2>1 DEF Init
  <2>. QED  BY <1>1, <2>1, <2>2 DEF Init, TypeOK
<1>3. LogFits
  BY <1>1 DEF Init, LogFits
<1>4. ChildFits
  BY DEF Init, ChildFits
<1>. QED  BY <1>2, <1>3, <1>4 DEF IInv

-----------------------------------------------------------------------------
\* Every record is put at the end of the log.
LEMMA Appended ==
    ASSUME NEW l \in Seq(Records), NEW r \in Records
    PROVE  /\ Append(l, r) \in Seq(Records) /\ Append(l, r) # <<>>
           /\ Len(Append(l, r)) = Len(l) + 1 /\ Len(l) \in Nat
           /\ DOMAIN Append(l, r) = 1 .. Len(l) + 1 /\ DOMAIN l = 1 .. Len(l)
           /\ \A p \in DOMAIN l : Append(l, r)[p] = l[p]
           /\ Append(l, r)[Len(l) + 1] = r
BY AppendProperties, LenProperties

LEMMA TypesKept == IInv /\ [Next]_vars => TypeOK'
<1>. SUFFICES ASSUME IInv, [Next]_vars PROVE TypeOK'
  OBVIOUS
<1>. USE DEF IInv
<1>1. /\ launch' = launch /\ launch.input \in Nat /\ launch.maxEvents \in Nat
      /\ launch.session \in Sessions \cup {"none"}
  <2>1. launch' = launch
    BY DEF Next, Call, vars, result, FailToStart, Start, WriteInput, InputBroken, InputDone,
       SkipLine, TakeEvent, EndOfOutput, Timeout, LogTimeoutAndKill, Reap, JoinStderr, Complete,
       ProgressFails, DrainStderr, ReadInput, BackendOnly, SayAnything, Say, CloseStdout,
       ExitAnyhow, Exit, HelperStep, Interrupt, Settled
  <2>. QED  BY <2>1, LaunchesAre DEF TypeOK
<1>2. log' \in Seq(Records)
  <2>1. CASE log' = log
    BY <2>1 DEF TypeOK
  <2>2. ASSUME NEW r \in Records, log' = Append(log, r) PROVE log' \in Seq(Records)
    BY <2>2, Appended DEF TypeOK
  <2>3. CASE FailToStart \/ Start
    BY <2>1, <2>2, <2>3, RecordsAre DEF FailToStart, Start
  <2>4. CASE SkipLine \/ TakeEvent \/ Timeout
    BY <2>1, <2>2, <2>4, RecordsAre DEF SkipLine, TakeEvent, Timeout
  <2>5. CASE LogTimeoutAndKill
    BY <2>2, <2>5, RecordsAre DEF LogTimeoutAndKill
  <2>6. \A l \in Summaries : l \in Seq(Records)
    <3>1. log \in Seq(Records) /\ Rec("stderrSummary", "none") \in Records
      BY RecordsAre DEF TypeOK
    <3>2. Append(log, Rec("stderrSummary", "none")) \in Seq(Records)
      BY <3>1, Appended
    <3>. QED  BY <3>1, <3>2 DEF Summaries
  <2>7. CASE Complete
    <3>1. Rec("completed", child) \in Records
      BY <2>7, RecordsAre DEF Complete, ChildFits
    <3>. QED  BY <2>6, <2>7, <3>1, Appended DEF Complete
  <2>8. CASE ProgressFails
    BY <2>1, <2>6, <2>8 DEF ProgressFails
  <2>9. CASE \/ WriteInput \/ InputBroken \/ InputDone \/ EndOfOutput \/ Reap \/ JoinStderr
             \/ DrainStderr \/ Interrupt \/ Settled \/ ReadInput \/ SayAnything \/ CloseStdout
             \/ ExitAnyhow \/ HelperStep \/ UNCHANGED vars
    BY <2>1, <2>9 DEF WriteInput, InputBroken, InputDone, EndOfOutput, Reap, JoinStderr, DrainStderr,
       Interrupt, Settled, ReadInput, BackendOnly, SayAnything, Say, CloseStdout, ExitAnyhow, Exit,
       HelperStep, vars
  <2>. QED  BY <2>3, <2>4, <2>5, <2>7, <2>8, <2>9 DEF Next, Call
<1>3. events' \in Seq(Events) /\ Len(events') <= launch.maxEvents /\ session' \in Sessions \cup {"none"}
  <2>1. CASE TakeEvent
    <3>1. NextLine \in Events
      BY <2>1 DEF TakeEvent
    <3>2. session' \in Sessions \cup {"none"}
      BY <2>1 DEF TakeEvent, NextSession, TypeOK
    <3>3. CASE HasRoom
      BY <1>1, <2>1, <3>1, <3>2, <3>3, AppendProperties, LenProperties DEF TakeEvent, Kept, HasRoom, TypeOK
    <3>4. CASE ~HasRoom
      BY <2>1, <3>2, <3>4 DEF TakeEvent, Kept, TypeOK
    <3>. QED  BY <3>3, <3>4
  <2>2. CASE UNCHANGED <<events, session>>
    BY <2>2 DEF TypeOK
  <2>3. CASE ~TakeEvent
    <3>1. UNCHANGED <<events, session>>
      BY <2>3 DEF Next, Call, vars, result, FailToStart, Start, WriteInput, InputBroken, InputDone,
         SkipLine, EndOfOutput, Timeout, LogTimeoutAndKill, Reap, JoinStderr, Complete,
         ProgressFails, DrainStderr, ReadInput, BackendOnly, SayAnything, Say, CloseStdout,
         ExitAnyhow, Exit, HelperStep, Interrupt, Settled
    <3>. QED  BY <2>2, <3>1
  <2>. QED  BY <2>1, <2>3
<1>4. said' \in Seq(Lines) /\ heard' \in 0 .. Len(said')
  <2>1. CASE SayAnything
    <3>1. PICK line \in Lines : said' = Append(said, line) /\ heard' = heard
      BY <2>1 DEF SayAnything, Say, BackendOnly
    <3>. QED  BY <3>1, AppendProperties, LenProperties DEF TypeOK
  <2>2. CASE SkipLine \/ TakeEvent \/ Timeout
    <3>1. said' = said /\ (heard' = heard \/ (Unread /\ heard' = heard + 1))
      BY <2>2 DEF SkipLine, TakeEvent, Timeout
    <3>. QED  BY <3>1, LenProperties DEF Unread, TypeOK
  <2>3. CASE ~(SayAnything \/ SkipLine \/ TakeEvent \/ Timeout)
    <3>1. UNCHANGED <<said, heard>>
      BY <2>3 DEF Next, Call, vars, output, FailToStart, Start, WriteInput, InputBroken, InputDone,
         EndOfOutput, LogTimeoutAndKill, Reap, JoinStderr, Complete,
         ProgressFails, DrainStderr, ReadInput, BackendOnly, CloseStdout,
         ExitAnyhow, Exit, HelperStep, Interrupt, Settled
    <3>. QED  BY <3>1 DEF TypeOK
  <2>. QED  BY <2>1, <2>2, <2>3
<1>5. sent' \in 0 .. launch.input /\ consumed' \in 0 .. sent'
  <2>1. \/ UNCHANGED <<sent, consumed>>
        \/ sent < launch.input /\ sent' = sent + 1 /\ consumed' = consumed
        \/ consumed < sent /\ consumed' = consumed + 1 /\ sent' = sent
    BY DEF Next, Call, vars, input, FailToStart, Start, WriteInput, InputBroken, InputDone,
       SkipLine, TakeEvent, EndOfOutput, Timeout, LogTimeoutAndKill, Reap, JoinStderr, Complete,
       ProgressFails, DrainStderr, ReadInput, BackendOnly, SayAnything, Say, CloseStdout,
       ExitAnyhow, Exit, HelperStep, Interrupt, Settled
  <2>. QED  BY <1>1, <2>1 DEF TypeOK
<1>6. /\ pc' \in { "prepare", "stdin", "parse", "timeout", "wait", "stderr", "complete", "returned" }
      /\ reply' \in {"none", "Ok", "Err"} /\ signalled' \in BOOLEAN
  BY DEF TypeOK, Next, Call, vars, FailToStart, Start, WriteInput, InputBroken, InputDone,
     SkipLine, TakeEvent, EndOfOutput, Timeout, LogTimeoutAndKill, Reap, JoinStderr, Complete,
     ProgressFails, DrainStderr, ReadInput, BackendOnly, SayAnything, Say, CloseStdout,
     ExitAnyhow, Exit, HelperStep, Interrupt, Settled, Move, Return
<1>7. child' \in {"none"} \cup Living \cup Ended
  BY DEF TypeOK, Next, Call, vars, procs, FailToStart, Start, WriteInput, InputBroken, InputDone,
     SkipLine, TakeEvent, EndOfOutput, Timeout, LogTimeoutAndKill, Reap, JoinStderr, Complete,
     ProgressFails, DrainStderr, ReadInput, SayAnything, Say, CloseStdout,
     ExitAnyhow, Exit, HelperStep, Interrupt, Settled, Return, AfterKill, Living, Ended
<1>8. /\ helper' \in {"none", "alive", "gone"}
      /\ errReader' \in {"off", "reading", "truncated", "done"}
  BY DEF TypeOK, Next, Call, vars, procs, FailToStart, Start, WriteInput, InputBroken, InputDone,
     SkipLine, TakeEvent, EndOfOutput, Timeout, LogTimeoutAndKill, Reap, JoinStderr, Complete,
     ProgressFails, DrainStderr, ReadInput, BackendOnly, SayAnything, Say, CloseStdout,
     ExitAnyhow, Exit, HelperStep, Interrupt, Settled
<1>. QED  BY <1>1, <1>2, <1>3, <1>4, <1>5, <1>6, <1>7, <1>8 DEF TypeOK

LEMMA ChildFitsKept == IInv /\ [Next]_vars => ChildFits'
<1>. SUFFICES ASSUME IInv, [Next]_vars PROVE ChildFits'
  OBVIOUS
<1>. USE DEF IInv, TypeOK, ChildFits, Living, Ended
<1>1. CASE FailToStart \/ Start \/ WriteInput \/ InputBroken \/ InputDone \/ SkipLine \/ TakeEvent
  BY <1>1 DEF FailToStart, Start, WriteInput, InputBroken, InputDone, SkipLine, TakeEvent, procs,
     Move, Return
<1>2. CASE EndOfOutput \/ Timeout \/ LogTimeoutAndKill \/ Reap \/ JoinStderr
  BY <1>2 DEF EndOfOutput, Timeout, LogTimeoutAndKill, Reap, JoinStderr, procs, Move, AfterKill,
     NotEnded
<1>3. CASE Complete \/ ProgressFails
  BY <1>3 DEF Complete, ProgressFails, Return
<1>4. CASE \/ DrainStderr \/ Interrupt \/ Settled \/ ReadInput \/ SayAnything \/ CloseStdout
           \/ ExitAnyhow \/ HelperStep \/ UNCHANGED vars
  BY <1>4 DEF DrainStderr, Interrupt, Settled, ReadInput, BackendOnly, SayAnything, Say,
     CloseStdout, ExitAnyhow, Exit, HelperStep, procs, vars
<1>. QED  BY <1>1, <1>2, <1>3, <1>4 DEF Next, Call

LEMMA LogFitsKept == IInv /\ [Next]_vars => LogFits'
<1>. SUFFICES ASSUME IInv, [Next]_vars PROVE LogFits'
  OBVIOUS
<1>. USE DEF IInv
<1>1. log \in Seq(Records) /\ Len(log) \in Nat /\ DOMAIN log = 1 .. Len(log)
      /\ (log = <<>> <=> Len(log) = 0)
  BY LenProperties, EmptySeq DEF TypeOK
<1>2. CASE /\ log' = log
           /\ \/ pc' = pc
              \/ pc = "stdin" /\ pc' = "parse"
              \/ pc = "parse" /\ pc' \in {"timeout", "wait"}
              \/ pc \in {"wait", "stderr"} /\ pc' \in {"stderr", "complete"}
              \/ pc \in {"stdin", "timeout", "parse", "complete"} /\ pc' = "returned"
           /\ reply' = reply \/ reply = "none"
  BY <1>1, <1>2 DEF LogFits
<1>3. CASE FailToStart \/ Start
  <2>1. log = <<>> /\ pc' \in {"returned", "stdin"} /\ log' \in {log, Append(log, Rec("started", "none"))}
        /\ (pc' = "stdin" => log' # log)
    BY <1>3, RecordsAre, Appended, <1>1 DEF FailToStart, Start, Return, Move, LogFits
  <2>2. CASE log' = log
    BY <1>1, <2>1, <2>2 DEF LogFits
  <2>3. CASE log' = Append(log, Rec("started", "none"))
    <3>1. DOMAIN log' = {1} /\ log'[1] = Rec("started", "none") /\ log' # <<>>
      BY <1>1, <2>1, <2>3, Appended, RecordsAre
    <3>. QED  BY <2>1, <3>1, RecordsAre DEF LogFits
  <2>. QED  BY <2>1, <2>2, <2>3
<1>4. CASE SkipLine \/ TakeEvent \/ Timeout
  <2>1. pc = "parse" /\ pc' \in {"parse", "timeout"} /\ reply' = reply
    BY <1>4 DEF SkipLine, TakeEvent, Timeout, Move
  <2>2. \/ log' = log
        \/ \E r \in Records : r.type \in {"backendEvent", "parseError"} /\ log' = Append(log, r)
    BY <1>4, RecordsAre DEF SkipLine, TakeEvent, Timeout
  <2>3. CASE log' = log
    BY <1>1, <2>1, <2>3 DEF LogFits
  <2>4. ASSUME NEW r \in Records, r.type \in {"backendEvent", "parseError"}, log' = Append(log, r)
        PROVE  LogFits'
    <3>1. /\ log' # <<>> /\ DOMAIN log' = 1 .. Len(log) + 1 /\ log'[Len(log) + 1] = r
          /\ \A p \in 1 .. Len(log) : log'[p] = log[p]
      BY <1>1, <2>4, Appended
    <3>2. Len(log) > 0
      BY <1>1, <2>1 DEF LogFits
    <3>3. \A p \in DOMAIN log' : log'[p].type \in {"started", "backendEvent", "parseError"}
      BY <1>1, <2>1, <2>4, <3>1 DEF LogFits
    <3>4. \A p \in DOMAIN log' : log'[p].type = "started" <=> p = 1
      BY <1>1, <2>4, <3>1, <3>2 DEF LogFits
    <3>. QED  BY <2>1, <3>1, <3>3, <3>4 DEF LogFits
  <2>. QED  BY <2>2, <2>3, <2>4
<1>5. CASE LogTimeoutAndKill
  <2>1. /\ pc = "timeout" /\ pc' = "wait" /\ reply' = reply
        /\ log' = Append(log, Rec("timeout", "none"))
    BY <1>5 DEF LogTimeoutAndKill, Move
  <2>2. /\ log' # <<>> /\ DOMAIN log' = 1 .. Len(log) + 1 /\ Len(log') = Len(log) + 1
        /\ log'[Len(log) + 1].type = "timeout"
        /\ \A p \in 1 .. Len(log) : log'[p] = log[p]
    BY <1>1, <2>1, Appended, RecordsAre
  <2>3. Len(log) > 0
    BY <1>1, <2>1 DEF LogFits
  <2>4. \A p \in 1 .. Len(log) : /\ log'[p].type \in {"started", "backendEvent", "parseError"}
                                 /\ log'[p].type = "started" <=> p = 1
    BY <1>1, <2>1, <2>2 DEF LogFits
  <2>. QED  BY <1>1, <2>1, <2>2, <2>3, <2>4 DEF LogFits
<1>6. CASE Complete \/ (ProgressFails /\ pc = "complete")
  <2>1. /\ pc = "complete" /\ pc' = "returned" /\ Len(log) > 0
        /\ \A p \in DOMAIN log : log[p].type \notin {"stderrSummary", "completed"}
    BY <1>1, <1>6 DEF Complete, ProgressFails, Return, LogFits, ChildFits
  <2>2. ASSUME NEW l \in {log, Append(log, Rec("stderrSummary", "none"))}
        PROVE  /\ l \in Seq(Records) /\ Len(l) > 0
               /\ \A p \in DOMAIN l : /\ l[p].type = "started" <=> p = 1
                                      /\ l[p].type # "completed"
               /\ \A p, q \in DOMAIN l :
                    (p < q /\ l[p].type \in {"timeout", "stderrSummary"})
                        => l[q].type \notin {"backendEvent", "parseError", "timeout"}
    <3>1. CASE l = log
      BY <1>1, <2>1, <3>1 DEF LogFits
    <3>2. CASE l = Append(log, Rec("stderrSummary", "none"))
      <4>1. /\ l \in Seq(Records) /\ DOMAIN l = 1 .. Len(log) + 1 /\ Len(l) = Len(log) + 1
            /\ l[Len(log) + 1].type = "stderrSummary"
            /\ \A p \in 1 .. Len(log) : l[p] = log[p]
        BY <1>1, <3>2, Appended, RecordsAre
      <4>. QED  BY <1>1, <2>1, <4>1 DEF LogFits
    <3>. QED  BY <2>2, <3>1, <3>2
  <2>3. Summaries \subseteq {log, Append(log, Rec("stderrSummary", "none"))}
    BY DEF Summaries
  <2>4. CASE ProgressFails
    <3>1. log' \in {log, Append(log, Rec("stderrSummary", "none"))}
      BY <2>1, <2>3, <2>4 DEF ProgressFails
    <3>. QED  BY <2>1, <2>2, <3>1 DEF LogFits
  <2>5. CASE Complete
    <3>1. PICK l \in Summaries : log' = Append(l, Rec("completed", child)) /\ reply' = "Ok"
      BY <2>5 DEF Complete, Return
    <3>2. Rec("completed", child) \in Records /\ Rec("completed", child).type = "completed"
      BY <2>1, RecordsAre DEF ChildFits
    <3>3. l \in {log, Append(log, Rec("stderrSummary", "none"))}
      BY <2>3
    <3>4. /\ l \in Seq(Records) /\ Len(l) > 0
          /\ \A p \in DOMAIN l : /\ l[p].type = "started" <=> p = 1
                                 /\ l[p].type # "completed"
          /\ \A p, q \in DOMAIN l :
               (p < q /\ l[p].type \in {"timeout", "stderrSummary"})
                   => l[q].type \notin {"backendEvent", "parseError", "timeout"}
      BY <2>2, <3>3
    <3>5. /\ DOMAIN l = 1 .. Len(l) /\ DOMAIN log' = 1 .. Len(l) + 1 /\ Len(log') = Len(l) + 1
          /\ Len(l) \in Nat /\ log'[Len(l) + 1].type = "completed"
          /\ \A p \in 1 .. Len(l) : log'[p] = l[p]
      BY <3>1, <3>2, <3>4, Appended
    <3>. QED  BY <2>1, <3>1, <3>4, <3>5 DEF LogFits
  <2>. QED  BY <1>6, <2>4, <2>5
<1>7. CASE \/ WriteInput \/ InputBroken \/ InputDone \/ EndOfOutput \/ Reap \/ JoinStderr
           \/ (ProgressFails /\ pc # "complete")
  <2>1. reply = "none"
    BY <1>7 DEF WriteInput, InputBroken, InputDone, EndOfOutput, Reap, JoinStderr, ProgressFails,
       ChildFits, TypeOK
  <2>. QED
    BY <1>2, <1>7, <2>1 DEF WriteInput, InputBroken, InputDone, EndOfOutput, Reap, JoinStderr,
       ProgressFails, Move, Return
<1>8. CASE \/ DrainStderr \/ Interrupt \/ Settled \/ ReadInput \/ SayAnything \/ CloseStdout
           \/ ExitAnyhow \/ HelperStep \/ UNCHANGED vars
  <2>1. UNCHANGED <<log, pc, reply>>
    BY <1>8 DEF DrainStderr, Interrupt, Settled, ReadInput, BackendOnly, SayAnything, Say,
       CloseStdout, ExitAnyhow, Exit, HelperStep, vars
  <2>. QED  BY <1>2, <2>1
<1>. QED  BY <1>3, <1>4, <1>5, <1>6, <1>7, <1>8 DEF Next, Call

\* The invariant holds in every reachable state.
THEOREM IInvHolds == Spec => []IInv
<1>1. IInv /\ [Next]_vars => IInv'
  BY TypesKept, LogFitsKept, ChildFitsKept DEF IInv
<1>. QED  BY <1>1, InitIInv, PTL DEF Spec

-----------------------------------------------------------------------------
\* The state has its types: no more events than max_events are kept, and the
\* parser is never ahead of what was written.
THEOREM TypesHold == Spec => []TypeOK
<1>1. IInv => TypeOK
  BY DEF IInv
<1>. QED  BY <1>1, IInvHolds, PTL

\* The progress file of one request starts with "started", holds "completed"
\* last and only with Ok, and no event after a timeout.
THEOREM BracketedLog == Spec => []LogIsBracketed
<1>1. IInv => LogIsBracketed
  BY DEF IInv, LogFits, LogIsBracketed
<1>. QED  BY <1>1, IInvHolds, PTL

\* Every return after a signal has told a living backend to end: each `?` and
\* the Ok drop the guard.
THEOREM SignalEndsBackend == Spec => SignalledReturnEndsBackend
<1>1. [Next]_vars =>
        ((pc # "returned" /\ pc' = "returned" /\ signalled) => child' \notin {"running", "mute"})
  <2>. SUFFICES ASSUME [Next]_vars, pc # "returned", pc' = "returned", signalled
       PROVE  child' \notin {"running", "mute"}
    OBVIOUS
  <2>1. FailToStart \/ InputBroken \/ Complete \/ ProgressFails
    BY DEF Next, Call, vars, Start, WriteInput, InputDone,
       SkipLine, TakeEvent, EndOfOutput, Timeout, LogTimeoutAndKill, Reap, JoinStderr,
       DrainStderr, ReadInput, BackendOnly, SayAnything, Say, CloseStdout,
       ExitAnyhow, Exit, HelperStep, Interrupt, Settled, Move
  <2>2. child' = IF signalled /\ child \in Living THEN "doomed" ELSE child
    BY <2>1 DEF FailToStart, InputBroken, Complete, ProgressFails, Return
  <2>. QED  BY <2>2 DEF Living
<1>. QED  BY <1>1, PTL DEF Spec, SignalledReturnEndsBackend

-----------------------------------------------------------------------------
(* The promise of a parallel call, for the one process of this call.       *)

BackendStatus == IF child = "none" THEN "todo" ELSE IF child \in Living THEN "active" ELSE "done"

LEMMA MappedState ==
    ASSUME TypeOK
    PROVE  /\ Promise!Tasks = {1}
           /\ child = "none" => Promise!Active = {}
           /\ child = "none" <=> BackendStatus = "todo"
           /\ child \in Living <=> BackendStatus = "active"
           /\ child \in Ended <=> BackendStatus = "done"
<1>1. Promise!Tasks = {1}
  BY DEF Promise!Tasks
<1>2. /\ child = "none" <=> BackendStatus = "todo"
      /\ child \in Living <=> BackendStatus = "active"
      /\ child \in Ended <=> BackendStatus = "done"
  BY DEF BackendStatus, TypeOK, Living, Ended
<1>3. Promise!Active = { i \in {1} : <<BackendStatus>>[i] = "active" }
  BY <1>1 DEF Promise!Active, BackendStatus
<1>4. child = "none" => Promise!Active = {}
  BY <1>2, <1>3
<1>. QED  BY <1>1, <1>2, <1>4

LEMMA NothingActive == Promise!Cardinality({}) = 0
BY FS_EmptySet DEF Promise!Cardinality, Cardinality

\* Every behaviour of run_subprocess keeps the promise: Ok only after its
\* process ended, Err at any time, and one process at most.
THEOREM RunKeepsPromise == Spec => KeepsPromise
<1>1. Init => Promise!Init
  <2>. SUFFICES ASSUME Init PROVE Promise!Init
    OBVIOUS
  <2>1. child = "none" /\ reply = "none"
    BY DEF Init
  <2>. QED  BY <2>1 DEF Promise!Init, Promise!Tasks
<1>2. IInv /\ IInv' /\ [Next]_vars => [Promise!Next]_(Promise!pvars)
  <2>. SUFFICES ASSUME IInv, IInv', [Next]_vars PROVE [Promise!Next]_(Promise!pvars)
    OBVIOUS
  <2>. USE DEF IInv
  <2>1. /\ BackendStatus \in {"todo", "active", "done"} /\ BackendStatus' \in {"todo", "active", "done"}
        /\ Promise!Tasks = {1}
        /\ BackendStatus = "todo" => Promise!Active = {}
    BY MappedState DEF BackendStatus
  <2>2. CASE BackendStatus' = BackendStatus /\ reply' = reply
    BY <2>2 DEF Promise!pvars, BackendStatus
  <2>3. CASE Start
    <3>1. BackendStatus = "todo" /\ BackendStatus' = "active" /\ reply' = reply
      BY <2>3 DEF Start, Move, ChildFits, BackendStatus, Living
    <3>2. Promise!Begin(1)
      BY <2>1, <3>1, NothingActive DEF Promise!Begin, BackendStatus
    <3>. QED  BY <2>1, <3>2 DEF Promise!Next
  <2>4. CASE BackendStatus = "active" /\ BackendStatus' = "done" /\ reply' = reply
    <3>1. Promise!End(1)
      BY <2>4 DEF Promise!End, BackendStatus
    <3>. QED  BY <2>1, <3>1 DEF Promise!Next
  <2>5. CASE reply = "none" /\ reply' = "Err" /\ BackendStatus' = BackendStatus
    BY <2>5 DEF Promise!Next, Promise!AnswerErr, BackendStatus
  <2>6. CASE reply = "none" /\ reply' = "Ok" /\ BackendStatus' = BackendStatus /\ BackendStatus = "done"
    BY <2>1, <2>6 DEF Promise!Next, Promise!AnswerOk, BackendStatus
  <2>7. CASE FailToStart \/ InputBroken \/ ProgressFails \/ Complete
    <3>1. /\ reply = "none" /\ reply' \in {"Err", "Ok"} /\ BackendStatus' = BackendStatus
          /\ reply' = "Ok" => Complete
      BY <2>7 DEF FailToStart, InputBroken, ProgressFails, Complete, Return, ChildFits, TypeOK,
         BackendStatus, Living
    <3>2. Complete => BackendStatus = "done"
      BY MappedState DEF Complete, ChildFits
    <3>. QED  BY <2>5, <2>6, <3>1, <3>2
  <2>8. CASE LogTimeoutAndKill \/ ExitAnyhow
    <3>1. reply' = reply
      BY <2>8 DEF LogTimeoutAndKill, Move, ExitAnyhow, Exit, BackendOnly
    <3>2. child' = child \/ (child \in Living /\ child' \in Ended)
      BY <2>8 DEF LogTimeoutAndKill, AfterKill, ExitAnyhow, Exit, Ended
    <3>3. BackendStatus' = BackendStatus \/ (BackendStatus = "active" /\ BackendStatus' = "done")
      BY <3>2 DEF BackendStatus, Living, Ended
    <3>. QED  BY <2>2, <2>4, <3>1, <3>3
  <2>9. CASE \/ WriteInput \/ InputDone \/ SkipLine \/ TakeEvent \/ EndOfOutput \/ Timeout \/ Reap
             \/ JoinStderr \/ DrainStderr \/ Interrupt \/ Settled \/ ReadInput \/ SayAnything
             \/ CloseStdout \/ HelperStep \/ UNCHANGED vars
    <3>1. reply' = reply /\ (child' = child \/ (child = "running" /\ child' = "mute"))
      BY <2>9 DEF WriteInput, InputDone, SkipLine, TakeEvent, EndOfOutput, Timeout, Reap, JoinStderr,
         DrainStderr, Interrupt, Settled, ReadInput, SayAnything, Say, CloseStdout, HelperStep,
         BackendOnly, Move, procs, vars
    <3>2. BackendStatus' = BackendStatus
      BY <3>1 DEF BackendStatus, Living
    <3>. QED  BY <2>2, <3>1, <3>2
  <2>. QED  BY <2>3, <2>7, <2>8, <2>9 DEF Next, Call
<1>. QED  BY <1>1, <1>2, IInvHolds, PTL DEF Spec, KeepsPromise, Promise!Spec

-----------------------------------------------------------------------------
(***************************************************************************)
(* The events.  What was parsed is what was logged, at every moment; the   *)
(* list of the result is the beginning of it, except at and after the one  *)
(* await where the timer can come between the two.                         *)
(***************************************************************************)
EventRecords == { Rec("backendEvent", line) : line \in Events }

Whats(entries) == [p \in DOMAIN entries |-> entries[p].what]

HeardIsLogged == LoggedEvents = Filter(SubSeq(said, 1, heard), Events)

\* After the end of stdout nothing is unread and nobody is left to write.
NobodyWrites ==
    (pc \in {"wait", "stderr", "complete"} \/ reply = "Ok") /\ ~Logged("timeout")
        => heard = Len(said) /\ ~StdoutHeld

EventsIInv == EventsFollowLog /\ HeardIsLogged /\ NobodyWrites

LEMMA BeginningIsList ==
    ASSUME NEW T, NEW l \in Seq(T), NEW k \in 0 .. Len(l)
    PROVE  /\ SubSeq(l, 1, k) \in Seq(T) /\ Len(SubSeq(l, 1, k)) = k
           /\ \A i \in 1 .. k : SubSeq(l, 1, k)[i] = l[i]
<1>1. k \in Int /\ 1 \in Int /\ k - 1 + 1 = k /\ (1 <= k \/ k = 0) /\ \A i \in 1 .. k : l[i] \in T /\ 1 + i - 1 = i
  BY LenProperties
<1>. QED  BY <1>1, SubSeqProperties

LEMMA BeginningOfAppend ==
    ASSUME NEW T, NEW l \in Seq(T), NEW x \in T, NEW k \in 0 .. Len(l)
    PROVE  SubSeq(Append(l, x), 1, k) = SubSeq(l, 1, k)
<1>1. /\ Append(l, x) \in Seq(T) /\ k \in 0 .. Len(Append(l, x))
      /\ \A i \in 1 .. k : Append(l, x)[i] = l[i]
  BY AppendProperties, LenProperties
<1>2. /\ SubSeq(Append(l, x), 1, k) \in Seq(T) /\ Len(SubSeq(Append(l, x), 1, k)) = k
      /\ \A i \in 1 .. k : SubSeq(Append(l, x), 1, k)[i] = Append(l, x)[i]
  BY <1>1, BeginningIsList
<1>3. /\ SubSeq(l, 1, k) \in Seq(T) /\ Len(SubSeq(l, 1, k)) = k
      /\ \A i \in 1 .. k : SubSeq(l, 1, k)[i] = l[i]
  BY BeginningIsList
<1>. QED  BY <1>1, <1>2, <1>3, SeqEqual

LEMMA BeginningGrows ==
    ASSUME NEW T, NEW l \in Seq(T), NEW k \in 0 .. Len(l), k < Len(l)
    PROVE  l[k + 1] \in T /\ SubSeq(l, 1, k + 1) = Append(SubSeq(l, 1, k), l[k + 1])
<1> DEFINE a == SubSeq(l, 1, k)
           b == SubSeq(l, 1, k + 1)
           x == l[k + 1]
<1>1. k + 1 \in 0 .. Len(l) /\ x \in T /\ k \in Nat /\ \A i \in 1 .. k + 1 : i \in 1 .. k \/ i = k + 1
  BY LenProperties
<1>2. a \in Seq(T) /\ Len(a) = k /\ \A i \in 1 .. k : a[i] = l[i]
  BY BeginningIsList
<1>3. b \in Seq(T) /\ Len(b) = k + 1 /\ \A i \in 1 .. k + 1 : b[i] = l[i]
  BY <1>1, BeginningIsList
<1>4. x = l[k + 1]
  OBVIOUS
<1>. HIDE DEF a, b, x
<1>5. /\ Append(a, x) \in Seq(T) /\ Len(Append(a, x)) = k + 1
      /\ \A i \in 1 .. k : Append(a, x)[i] = a[i]
      /\ Append(a, x)[k + 1] = x
  BY <1>1, <1>2, AppendProperties
<1>6. \A i \in 1 .. k + 1 : b[i] = Append(a, x)[i]
  <2>. SUFFICES ASSUME NEW i \in 1 .. k + 1 PROVE b[i] = Append(a, x)[i]
    OBVIOUS
  <2>1. CASE i \in 1 .. k
    BY <1>2, <1>3, <1>5, <2>1
  <2>2. CASE i = k + 1
    BY <1>3, <1>4, <1>5, <2>2
  <2>. QED  BY <1>1, <2>1, <2>2
<1>7. b = Append(a, x)
  BY <1>3, <1>5, <1>6, SeqEqual
<1>. QED  BY <1>1, <1>7 DEF a, b, x

\* What the first max_events of a longer list are.
LEMMA FirstEventsOfAppend ==
    ASSUME NEW l \in Seq(Events), NEW x \in Events, launch.maxEvents \in Nat
    PROVE  /\ Len(FirstEvents(l)) < launch.maxEvents <=> Len(l) < launch.maxEvents
           /\ FirstEvents(Append(l, x)) =
                 IF Len(l) < launch.maxEvents THEN Append(FirstEvents(l), x) ELSE FirstEvents(l)
<1> DEFINE n == launch.maxEvents
           t == Append(l, x)
<1>1. /\ n \in Nat /\ Len(l) \in Nat /\ Len(l) \in 0 .. Len(l) /\ t \in Seq(Events)
      /\ Len(t) = Len(l) + 1
  BY AppendProperties, LenProperties
<1>2. CASE Len(l) < n
  <2>1. FirstEvents(l) = SubSeq(l, 1, Len(l))
    BY <1>2 DEF FirstEvents
  <2>2. FirstEvents(l) = l
    BY <2>1, SubSeqFull
  <2>3. (IF Len(t) < n THEN Len(t) ELSE n) = Len(t)
    BY <1>1, <1>2
  <2>4. FirstEvents(t) = SubSeq(t, 1, Len(t))
    BY <2>3 DEF FirstEvents
  <2>5. FirstEvents(t) = t
    BY <1>1, <2>4, SubSeqFull
  <2>. QED  BY <1>2, <2>2, <2>5
<1>3. CASE ~(Len(l) < n)
  <2>1. n \in 0 .. Len(l) /\ ~(Len(t) < n)
    BY <1>1, <1>3
  <2>2. FirstEvents(l) = SubSeq(l, 1, n) /\ FirstEvents(t) = SubSeq(t, 1, n)
    BY <1>3, <2>1 DEF FirstEvents
  <2>3. Len(SubSeq(l, 1, n)) = n /\ SubSeq(t, 1, n) = SubSeq(l, 1, n)
    <3>. HIDE DEF n
    <3>. QED  BY <2>1, BeginningIsList, BeginningOfAppend
  <2>. QED  BY <1>1, <1>3, <2>2, <2>3
<1>. QED  BY <1>2, <1>3

-----------------------------------------------------------------------------
\* A record in the log adds its event to those logged, and nothing else does.
LEMMA LoggedEventsAre ==
    ASSUME log \in Seq(Records)
    PROVE  LoggedEvents \in Seq(Events) /\ LoggedEvents = Whats(Filter(log, EventRecords))
<1>1. LoggedEvents = Whats(Filter(log, EventRecords))
  BY DEF LoggedEvents, Whats, EventRecords
<1>2. PICK e : e = Filter(log, EventRecords)
  OBVIOUS
<1>3. e \in Seq(Records \cap EventRecords)
  BY <1>2, FilterIsList
<1>4. \A p \in DOMAIN e : e[p].what \in Events
  BY <1>3, ElementOfSeq DEF EventRecords, Rec
<1>5. Whats(e) \in Seq(Events)
  BY <1>3, <1>4, LenProperties, SeqDef DEF Whats
<1>. QED  BY <1>1, <1>2, <1>5

LEMMA WhatsOfAppend ==
    ASSUME NEW e \in Seq(Records \cap EventRecords), NEW r \in Records \cap EventRecords
    PROVE  Whats(Append(e, r)) = Append(Whats(e), r.what)
<1>1. /\ Append(e, r) \in Seq(Records \cap EventRecords) /\ Len(Append(e, r)) = Len(e) + 1
      /\ \A i \in 1 .. Len(e) : Append(e, r)[i] = e[i]
      /\ Append(e, r)[Len(e) + 1] = r
  BY AppendProperties
<1>2. /\ Len(e) \in Nat /\ DOMAIN e = 1 .. Len(e) /\ DOMAIN Append(e, r) = 1 .. Len(e) + 1
      /\ \A i \in 1 .. Len(e) + 1 : i \in 1 .. Len(e) \/ i = Len(e) + 1
  BY <1>1, LenProperties
<1>3. \A i \in 1 .. Len(e) : e[i].what \in Events
  BY <1>2, ElementOfSeq DEF EventRecords, Rec
<1>4. r.what \in Events
  BY DEF EventRecords, Rec
<1>5. Whats(e) \in Seq(Events) /\ Len(Whats(e)) = Len(e) /\ \A i \in 1 .. Len(e) : Whats(e)[i] = e[i].what
  <2>1. Whats(e) = [i \in 1 .. Len(e) |-> e[i].what]
    BY <1>2 DEF Whats
  <2>. QED  BY <1>2, <1>3, <2>1
<1>6. /\ Append(Whats(e), r.what) \in Seq(Events) /\ Len(Append(Whats(e), r.what)) = Len(e) + 1
      /\ \A i \in 1 .. Len(e) : Append(Whats(e), r.what)[i] = e[i].what
      /\ Append(Whats(e), r.what)[Len(e) + 1] = r.what
  BY <1>4, <1>5, AppendProperties
<1>7. \A i \in 1 .. Len(e) + 1 : Append(e, r)[i].what = Append(Whats(e), r.what)[i]
  BY <1>1, <1>2, <1>6
<1>8. Whats(Append(e, r)) = [i \in 1 .. Len(e) + 1 |-> Append(e, r)[i].what]
  BY <1>2 DEF Whats
<1>9. PICK w \in Seq(Events) : w = Append(Whats(e), r.what)
  BY <1>6
<1>10. w = [i \in 1 .. Len(e) + 1 |-> w[i]]
  BY <1>6, <1>9, LenProperties
<1>11. [i \in 1 .. Len(e) + 1 |-> Append(e, r)[i].what] = [i \in 1 .. Len(e) + 1 |-> w[i]]
  BY <1>7, <1>9
<1>. QED  BY <1>8, <1>9, <1>10, <1>11

LEMMA EventIsLogged ==
    ASSUME log \in Seq(Records), NEW r \in Records, log' = Append(log, r)
    PROVE  LoggedEvents' = IF r \in EventRecords THEN Append(LoggedEvents, r.what) ELSE LoggedEvents
<1>1. log' \in Seq(Records)
  BY AppendProperties
<1>2. LoggedEvents' = Whats(Filter(log', EventRecords)) /\ LoggedEvents = Whats(Filter(log, EventRecords))
  BY DEF LoggedEvents, Whats, EventRecords
<1>3. PICK e : e = Filter(log, EventRecords)
  OBVIOUS
<1>4. e \in Seq(Records \cap EventRecords)
  BY <1>3, FilterIsList
<1>5. Filter(Append(log, r), EventRecords) = IF r \in EventRecords THEN Append(e, r) ELSE e
  BY <1>3, FilterOfAppend
<1>6. CASE r \in EventRecords
  BY <1>2, <1>3, <1>4, <1>5, <1>6, WhatsOfAppend
<1>7. CASE r \notin EventRecords
  BY <1>2, <1>3, <1>5, <1>7
<1>. QED  BY <1>6, <1>7

LEMMA EventsStay ==
    ASSUME log' = log
    PROVE  LoggedEvents' = LoggedEvents /\ (\A type : Logged(type)' = Logged(type))
BY DEF LoggedEvents, Logged

\* What is logged stays logged.
LEMMA LoggedStays ==
    ASSUME log \in Seq(Records), NEW r \in Records, log' = Append(log, r), NEW type
    PROVE  /\ Logged(type) => Logged(type)'
           /\ r.type = type => Logged(type)'
<1>1. /\ DOMAIN log' = 1 .. Len(log) + 1 /\ DOMAIN log = 1 .. Len(log) /\ Len(log) \in Nat
      /\ \A p \in DOMAIN log : log'[p] = log[p]
      /\ log'[Len(log) + 1] = r
  BY Appended
<1>. QED  BY <1>1 DEF Logged

\* Of a run that is parsing no timeout is in the log, and no answer was given.
LEMMA ParsingIsUntimed ==
    ASSUME IInv, pc \in {"prepare", "stdin", "parse"}
    PROVE  ~Logged("timeout") /\ reply = "none"
<1>1. \A p \in DOMAIN log : log[p].type # "timeout"
  BY LenProperties DEF IInv, TypeOK, LogFits
<1>2. reply = "none"
  BY DEF IInv, ChildFits
<1>. QED  BY <1>1, <1>2 DEF Logged

LEMMA EventsInit == Init => EventsIInv
<1>. SUFFICES ASSUME Init PROVE EventsIInv
  OBVIOUS
<1>1. log = <<>> /\ events = <<>> /\ said = <<>> /\ heard = 0 /\ reply = "none" /\ pc = "prepare"
  BY DEF Init
<1>2. launch.maxEvents \in Nat /\ <<>> \in Seq(Events) /\ <<>> \in Seq(Lines) /\ Len(<<>>) = 0
  BY LaunchesAre, EmptySeq DEF Init
<1>3. Filter(log, EventRecords) = <<>> /\ Filter(<<>>, Events) = <<>>
  BY <1>1, FilterOfEmpty
<1>4. LoggedEvents = <<>>
  <2>1. LoggedEvents \in Seq(Events) /\ LoggedEvents = Whats(<<>>)
    BY <1>1, <1>3, EmptySeq, LoggedEventsAre
  <2>2. DOMAIN LoggedEvents = {}
    BY <2>1 DEF Whats
  <2>3. Len(LoggedEvents) = 0
    BY <2>1, <2>2, LenProperties
  <2>. QED  BY <2>1, <2>3, EmptySeq
<1>5. SubSeq(said, 1, heard) = <<>>
  BY <1>1, SubSeqEmpty
<1>6. FirstEvents(<<>>) = <<>>
  <2>1. (IF Len(<<>>) < launch.maxEvents THEN Len(<<>>) ELSE launch.maxEvents) = 0
    BY <1>2
  <2>2. FirstEvents(<<>>) = SubSeq(<<>>, 1, 0)
    BY <2>1 DEF FirstEvents
  <2>. QED  BY <2>2, SubSeqEmpty
<1>. QED  BY <1>1, <1>3, <1>4, <1>5, <1>6 DEF EventsIInv, EventsFollowLog, HeardIsLogged, NobodyWrites

-----------------------------------------------------------------------------
\* The line that comes next extends what was heard.
LEMMA NextLineIsHeard ==
    ASSUME IInv, Unread, said' = said, heard' = heard + 1
    PROVE  /\ NextLine \in Lines
           /\ Filter(SubSeq(said, 1, heard), Events)' =
                 IF NextLine \in Events THEN Append(Filter(SubSeq(said, 1, heard), Events), NextLine)
                 ELSE Filter(SubSeq(said, 1, heard), Events)
<1>1. said \in Seq(Lines) /\ heard \in 0 .. Len(said) /\ heard < Len(said)
  BY DEF IInv, TypeOK, Unread
<1>2. NextLine \in Lines /\ SubSeq(said, 1, heard + 1) = Append(SubSeq(said, 1, heard), NextLine)
  BY <1>1, BeginningGrows DEF NextLine
<1>3. SubSeq(said, 1, heard) \in Seq(Lines)
  BY <1>1, BeginningIsList
<1>4. Filter(Append(SubSeq(said, 1, heard), NextLine), Events) =
         IF NextLine \in Events THEN Append(Filter(SubSeq(said, 1, heard), Events), NextLine)
         ELSE Filter(SubSeq(said, 1, heard), Events)
  BY <1>2, <1>3, FilterOfAppend
<1>5. Filter(SubSeq(said, 1, heard), Events)' = Filter(SubSeq(said, 1, heard + 1), Events)
  BY DEF Events
<1>. QED  BY <1>2, <1>4, <1>5

\* A line written later changes nothing of what was heard.
LEMMA HeardStays ==
    ASSUME IInv, heard' = heard, said' = said \/ (\E line \in Lines : said' = Append(said, line))
    PROVE  Filter(SubSeq(said, 1, heard), Events)' = Filter(SubSeq(said, 1, heard), Events)
<1>1. said \in Seq(Lines) /\ heard \in 0 .. Len(said)
  BY DEF IInv, TypeOK
<1>2. SubSeq(said', 1, heard) = SubSeq(said, 1, heard)
  BY <1>1, BeginningOfAppend
<1>. QED  BY <1>2 DEF Events

\* The last records are not events.
LEMMA EventsAtEnd ==
    ASSUME IInv, Complete \/ ProgressFails
    PROVE  LoggedEvents' = LoggedEvents /\ (\A type : Logged(type) => Logged(type)')
<1>1. log \in Seq(Records) /\ Rec("stderrSummary", "none") \in Records
  BY RecordsAre DEF IInv, TypeOK
<1>2. \E l \in {log, Append(log, Rec("stderrSummary", "none"))} :
         log' = l \/ (child \in Ended /\ log' = Append(l, Rec("completed", child)))
  BY DEF Complete, ProgressFails, Summaries, IInv, ChildFits
<1>3. PICK l \in {log, Append(log, Rec("stderrSummary", "none"))} :
         log' = l \/ (child \in Ended /\ log' = Append(l, Rec("completed", child)))
  BY <1>2
<1>4. /\ l \in Seq(Records) /\ Filter(l, EventRecords) = Filter(log, EventRecords)
      /\ \A type : Logged(type) => \E p \in DOMAIN l : l[p].type = type
  <2>1. CASE l = log
    BY <1>1, <2>1 DEF Logged
  <2>2. CASE l = Append(log, Rec("stderrSummary", "none"))
    <3>1. Rec("stderrSummary", "none") \notin EventRecords
      BY RecordsAre DEF EventRecords
    <3>2. l \in Seq(Records) /\ Filter(l, EventRecords) = Filter(log, EventRecords)
      BY <1>1, <2>2, <3>1, Appended, FilterOfAppend
    <3>3. DOMAIN log \subseteq DOMAIN l /\ \A p \in DOMAIN log : l[p] = log[p]
      BY <1>1, <2>2, Appended
    <3>. QED  BY <3>2, <3>3 DEF Logged
  <2>. QED  BY <2>1, <2>2
<1>5. /\ Filter(log', EventRecords) = Filter(log, EventRecords)
      /\ \A type : Logged(type) => \E p \in DOMAIN log' : log'[p].type = type
  <2>1. CASE log' = l
    BY <1>4, <2>1
  <2>2. CASE child \in Ended /\ log' = Append(l, Rec("completed", child))
    <3>1. Rec("completed", child) \in Records /\ Rec("completed", child) \notin EventRecords
      BY <2>2, RecordsAre DEF EventRecords
    <3>2. Filter(log', EventRecords) = Filter(log, EventRecords)
      BY <1>4, <2>2, <3>1, FilterOfAppend
    <3>3. DOMAIN l \subseteq DOMAIN log' /\ \A p \in DOMAIN l : log'[p] = l[p]
      BY <1>4, <2>2, <3>1, Appended
    <3>. QED  BY <1>4, <3>2, <3>3
  <2>. QED  BY <1>3, <2>1, <2>2
<1>6. LoggedEvents = Whats(Filter(log, EventRecords)) /\ LoggedEvents' = Whats(Filter(log', EventRecords))
  BY DEF LoggedEvents, Whats, EventRecords
<1>. QED  BY <1>5, <1>6 DEF Logged

LEMMA HeardIsLoggedKept == IInv /\ EventsIInv /\ [Next]_vars => HeardIsLogged'
<1>. SUFFICES ASSUME IInv, EventsIInv, [Next]_vars PROVE HeardIsLogged'
  OBVIOUS
<1>1. log \in Seq(Records) /\ HeardIsLogged
  BY DEF IInv, EventsIInv, TypeOK
<1>2. \A what \in Events : Rec("backendEvent", what) \in Records /\ Rec("backendEvent", what) \in EventRecords
                           /\ Rec("backendEvent", what).what = what
  BY RecordsAre DEF EventRecords, Rec
<1>3. \A r \in Records : r.type # "backendEvent" => r \notin EventRecords
  BY RecordsAre DEF EventRecords
<1>4. CASE /\ said' = said /\ Unread /\ heard' = heard + 1 /\ NextLine \in Events
           /\ log' = Append(log, Rec("backendEvent", NextLine))
  <2>1. LoggedEvents' = Append(LoggedEvents, NextLine)
    BY <1>1, <1>2, <1>4, EventIsLogged
  <2>2. Filter(SubSeq(said, 1, heard), Events)' = Append(Filter(SubSeq(said, 1, heard), Events), NextLine)
    BY <1>4, NextLineIsHeard
  <2>. QED  BY <1>1, <2>1, <2>2 DEF HeardIsLogged
<1>5. CASE SkipLine
  <2>1. LoggedEvents' = LoggedEvents
    <3>1. CASE log' = log
      BY <3>1, EventsStay
    <3>2. CASE log' = Append(log, Rec("parseError", "none"))
      BY <1>1, <1>3, <3>2, EventIsLogged, RecordsAre
    <3>. QED  BY <1>5, <3>1, <3>2 DEF SkipLine
  <2>2. Filter(SubSeq(said, 1, heard), Events)' = Filter(SubSeq(said, 1, heard), Events)
    BY <1>5, NextLineIsHeard DEF SkipLine
  <2>. QED  BY <1>1, <2>1, <2>2 DEF HeardIsLogged
<1>6. CASE /\ heard' = heard /\ (said' = said \/ (\E line \in Lines : said' = Append(said, line)))
           /\ LoggedEvents' = LoggedEvents
  BY <1>1, <1>6, HeardStays DEF HeardIsLogged
<1>7. CASE TakeEvent
  BY <1>4, <1>7 DEF TakeEvent
<1>8. CASE Timeout
  BY <1>4, <1>6, <1>8, EventsStay DEF Timeout
<1>9. CASE FailToStart \/ Start \/ LogTimeoutAndKill
  <2>1. said' = said /\ heard' = heard
    BY <1>9 DEF FailToStart, Start, LogTimeoutAndKill, output
  <2>2. log' = log \/ log' = Append(log, Rec("started", "none")) \/ log' = Append(log, Rec("timeout", "none"))
    BY <1>9 DEF FailToStart, Start, LogTimeoutAndKill
  <2>3. LoggedEvents' = LoggedEvents
    BY <1>1, <1>3, <2>2, EventsStay, EventIsLogged, RecordsAre
  <2>. QED  BY <1>6, <2>1, <2>3
<1>10. CASE Complete \/ ProgressFails
  <2>1. said' = said /\ heard' = heard
    BY <1>10 DEF Complete, ProgressFails, output
  <2>2. LoggedEvents' = LoggedEvents
    BY <1>10, EventsAtEnd
  <2>. QED  BY <1>6, <2>1, <2>2
<1>11. CASE SayAnything
  BY <1>6, <1>11, EventsStay DEF SayAnything, Say, BackendOnly
<1>12. CASE \/ WriteInput \/ InputBroken \/ InputDone \/ EndOfOutput \/ Reap \/ JoinStderr
            \/ DrainStderr \/ Interrupt \/ Settled \/ ReadInput \/ CloseStdout
            \/ ExitAnyhow \/ HelperStep \/ UNCHANGED vars
  <2>1. said' = said /\ heard' = heard /\ log' = log
    BY <1>12 DEF WriteInput, InputBroken, InputDone, EndOfOutput, Reap, JoinStderr, DrainStderr,
       Interrupt, Settled, ReadInput, BackendOnly, CloseStdout, ExitAnyhow, Exit, HelperStep, output, vars
  <2>. QED  BY <1>6, <2>1, EventsStay
<1>. QED  BY <1>5, <1>7, <1>8, <1>9, <1>10, <1>11, <1>12 DEF Next, Call

-----------------------------------------------------------------------------
\* Records are only added, so a timeout that was logged stays logged.
LEMMA LogGrows ==
    ASSUME IInv, [Next]_vars
    PROVE  Logged("timeout") => Logged("timeout")'
<1>1. log \in Seq(Records)
  BY DEF IInv, TypeOK
<1>2. ASSUME NEW r \in Records, log' = Append(log, r) PROVE Logged("timeout") => Logged("timeout")'
  BY <1>1, <1>2, LoggedStays
<1>3. CASE log' = log
  BY <1>3, EventsStay
<1>4. CASE FailToStart \/ Start
  BY <1>2, <1>3, <1>4, RecordsAre DEF FailToStart, Start
<1>5. CASE SkipLine \/ TakeEvent \/ Timeout \/ LogTimeoutAndKill
  BY <1>2, <1>3, <1>5, RecordsAre DEF SkipLine, TakeEvent, Timeout, LogTimeoutAndKill
<1>6. CASE Complete \/ ProgressFails
  BY <1>6, EventsAtEnd
<1>7. CASE \/ WriteInput \/ InputBroken \/ InputDone \/ EndOfOutput \/ Reap \/ JoinStderr
           \/ DrainStderr \/ Interrupt \/ Settled \/ ReadInput \/ SayAnything \/ CloseStdout
           \/ ExitAnyhow \/ HelperStep \/ UNCHANGED vars
  <2>1. log' = log
    BY <1>7 DEF WriteInput, InputBroken, InputDone, EndOfOutput, Reap, JoinStderr, DrainStderr,
       Interrupt, Settled, ReadInput, BackendOnly, SayAnything, Say, CloseStdout, ExitAnyhow, Exit,
       HelperStep, vars
  <2>. QED  BY <1>3, <2>1
<1>. QED  BY <1>4, <1>5, <1>6, <1>7 DEF Next, Call

\* Once nobody holds stdout nobody takes it up again: only the spawn makes a
\* child that writes, and only such a child starts a helper.
LEMMA SilenceStays ==
    ASSUME IInv, [Next]_vars, pc # "prepare", ~StdoutHeld
    PROVE  ~StdoutHeld' /\ said' = said
<1>1. CASE \/ WriteInput \/ InputBroken \/ InputDone \/ SkipLine \/ TakeEvent \/ EndOfOutput
           \/ Timeout \/ LogTimeoutAndKill \/ Reap \/ JoinStderr \/ Complete \/ ProgressFails
  BY <1>1 DEF WriteInput, InputBroken, InputDone, SkipLine, TakeEvent, EndOfOutput, Timeout,
     LogTimeoutAndKill, Reap, JoinStderr, Complete, ProgressFails, Return, AfterKill, StdoutHeld,
     procs, output
<1>2. CASE \/ DrainStderr \/ Interrupt \/ Settled \/ ReadInput \/ SayAnything \/ CloseStdout
           \/ ExitAnyhow \/ HelperStep \/ UNCHANGED vars
  BY <1>2 DEF DrainStderr, Interrupt, Settled, ReadInput, BackendOnly, SayAnything, Say,
     CloseStdout, ExitAnyhow, Exit, HelperStep, StdoutHeld, procs, output, vars
<1>3. ~FailToStart /\ ~Start
  BY DEF FailToStart, Start
<1>. QED  BY <1>1, <1>2, <1>3 DEF Next, Call

LEMMA NobodyWritesKept == IInv /\ EventsIInv /\ [Next]_vars => NobodyWrites'
<1>. SUFFICES ASSUME IInv, EventsIInv, [Next]_vars,
                     pc' \in {"wait", "stderr", "complete"} \/ reply' = "Ok", ~Logged("timeout")'
              PROVE  heard' = Len(said') /\ ~StdoutHeld'
  BY DEF NobodyWrites
<1>1. ~Logged("timeout") /\ said \in Seq(Lines) /\ heard \in 0 .. Len(said) /\ Len(said) \in Nat
  BY LogGrows, LenProperties DEF IInv, TypeOK
<1>2. CASE EndOfOutput
  BY <1>1, <1>2, LenProperties DEF EndOfOutput, OutputEnds, Unread, StdoutHeld, procs, output
<1>3. CASE LogTimeoutAndKill
  <2>1. log \in Seq(Records) /\ Rec("timeout", "none") \in Records /\ Rec("timeout", "none").type = "timeout"
        /\ log' = Append(log, Rec("timeout", "none"))
    BY <1>3, RecordsAre DEF LogTimeoutAndKill, IInv, TypeOK
  <2>2. Logged("timeout")'
    BY <2>1, LoggedStays
  <2>. QED  BY <2>2
<1>4. CASE ~EndOfOutput /\ ~LogTimeoutAndKill
  <2>1. /\ pc \in {"wait", "stderr", "complete"} \/ reply = "Ok"
        /\ heard' = heard
    <3>1. CASE FailToStart \/ Start \/ WriteInput \/ InputBroken \/ InputDone \/ SkipLine \/ TakeEvent \/ Timeout
      BY <3>1 DEF IInv, ChildFits, FailToStart, Start, WriteInput, InputBroken, InputDone, SkipLine,
         TakeEvent, Timeout, Move, Return, output
    <3>2. CASE Reap \/ JoinStderr \/ Complete \/ ProgressFails
      BY <3>2 DEF Reap, JoinStderr, Complete, ProgressFails, Move, Return, output
    <3>3. CASE \/ DrainStderr \/ Interrupt \/ Settled \/ ReadInput \/ SayAnything \/ CloseStdout
               \/ ExitAnyhow \/ HelperStep \/ UNCHANGED vars
      BY <3>3 DEF DrainStderr, Interrupt, Settled, ReadInput, BackendOnly, SayAnything, Say,
         CloseStdout, ExitAnyhow, Exit, HelperStep, output, vars
    <3>. QED  BY <1>4, <3>1, <3>2, <3>3 DEF Next, Call
  <2>2. pc # "prepare"
    BY <2>1 DEF IInv, ChildFits
  <2>3. heard = Len(said) /\ ~StdoutHeld
    BY <1>1, <2>1 DEF EventsIInv, NobodyWrites
  <2>. QED  BY <2>1, <2>2, <2>3, SilenceStays
<1>. QED  BY <1>2, <1>3, <1>4

LEMMA EventsFollowLogKept == IInv /\ EventsIInv /\ [Next]_vars => EventsFollowLog'
<1>. SUFFICES ASSUME IInv, EventsIInv, [Next]_vars PROVE EventsFollowLog'
  OBVIOUS
<1>1. /\ log \in Seq(Records) /\ events \in Seq(Events) /\ launch.maxEvents \in Nat
      /\ EventsFollowLog /\ LoggedEvents \in Seq(Events)
  BY LaunchesAre, LoggedEventsAre DEF IInv, EventsIInv, TypeOK
<1>2. \A what \in Events : Rec("backendEvent", what) \in Records /\ Rec("backendEvent", what) \in EventRecords
                           /\ Rec("backendEvent", what).what = what
  BY RecordsAre DEF EventRecords, Rec
<1>3. \A r \in Records : r.type # "backendEvent" => r \notin EventRecords
  BY RecordsAre DEF EventRecords
<1>4. ASSUME launch' = launch, events' = events, LoggedEvents' = LoggedEvents,
             (pc = "timeout" \/ Logged("timeout") \/ reply = "Err")
                => (pc' = "timeout" \/ Logged("timeout")' \/ reply' = "Err")
      PROVE  EventsFollowLog'
  <2>1. FirstEvents(LoggedEvents)' = FirstEvents(LoggedEvents)
        /\ FirstEvents(Front(LoggedEvents))' = FirstEvents(Front(LoggedEvents))
    BY <1>4 DEF FirstEvents, Front
  <2>. QED  BY <1>1, <1>4, <2>1 DEF EventsFollowLog
<1>5. ASSUME pc \in {"prepare", "stdin", "parse"} PROVE events = FirstEvents(LoggedEvents)
  BY <1>1, <1>5, ParsingIsUntimed DEF EventsFollowLog
<1>6. CASE TakeEvent
  <2>1. PICK line \in Events : line = NextLine
    BY <1>6 DEF TakeEvent
  <2>2. events = FirstEvents(LoggedEvents) /\ launch' = launch
    BY <1>5, <1>6 DEF TakeEvent
  <2>3. LoggedEvents' = Append(LoggedEvents, line)
    BY <1>1, <1>2, <1>6, <2>1, EventIsLogged DEF TakeEvent
  <2>4. /\ Len(events) < launch.maxEvents <=> Len(LoggedEvents) < launch.maxEvents
        /\ FirstEvents(Append(LoggedEvents, line)) =
              IF Len(LoggedEvents) < launch.maxEvents THEN Append(events, line) ELSE events
    BY <1>1, <2>2, FirstEventsOfAppend
  <2>5. events' = IF Len(events) < launch.maxEvents THEN Append(events, line) ELSE events
    BY <1>6, <2>1 DEF TakeEvent, Kept, HasRoom
  <2>6. events' = FirstEvents(Append(LoggedEvents, line))
    BY <2>4, <2>5
  <2>7. FirstEvents(LoggedEvents)' = FirstEvents(Append(LoggedEvents, line))
    BY <2>2, <2>3 DEF FirstEvents
  <2>. QED  BY <2>6, <2>7 DEF EventsFollowLog
<1>7. CASE Timeout
  <2>1. pc' = "timeout" /\ events' = events /\ launch' = launch /\ events = FirstEvents(LoggedEvents)
    BY <1>5, <1>7 DEF Timeout, Move, result
  <2>2. CASE log' = log
    BY <1>4, <2>1, <2>2, EventsStay
  <2>3. CASE Unread /\ NextLine \in Events /\ log' = Append(log, Rec("backendEvent", NextLine))
    <3>1. PICK line \in Events : line = NextLine
      BY <2>3
    <3>2. LoggedEvents' = Append(LoggedEvents, line)
      BY <1>1, <1>2, <2>3, <3>1, EventIsLogged
    <3>3. /\ Append(LoggedEvents, line) \in Seq(Events)
          /\ Len(Append(LoggedEvents, line)) - 1 = Len(LoggedEvents)
          /\ Len(LoggedEvents) \in 0 .. Len(LoggedEvents)
      BY <1>1, AppendProperties, LenProperties
    <3>4. SubSeq(Append(LoggedEvents, line), 1, Len(LoggedEvents)) = SubSeq(LoggedEvents, 1, Len(LoggedEvents))
      BY <1>1, <3>3, BeginningOfAppend
    <3>5. SubSeq(Append(LoggedEvents, line), 1, Len(LoggedEvents)) = LoggedEvents
      BY <1>1, <3>4, SubSeqFull
    <3>6. Front(Append(LoggedEvents, line)) = LoggedEvents
      BY <3>3, <3>5 DEF Front
    <3>7. Front(LoggedEvents)' = LoggedEvents
      BY <3>2, <3>6 DEF Front
    <3>8. FirstEvents(Front(LoggedEvents))' = FirstEvents(LoggedEvents)
      BY <2>1, <3>7 DEF FirstEvents
    <3>. QED  BY <2>1, <3>8 DEF EventsFollowLog
  <2>. QED  BY <1>7, <2>2, <2>3 DEF Timeout
<1>8. CASE LogTimeoutAndKill
  <2>1. Logged("timeout")' /\ launch' = launch /\ events' = events
    BY <1>1, <1>8, LoggedStays, RecordsAre DEF LogTimeoutAndKill, result
  <2>2. LoggedEvents' = LoggedEvents
    BY <1>1, <1>3, <1>8, EventIsLogged, RecordsAre DEF LogTimeoutAndKill
  <2>. QED  BY <1>4, <2>1, <2>2
<1>9. CASE Complete \/ ProgressFails
  <2>1. LoggedEvents' = LoggedEvents /\ (Logged("timeout") => Logged("timeout")')
    BY <1>9, EventsAtEnd
  <2>2. launch' = launch /\ events' = events
    BY <1>9 DEF Complete, ProgressFails, result
  <2>3. pc = "timeout" => reply' = "Err"
    BY <1>9 DEF Complete, ProgressFails, Return
  <2>4. reply = "none"
    BY <1>9 DEF Complete, ProgressFails, IInv, ChildFits
  <2>. QED  BY <1>4, <2>1, <2>2, <2>3, <2>4
<1>10. CASE FailToStart \/ Start \/ SkipLine
  <2>1. launch' = launch /\ events' = events /\ pc \in {"prepare", "parse"}
    BY <1>10 DEF FailToStart, Start, SkipLine, result
  <2>2. /\ log' = log \/ (\E type \in {"started", "parseError"} : log' = Append(log, Rec(type, "none")))
    BY <1>10 DEF FailToStart, Start, SkipLine
  <2>3. LoggedEvents' = LoggedEvents
    BY <1>1, <1>3, <2>2, EventsStay, EventIsLogged, RecordsAre
  <2>4. ~(pc = "timeout" \/ Logged("timeout") \/ reply = "Err")
    BY <2>1, ParsingIsUntimed
  <2>. QED  BY <1>4, <2>1, <2>3, <2>4
<1>11. CASE \/ WriteInput \/ InputBroken \/ InputDone \/ EndOfOutput \/ Reap \/ JoinStderr
            \/ DrainStderr \/ Interrupt \/ Settled \/ ReadInput \/ SayAnything \/ CloseStdout
            \/ ExitAnyhow \/ HelperStep \/ UNCHANGED vars
  <2>1. launch' = launch /\ events' = events /\ log' = log
    BY <1>11 DEF WriteInput, InputBroken, InputDone, EndOfOutput, Reap, JoinStderr, DrainStderr,
       Interrupt, Settled, ReadInput, BackendOnly, SayAnything, Say, CloseStdout, ExitAnyhow, Exit,
       HelperStep, result, vars
  <2>2. (pc = "timeout" => pc' = "timeout") /\ (reply = "Err" => reply' = "Err")
    BY <1>11 DEF WriteInput, InputBroken, InputDone, EndOfOutput, Reap, JoinStderr, DrainStderr,
       Interrupt, Settled, ReadInput, BackendOnly, SayAnything, Say, CloseStdout, ExitAnyhow, Exit,
       HelperStep, Move, Return, vars, IInv, ChildFits
  <2>. QED  BY <1>4, <2>1, <2>2, EventsStay
<1>. QED  BY <1>6, <1>7, <1>8, <1>9, <1>10, <1>11 DEF Next, Call

\* What the two theorems below rest on.
THEOREM EventsInvariant == Spec => []EventsIInv
<1>1. IInv /\ EventsIInv /\ [Next]_vars => EventsIInv'
  BY HeardIsLoggedKept, NobodyWritesKept, EventsFollowLogKept DEF EventsIInv
<1>. QED  BY <1>1, EventsInit, IInvHolds, PTL DEF Spec

\* The events of a result are the first max_events of those in the progress
\* file; one may be lost between the two, and only to the timer.
THEOREM EventsAreThoseLogged == Spec => []EventsFollowLog
<1>1. EventsIInv => EventsFollowLog
  BY DEF EventsIInv
<1>. QED  BY <1>1, EventsInvariant, PTL

\* Ok without a timeout has every event that was ever written, by the backend
\* or by a helper it left behind, up to max_events: no line is lost, repeated
\* or out of its order, and none comes after the end that was seen.
THEOREM OkHasEveryEvent == Spec => []EventsComplete
<1>1. IInv /\ EventsIInv => EventsComplete
  <2>. SUFFICES ASSUME IInv, EventsIInv, reply = "Ok", ~Logged("timeout")
                PROVE  events = FirstEvents(Filter(said, Events))
    BY DEF EventsComplete
  <2>1. pc = "returned" /\ said \in Seq(Lines)
    BY DEF IInv, ChildFits, TypeOK
  <2>2. events = FirstEvents(LoggedEvents)
    BY <2>1 DEF EventsIInv, EventsFollowLog
  <2>3. SubSeq(said, 1, heard) = said
    BY <2>1, SubSeqFull DEF EventsIInv, NobodyWrites
  <2>4. LoggedEvents = Filter(said, Events)
    BY <2>3 DEF EventsIInv, HeardIsLogged
  <2>. QED  BY <2>2, <2>4
<1>. QED  BY <1>1, EventsInvariant, IInvHolds, PTL

-----------------------------------------------------------------------------
(***************************************************************************)
(* A run cannot go on for ever, and where it can be held up is known.      *)
(* What is left is counted: places of the call, units of input to write    *)
(* and to read, lines to write and to parse, and what may still become of  *)
(* the backend, its helper, the stderr task and the signal.                *)
(***************************************************************************)
PlacesLeft == [ prepare |-> 7, stdin |-> 6, parse |-> 5, timeout |-> 4, wait |-> 3,
                stderr |-> 2, complete |-> 1, returned |-> 0 ][pc]

InputLeft == (launch.input - sent) + (launch.input - consumed)

LinesLeft == (MaxLines - Len(said)) + (MaxLines - heard)

ChildLeft == [ none |-> 4, running |-> 3, mute |-> 2, doomed |-> 1,
               success |-> 0, failure |-> 0, killed |-> 0 ][child]

OthersLeft == [ none |-> 2, alive |-> 1, gone |-> 0 ][helper]
              + [ off |-> 2, reading |-> 1, truncated |-> 0, done |-> 0 ][errReader]
              + (IF signalled THEN 0 ELSE 1)

StepsLeft == PlacesLeft + InputLeft + LinesLeft + ChildLeft + OthersLeft

\* Where the stderr task runs, and what the call may find at its wait.
WaitsFit ==
    /\ Len(said) <= MaxLines
    /\ pc \in {"prepare", "stdin"} => errReader = "off"
    /\ pc \in {"parse", "timeout", "wait", "stderr", "complete"} => errReader # "off"
    /\ child = "doomed" => pc = "returned"
    /\ pc = "wait" => child \in Ended \cup {"mute"}

EndIInv == IInv /\ WaitsFit

LEMMA StepsAreCounted ==
    ASSUME EndIInv
    PROVE  /\ PlacesLeft \in Nat /\ InputLeft \in Nat /\ LinesLeft \in Nat
           /\ ChildLeft \in Nat /\ OthersLeft \in Nat /\ StepsLeft \in Nat
<1> USE DEF EndIInv, IInv, WaitsFit
<1>1. PlacesLeft \in Nat
  BY DEF TypeOK, PlacesLeft
<1>2. InputLeft \in Nat
  BY LaunchesAre DEF TypeOK, InputLeft
<1>3. LinesLeft \in Nat
  BY LaunchAssumption, LenProperties DEF TypeOK, LinesLeft
<1>4. ChildLeft \in Nat
  BY DEF TypeOK, ChildLeft, Living, Ended
<1>5. OthersLeft \in Nat
  BY DEF TypeOK, OthersLeft
<1> QED
  BY <1>1, <1>2, <1>3, <1>4, <1>5 DEF StepsLeft

LEMMA EndKept == EndIInv /\ [Next]_vars => EndIInv'
<1> SUFFICES ASSUME EndIInv, [Next]_vars PROVE EndIInv'
  OBVIOUS
<1> USE DEF EndIInv, WaitsFit
<1>1. IInv'
  BY TypesKept, LogFitsKept, ChildFitsKept DEF IInv
<1>2. Len(said') <= MaxLines
  <2>1. CASE SayAnything
    <3>1. PICK line \in Lines : said' = Append(said, line) /\ Len(said) < MaxLines
      BY <2>1 DEF SayAnything, Say
    <3>2. Len(said') = Len(said) + 1 /\ Len(said) \in Nat
      BY <3>1, AppendProperties, LenProperties DEF IInv, TypeOK
    <3> QED
      BY <3>1, <3>2, LaunchAssumption
  <2>2. CASE ~SayAnything
    <3>1. said' = said
      BY <2>2 DEF Next, Call, vars, output, FailToStart, Start, WriteInput, InputBroken, InputDone,
         SkipLine, TakeEvent, EndOfOutput, Timeout, LogTimeoutAndKill, Reap, JoinStderr, Complete,
         ProgressFails, DrainStderr, ReadInput, CloseStdout, ExitAnyhow, Exit, HelperStep,
         Interrupt, Settled
    <3> QED
      BY <3>1
  <2> QED
    BY <2>1, <2>2
<1>3. /\ pc' \in {"prepare", "stdin"} => errReader' = "off"
      /\ pc' \in {"parse", "timeout", "wait", "stderr", "complete"} => errReader' # "off"
  BY DEF Next, Call, vars, FailToStart, Start, WriteInput, InputBroken, InputDone,
     SkipLine, TakeEvent, EndOfOutput, Timeout, LogTimeoutAndKill, Reap, JoinStderr, Complete,
     ProgressFails, DrainStderr, ReadInput, BackendOnly, SayAnything, Say, CloseStdout,
     ExitAnyhow, Exit, HelperStep, Interrupt, Settled, Move, Return
<1>4. (child' = "doomed" => pc' = "returned") /\ (pc' = "wait" => child' \in Ended \cup {"mute"})
  <2> USE DEF Living, Ended, IInv, TypeOK, ChildFits
  <2>1. CASE FailToStart \/ Start \/ WriteInput \/ InputBroken \/ InputDone \/ SkipLine \/ TakeEvent
    BY <2>1 DEF FailToStart, Start, WriteInput, InputBroken, InputDone, SkipLine, TakeEvent, procs,
       Move, Return
  <2>2. CASE EndOfOutput \/ Timeout \/ LogTimeoutAndKill \/ Reap \/ JoinStderr
    BY <2>2 DEF EndOfOutput, OutputEnds, StdoutHeld, Timeout, LogTimeoutAndKill, Reap, JoinStderr,
       procs, Move, AfterKill, NotEnded
  <2>3. CASE Complete \/ ProgressFails
    BY <2>3 DEF Complete, ProgressFails, Return
  <2>4. CASE \/ DrainStderr \/ Interrupt \/ Settled \/ ReadInput \/ SayAnything \/ CloseStdout
             \/ ExitAnyhow \/ HelperStep \/ UNCHANGED vars
    BY <2>4 DEF DrainStderr, Interrupt, Settled, ReadInput, BackendOnly, SayAnything, Say,
       CloseStdout, ExitAnyhow, Exit, HelperStep, procs, vars
  <2> QED
    BY <2>1, <2>2, <2>3, <2>4 DEF Next, Call
<1> QED
  BY <1>1, <1>2, <1>3, <1>4

LEMMA NextAreCounted ==
    ASSUME EndIInv'
    PROVE  /\ PlacesLeft' \in Nat /\ InputLeft' \in Nat /\ LinesLeft' \in Nat
           /\ ChildLeft' \in Nat /\ OthersLeft' \in Nat
<1>1. PlacesLeft' \in Nat
  BY DEF TypeOK, PlacesLeft, EndIInv, IInv
<1>2. ChildLeft' \in Nat /\ OthersLeft' \in Nat
  BY DEF TypeOK, ChildLeft, OthersLeft, Living, Ended, EndIInv, IInv
<1>3. InputLeft' \in Nat
  <2>1. launch' \in Launches /\ sent' \in 0 .. launch'.input /\ consumed' \in 0 .. sent'
    BY DEF TypeOK, EndIInv, IInv
  <2>2. launch'.input \in Nat
    BY <2>1, LaunchAssumption DEF Launch
  <2> QED
    BY <2>1, <2>2 DEF InputLeft
<1>4. LinesLeft' \in Nat
  <2>1. Len(said') \in Nat /\ heard' \in 0 .. Len(said') /\ Len(said') <= MaxLines
    BY LenProperties DEF TypeOK, EndIInv, IInv, WaitsFit
  <2> QED
    BY <2>1, LaunchAssumption DEF LinesLeft
<1> QED
  BY <1>1, <1>2, <1>3, <1>4

LEMMA LessIsLeft ==
    ASSUME EndIInv, EndIInv',
           PlacesLeft' <= PlacesLeft, InputLeft' <= InputLeft, LinesLeft' <= LinesLeft,
           ChildLeft' <= ChildLeft, OthersLeft' <= OthersLeft,
           \/ PlacesLeft' < PlacesLeft \/ InputLeft' < InputLeft \/ LinesLeft' < LinesLeft
           \/ ChildLeft' < ChildLeft \/ OthersLeft' < OthersLeft
    PROVE  StepsLeft' < StepsLeft
<1>1. StepsLeft = PlacesLeft + InputLeft + LinesLeft + ChildLeft + OthersLeft
  BY DEF StepsLeft
<1>2. StepsLeft' = PlacesLeft' + InputLeft' + LinesLeft' + ChildLeft' + OthersLeft'
  BY DEF StepsLeft
<1>3. \A p, i, l, c, o, pp, ii, ll, cc, oo \in Nat :
          (/\ pp <= p /\ ii <= i /\ ll <= l /\ cc <= c /\ oo <= o
           /\ pp < p \/ ii < i \/ ll < l \/ cc < c \/ oo < o)
              => pp + ii + ll + cc + oo < p + i + l + c + o
  OBVIOUS
<1> QED
  BY <1>1, <1>2, <1>3, StepsAreCounted, NextAreCounted

LEMMA StepsGetFewer ==
    ASSUME EndIInv, EndIInv', Next, ~UNCHANGED vars
    PROVE  StepsLeft' < StepsLeft
<1>1. TypeOK /\ ChildFits /\ Len(said) \in Nat
  BY LenProperties DEF EndIInv, IInv, TypeOK
<1>0. WaitsFit
  BY DEF EndIInv
<1>2. /\ PlacesLeft \in Nat /\ InputLeft \in Nat /\ LinesLeft \in Nat
      /\ ChildLeft \in Nat /\ OthersLeft \in Nat
      /\ PlacesLeft' \in Nat /\ InputLeft' \in Nat /\ LinesLeft' \in Nat
      /\ ChildLeft' \in Nat /\ OthersLeft' \in Nat
  BY StepsAreCounted, NextAreCounted
<1>3. ASSUME UNCHANGED pc PROVE PlacesLeft' = PlacesLeft
  BY <1>3 DEF PlacesLeft
<1>4. ASSUME UNCHANGED <<launch, input>> PROVE InputLeft' = InputLeft
  BY <1>4 DEF InputLeft, input
<1>5. ASSUME UNCHANGED output PROVE LinesLeft' = LinesLeft
  BY <1>5 DEF LinesLeft, output
<1>6. ASSUME UNCHANGED child PROVE ChildLeft' = ChildLeft
  BY <1>6 DEF ChildLeft
<1>7. ASSUME UNCHANGED <<helper, errReader, signalled>> PROVE OthersLeft' = OthersLeft
  BY <1>7 DEF OthersLeft
<1>8. ASSUME child' = IF signalled /\ child \in Living THEN "doomed" ELSE child
      PROVE  ChildLeft' <= ChildLeft
  BY <1>1, <1>8 DEF ChildLeft, TypeOK, Living, Ended
<1>9. ASSUME UNCHANGED said, heard < Len(said), heard' = heard + 1
      PROVE  LinesLeft' < LinesLeft
  BY <1>0, <1>1, <1>9, LaunchAssumption DEF LinesLeft, TypeOK, WaitsFit
<1>10. launch.input \in Nat
  BY <1>1, LaunchesAre DEF TypeOK
<1>11. CASE FailToStart \/ InputBroken \/ Complete \/ ProgressFails
  <2>1. /\ pc # "returned" /\ pc' = "returned" /\ UNCHANGED <<launch, input, output, helper, errReader, signalled>>
        /\ child' = IF signalled /\ child \in Living THEN "doomed" ELSE child
    BY <1>11 DEF FailToStart, InputBroken, Complete, ProgressFails, Return, result
  <2>2. PlacesLeft' < PlacesLeft
    BY <1>1, <2>1 DEF PlacesLeft, TypeOK
  <2> QED
    BY <1>2, <1>4, <1>5, <1>7, <1>8, <2>1, <2>2, LessIsLeft
<1>12. CASE Start
  <2>1. /\ pc = "prepare" /\ pc' = "stdin" /\ child = "none" /\ child' = "running"
        /\ UNCHANGED <<launch, input, output, helper, errReader, signalled>>
    BY <1>1, <1>12 DEF Start, Move, ChildFits, result
  <2>2. PlacesLeft' < PlacesLeft /\ ChildLeft' < ChildLeft
    BY <2>1 DEF PlacesLeft, ChildLeft
  <2> QED
    BY <1>2, <1>4, <1>5, <1>7, <2>1, <2>2, LessIsLeft
<1>13. CASE WriteInput
  <2>1. sent < launch.input /\ sent' = sent + 1 /\ consumed' = consumed /\ launch' = launch
    BY <1>13 DEF WriteInput, result
  <2>2. UNCHANGED <<pc, output, child, helper, errReader, signalled>>
    BY <1>13 DEF WriteInput, procs
  <2>3. InputLeft' < InputLeft
    BY <1>1, <1>10, <2>1 DEF InputLeft, TypeOK
  <2> QED
    BY <1>2, <1>3, <1>5, <1>6, <1>7, <2>2, <2>3, LessIsLeft
<1>14. CASE InputDone
  <2>1. /\ pc = "stdin" /\ pc' = "parse" /\ errReader' = "reading"
        /\ UNCHANGED <<launch, input, output, child, helper, signalled>>
    BY <1>14 DEF InputDone, Move, result, procs
  <2>2. errReader = "off"
    BY <1>0, <1>14 DEF InputDone, WaitsFit
  <2>3. PlacesLeft' < PlacesLeft
    BY <2>1 DEF PlacesLeft
  <2>4. OthersLeft' <= OthersLeft
    BY <1>1, <2>1, <2>2 DEF OthersLeft, TypeOK
  <2> QED
    BY <1>2, <1>4, <1>5, <1>6, <2>1, <2>3, <2>4, LessIsLeft
<1>15. CASE SkipLine \/ TakeEvent
  <2>1. /\ heard < Len(said) /\ heard' = heard + 1
        /\ UNCHANGED <<launch, input, said, pc, child, helper, errReader, signalled>>
    BY <1>15 DEF SkipLine, TakeEvent, Unread, result, procs
  <2> QED
    BY <1>2, <1>3, <1>4, <1>6, <1>7, <1>9, <2>1, LessIsLeft
<1>16. CASE Timeout
  <2>1. /\ pc = "parse" /\ pc' = "timeout" /\ said' = said
        /\ heard' = heard \/ (heard < Len(said) /\ heard' = heard + 1)
        /\ UNCHANGED <<launch, input, child, helper, errReader, signalled>>
    BY <1>16 DEF Timeout, Unread, Move, result, procs
  <2>2. PlacesLeft' < PlacesLeft
    BY <2>1 DEF PlacesLeft
  <2>3. LinesLeft' <= LinesLeft
    <3>1. CASE heard' = heard
      BY <1>2, <1>5, <2>1, <3>1 DEF output
    <3>2. CASE heard < Len(said) /\ heard' = heard + 1
      <4>1. LinesLeft' < LinesLeft
        BY <1>9, <2>1, <3>2
      <4> QED
        BY <1>2, <4>1
    <3> QED
      BY <2>1, <3>1, <3>2
  <2> QED
    BY <1>2, <1>4, <1>6, <1>7, <2>1, <2>2, <2>3, LessIsLeft
<1>17. CASE EndOfOutput \/ Reap \/ JoinStderr
  <2>1. /\ \/ pc = "parse" /\ pc' = "wait"
           \/ pc = "wait" /\ pc' = "stderr"
           \/ pc = "stderr" /\ pc' = "complete"
        /\ UNCHANGED <<launch, input, output, child, helper, errReader, signalled>>
    BY <1>17 DEF EndOfOutput, Reap, JoinStderr, Move, result, procs
  <2>2. PlacesLeft' < PlacesLeft
    BY <2>1 DEF PlacesLeft
  <2> QED
    BY <1>2, <1>4, <1>5, <1>6, <1>7, <2>1, <2>2, LessIsLeft
<1>18. CASE LogTimeoutAndKill
  <2>1. /\ pc = "timeout" /\ pc' = "wait"
        /\ child' = IF child \in Living THEN "killed" ELSE child
        /\ UNCHANGED <<launch, input, output, helper, errReader, signalled>>
    BY <1>18 DEF LogTimeoutAndKill, AfterKill, Move, result
  <2>2. PlacesLeft' < PlacesLeft
    BY <2>1 DEF PlacesLeft
  <2>3. ChildLeft' <= ChildLeft
    BY <1>1, <2>1 DEF ChildLeft, TypeOK, Living, Ended
  <2> QED
    BY <1>2, <1>4, <1>5, <1>7, <2>1, <2>2, <2>3, LessIsLeft
<1>19. CASE DrainStderr \/ Interrupt
  <2>1. /\ UNCHANGED <<launch, input, output, pc, child, helper>>
        /\ \/ errReader = "reading" /\ errReader' \in {"done", "truncated"} /\ signalled' = signalled
           \/ ~signalled /\ signalled' = TRUE /\ errReader' = errReader
    BY <1>19 DEF DrainStderr, Interrupt, result, procs
  <2>2. OthersLeft' < OthersLeft
    BY <1>1, <2>1 DEF OthersLeft, TypeOK
  <2> QED
    BY <1>2, <1>3, <1>4, <1>5, <1>6, <2>1, <2>2, LessIsLeft
<1>20. CASE ReadInput
  <2>1. /\ consumed < sent /\ consumed' = consumed + 1
        /\ UNCHANGED <<launch, sent, output, pc, child, helper, errReader, signalled>>
    BY <1>20 DEF ReadInput, BackendOnly, result, procs, output
  <2>2. InputLeft' < InputLeft
    BY <1>1, <1>10, <2>1 DEF InputLeft, TypeOK
  <2> QED
    BY <1>2, <1>3, <1>5, <1>6, <1>7, <2>1, <2>2, LessIsLeft
<1>21. CASE SayAnything
  <2>1. PICK line \in Lines : said' = Append(said, line) /\ Len(said) < MaxLines
    BY <1>21 DEF SayAnything, Say
  <2>2. UNCHANGED <<launch, input, heard, pc, child, helper, errReader, signalled>>
    BY <1>21 DEF SayAnything, Say, BackendOnly, result, procs, input
  <2>3. Len(said') = Len(said) + 1
    BY <1>1, <2>1, AppendProperties DEF TypeOK
  <2>4. LinesLeft' < LinesLeft
    BY <1>0, <1>1, <2>2, <2>3, LaunchAssumption DEF LinesLeft, TypeOK, WaitsFit
  <2> QED
    BY <1>2, <1>3, <1>4, <1>6, <1>7, <2>2, <2>4, LessIsLeft
<1>22. CASE CloseStdout \/ ExitAnyhow
  <2>1. /\ UNCHANGED <<launch, input, output, pc, helper, errReader, signalled>>
        /\ \/ child = "running" /\ child' = "mute"
           \/ child \in Living /\ child' \in Ended
    BY <1>22 DEF CloseStdout, ExitAnyhow, Exit, BackendOnly, result, input, output, Ended
  <2>2. ChildLeft' < ChildLeft
    BY <2>1 DEF ChildLeft, Living, Ended
  <2> QED
    BY <1>2, <1>3, <1>4, <1>5, <1>7, <2>1, <2>2, LessIsLeft
<1>23. CASE HelperStep
  <2>1. /\ UNCHANGED <<launch, input, output, pc, child, errReader, signalled>>
        /\ \/ helper = "none" /\ helper' = "alive"
           \/ helper = "alive" /\ helper' = "gone"
    BY <1>23 DEF HelperStep, BackendOnly, result, input, output
  <2>2. OthersLeft' < OthersLeft
    BY <1>1, <2>1 DEF OthersLeft, TypeOK
  <2> QED
    BY <1>2, <1>3, <1>4, <1>5, <1>6, <2>1, <2>2, LessIsLeft
<1> QED
  BY <1>11, <1>12, <1>13, <1>14, <1>15, <1>16, <1>17, <1>18, <1>19, <1>20, <1>21, <1>22, <1>23
  DEF Next, Call, Settled

LEMMA EndInit == Init => EndIInv
<1> SUFFICES ASSUME Init PROVE EndIInv
  OBVIOUS
<1>1. IInv
  BY InitIInv
<1>2. Len(said) <= MaxLines
  BY LaunchAssumption, EmptySeq DEF Init
<1> QED
  BY <1>1, <1>2 DEF Init, EndIInv, WaitsFit

\* The call finds its stderr task and its backend as StepsLeft needs them.
THEOREM EndInvariant == Spec => []EndIInv
BY EndInit, EndKept, PTL DEF Spec

\* Whatever the backend, its helper, the timer and signals do: every step of a
\* run leaves fewer to come.  It cannot turn in a circle; it can only wait.
THEOREM RunEnds ==
    Spec => [](StepsLeft \in Nat) /\ [][StepsLeft' < StepsLeft]_vars
<1>1. EndIInv => StepsLeft \in Nat
  BY StepsAreCounted
<1>2. EndIInv /\ EndIInv' /\ [Next]_vars => [StepsLeft' < StepsLeft]_vars
  BY StepsGetFewer
<1> QED
  BY <1>1, <1>2, EndInvariant, PTL DEF Spec

\* What the call waits for at each place: for nobody but its timer where the
\* timeout covers it, and otherwise for the three that Held names.
OnlyHeldWaits ==
    pc # "returned" /\ ~Held =>
        \/ pc \in {"prepare", "parse", "timeout", "complete"}
        \/ pc = "stdin" /\ \/ sent = launch.input \/ child \in Ended
                           \/ sent - consumed < PipeSize
                           \/ consumed < sent /\ ~launch.talksFirst /\ ~launch.lingers
        \/ pc = "wait" /\ child \in Ended
        \/ pc = "stderr" /\ errReader # "off" /\ child \in Ended /\ helper # "alive"

\* The call is never stuck for another reason: at the wait the backend ended or
\* closed its stdout, at the stderr task it was reaped, so that only a helper
\* can hold the pipe.
THEOREM WaitsAreKnown == Spec => []OnlyHeldWaits
<1>1. EndIInv => OnlyHeldWaits
  <2> SUFFICES ASSUME EndIInv, pc # "returned", ~Held,
                      pc \notin {"prepare", "parse", "timeout", "complete"}
               PROVE  OnlyHeldWaits
    BY DEF OnlyHeldWaits
  <2> USE DEF EndIInv, IInv, WaitsFit, ChildFits, TypeOK, Held, Living, Ended
  <2>1. CASE pc = "stdin"
    <3>1. sent \in Nat /\ consumed \in Nat /\ PipeSize \in Nat \ {0}
      BY LaunchesAre, LaunchAssumption
    <3> QED
      BY <2>1, <3>1 DEF OnlyHeldWaits
  <2>2. CASE pc = "wait"
    BY <2>2 DEF OnlyHeldWaits
  <2>3. CASE pc = "stderr"
    BY <2>3 DEF OnlyHeldWaits
  <2> QED
    BY <2>1, <2>2, <2>3
<1> QED
  BY <1>1, EndInvariant, PTL
=============================================================================
