---------------------------- MODULE ProgressFile ----------------------------
(***************************************************************************)
(* The progress file (ProgressWriter in subprocess.rs) that several runs   *)
(* of run_subprocess append to: the tasks of a parallel call inherit one   *)
(* path, and each opens it for itself.                                     *)
(*                                                                         *)
(* A record goes out as two writes, its text and a newline.  tokio hands   *)
(* a write to a thread of its pool and takes the next one when that is     *)
(* done, so a write happens even when the future that asked for it is      *)
(* dropped: by the timeout, that drops the loop that logs the events.      *)
(***************************************************************************)
EXTENDS Naturals, Sequences

CONSTANTS Runs,          \* the runs that share the file
          MaxRecords     \* bound: records of a run

VARIABLES
    file,      \* the pieces in the file: a record's number, or a newline
    count,     \* each run: the records it began
    phase,     \* "started": its first record; "loop": events; "over": the last
    pc,        \* "write", "newline", "flush", "read" a line, "closed"
    pending    \* the piece its File has handed out, if any: a sequence

vars == <<file, count, phase, pc, pending>>

Newline == 0

Init ==
    /\ file = <<>>
    /\ count = [r \in Runs |-> 1] /\ phase = [r \in Runs |-> "started"]
    /\ pc = [r \in Runs |-> "write"] /\ pending = [r \in Runs |-> <<>>]

\* A piece is taken when the one before it is in the file.
HandOut(r, piece, next) ==
    /\ pending[r] = <<>>
    /\ pending' = [pending EXCEPT ![r] = <<piece>>]
    /\ pc' = [pc EXCEPT ![r] = next]
    /\ UNCHANGED <<file, count, phase>>

WriteText(r)    == pc[r] = "write" /\ HandOut(r, count[r], "newline")
WriteNewline(r) == pc[r] = "newline" /\ HandOut(r, Newline, "flush")

\* The pool's thread appends.
AppendPiece(r) ==
    /\ pending[r] # <<>>
    /\ file' = file \o pending[r]
    /\ pending' = [pending EXCEPT ![r] = <<>>]
    /\ UNCHANGED <<count, phase, pc>>

Begin(r, newPhase) ==
    /\ count[r] < MaxRecords
    /\ count' = [count EXCEPT ![r] = @ + 1]
    /\ phase' = [phase EXCEPT ![r] = newPhase]
    /\ pc' = [pc EXCEPT ![r] = "write"]
    /\ UNCHANGED <<file, pending>>

\* flush waits for the newline.
Flushed(r) ==
    /\ pc[r] = "flush" /\ pending[r] = <<>> /\ phase[r] # "over"
    /\ phase' = [phase EXCEPT ![r] = "loop"] /\ pc' = [pc EXCEPT ![r] = "read"]
    /\ UNCHANGED <<file, count, pending>>

\* An event or a line that does not parse; the end of the output.
LogEvent(r)    == pc[r] = "read" /\ Begin(r, "loop")
EndOfOutput(r) == pc[r] = "read" /\ Begin(r, "over")

\* The timer fires while the loop awaits a line, a write or a flush: the rest
\* of that record is never asked for, and the timeout's record is next.
Timeout(r) == phase[r] = "loop" /\ pc[r] # "closed" /\ Begin(r, "over")

\* After the timeout's record: the completion's, the summary of stderr.
LastRecords(r) ==
    /\ pc[r] = "flush" /\ pending[r] = <<>> /\ phase[r] = "over"
    /\ \/ Begin(r, "over")
       \/ pc' = [pc EXCEPT ![r] = "closed"] /\ UNCHANGED <<file, count, phase, pending>>

Next ==
    \E r \in Runs :
        \/ WriteText(r) \/ WriteNewline(r) \/ AppendPiece(r) \/ Flushed(r)
        \/ LogEvent(r) \/ EndOfOutput(r) \/ Timeout(r) \/ LastRecords(r)

Spec == Init /\ [][Next]_vars

-----------------------------------------------------------------------------
\* docs/plugins/wrangle-codex.md: "Each line is a single JSON object."  Texts
\* and newlines alternate.  (Two runs that share the file, or a timeout after
\* a text, leave two objects on one line.)
EachLineIsOneRecord ==
    \A i \in DOMAIN file : (file[i] = Newline) <=> (i % 2 = 0)
=============================================================================
