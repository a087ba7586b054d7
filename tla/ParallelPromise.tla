-------------------------- MODULE ParallelPromise --------------------------
(***************************************************************************)
(* What a caller of execute_parallel relies on, with no JoinSet, no        *)
(* results map and no workers: backends run in dependency order, at most   *)
(* `limit` of them at a time, and Ok means that every one of them ran to   *)
(* its end.  An error may come at any time and stops nothing.              *)
(*                                                                         *)
(* A task of `again` may have its backend abandoned, once, and another one *)
(* begun for it.  Nothing is promised of a backend that was abandoned: it  *)
(* may run on beside those that count, and past the answer.                *)
(***************************************************************************)
EXTENDS Naturals, FiniteSets

VARIABLES
    needs,      \* the tasks each task depends on
    limit,      \* how many backends may run at once
    again,      \* the tasks that may be begun a second time
    status,     \* each task's backend: "todo", "active" or "done"
    abandoned,  \* the tasks whose first backend was abandoned
    answer      \* "none", "Ok" or "Err"

pvars == <<needs, limit, again, status, abandoned, answer>>

Tasks == DOMAIN needs

Active == { i \in Tasks : status[i] = "active" }

Init ==
    /\ limit \in Nat
    /\ status = [i \in Tasks |-> "todo"]
    /\ abandoned = {}
    /\ answer = "none"

Begin(i) ==
    /\ status[i] = "todo"
    /\ \A j \in needs[i] : status[j] = "done"
    /\ Cardinality(Active) < limit
    /\ status' = [status EXCEPT ![i] = "active"]
    /\ UNCHANGED <<needs, limit, again, abandoned, answer>>

End(i) ==
    /\ status[i] = "active"
    /\ status' = [status EXCEPT ![i] = "done"]
    /\ UNCHANGED <<needs, limit, again, abandoned, answer>>

Abandon(i) ==
    /\ status[i] = "active"
    /\ i \in again \ abandoned
    /\ status' = [status EXCEPT ![i] = "todo"]
    /\ abandoned' = abandoned \cup {i}
    /\ UNCHANGED <<needs, limit, again, answer>>

AnswerOk ==
    /\ answer = "none"
    /\ \A i \in Tasks : status[i] = "done"
    /\ answer' = "Ok"
    /\ UNCHANGED <<needs, limit, again, status, abandoned>>

AnswerErr ==
    /\ answer = "none"
    /\ answer' = "Err"
    /\ UNCHANGED <<needs, limit, again, status, abandoned>>

Next ==
    \/ \E i \in Tasks : Begin(i) \/ End(i) \/ Abandon(i)
    \/ AnswerOk
    \/ AnswerErr

Spec == Init /\ [][Next]_pvars
=============================================================================
