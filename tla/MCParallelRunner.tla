-------------------------- MODULE MCParallelRunner --------------------------
(***************************************************************************)
(* Task lists for checking ParallelRunner: every graph over three tasks,   *)
(* some shapes of four, lists whose tasks ask for the persistent           *)
(* transport, and a list for each validation error.                        *)
(***************************************************************************)
EXTENDS ParallelRunner, SequencesExt

MCIds == {"a", "b", "c", "d", ""}

Task(id, deps) == [ id |-> id, task |-> "text", session |-> "none",
                    dependencies |-> deps, supported |-> TRUE, attachable |-> FALSE ]

ThreeTaskGraphs ==
    { << Task("a", SetToSeq(x)), Task("b", SetToSeq(y)), Task("c", SetToSeq(z)) >> :
        x \in SUBSET {"b", "c"}, y \in SUBSET {"a", "c"}, z \in SUBSET {"a", "b"} }

\* Fan-in listed before its dependencies, and two chains beside each other.
FourTaskGraphs ==
    { << Task("d", <<"a", "b">>), Task("a", <<>>), Task("b", <<>>), Task("c", <<>>) >>,
      << Task("a", <<>>), Task("b", <<"a">>), Task("c", <<>>), Task("d", <<"c">>) >> }

\* Runs that may be given up for a one-shot one: before and after a dependency,
\* beside each other and beside a task that is always one-shot.
Attachable(id, deps) == [Task(id, deps) EXCEPT !.attachable = TRUE]

AttachableLists ==
    { << Attachable("a", <<>>), Attachable("b", <<"a">>), Task("c", <<"a">>) >>,
      << Attachable("b", <<"a">>), Task("a", <<>>), Attachable("c", <<>>) >>,
      << Attachable("a", <<>>), Attachable("b", <<>>) >> }

RejectedLists ==
    { <<>>,
      << Task("", <<>>) >>,
      << [Task("a", <<>>) EXCEPT !.task = "blank"], Task("", <<>>) >>,
      << Task("a", <<>>), Task("a", <<"b">>) >>,
      << Task("a", <<>>), Task("a", <<>>) >>,
      << Task("a", <<"c">>), [Task("b", <<>>) EXCEPT !.session = "invalid"] >>,
      << [Task("b", <<"c">>) EXCEPT !.session = "invalid"] >>,
      << Task("a", <<"a", "d">>) >>,
      << Task("a", <<>>), [Task("b", <<"a">>) EXCEPT !.supported = FALSE] >> }

MCTaskLists == ThreeTaskGraphs \cup FourTaskGraphs \cup AttachableLists \cup RejectedLists

\* A few short lists, for the runs that look for a counterexample.
MCShortLists ==
    { << Task("a", <<>>), Task("b", <<>>), Task("c", <<"a">>) >>,
      << Task("a", <<>>), Task("b", <<"a">>) >>,
      << Task("a", <<"b">>), Task("b", <<"a">>) >> }
=============================================================================
