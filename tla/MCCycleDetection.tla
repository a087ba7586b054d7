-------------------------- MODULE MCCycleDetection --------------------------
(***************************************************************************)
(* Task lists for checking CycleDetection: every graph over three tasks,   *)
(* self-dependencies included, and lists detect_cycle may be given directly*)
(* (it is public): repeated ids, unknown and repeated dependencies, and    *)
(* cycles reached from a path that is not on them.                         *)
(***************************************************************************)
EXTENDS CycleDetection, SequencesExt

MCIds == {"a", "b", "c", "d", ""}

Task(id, deps) == [ id |-> id, task |-> "text", session |-> "none",
                    dependencies |-> deps, supported |-> TRUE, attachable |-> FALSE ]

Three == {"a", "b", "c"}

ThreeTaskGraphs ==
    { << Task("a", SetToSeq(x)), Task("b", SetToSeq(y)), Task("c", SetToSeq(z)) >> :
        x \in SUBSET Three, y \in SUBSET Three, z \in SUBSET Three }

OddLists ==
    { <<>>,
      << Task("a", <<"b">>), Task("a", <<>>), Task("b", <<"a">>) >>,
      << Task("a", <<>>), Task("b", <<"a">>), Task("a", <<"b">>) >>,
      << Task("a", <<"d", "b", "b">>), Task("b", <<"d">>) >>,
      << Task("a", <<"b">>), Task("b", <<"c", "d">>), Task("c", <<"d">>), Task("d", <<"b">>) >>,
      << Task("a", <<"b", "c">>), Task("b", <<"d">>), Task("c", <<"d">>), Task("d", <<>>) >> }

MCTaskLists == ThreeTaskGraphs \cup OddLists
=============================================================================
