------------------------ MODULE MCTopologicalPhases ------------------------
(***************************************************************************)
(* Task lists for checking TopologicalPhases: every graph over three       *)
(* tasks, self-dependencies included, two graphs of four, and lists with   *)
(* repeated ids, unknown and repeated dependencies.                        *)
(***************************************************************************)
EXTENDS TopologicalPhases, SequencesExt

MCIds == {"a", "b", "c", "d", ""}

Task(id, deps) == [ id |-> id, task |-> "text", session |-> "none",
                    dependencies |-> deps, supported |-> TRUE, attachable |-> FALSE ]

Three == {"a", "b", "c"}

ThreeTaskGraphs ==
    { << Task("a", SetToSeq(x)), Task("b", SetToSeq(y)), Task("c", SetToSeq(z)) >> :
        x \in SUBSET Three, y \in SUBSET Three, z \in SUBSET Three }

OddLists ==
    { <<>>,
      << Task("a", <<"b">>), Task("a", <<>>), Task("b", <<"c">>) >>,
      << Task("a", <<>>), Task("b", <<"a">>), Task("a", <<"b">>) >>,
      << Task("a", <<"d", "b", "b">>), Task("b", <<>>) >>,
      << Task("a", <<"b", "c", "b">>), Task("b", <<>>), Task("c", <<"b">>) >>,
      << Task("d", <<"a", "b", "c">>), Task("a", <<>>), Task("b", <<"a">>), Task("c", <<>>) >>,
      << Task("a", <<"b", "c">>), Task("b", <<"d">>), Task("c", <<"d">>), Task("d", <<>>) >> }

MCTaskLists == ThreeTaskGraphs \cup OddLists
=============================================================================
