-------------------------- MODULE MCServerRegistry --------------------------
(***************************************************************************)
(* Two clients, two servers and two ports: enough for two starts that      *)
(* race, for a port that is chosen twice, and for a second start after the *)
(* first server crashed, with either entry the longer one.                 *)
(***************************************************************************)
EXTENDS ServerRegistry, TLC

CONSTANTS c1, c2, s1, s2, p1, p2

Symmetry == Permutations(Clients) \cup Permutations(Ports)
=============================================================================
