---------------------------- MODULE MCSubprocess ----------------------------
(***************************************************************************)
(* Launches for checking Subprocess: a polite backend with and without     *)
(* input, one that writes before it reads, one that does not end, and one  *)
(* that leaves a helper behind.                                            *)
(***************************************************************************)
EXTENDS Subprocess

MCSessions == {"s1", "s2"}

Polite(units, max, id) ==
    [ input |-> units, session |-> id, maxEvents |-> max,
      talksFirst |-> FALSE, lingers |-> FALSE, forks |-> FALSE ]

MCLaunches ==
    { Polite(0, 1, "none"), Polite(2, 2, "s1"),
      [Polite(2, 2, "none") EXCEPT !.talksFirst = TRUE],
      [Polite(0, 1, "s1") EXCEPT !.lingers = TRUE],
      [Polite(0, 2, "none") EXCEPT !.forks = TRUE],
      [Polite(0, 1, "none") EXCEPT !.lingers = TRUE, !.forks = TRUE] }
=============================================================================
