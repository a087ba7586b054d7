------------------------------- MODULE Lists -------------------------------
(***************************************************************************)
(* What the other modules need of lists: the entries that are in a set, in *)
(* their order.  It is SelectSeq for a set; as a function of the position  *)
(* it can be reasoned about, which the built-in SelectSeq cannot.          *)
(***************************************************************************)
EXTENDS Naturals, Sequences

Filter(s, S) ==
    LET upTo[n \in 0 .. Len(s)] ==
            IF n = 0 THEN <<>>
            ELSE IF s[n] \in S THEN Append(upTo[n - 1], s[n]) ELSE upTo[n - 1]
    IN  upTo[Len(s)]
=============================================================================
