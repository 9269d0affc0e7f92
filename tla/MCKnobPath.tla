----------------------------- MODULE MCKnobPath ------------------------------
(* KnobPath with a revolution of eight positions, a range of seven steps    *)
(* and a dead band of one; two banks, in three profiles that wrap both,     *)
(* one or none, with scales of both senses.                                 *)
EXTENDS KnobPath

MCMoves == {-3, -1, 0, 1, 2, 3}

Entry(scale, wrap) == [scale |-> scale, wrap |-> wrap]
MCProfiles ==
    {[b \in Banks |-> IF b = First THEN Entry(1, TRUE) ELSE Entry(-2, TRUE)],
     [b \in Banks |-> IF b = First THEN Entry(-1, FALSE) ELSE Entry(1, TRUE)],
     [b \in Banks |-> IF b = First THEN Entry(3, FALSE) ELSE Entry(-1, FALSE)]}
=============================================================================
