--------------------------- MODULE MCIdGenerator ----------------------------
(* IdGenerator for TLC: the values are interchangeable.                      *)
EXTENDS IdGenerator, TLC

Swap == Permutations(Vals)
=============================================================================
