-------------------------- MODULE MCSessionObjects --------------------------
(* SessionObjects for TLC: addresses and names are interchangeable.          *)
EXTENDS SessionObjects, TLC

Renamings == Permutations(Objs) \cup Permutations(Names)
=============================================================================
