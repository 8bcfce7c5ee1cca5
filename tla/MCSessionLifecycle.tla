------------------------- MODULE MCSessionLifecycle -------------------------
(* SessionLifecycle for TLC: the connections are interchangeable.            *)
EXTENDS SessionLifecycle, TLC

Swap == Permutations(Sessions)
=============================================================================
