--------------------------- MODULE MCCallProtocol ---------------------------
(***************************************************************************)
(* The instances of CallProtocol that TLC checks.  The functions are       *)
(* numbered in the order in which they are registered, from 1.             *)
(***************************************************************************)
EXTENDS CallProtocol, TLC

CONSTANTS s1, s2, s3        \* stubs

MCStubId == [s \in Stubs |-> CASE s = s1 -> 1 [] s = s2 -> 2 [] OTHER -> 3]

\* The program's threads are interchangeable.
Swap == Permutations(AppThreads)
=============================================================================
