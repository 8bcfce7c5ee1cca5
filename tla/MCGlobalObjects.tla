-------------------------- MODULE MCGlobalObjects ---------------------------
(* GlobalObjects for TLC: what the clients ask for, and the symmetry.        *)
EXTENDS GlobalObjects, TLC

CONSTANTS c1                        \* a session to be named alone

\* Every client asks for everything.
Everything == [s \in Sessions |-> Ops]

\* One asks for everything, the others create and find objects by name.
OneCalls == [s \in Sessions |-> IF s = c1 THEN Ops ELSE {"createNamed", "retrieve"}]

\* Every client creates by name, and nothing else.
NamedOnly == [s \in Sessions |-> {"createNamed"}]

\* Every client creates without a name.
AnonymousOnly == [s \in Sessions |-> {"create"}]

\* Every client creates, with a name or without.
CreateOnly == [s \in Sessions |-> {"create", "createNamed"}]

\* One creates by name, the others look for it.
OneCreates == [s \in Sessions |-> IF s = c1 THEN {"createNamed"} ELSE {"retrieve", "call"}]

Renamings == Permutations(Objs \ Servants) \cup Permutations(Names)
=============================================================================
