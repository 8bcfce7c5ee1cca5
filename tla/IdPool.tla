------------------------------- MODULE IdPool -------------------------------
(***************************************************************************)
(* What id_generator promises to the object tables built on it: a value is *)
(* stored under an id that no stored value has, stays there        *)
(* untouched, and leaves when its id is freed.                             *)
(***************************************************************************)
EXTENDS Naturals

CONSTANTS Vals, Ids

VARIABLE content            \* the values, by id

Init == content = [id \in {} |-> 0]

Add(x, id) ==
    /\ id \notin DOMAIN content
    /\ content' = [i \in DOMAIN content \cup {id} |-> IF i = id THEN x ELSE content[i]]

Remove(id) ==
    /\ id \in DOMAIN content
    /\ content' = [i \in DOMAIN content \ {id} |-> content[i]]

Next == \/ \E x \in Vals, id \in Ids : Add(x, id)
        \/ \E id \in DOMAIN content : Remove(id)

Spec == Init /\ [][Next]_content
=============================================================================
