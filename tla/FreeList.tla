------------------------------ MODULE FreeList ------------------------------
(***************************************************************************)
(* id_generator as a data structure: one vector holds the values that have *)
(* been given an id and, in the slots of the ids that are free, the next   *)
(* free id; slot 0 is the head of that list and 0 its end.                 *)
(*                                                                         *)
(* A vector is a record of its size and its slots 0 .. size-1.             *)
(***************************************************************************)
EXTENDS Integers

\* `chain`: link the slots from newHead to the end.
Chain(v, newHead) ==
    [v EXCEPT !.at = [i \in 0..(v.size - 1) |->
        IF i < newHead THEN v.at[i] ELSE IF i = v.size - 1 THEN 0 ELSE i + 1]]

\* The constructor: ids 1 .. maxID, all free.
NewList(maxID) == Chain([size |-> maxID + 1, at |-> [i \in 0..maxID |-> 0]], 0)

\* A slip: all slots are linked anew, as by the constructor.
EnlargeRelinking(v) ==
    Chain([size |-> 2 * v.size,
           at |-> [i \in 0..(2 * v.size - 1) |-> IF i = 0 THEN v.size
                                                 ELSE IF i < v.size THEN v.at[i] ELSE 0]],
          0)

\* Out of ids: the vector doubles and the new half becomes the free list.
Enlarge(v) ==
    Chain([size |-> 2 * v.size,
           at |-> [i \in 0..(2 * v.size - 1) |-> IF i = 0 THEN v.size
                                                 ELSE IF i < v.size THEN v.at[i] ELSE 0]],
          v.size)

WithRoom(v) == IF v.at[0] = 0 THEN Enlarge(v) ELSE v

\* The id that alloc_id returns, and the vector it leaves.
NextId(v) == WithRoom(v).at[0]

\* A slip: the head of the free list stays where it is.
AllocIdKept(v) == WithRoom(v)

AllocId(v) == [WithRoom(v) EXCEPT !.at[0] = WithRoom(v).at[NextId(v)]]

AddVal(v, x) == [AllocId(v) EXCEPT !.at[NextId(v)] = x]

\* A slip: the freed id becomes the head without being linked to the old one.
FreeIdUnlinked(v, id) == [v EXCEPT !.at[0] = id]

FreeId(v, id) == [v EXCEPT !.at = [[@ EXCEPT ![id] = v.at[0]] EXCEPT ![0] = id]]

\* is_valid looks at the range only: a freed id stays valid.
IsValid(v, id) == id \in 1..(v.size - 1)

\* A slip: the walk along the free list stops one id short of its end.
GetUsedIdShort(v) ==
    LET walk[n \in 0..(v.size - 1)] ==
            IF n = 0 THEN {0} ELSE walk[n-1] \cup ({v.at[i] : i \in walk[n-1]} \cap DOMAIN v.at)
    IN  DOMAIN v.at \ {i \in walk[v.size - 1] : i = 0 \/ v.at[i] # 0}

\* get_used_id: what a walk along the free list does not meet.
GetUsedId(v) ==
    LET walk[n \in 0..(v.size - 1)] ==
            IF n = 0 THEN {0} ELSE walk[n-1] \cup ({v.at[i] : i \in walk[n-1]} \cap DOMAIN v.at)
    IN  DOMAIN v.at \ walk[v.size - 1]
=============================================================================
