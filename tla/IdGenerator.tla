---------------------------- MODULE IdGenerator -----------------------------
(***************************************************************************)
(* id_generator in use by an object table: values are added and removed in *)
(* any order.  A table frees an id only after get_ptr has found a pointer  *)
(* under it (AccessByNameID::remove), hence only ids in use.               *)
(***************************************************************************)
EXTENDS FreeList, FiniteSets

CONSTANTS
    Vals,           \* the pointers stored
    InitialMax,     \* maxID of the constructor
    MaxSize         \* bound: slots of the vector

ASSUME SizesAssumption == InitialMax \in Nat /\ MaxSize \in Nat

VARIABLES
    idList,         \* id_list
    nUsed,          \* m_nUsed
    content         \* history: what callers have stored, by id

vars == <<idList, nUsed, content>>

Init ==
    /\ idList = NewList(InitialMax)
    /\ nUsed = 0
    /\ content = [id \in {} |-> 0]

\* add_val
Add(x) ==
    /\ WithRoom(idList).size <= MaxSize
    /\ idList' = AddVal(idList, x)
    /\ nUsed' = nUsed + 1
    /\ content' = [id \in DOMAIN content \cup {NextId(idList)} |->
                     IF id = NextId(idList) THEN x ELSE content[id]]

\* free_id
Remove(id) ==
    /\ id \in DOMAIN content
    /\ idList' = FreeId(idList, id)
    /\ nUsed' = nUsed - 1
    /\ content' = [i \in DOMAIN content \ {id} |-> content[i]]

Next == (\E x \in Vals : Add(x)) \/ (\E id \in DOMAIN content : Remove(id))

Spec == Init /\ [][Next]_vars
-----------------------------------------------------------------------------
\* The vector and the count are what they are called; the head of the free list
\* is a slot of the vector, never a value.
TypeOK ==
    /\ idList.size \in Nat \ {0}
    /\ DOMAIN idList.at = 0..(idList.size - 1)
    /\ idList.at[0] \in DOMAIN idList.at
    /\ nUsed \in Nat
    /\ \A id \in DOMAIN content : content[id] \in Vals

\* What is stored under an id is found under it, however the vector grew and
\* whatever was freed since.
ContentKept == \A id \in DOMAIN content : IsValid(idList, id) /\ idList.at[id] = content[id]

\* The walk along the free list by which `destroy` finds what to delete meets
\* every id that is free and none that is in use, and m_nUsed is their number.
UsedIdsExact ==
    /\ GetUsedId(idList) = DOMAIN content
    /\ nUsed = Cardinality(DOMAIN content)

\* An id is never handed out while it is in use.
Pool == INSTANCE IdPool WITH Ids <- 1..MaxSize
ImplementsIdPool == Pool!Spec
=============================================================================
