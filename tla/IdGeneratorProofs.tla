------------------------- MODULE IdGeneratorProofs --------------------------
(***************************************************************************)
(* For every set of values and every growth of the vector: what is         *)
(* stored under an id stays under it, no id is handed out twice, and the   *)
(* walk along the free list finds exactly the ids in use.                  *)
(***************************************************************************)
EXTENDS IdGenerator, ObjectTableProofs

Counted == IsFiniteSet(DOMAIN content) /\ nUsed = Cardinality(DOMAIN content)

IInv ==
    /\ IdsUsed(idList, DOMAIN content)
    /\ \A id \in DOMAIN content : content[id] \in Vals
    /\ ContentKept
    /\ Counted
-----------------------------------------------------------------------------
LEMMA InitIInv == Init => IInv
<1> SUFFICES ASSUME Init PROVE IInv
  OBVIOUS
<1>1. DOMAIN content = {}
  BY DEF Init
<1>2. IdsUsed(idList, DOMAIN content)
  BY <1>1, NewListFree, SizesAssumption DEF Init
<1>3. Counted
  BY <1>1, FS_EmptySet DEF Init, Counted
<1> QED
  BY <1>1, <1>2, <1>3 DEF IInv, ContentKept

LEMMA AddIInv ==
    ASSUME IInv, NEW x \in Vals, Add(x)
    PROVE  IInv' /\ Pool!Add(x, NextId(idList)) /\ NextId(idList) \in 1..MaxSize
<1> DEFINE used == DOMAIN content
           id == NextId(idList)
<1>1. used \subseteq 1..(idList.size - 1) /\ Wellformed(idList) /\ IdsUsed(idList, used)
  BY DEF IInv, IdsUsed
<1>2. idList' = AddVal(idList, x)
  BY DEF Add
<1>3. /\ IdsUsed(idList', used \cup {id}) /\ Wellformed(idList')
      /\ idList.size <= idList'.size
      /\ idList'.size = WithRoom(idList).size
      /\ id \in 1..(idList'.size - 1) /\ id \notin used
      /\ idList'.at[id] = x
      /\ \A i \in used : idList'.at[i] = idList.at[i]
  <2>1. ValAdded(idList, used, idList', id, x)
    BY <1>1, <1>2, AddValAt
  <2> QED
    BY <2>1 DEF ValAdded, IdsUsed
<1>4. /\ DOMAIN content' = used \cup {id}
      /\ content' = [i \in used \cup {id} |-> IF i = id THEN x ELSE content[i]]
  BY DEF Add
<1>5. nUsed' = nUsed + 1
  BY DEF Add
<1> HIDE DEF id
<1>6. Counted'
  BY <1>3, <1>4, <1>5, FS_AddElement, FS_CardinalityType DEF IInv, Counted
<1>7. ContentKept'
  <2>1. ASSUME NEW i \in DOMAIN content'
        PROVE  i \in 1..(idList'.size - 1) /\ idList'.at[i] = content'[i]
    <3>1. CASE i = id
      BY <3>1, <1>3, <1>4
    <3>2. CASE i # id
      <4>1. i \in used /\ content'[i] = content[i]
        BY <3>2, <2>1, <1>4
      <4>2. idList.at[i] = content[i]
        BY <4>1 DEF IInv, ContentKept
      <4>3. i \in 1..(idList'.size - 1)
        BY <4>1, <1>1, <1>3 DEF Wellformed
      <4> QED
        BY <4>1, <4>2, <4>3, <1>3
    <3> QED
      BY <3>1, <3>2
  <2> QED
    BY <2>1 DEF ContentKept, IsValid
<1>8. \A i \in DOMAIN content' : content'[i] \in Vals
  BY <1>4 DEF IInv
<1>9. IdsUsed(idList, DOMAIN content)'
  BY <1>3, <1>4
<1>11. Pool!Add(x, id)
  BY <1>3, <1>4 DEF Pool!Add
<1>12. id \in 1..MaxSize
  BY <1>3, SizesAssumption DEF Add, Wellformed
<1> QED
  BY <1>6, <1>7, <1>8, <1>9, <1>11, <1>12 DEF IInv, id

LEMMA RemoveIInv ==
    ASSUME IInv, NEW id \in DOMAIN content, Remove(id)
    PROVE  IInv' /\ Pool!Remove(id)
<1> DEFINE used == DOMAIN content
<1>1. used \subseteq 1..(idList.size - 1) /\ Wellformed(idList) /\ IdsUsed(idList, used)
  BY DEF IInv, IdsUsed
<1>2. idList' = FreeId(idList, id)
  BY DEF Remove
<1>3. /\ IdsUsed(idList', used \ {id}) /\ idList'.size = idList.size
      /\ \A i \in used \ {id} : idList'.at[i] = idList.at[i]
  <2>1. IdFreed(idList, used, idList', id)
    BY <1>1, <1>2, FreeIdAt
  <2> QED
    BY <2>1 DEF IdFreed
<1>4. /\ DOMAIN content' = used \ {id}
      /\ content' = [i \in used \ {id} |-> content[i]]
  BY DEF Remove
<1>5. Counted'
  <2>1. nUsed' = nUsed - 1 /\ id \in used
    BY DEF Remove
  <2> QED
    BY <2>1, <1>4, FS_RemoveElement, FS_CardinalityType DEF IInv, Counted
<1>6. ContentKept'
  BY <1>1, <1>3, <1>4 DEF IInv, ContentKept, IsValid
<1>7. \A i \in DOMAIN content' : content'[i] \in Vals
  BY <1>4 DEF IInv
<1>8. IdsUsed(idList, DOMAIN content)'
  BY <1>3, <1>4
<1>10. Pool!Remove(id)
  BY <1>4 DEF Pool!Remove
<1> QED
  BY <1>5, <1>6, <1>7, <1>8, <1>10 DEF IInv

LEMMA StepIInv == IInv /\ [Next]_vars => IInv'
<1> SUFFICES ASSUME IInv, [Next]_vars PROVE IInv'
  OBVIOUS
<1>1. ASSUME NEW x \in Vals, Add(x) PROVE IInv'
  BY <1>1, AddIInv
<1>2. ASSUME NEW id \in DOMAIN content, Remove(id) PROVE IInv'
  BY <1>2, RemoveIInv
<1>3. CASE UNCHANGED vars
  <2>1. IdsUsed(idList, DOMAIN content)'
    BY <1>3 DEF vars, IInv
  <2> QED
    BY <1>3, <2>1 DEF vars, IInv, ContentKept, IsValid, Counted
<1> QED
  BY <1>1, <1>2, <1>3 DEF Next

LEMMA Invariance == Spec => []IInv
BY InitIInv, StepIInv, PTL DEF Spec

\* The vector is one, the count is a count, what is stored is a value.
THEOREM TypeCorrect == Spec => []TypeOK
<1>1. IInv => TypeOK
  <2> SUFFICES ASSUME IInv PROVE TypeOK
    OBVIOUS
  <2>1. PICK f : FreeChain(idList, f)
    BY DEF IInv, IdsUsed
  <2>2. idList.at[0] \in 0..(idList.size - 1)
    <3>1. CASE Len(f) = 0
      BY <3>1, <2>1 DEF FreeChain, IInv, IdsUsed, Wellformed
    <3>2. CASE Len(f) # 0
      <4>1. f \in Seq(1..(idList.size - 1)) /\ Len(f) \in Nat /\ 1 \in 1..Len(f)
        BY <3>2, <2>1 DEF FreeChain
      <4> QED
        BY <4>1, <3>2, <2>1, ElementOfSeq DEF FreeChain, IInv, IdsUsed, Wellformed
    <3> QED
      BY <3>1, <3>2
  <2> QED
    BY <2>2, FS_CardinalityType DEF IInv, TypeOK, IdsUsed, Wellformed, Counted
<1> QED
  BY <1>1, Invariance, PTL

\* Whatever is added and removed, an id leads to the value stored under it.
THEOREM ContentSafe == Spec => []ContentKept
<1>1. IInv => ContentKept
  BY DEF IInv
<1> QED
  BY <1>1, Invariance, PTL

\* The walk by which `destroy` finds what to delete meets every free id and no
\* id in use, however the vector grew and in whatever order ids were freed.
THEOREM UsedExact == Spec => []UsedIdsExact
<1>1. IInv => UsedIdsExact
  BY WalkExact DEF IInv, Counted, UsedIdsExact
<1> QED
  BY <1>1, Invariance, PTL

\* The free list implements the pool of ids: no id is handed out while it is
\* in use, and a removal frees that id only.
THEOREM Refinement == Spec => ImplementsIdPool
<1>1. Init => Pool!Init
  BY DEF Init, Pool!Init
<1>2. IInv /\ [Next]_vars => [Pool!Next]_content
  <2> SUFFICES ASSUME IInv, [Next]_vars PROVE [Pool!Next]_content
    OBVIOUS
  <2>1. ASSUME NEW x \in Vals, Add(x) PROVE Pool!Next
    BY <2>1, AddIInv DEF Pool!Next
  <2>2. ASSUME NEW id \in DOMAIN content, Remove(id) PROVE Pool!Next
    BY <2>2, RemoveIInv DEF Pool!Next
  <2>3. CASE UNCHANGED vars
    BY <2>3 DEF vars
  <2> QED
    BY <2>1, <2>2, <2>3 DEF Next
<1> QED
  BY <1>1, <1>2, Invariance, PTL DEF Spec, ImplementsIdPool, Pool!Spec
=============================================================================
