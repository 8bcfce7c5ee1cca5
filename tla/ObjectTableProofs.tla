------------------------- MODULE ObjectTableProofs --------------------------
(***************************************************************************)
(* The vector of id_generator and the tables built on it: what an id leads *)
(* to after a value is added and after an id is freed, and that the walk   *)
(* along the free list meets the free ids and no other.                    *)
(***************************************************************************)
EXTENDS ObjectTable, FiniteSetTheorems, SequenceTheorems, TLAPS

Wellformed(v) == v.size \in Nat \ {0} /\ v = [size |-> v.size, at |-> v.at]
                 /\ DOMAIN v.at = 0..(v.size - 1) /\ v.at = [i \in DOMAIN v.at |-> v.at[i]]

\* f is the free list of v: its ids, from the head to the end.
FreeChain(v, f) ==
    /\ f \in Seq(1..(v.size - 1))
    /\ \A j, k \in 1..Len(f) : f[j] = f[k] => j = k
    /\ v.at[0] = IF Len(f) = 0 THEN 0 ELSE f[1]
    /\ \A k \in 1..Len(f) : v.at[f[k]] = IF k = Len(f) THEN 0 ELSE f[k + 1]

\* The ids in use of v are `used`: those that the free list does not meet.
IdsUsed(v, used) ==
    /\ Wellformed(v)
    /\ used \subseteq 1..(v.size - 1)
    /\ \E f : /\ FreeChain(v, f)
             /\ \A id \in 1..(v.size - 1) : id \notin used <=> \E k \in 1..Len(f) : f[k] = id
-----------------------------------------------------------------------------
\* A vector linked from newHead on: its slots.
LEMMA ChainSlots ==
    ASSUME NEW s, NEW a, NEW newHead
    PROVE  Chain([size |-> s, at |-> a], newHead) =
              [size |-> s,
               at   |-> [i \in 0..(s - 1) |->
                           IF i < newHead THEN a[i] ELSE IF i = s - 1 THEN 0 ELSE i + 1]]
<1> DEFINE v == [size |-> s, at |-> a]
           slots == [i \in 0..(v.size - 1) |->
                       IF i < newHead THEN v.at[i] ELSE IF i = v.size - 1 THEN 0 ELSE i + 1]
<1>1. Chain(v, newHead) = [v EXCEPT !.at = slots]
  BY DEF Chain
<1>2. v.size = s /\ v.at = a
  OBVIOUS
<1>3. [v EXCEPT !.at = slots] = [size |-> s, at |-> slots]
  <2> HIDE DEF slots
  <2> QED
    OBVIOUS
<1>4. slots = [i \in 0..(s - 1) |->
                 IF i < newHead THEN a[i] ELSE IF i = s - 1 THEN 0 ELSE i + 1]
  <2> HIDE DEF v
  <2> QED
    BY <1>2
<1> HIDE DEF slots
<1> QED
  BY <1>1, <1>3, <1>4

\* The new list: every id is free, in order.
LEMMA NewListFree ==
    ASSUME NEW maxID \in Nat
    PROVE  IdsUsed(NewList(maxID), {}) /\ NewList(maxID).size = maxID + 1
<1> DEFINE v == NewList(maxID)
           f == [k \in 1..maxID |-> k]
<1>1. /\ v.size = maxID + 1
      /\ v.at = [i \in 0..maxID |-> IF i = maxID THEN 0 ELSE i + 1]
      /\ v = [size |-> v.size, at |-> v.at]
  <2> DEFINE slots == [i \in 0..((maxID + 1) - 1) |->
                         IF i < 0 THEN [j \in 0..maxID |-> 0][i]
                         ELSE IF i = (maxID + 1) - 1 THEN 0 ELSE i + 1]
  <2>1. v = [size |-> maxID + 1, at |-> slots]
    BY ChainSlots DEF NewList
  <2>2. slots = [i \in 0..maxID |-> IF i = maxID THEN 0 ELSE i + 1]
    OBVIOUS
  <2> HIDE DEF slots, v
  <2> QED
    BY <2>1, <2>2
<1> HIDE DEF v
<1>2. Wellformed(v)
  BY <1>1 DEF Wellformed
<1>3. f \in Seq(1..(v.size - 1)) /\ Len(f) = maxID
  <2>1. \A k \in 1..maxID : k \in 1..(v.size - 1)
    BY <1>1
  <2> QED
    BY <2>1, LenProperties
<1>4. FreeChain(v, f)
  BY <1>1, <1>3 DEF FreeChain
<1>5. \A id \in 1..(v.size - 1) : id \notin {} <=> \E k \in 1..Len(f) : f[k] = id
  BY <1>1, <1>3
<1> QED
  BY <1>1, <1>2, <1>4, <1>5 DEF IdsUsed, v

\* Before an id is handed out there is one to hand out, whatever it takes, and
\* what was stored is where it was.
LEMMA RoomMade ==
    ASSUME NEW v, NEW used, IdsUsed(v, used)
    PROVE  LET w == WithRoom(v) IN
           /\ v.size <= w.size
           /\ \A id \in used : w.at[id] = v.at[id]
           /\ IdsUsed(w, used)
           /\ \A f : FreeChain(w, f) => Len(f) # 0
           /\ w.size # v.size => 1..(v.size - 1) \subseteq used /\ w.size = 2 * v.size
<1>1. CASE v.at[0] # 0
  <2>1. WithRoom(v) = v
    BY <1>1 DEF WithRoom
  <2>2. \A f : FreeChain(v, f) => Len(f) # 0
    BY <1>1 DEF FreeChain
  <2> QED
    BY <2>1, <2>2 DEF IdsUsed, Wellformed
<1>2. CASE v.at[0] = 0
  <2> DEFINE w == Enlarge(v)
             n == v.size
             f == [k \in 1..n |-> n + k - 1]
  <2>1. WithRoom(v) = w
    BY <1>2 DEF WithRoom
  <2>2. n \in Nat \ {0}
    BY DEF Wellformed, IdsUsed
  <2>10. used = 1..(n - 1)
    <3>1. PICK g : /\ FreeChain(v, g)
                   /\ \A id \in 1..(n - 1) : id \notin used <=> \E k \in 1..Len(g) : g[k] = id
      BY DEF IdsUsed
    <3>2. Len(g) = 0
      <4>1. g \in Seq(1..(n - 1)) /\ Len(g) \in Nat
        BY <3>1 DEF FreeChain
      <4> SUFFICES ASSUME Len(g) # 0 PROVE FALSE
        OBVIOUS
      <4>2. 1 \in 1..Len(g) /\ g[1] = 0
        BY <4>1, <3>1, <1>2 DEF FreeChain
      <4>3. g[1] \in 1..(n - 1)
        <5> HIDE DEF n
        <5> QED
          BY <4>1, <4>2, ElementOfSeq
      <4> QED
        BY <4>2, <4>3, <2>2
    <3>3. \A id \in 1..(n - 1) : id \in used
      BY <3>1, <3>2
    <3> QED
      BY <3>3 DEF IdsUsed
  <2>3. /\ w.size = 2 * n
        /\ w.at = [i \in 0..(2 * n - 1) |->
                     IF i = 0 THEN n ELSE IF i < n THEN v.at[i]
                     ELSE IF i = 2 * n - 1 THEN 0 ELSE i + 1]
        /\ w = [size |-> w.size, at |-> w.at]
    <3> DEFINE old == [i \in 0..(2 * n - 1) |-> IF i = 0 THEN n ELSE IF i < n THEN v.at[i] ELSE 0]
               slots == [i \in 0..(2 * n - 1) |->
                           IF i < n THEN old[i] ELSE IF i = 2 * n - 1 THEN 0 ELSE i + 1]
    <3>1. w = [size |-> 2 * n, at |-> slots]
      <4>1. w = Chain([size |-> 2 * n, at |-> old], n)
        BY DEF Enlarge
      <4> HIDE DEF w, n, old
      <4> QED
        BY <4>1, ChainSlots
    <3>2. slots = [i \in 0..(2 * n - 1) |->
                     IF i = 0 THEN n ELSE IF i < n THEN v.at[i]
                     ELSE IF i = 2 * n - 1 THEN 0 ELSE i + 1]
      BY <2>2
    <3> HIDE DEF slots, w
    <3> QED
      BY <3>1, <3>2
  <2> HIDE DEF w
  <2>4. Wellformed(w) /\ v.size <= w.size
    BY <2>2, <2>3 DEF Wellformed
  <2>5. \A id \in used : w.at[id] = v.at[id]
    BY <2>2, <2>3, <2>10
  <2>6. f \in Seq(1..(w.size - 1)) /\ Len(f) = n
    <3>1. \A k \in 1..n : n + k - 1 \in 1..(w.size - 1)
      BY <2>2, <2>3
    <3>2. f \in [1..n -> 1..(w.size - 1)]
      BY <3>1
    <3>4. f \in Seq(1..(w.size - 1))
      <4> DEFINE S == 1..(w.size - 1)
      <4>1. n \in Nat /\ f \in [1..n -> S]
        BY <2>2, <3>2
      <4> HIDE DEF f, n, S
      <4>2. \E m \in Nat : f \in [1..m -> S]
        BY <4>1
      <4> QED
        BY <4>2, SeqDef DEF S
    <3>3. DOMAIN f = 1..n
      OBVIOUS
    <3> QED
      BY <2>2, <3>4, <3>3, LenProperties
  <2>7. FreeChain(w, f)
    <3>1. \A j, k \in 1..Len(f) : f[j] = f[k] => j = k
      BY <2>2, <2>6
    <3>2. w.at[0] = n /\ f[1] = n /\ Len(f) # 0
      BY <2>2, <2>3, <2>6
    <3>3. ASSUME NEW k \in 1..Len(f)
          PROVE  w.at[f[k]] = IF k = Len(f) THEN 0 ELSE f[k + 1]
      <4>1. f[k] = n + k - 1 /\ k \in 1..n /\ (k # n => f[k + 1] = n + (k + 1) - 1)
        BY <2>2, <2>6, <3>3
      <4>2. w.at[n + k - 1] = IF n + k - 1 = 2 * n - 1 THEN 0 ELSE n + k - 1 + 1
        BY <2>2, <2>3, <4>1
      <4> HIDE DEF f
      <4> QED
        BY <2>2, <2>6, <4>1, <4>2
    <3> HIDE DEF f
    <3> QED
      BY <2>6, <3>1, <3>2, <3>3 DEF FreeChain
  <2>8. \A id \in 1..(w.size - 1) : id \notin used <=> \E k \in 1..Len(f) : f[k] = id
    <3>1. ASSUME NEW id \in 1..(w.size - 1), id \notin used
          PROVE  \E k \in 1..Len(f) : f[k] = id
      <4>1. id - n + 1 \in 1..n /\ n + (id - n + 1) - 1 = id
        BY <3>1, <2>2, <2>3, <2>10
      <4> QED
        BY <4>1, <2>6
    <3>2. ASSUME NEW k \in 1..Len(f) PROVE f[k] \notin used
      BY <3>2, <2>2, <2>6, <2>10
    <3> QED
      BY <3>1, <3>2
  <2> HIDE DEF f
  <2>9. IdsUsed(w, used)
    <3>1. used \subseteq 1..(w.size - 1)
      BY <2>2, <2>3, <2>10
    <3> QED
      BY <3>1, <2>4, <2>7, <2>8 DEF IdsUsed
  <2>11. \A g : FreeChain(w, g) => Len(g) # 0
    BY <2>2, <2>3 DEF FreeChain
  <2> QED
    BY <2>1, <2>2, <2>3, <2>4, <2>5, <2>9, <2>10, <2>11
<1> QED
  BY <1>1, <1>2

\* add_val: the id is new, the value is under it, everything else stays.
ValAdded(v, used, w, id, x) ==
    /\ IdsUsed(w, used \cup {id})
    /\ v.size <= w.size /\ w.size = WithRoom(v).size
    /\ w.size # v.size => 1..(v.size - 1) \subseteq used /\ w.size = 2 * v.size
    /\ id \in 1..(w.size - 1) /\ id \notin used
    /\ w.at[id] = x
    /\ \A i \in used : w.at[i] = v.at[i]

LEMMA AddValAt ==
    ASSUME NEW v, NEW used, NEW x, NEW w, NEW id,
           IdsUsed(v, used), w = AddVal(v, x), id = NextId(v)
    PROVE  ValAdded(v, used, w, id, x)
<1> DEFINE u == WithRoom(v)
<1>1. /\ Wellformed(u) /\ v.size <= u.size /\ used \subseteq 1..(u.size - 1)
      /\ \A i \in used : u.at[i] = v.at[i]
      /\ u.size # v.size => 1..(v.size - 1) \subseteq used /\ u.size = 2 * v.size
  BY RoomMade DEF IdsUsed
<1>2. PICK f : /\ FreeChain(u, f) /\ Len(f) # 0
               /\ \A i \in 1..(u.size - 1) : i \notin used <=> \E k \in 1..Len(f) : f[k] = i
  <2>1. IdsUsed(u, used) /\ \A f : FreeChain(u, f) => Len(f) # 0
    BY RoomMade
  <2> HIDE DEF u
  <2> QED
    BY <2>1 DEF IdsUsed
<1>3. id = u.at[0] /\ id = f[1] /\ id \in 1..(u.size - 1) /\ id \notin used
  <2>1. id = u.at[0]
    BY DEF NextId
  <2> HIDE DEF u
  <2>2. f \in Seq(1..(u.size - 1)) /\ Len(f) \in Nat /\ 1 \in 1..Len(f) /\ u.at[0] = f[1]
    BY <1>2 DEF FreeChain
  <2>3. f[1] \in 1..(u.size - 1)
    BY <2>2, ElementOfSeq
  <2>4. f[1] \notin used
    BY <2>2, <2>3, <1>2
  <2> QED
    BY <2>1, <2>2, <2>3, <2>4
<1>4. w = [size |-> u.size, at |-> [[u.at EXCEPT ![0] = u.at[id]] EXCEPT ![id] = x]]
  <2>1. w = [[u EXCEPT !.at[0] = u.at[id]] EXCEPT !.at[id] = x]
    BY DEF AddVal, AllocId
  <2>2. u = [size |-> u.size, at |-> u.at]
    BY <1>1 DEF Wellformed
  <2> HIDE DEF u
  <2> QED
    BY <2>1, <2>2
<1> HIDE DEF u
<1>5. /\ w.size = u.size /\ w = [size |-> w.size, at |-> w.at]
      /\ w.at = [i \in DOMAIN w.at |-> w.at[i]]
      /\ DOMAIN w.at = 0..(u.size - 1)
      /\ w.at[0] = u.at[id] /\ w.at[id] = x
      /\ \A i \in 1..(u.size - 1) : i # id => w.at[i] = u.at[i]
  <2>1. w.at = [i \in DOMAIN w.at |-> w.at[i]]
    BY <1>4
  <2> QED
    BY <1>1, <1>3, <1>4, <2>1 DEF Wellformed
<1>6. Wellformed(w)
  BY <1>1, <1>5 DEF Wellformed
<1>7. \A i \in used : w.at[i] = v.at[i]
  BY <1>1, <1>3, <1>5 DEF Wellformed
<1>8. \E g : /\ FreeChain(w, g)
            /\ \A i \in 1..(w.size - 1) :
                  i \notin used \cup {id} <=> \E k \in 1..Len(g) : g[k] = i
  <2> DEFINE g == Tail(f)
  <2>1. /\ g \in Seq(1..(w.size - 1)) /\ Len(g) = Len(f) - 1
        /\ \A k \in 1..Len(g) : g[k] = f[k + 1]
    BY <1>2, <1>5, HeadTailProperties DEF FreeChain
  <2>2. Len(f) \in Nat \ {0}
    BY <1>2 DEF FreeChain
  <2> HIDE DEF g
  <2>3. \A i \in 1..(w.size - 1) : i \notin used \cup {id} <=> \E k \in 1..Len(g) : g[k] = i
    <3>1. ASSUME NEW i \in 1..(w.size - 1), i \notin used \cup {id}
          PROVE  \E k \in 1..Len(g) : g[k] = i
      <4>1. PICK k \in 1..Len(f) : f[k] = i
        BY <3>1, <1>2, <1>5
      <4>2. k # 1
        BY <4>1, <3>1, <1>3
      <4>3. k - 1 \in 1..Len(g) /\ g[k - 1] = f[(k - 1) + 1]
        BY <4>1, <4>2, <2>1, <2>2
      <4> QED
        BY <4>1, <4>3, <2>2
    <3>2. ASSUME NEW i \in 1..(w.size - 1), NEW k \in 1..Len(g), g[k] = i
          PROVE  i \notin used \cup {id}
      <4>1. k + 1 \in 1..Len(f) /\ f[k + 1] = i /\ 1 \in 1..Len(f)
        BY <3>2, <2>1, <2>2
      <4>2. i # id
        <5>1. i = id => k + 1 = 1
          BY <4>1, <1>2, <1>3 DEF FreeChain
        <5> QED
          BY <5>1, <3>2, <2>1, <2>2
      <4> QED
        BY <4>1, <4>2, <1>2, <1>5
    <3> QED
      BY <3>1, <3>2
  <2>4. \A j, k \in 1..Len(g) : g[j] = g[k] => j = k
    <3>1. ASSUME NEW j \in 1..Len(g), NEW k \in 1..Len(g), g[j] = g[k] PROVE j = k
      <4>1. j + 1 \in 1..Len(f) /\ k + 1 \in 1..Len(f) /\ f[j + 1] = f[k + 1]
        BY <2>1, <2>2, <3>1
      <4>2. j + 1 = k + 1
        BY <4>1, <1>2 DEF FreeChain
      <4> QED
        BY <4>2, <2>1, <2>2
    <3> QED
      BY <3>1
  <2>5. w.at[0] = IF Len(g) = 0 THEN 0 ELSE g[1]
    BY <1>2, <1>3, <1>5, <2>1, <2>2 DEF FreeChain
  <2>6. \A k \in 1..Len(g) : w.at[g[k]] = IF k = Len(g) THEN 0 ELSE g[k + 1]
    <3>1. ASSUME NEW k \in 1..Len(g)
          PROVE  w.at[g[k]] = IF k = Len(g) THEN 0 ELSE g[k + 1]
      <4>1. k + 1 \in 1..Len(f) /\ g[k] = f[k + 1] /\ g[k] \in 1..(u.size - 1) /\ g[k] # id
        <5>1. Len(g) \in Nat /\ k + 1 \in 1..Len(f) /\ g[k] = f[k + 1]
          BY <2>1, <2>2, <3>1
        <5>2. g[k] \in 1..(w.size - 1)
          BY <2>1, <3>1, ElementOfSeq
        <5>3. g[k] # id
          BY <2>3, <3>1, <5>2
        <5> QED
          BY <1>5, <5>1, <5>2, <5>3
      <4>2. w.at[g[k]] = u.at[f[k + 1]]
        BY <4>1, <1>5
      <4>3. u.at[f[k + 1]] = IF k + 1 = Len(f) THEN 0 ELSE f[k + 2]
        BY <1>2, <4>1 DEF FreeChain
      <4> QED
        BY <4>2, <4>3, <2>1, <2>2, <3>1
    <3> QED
      BY <3>1
  <2> QED
    BY <2>1, <2>3, <2>4, <2>5, <2>6 DEF FreeChain
<1>9. IdsUsed(w, used \cup {id})
  BY <1>1, <1>3, <1>5, <1>6, <1>8 DEF IdsUsed
<1> QED
  BY <1>1, <1>3, <1>5, <1>7, <1>9 DEF u, ValAdded

\* free_id of an id in use: it becomes the head of the free list.
IdFreed(v, used, w, id) ==
    /\ IdsUsed(w, used \ {id})
    /\ w.size = v.size
    /\ \A i \in used \ {id} : w.at[i] = v.at[i]

LEMMA FreeIdAt ==
    ASSUME NEW v, NEW used, NEW id \in used, NEW w,
           IdsUsed(v, used), w = FreeId(v, id)
    PROVE  IdFreed(v, used, w, id)
<1>0. Wellformed(v) /\ used \subseteq 1..(v.size - 1)
  BY DEF IdsUsed
<1>1. w = [size |-> v.size, at |-> [[v.at EXCEPT ![id] = v.at[0]] EXCEPT ![0] = id]]
  BY <1>0 DEF FreeId, Wellformed
<1>2. /\ w.size = v.size /\ w = [size |-> w.size, at |-> w.at]
      /\ w.at = [i \in DOMAIN w.at |-> w.at[i]]
      /\ DOMAIN w.at = 0..(v.size - 1)
      /\ w.at[0] = id /\ w.at[id] = v.at[0]
      /\ \A i \in 1..(v.size - 1) : i # id => w.at[i] = v.at[i]
  BY <1>0, <1>1 DEF Wellformed
<1>3. PICK f : /\ FreeChain(v, f)
               /\ \A i \in 1..(v.size - 1) : i \notin used <=> \E k \in 1..Len(f) : f[k] = i
  BY DEF IdsUsed
<1> DEFINE g == <<id>> \o f
<1>4. f \in Seq(1..(v.size - 1)) /\ Len(f) \in Nat
  BY <1>3 DEF FreeChain
<1>5. /\ g \in Seq(1..(w.size - 1)) /\ Len(g) = Len(f) + 1 /\ g[1] = id
      /\ \A k \in 1..Len(f) : g[k + 1] = f[k]
  BY <1>0, <1>2, <1>4
<1> HIDE DEF g
<1>6. \A k \in 1..Len(f) : f[k] # id /\ f[k] \in 1..(v.size - 1)
  BY <1>3, <1>4, ElementOfSeq
<1>7. \A k \in 2..Len(g) : k - 1 \in 1..Len(f) /\ g[k] = f[k - 1]
  <2>1. ASSUME NEW k \in 2..Len(g) PROVE k - 1 \in 1..Len(f) /\ g[(k - 1) + 1] = f[k - 1]
    BY <1>4, <1>5, <2>1
  <2> QED
    BY <2>1, <1>4, <1>5
<1>8. \A j, k \in 1..Len(g) : g[j] = g[k] => j = k
  <2>1. ASSUME NEW j \in 1..Len(g), NEW k \in 1..Len(g), g[j] = g[k] PROVE j = k
    <3>1. CASE j = 1 \/ k = 1
      <4>1. \A i \in 2..Len(g) : g[i] # g[1]
        BY <1>5, <1>6, <1>7
      <4> QED
        BY <4>1, <3>1, <2>1, <1>4, <1>5
    <3>2. CASE j # 1 /\ k # 1
      <4>1. /\ j - 1 \in 1..Len(f) /\ k - 1 \in 1..Len(f)
            /\ f[j - 1] = f[k - 1]
        BY <3>2, <2>1, <1>4, <1>5, <1>7
      <4>2. j - 1 = k - 1
        BY <4>1, <1>3 DEF FreeChain
      <4> QED
        BY <4>2, <1>4, <1>5
    <3> QED
      BY <3>1, <3>2
  <2> QED
    BY <2>1
<1>9. \A k \in 1..Len(g) : w.at[g[k]] = IF k = Len(g) THEN 0 ELSE g[k + 1]
  <2>1. ASSUME NEW k \in 1..Len(g)
        PROVE  w.at[g[k]] = IF k = Len(g) THEN 0 ELSE g[k + 1]
    <3>1. CASE k = 1
      BY <3>1, <1>2, <1>3, <1>4, <1>5 DEF FreeChain
    <3>2. CASE k # 1
      <4>1. k - 1 \in 1..Len(f) /\ g[k] = f[k - 1]
        BY <3>2, <2>1, <1>4, <1>5, <1>7
      <4>2. w.at[g[k]] = v.at[f[k - 1]]
        BY <4>1, <1>2, <1>6
      <4>3. v.at[f[k - 1]] = IF k - 1 = Len(f) THEN 0 ELSE f[k]
        BY <4>1, <1>3 DEF FreeChain
      <4>4. k # Len(g) => g[k + 1] = f[k]
        BY <4>1, <1>4, <1>5
      <4> QED
        BY <4>1, <4>2, <4>3, <4>4, <1>4, <1>5
    <3> QED
      BY <3>1, <3>2
  <2> QED
    BY <2>1
<1>10. FreeChain(w, g)
  BY <1>2, <1>4, <1>5, <1>8, <1>9 DEF FreeChain
<1>11. \A i \in 1..(w.size - 1) : i \notin used \ {id} <=> \E k \in 1..Len(g) : g[k] = i
  <2>1. ASSUME NEW i \in 1..(w.size - 1), i \notin used \ {id}
        PROVE  \E k \in 1..Len(g) : g[k] = i
    <3>1. CASE i = id
      BY <3>1, <1>4, <1>5
    <3>2. CASE i # id
      <4>1. PICK k \in 1..Len(f) : f[k] = i
        BY <3>2, <2>1, <1>2, <1>3
      <4> QED
        BY <4>1, <1>4, <1>5
    <3> QED
      BY <3>1, <3>2
  <2>2. ASSUME NEW k \in 1..Len(g) PROVE g[k] \notin used \ {id}
    <3>1. CASE k = 1
      BY <3>1, <1>5
    <3>2. CASE k # 1
      <4>1. k - 1 \in 1..Len(f) /\ g[k] = f[k - 1]
        BY <3>2, <2>2, <1>4, <1>5, <1>7
      <4>2. f[k - 1] \in 1..(v.size - 1)
        BY <4>1, <1>6
      <4> QED
        BY <4>1, <4>2, <1>3
    <3> QED
      BY <3>1, <3>2
  <2> QED
    BY <2>1, <2>2
<1>12. Wellformed(w)
  BY <1>0, <1>2 DEF Wellformed
<1> QED
  BY <1>0, <1>2, <1>10, <1>11, <1>12 DEF IdsUsed, IdFreed

-----------------------------------------------------------------------------
\* A set of numbers that is not empty has a least one.
LEMMA LeastNumber ==
    ASSUME NEW S, S \subseteq Nat, S # {}
    PROVE  \E m \in S : \A k \in S : m <= k
<1> DEFINE R == {p \in Nat \X Nat : p[1] < p[2]}
<1>1. IsWellFoundedOn(R, Nat)
  BY NatLessThanWellFounded DEF OpToRel
<1>2. \A k, m \in Nat : k < m => <<k, m>> \in R
  OBVIOUS
<1> HIDE DEF R
<1>3. PICK m \in S : \A k \in S : ~(<<k, m>> \in R)
  BY <1>1, WFMin
<1>4. ASSUME NEW k \in S PROVE m <= k
  <2>1. k \in Nat /\ m \in Nat /\ ~(<<k, m>> \in R)
    BY <1>3, <1>4
  <2> QED
    BY <2>1, <1>2
<1> QED
  BY <1>4

\* A chain has no more ids than the vector has.
LEMMA ChainFits ==
    ASSUME NEW v, Wellformed(v), NEW f, FreeChain(v, f)
    PROVE  Len(f) \in Nat /\ Len(f) <= v.size - 1
<1>1. v.size - 1 \in Nat /\ f \in Seq(1..(v.size - 1)) /\ Len(f) \in Nat
  BY DEF Wellformed, FreeChain
<1>2. f \in [1..Len(f) -> 1..(v.size - 1)]
  BY <1>1, LenProperties
<1>3. f \in Injection(1..Len(f), 1..(v.size - 1))
  BY <1>2 DEF FreeChain, Injection, IsInjective
<1>4. \A n \in Nat : IsFiniteSet(1..n) /\ Cardinality(1..n) = n
  <2>1. ASSUME NEW n \in Nat PROVE IsFiniteSet(1..n) /\ Cardinality(1..n) = n
    <3>1. /\ IsFiniteSet(1..n)
          /\ Cardinality(1..n) = IF 1 > n THEN 0 ELSE n - 1 + 1
      BY FS_Interval
    <3> QED
      BY <3>1
  <2> QED
    BY <2>1
<1> QED
  BY <1>1, <1>3, <1>4, FS_Injection

\* The walk along the free list meets the ids that are free: what is left are
\* the ids in use.
LEMMA WalkExact ==
    ASSUME NEW v, NEW used, IdsUsed(v, used)
    PROVE  GetUsedId(v) = used
<1> DEFINE last == v.size - 1
           met(w, n) == w[n - 1] \cup ({v.at[i] : i \in w[n - 1]} \cap DOMAIN v.at)
           walk[n \in 0..(v.size - 1)] ==
               IF n = 0 THEN {0}
               ELSE walk[n-1] \cup ({v.at[i] : i \in walk[n-1]} \cap DOMAIN v.at)
<1>1. GetUsedId(v) = DOMAIN v.at \ walk[v.size - 1]
  BY DEF GetUsedId
<1>2. PICK f : /\ FreeChain(v, f)
               /\ \A id \in 1..(v.size - 1) : id \notin used <=> \E k \in 1..Len(f) : f[k] = id
  BY DEF IdsUsed
<1>3. Wellformed(v) /\ used \subseteq 1..last /\ last \in Nat
  BY DEF IdsUsed, Wellformed
<1>4. Len(f) \in Nat /\ Len(f) <= last
  BY <1>2, <1>3, ChainFits
<1>5. \A k \in 1..Len(f) : f[k] \in 1..last
  BY <1>2, ElementOfSeq DEF FreeChain
<1> DEFINE h == [n \in 0..last |-> {0} \cup {f[k] : k \in {j \in 1..Len(f) : j <= n}}]
\* What the walk has met after n steps, in closed form.
<1>6. ASSUME NEW n \in 1..last
      PROVE  h[n] = met(h, n)
  <2> DEFINE before == {0} \cup {f[k] : k \in {j \in 1..Len(f) : j <= n - 1}}
  <2>1. h[n - 1] = before /\ h[n] = {0} \cup {f[k] : k \in {j \in 1..Len(f) : j <= n}}
    BY <1>6, <1>3
  <2>2. ASSUME NEW x \in h[n] PROVE x \in met(h, n)
    <3>1. CASE x = 0
      BY <3>1, <2>1
    <3>2. CASE x # 0
      <4>1. PICK k \in 1..Len(f) : k <= n /\ x = f[k]
        BY <3>2, <2>1, <2>2
      <4>2. CASE k <= n - 1
        BY <4>1, <4>2, <2>1
      <4>3. CASE k = n /\ k = 1
        <5>1. v.at[0] = x /\ x \in DOMAIN v.at /\ 0 \in h[n - 1]
          BY <4>1, <4>3, <1>2, <1>3, <1>4, <1>5, <2>1 DEF FreeChain, Wellformed
        <5> HIDE DEF h
        <5> QED
          BY <5>1
      <4>4. CASE k = n /\ k # 1
        <5>1. k - 1 \in 1..Len(f) /\ k - 1 <= n - 1 /\ (k - 1) + 1 = k /\ k - 1 # Len(f)
          BY <4>1, <4>4, <1>4
        <5>2. v.at[f[k - 1]] = x /\ f[k - 1] \in h[n - 1]
          BY <5>1, <4>1, <1>2, <2>1 DEF FreeChain
        <5>3. x \in DOMAIN v.at
          BY <4>1, <1>3, <1>5 DEF Wellformed
        <5> HIDE DEF h
        <5> QED
          BY <5>2, <5>3
      <4>5. k <= n - 1 \/ k = n
        BY <4>1, <1>4
      <4> HIDE DEF h, met
      <4> QED
        BY <4>2, <4>3, <4>4, <4>5
    <3> QED
      BY <3>1, <3>2
  <2>3. ASSUME NEW x \in met(h, n) PROVE x \in h[n]
    <3>1. CASE x \in h[n - 1]
      BY <3>1, <2>1, <1>4
    <3>2. CASE x \in {v.at[i] : i \in h[n - 1]}
      <4>1. PICK i \in h[n - 1] : x = v.at[i]
        BY <3>2
      <4>2. CASE i = 0
        <5>1. x = IF Len(f) = 0 THEN 0 ELSE f[1]
          BY <4>1, <4>2, <1>2 DEF FreeChain
        <5>2. Len(f) # 0 => 1 \in 1..Len(f) /\ 1 <= n
          BY <1>4, <1>6
        <5> QED
          BY <5>1, <5>2, <2>1
      <4>3. CASE i # 0
        <5>1. PICK k \in 1..Len(f) : k <= n - 1 /\ i = f[k]
          BY <4>1, <4>3, <2>1
        <5>2. x = IF k = Len(f) THEN 0 ELSE f[k + 1]
          BY <4>1, <5>1, <1>2 DEF FreeChain
        <5>3. k # Len(f) => k + 1 \in 1..Len(f) /\ k + 1 <= n
          BY <5>1, <1>4
        <5> QED
          BY <5>2, <5>3, <2>1
      <4> QED
        BY <4>2, <4>3
    <3> HIDE DEF h
    <3> QED
      BY <3>1, <3>2, <2>3
  <2> HIDE DEF h, met
  <2> QED
    BY <2>2, <2>3
<1>7. h = [n \in 0..(v.size - 1) |->
             IF n = 0 THEN {0}
             ELSE h[n-1] \cup ({v.at[i] : i \in h[n-1]} \cap DOMAIN v.at)]
  <2>1. h[0] = {0}
    BY <1>3, <1>4
  <2>2. h = [n \in 0..last |-> h[n]]
    OBVIOUS
  <2>3. \A n \in 0..last :
          h[n] = IF n = 0 THEN {0}
                 ELSE h[n-1] \cup ({v.at[i] : i \in h[n-1]} \cap DOMAIN v.at)
    <3>1. \A n \in 0..last : n = 0 \/ n \in 1..last
      BY <1>3
    <3> HIDE DEF h
    <3> QED
      BY <1>6, <2>1, <3>1
  <2> HIDE DEF h
  <2> QED
    BY <2>2, <2>3
<1>8. walk = [n \in 0..(v.size - 1) |->
                IF n = 0 THEN {0}
                ELSE walk[n-1] \cup ({v.at[i] : i \in walk[n-1]} \cap DOMAIN v.at)]
  <2> HIDE DEF h, met
  <2> QED
    BY <1>7, Zenon
<1> HIDE DEF walk, h
<1>9. walk[last] = h[last]
  <2> DEFINE S == {n \in 0..last : walk[n] # h[n]}
  <2> SUFFICES ASSUME S # {} PROVE FALSE
    BY <1>3
  <2>1. PICK m \in S : \A k \in S : m <= k
    <3>1. S \subseteq Nat
      BY <1>3
    <3> HIDE DEF S
    <3> QED
      BY <3>1, LeastNumber
  <2>2. m # 0
    BY <2>1, <1>7, <1>8, <1>3
  <2>3. m \in 1..last /\ m - 1 \in 0..last /\ m - 1 \notin S
    BY <2>1, <2>2, <1>3
  <2>4. walk[m - 1] = h[m - 1]
    BY <2>3
  <2>5. walk[m] = met(walk, m) /\ h[m] = met(h, m)
    BY <2>3, <1>3, <1>7, <1>8
  <2> QED
    BY <2>1, <2>4, <2>5
<1>10. h[last] = {0} \cup {f[k] : k \in 1..Len(f)}
  BY <1>3, <1>4 DEF h
<1>11. DOMAIN v.at = 0..last
  BY <1>3 DEF Wellformed
<1>12. GetUsedId(v) = (0..last) \ ({0} \cup {f[k] : k \in 1..Len(f)})
  BY <1>1, <1>9, <1>10, <1>11
<1>13. \A id \in 1..last : id \notin used <=> \E k \in 1..Len(f) : f[k] = id
  BY <1>2
<1>14. \A id : id \in 0..last /\ id # 0 <=> id \in 1..last
  BY <1>3
<1> QED
  BY <1>3, <1>12, <1>13, <1>14
\* A slot that is not in use holds the number of a slot.
LEMMA FreeSlots ==
    ASSUME NEW v, NEW used, IdsUsed(v, used)
    PROVE  /\ \A i \in 0..(v.size - 1) : i \notin used => v.at[i] \in 0..(v.size - 1)
           /\ v.at[0] \notin used
<1>1. PICK f : /\ FreeChain(v, f)
               /\ \A id \in 1..(v.size - 1) : id \notin used <=> \E k \in 1..Len(f) : f[k] = id
  BY DEF IdsUsed
<1>2. v.size \in Nat \ {0} /\ used \subseteq 1..(v.size - 1)
  BY DEF IdsUsed, Wellformed
<1>3. Len(f) \in Nat /\ \A k \in 1..Len(f) : f[k] \in 1..(v.size - 1) /\ f[k] \notin used
  <2>1. f \in Seq(1..(v.size - 1)) /\ Len(f) \in Nat
    BY <1>1 DEF FreeChain
  <2>2. \A k \in 1..Len(f) : f[k] \in 1..(v.size - 1)
    BY <2>1, ElementOfSeq
  <2> QED
    BY <1>1, <2>1, <2>2
<1>4. v.at[0] \in 0..(v.size - 1) /\ v.at[0] \notin used
  <2>1. v.at[0] = 0 \/ (1 \in 1..Len(f) /\ v.at[0] = f[1])
    BY <1>1, <1>3 DEF FreeChain
  <2> QED
    BY <1>2, <1>3, <2>1
<1>5. ASSUME NEW i \in 1..(v.size - 1), i \notin used PROVE v.at[i] \in 0..(v.size - 1)
  <2>1. PICK k \in 1..Len(f) : f[k] = i
    BY <1>1, <1>5
  <2>2. v.at[i] = IF k = Len(f) THEN 0 ELSE f[k + 1]
    BY <1>1, <2>1 DEF FreeChain
  <2>3. k # Len(f) => k + 1 \in 1..Len(f)
    BY <1>3
  <2> QED
    BY <1>2, <1>3, <2>2, <2>3
<1> QED
  BY <1>2, <1>4, <1>5
-----------------------------------------------------------------------------
TableOK(t) == t = [ids |-> t.ids, names |-> t.names] /\ IdsUsed(t.ids, InUse(t))

\* The new table of a server or a session: no id is in use.
LEMMA NewTableEmpty ==
    TableOK(NewTable) /\ InUse(NewTable) = {} /\ NewTable.ids.size = 4
        /\ DOMAIN NewTable.names = {}
<1>1. NewTable.ids = NewList(3) /\ NewTable = [ids |-> NewTable.ids, names |-> NewTable.names]
      /\ DOMAIN NewTable.names = {}
  BY DEF NewTable
<1>2. IdsUsed(NewList(3), {}) /\ NewList(3).size = 4
  BY NewListFree
<1>3. GetUsedId(NewList(3)) = {}
  BY <1>2, WalkExact
<1> QED
  BY <1>1, <1>2, <1>3 DEF TableOK, InUse

\* x has the id `id` in u, and everything else is as in t.
Added(t, u, id, x) ==
    /\ TableOK(u)
    /\ InUse(u) = InUse(t) \cup {id} /\ id \notin InUse(t)
    /\ Ptr(u, id) = x
    /\ \A i \in InUse(t) : Ptr(u, i) = Ptr(t, i)
    /\ id \in 1..(u.ids.size - 1) /\ t.ids.size <= u.ids.size
    /\ u.ids.size # t.ids.size =>
          1..(t.ids.size - 1) \subseteq InUse(t) /\ u.ids.size = 2 * t.ids.size

\* add_ptr without a name: the new pointer has an id of its own, under which it
\* is found, and the others keep theirs.
LEMMA AddPtrTable ==
    ASSUME NEW t, NEW x, NEW u, NEW id,
           TableOK(t), u = AddPtr(t, x), id = NextId(t.ids)
    PROVE  Added(t, u, id, x) /\ u.names = t.names
<1>1. u.ids = AddVal(t.ids, x) /\ u.names = t.names /\ u = [ids |-> u.ids, names |-> u.names]
  BY DEF AddPtr, TableOK
<1>2. IdsUsed(t.ids, InUse(t))
  BY DEF TableOK
<1>3. ValAdded(t.ids, InUse(t), u.ids, id, x)
  BY <1>1, <1>2, AddValAt
<1>4. IdsUsed(u.ids, InUse(t) \cup {id})
  BY <1>3 DEF ValAdded
<1>5. InUse(u) = InUse(t) \cup {id}
  BY <1>4, WalkExact DEF InUse
<1>6. TableOK(u)
  BY <1>1, <1>4, <1>5 DEF TableOK
<1> QED
  BY <1>1, <1>3, <1>5, <1>6 DEF ValAdded, Added, Ptr

\* add_ptr with a name that is new: the same, and the name is the pointer's.
LEMMA AddNamedTable ==
    ASSUME NEW t, NEW x, NEW n, NEW u, NEW id,
           TableOK(t), u = AddNamed(t, x, n), id = NextId(t.ids)
    PROVE  Added(t, u, id, x) /\ u.names = WithName(t, n, x)
<1> DEFINE w == AddPtr(t, x)
<1>1. Added(t, w, id, x)
  BY AddPtrTable
<1>2. u = [w EXCEPT !.names = WithName(t, n, x)]
  BY DEF AddNamed
<1> HIDE DEF w
<1>3. u.ids = w.ids /\ u.names = WithName(t, n, x) /\ u = [ids |-> u.ids, names |-> u.names]
  BY <1>1, <1>2 DEF Added, TableOK
<1>4. InUse(u) = InUse(w) /\ \A i : Ptr(u, i) = Ptr(w, i)
  BY <1>3 DEF InUse, Ptr
<1>5. TableOK(u)
  BY <1>1, <1>3, <1>4 DEF Added, TableOK
<1> QED
  BY <1>1, <1>3, <1>4, <1>5 DEF Added

\* The id is free in u, and everything else is as in t.
Removed(t, u, id) ==
    /\ TableOK(u) /\ u.names = t.names /\ u.ids.size = t.ids.size
    /\ InUse(u) = InUse(t) \ {id}
    /\ \A i \in InUse(u) : Ptr(u, i) = Ptr(t, i)

\* remove: one id becomes free, a name stays.
LEMMA RemoveIdTable ==
    ASSUME NEW t, NEW id \in InUse(t), NEW u, TableOK(t), u = RemoveId(t, id)
    PROVE  Removed(t, u, id)
<1>1. u.ids = FreeId(t.ids, id) /\ u.names = t.names /\ u = [ids |-> u.ids, names |-> u.names]
  BY DEF RemoveId, TableOK
<1>2. IdsUsed(t.ids, InUse(t))
  BY DEF TableOK
<1>3. IdFreed(t.ids, InUse(t), u.ids, id)
  BY <1>1, <1>2, FreeIdAt
<1>4. IdsUsed(u.ids, InUse(t) \ {id})
  BY <1>3 DEF IdFreed
<1>5. InUse(u) = InUse(t) \ {id}
  BY <1>4, WalkExact DEF InUse
<1>6. TableOK(u)
  BY <1>1, <1>4, <1>5 DEF TableOK
<1> QED
  BY <1>1, <1>3, <1>5, <1>6 DEF IdFreed, Removed, Ptr
=============================================================================
