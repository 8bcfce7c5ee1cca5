------------------------- MODULE GlobalObjectsProofs -------------------------
(***************************************************************************)
(* What holds of the global objects for any number of sessions, objects    *)
(* and names: first the types, whatever anybody does; then as long as no   *)
(* session has been overtaken in alloc_id, with every other overlap of     *)
(* creations; then with clients that do not create at the same time; and   *)
(* last with clients that misuse nothing and an application that removes   *)
(* nothing.                                                                *)
(***************************************************************************)
EXTENDS GlobalObjects, ObjectTableProofs

\* A vector: the slots hold pointers and slots, the first one a slot.
Vector(v) ==
    /\ v = [size |-> v.size, at |-> v.at]
    /\ v.size \in Nat \ {0}
    /\ v.at \in [0..(v.size - 1) -> Objs \cup 0..(v.size - 1)]
    /\ v.at[0] \in 0..(v.size - 1)

\* No slot that holds a link is linked to twice, none that holds a pointer once.
Linked(v) ==
    /\ \A i \in 0..(v.size - 1) : v.at[i] \in 1..(v.size - 1) => v.at[v.at[i]] \in Nat
    /\ \A i, j \in 0..(v.size - 1) : v.at[i] = v.at[j] /\ v.at[i] \in 1..(v.size - 1) => i = j

Labels == {"idle", "lookUp", "existing", "findCreator", "construct", "insert", "store", "alloc",
           "link", "hold", "setId", "retrieve", "load", "cast", "invoke", "ended"}

Shape ==
    /\ table = [ids |-> table.ids, names |-> table.names]
    /\ Vector(table.ids)
    /\ memory \in [Objs -> {"unused", "live", "freed"}]
    /\ refs \in [Objs -> Int]
    /\ objId \in [Objs -> Nat]
    /\ app \in [Servants -> {"new", "added", "removed", "dropped"}]
    /\ at \in [Sessions -> Labels]
    /\ x \in [Sessions -> Objs \cup {NoObject}]
    /\ newId \in [Sessions -> Nat]
    /\ \A s \in Sessions : at[s] = "link" => newId[s] \in 1..(table.ids.size - 1)

\* What is referred to has been constructed.
Constructed ==
    /\ \A i \in 0..(table.ids.size - 1) :
          table.ids.at[i] \in Objs => memory[table.ids.at[i]] # "unused"
    /\ \A n \in DOMAIN table.names :
          table.names[n] \in Objs /\ memory[table.names[n]] # "unused"
    /\ \A s \in Sessions : at[s] \in {"insert", "store", "alloc", "link", "hold", "setId", "cast"} =>
          x[s] \in Objs /\ memory[x[s]] # "unused"
    /\ \A s \in Sessions : at[s] \in {"insert", "store", "alloc", "link", "hold", "setId"} =>
          x[s] \notin Servants

Landed == \A s \in Sessions : at[s] = "invoke" => x[s] \in Objs /\ memory[x[s]] = "live"

\* The session that is about to unlink the head of the free list is the only one.
ReadHead ==
    \A s \in Sessions : at[s] = "link" =>
        /\ newId[s] = table.ids.at[0]
        /\ \A t \in Sessions : at[t] = "link" => t = s

\* A servant that has an id is in the slot of that id until the application
\* removes it.
Served ==
    \A o \in Servants :
        /\ app[o] = "new" => memory[o] = "unused" /\ objId[o] = 0
        /\ app[o] \in {"added", "removed"} => memory[o] = "live"
        /\ app[o] = "added" /\ objId[o] # 0 =>
              objId[o] \in 1..(table.ids.size - 1) /\ table.ids.at[objId[o]] = o

\* The references of a servant that are not those of calls: the application's
\* and the table's.
HeldElsewhere(o) ==
    IF o \notin Servants \/ app[o] \notin {"added", "removed"} THEN 0
    ELSE IF app[o] = "added" /\ objId[o] # 0 THEN 2 ELSE 1

\* At least what the calls and, if it is a servant, the application and its
\* table hold: less than RefsExact, and true of overlapping creations too.
Counts ==
    \A o \in Objs : memory[o] = "live" => refs[o] >= Cardinality(Calling(o)) + HeldElsewhere(o)

IInv == Shape /\ Linked(table.ids) /\ ReadHead /\ Constructed /\ Landed /\ Served /\ Counts
-----------------------------------------------------------------------------
(* The vector of ids                                                         *)

LEMMA PointersApart == \A o \in Objs : o \notin Nat
BY ObjectsAssumption

LEMMA NewVector ==
    /\ Vector(NewList(3)) /\ Linked(NewList(3))
    /\ \A i \in 0..3 : NewList(3).at[i] \in Nat /\ NewList(3).size = 4
BY DEF NewList, Chain, Vector, Linked

\* Out of ids, the vector doubles, and its new half is the free list.
LEMMA DoubledVector ==
    ASSUME NEW v, v.size \in Nat \ {0}, v.at[0] = 0
    PROVE  WithRoom(v) =
             [size |-> 2 * v.size,
              at |-> [i \in 0..(2 * v.size - 1) |->
                        IF i = 0 THEN v.size ELSE IF i < v.size THEN v.at[i]
                        ELSE IF i = 2 * v.size - 1 THEN 0 ELSE i + 1]]
<1> DEFINE n == v.size
           w == [size |-> 2 * n,
                 at |-> [i \in 0..(2 * n - 1) |->
                           IF i = 0 THEN n ELSE IF i < n THEN v.at[i]
                           ELSE IF i = 2 * n - 1 THEN 0 ELSE i + 1]]
<1> DEFINE old == [i \in 0..(2 * n - 1) |-> IF i = 0 THEN n ELSE IF i < n THEN v.at[i] ELSE 0]
           u == [size |-> 2 * n, at |-> old]
           slots == [i \in 0..(u.size - 1) |->
                       IF i < n THEN u.at[i] ELSE IF i = u.size - 1 THEN 0 ELSE i + 1]
<1>1. WithRoom(v) = [u EXCEPT !.at = slots]
  BY DEF WithRoom, Enlarge, Chain
<1>2. u.size = 2 * n /\ u.at = old
  OBVIOUS
<1>3. slots = w.at
  <2> HIDE DEF u
  <2> QED
    BY <1>2
<1>4. [u EXCEPT !.at = slots] = [size |-> 2 * n, at |-> slots]
  <2> HIDE DEF slots, old
  <2> QED
    OBVIOUS
<1> QED
  BY <1>1, <1>3, <1>4

\* The vector before an id is taken: there is a head, and what was there stays.
LEMMA RoomVector ==
    ASSUME NEW v, Vector(v), Linked(v)
    PROVE  LET w == WithRoom(v) IN
           /\ Vector(w) /\ Linked(w) /\ v.size <= w.size
           /\ w.at[0] \in 1..(w.size - 1)
           /\ \A i \in 1..(v.size - 1) : w.at[i] = v.at[i]
           /\ \A i \in v.size..(w.size - 1) : w.at[i] \in Nat
           /\ v.at[0] # 0 => w = v
           /\ v.at[0] = 0 => w.at[0] = v.size /\ v.size < w.size
<1>1. CASE v.at[0] # 0
  BY <1>1 DEF WithRoom, Vector
<1>2. CASE v.at[0] = 0
  <2> DEFINE n == v.size
             w == [size |-> 2 * n,
                   at |-> [i \in 0..(2 * n - 1) |->
                             IF i = 0 THEN n ELSE IF i < n THEN v.at[i]
                             ELSE IF i = 2 * n - 1 THEN 0 ELSE i + 1]]
  <2>1. n \in Nat \ {0}
    BY DEF Vector
  <2>2. WithRoom(v) = w
    BY <1>2, <2>1, DoubledVector
  <2>3. w.at \in [0..(2 * n - 1) -> Objs \cup 0..(2 * n - 1)]
    BY <2>1 DEF Vector
  <2>4. Vector(w) /\ w.size = 2 * n
    BY <2>1, <2>3 DEF Vector
  <2>5. /\ w.at[0] = n
        /\ \A i \in 1..(n - 1) : w.at[i] = v.at[i]
        /\ \A i \in n..(2 * n - 1) : w.at[i] = IF i = 2 * n - 1 THEN 0 ELSE i + 1
    BY <2>1
  <2>7. n..(2 * n - 1) \subseteq Nat
    BY <2>1
  <2> HIDE DEF w
  <2>6. Linked(w)
    <3>1. ASSUME NEW i \in 1..(n - 1), w.at[i] \in 1..(w.size - 1)
          PROVE  w.at[i] \in 1..(n - 1) /\ w.at[i] = v.at[i] /\ w.at[w.at[i]] \in Nat
      <4>1. w.at[i] = v.at[i] /\ w.at[i] \in 1..(2 * n - 1)
        BY <2>4, <2>5, <3>1
      <4>2. v.at[i] \in Objs \cup 0..(n - 1)
        BY <2>1, <3>1 DEF Vector
      <4>3. v.at[i] \in 1..(n - 1)
        BY <2>1, <4>1, <4>2, PointersApart
      <4>4. v.at[v.at[i]] \in Nat
        BY <2>1, <4>3 DEF Linked
      <4> QED
        BY <2>5, <4>1, <4>3, <4>4
    <3>2. \A i \in {0} \cup n..(2 * n - 1) : w.at[i] \in Nat /\ (w.at[i] = 0 \/ w.at[i] \in n..(2 * n - 1))
      BY <2>1, <2>5
    <3>3. ASSUME NEW i \in 0..(w.size - 1), w.at[i] \in 1..(w.size - 1)
          PROVE  w.at[w.at[i]] \in Nat
      BY <2>1, <2>4, <3>1, <3>2, <3>3
    <3>4. ASSUME NEW i \in 0..(w.size - 1), NEW j \in 0..(w.size - 1),
                 w.at[i] = w.at[j], w.at[i] \in 1..(w.size - 1)
          PROVE  i = j
      <4>1. CASE i \in 1..(n - 1) /\ j \in 1..(n - 1)
        BY <2>1, <3>1, <3>4, <4>1 DEF Linked
      <4>2. CASE ~(i \in 1..(n - 1)) /\ ~(j \in 1..(n - 1))
        <5>1. /\ i \in Int /\ (i = 0 \/ (n <= i /\ i <= 2 * n - 1))
              /\ j \in Int /\ (j = 0 \/ (n <= j /\ j <= 2 * n - 1))
          BY <2>1, <2>4, <4>2
        <5>2. /\ w.at[i] = IF i = 0 THEN n ELSE IF i = 2 * n - 1 THEN 0 ELSE i + 1
              /\ w.at[j] = IF j = 0 THEN n ELSE IF j = 2 * n - 1 THEN 0 ELSE j + 1
          BY <2>1, <2>5, <5>1
        <5>3. w.at[i] # 0
          BY <2>1, <2>4, <3>4
        <5>4. w.at[i] = w.at[j]
          BY <3>4
        <5> HIDE <3>4
        <5> QED
          BY <2>1, <5>1, <5>2, <5>3, <5>4
      <4>3. CASE (i \in 1..(n - 1)) # (j \in 1..(n - 1))
        BY <2>1, <2>4, <3>1, <3>2, <3>4, <4>3
      <4> QED
        BY <4>1, <4>2, <4>3
    <3> QED
      BY <3>3, <3>4 DEF Linked
  <2> QED
    BY <1>2, <2>1, <2>2, <2>4, <2>5, <2>6, <2>7
<1> QED
  BY <1>1, <1>2

\* The head is unlinked and a pointer stored in its slot.
LEMMA TakeLinked ==
    ASSUME NEW u, Vector(u), Linked(u), NEW o \in Objs, u.at[0] # 0,
           NEW slots, slots[0] = u.at[u.at[0]], slots[u.at[0]] = o,
           \A i \in 1..(u.size - 1) : i # u.at[0] => slots[i] = u.at[i]
    PROVE  /\ Linked([size |-> u.size, at |-> slots])
           /\ u.at[0] \in 1..(u.size - 1) /\ u.at[u.at[0]] \in Nat
<1> DEFINE n == u.size
           h == u.at[0]
<1>1. n \in Nat \ {0} /\ h \in 1..(n - 1) /\ o \notin Nat
  BY PointersApart DEF Vector
<1>2. u.at[h] \in Nat /\ \A j \in 1..(n - 1) : u.at[j] # h
  BY <1>1 DEF Linked
<1>3. ASSUME NEW i \in 0..(n - 1), slots[i] \in 1..(n - 1)
      PROVE  /\ slots[i] # h /\ slots[slots[i]] \in Nat
             /\ \A j \in 0..(n - 1) : slots[j] = slots[i] => i = j
  <2> DEFINE k == IF i = 0 THEN h ELSE i
  <2>1. i # h /\ k \in 1..(n - 1) /\ slots[i] = u.at[k]
    BY <1>1, <1>3
  <2>2. u.at[k] # h /\ u.at[u.at[k]] \in Nat
    BY <1>1, <1>2, <1>3, <2>1 DEF Linked
  <2>3. slots[slots[i]] = u.at[u.at[k]]
    BY <1>1, <1>3, <2>1, <2>2
  <2>4. ASSUME NEW j \in 0..(n - 1), slots[j] = slots[i] PROVE i = j
    <3> DEFINE l == IF j = 0 THEN h ELSE j
    <3>1. j # h /\ l \in 1..(n - 1) /\ slots[j] = u.at[l]
      BY <1>1, <1>3, <2>4
    <3>2. k = l
      BY <1>1, <1>3, <2>1, <2>4, <3>1 DEF Linked
    <3> QED
      BY <2>1, <3>1, <3>2
  <2> QED
    BY <2>1, <2>2, <2>3, <2>4
<1> QED
  BY <1>1, <1>2, <1>3 DEF Linked

\* add_val: the slot that is given away held no pointer.
LEMMA AddValVector ==
    ASSUME NEW v, Vector(v), Linked(v), NEW o \in Objs
    PROVE  LET w == AddVal(v, o)
               id == NextId(v)
           IN  /\ Vector(w) /\ Linked(w) /\ v.size <= w.size
               /\ id \in 1..(w.size - 1) /\ w.at[id] = o
               /\ \A i \in 1..(v.size - 1) : i # id => w.at[i] = v.at[i]
               /\ \A i \in 0..(w.size - 1) : w.at[i] \in Objs =>
                     w.at[i] = o \/ (i \in 1..(v.size - 1) /\ w.at[i] = v.at[i])
               /\ id < v.size => v.at[id] \in Nat
<1> DEFINE u == WithRoom(v)
           id == u.at[0]
           next == u.at[id]
           slots == [[u.at EXCEPT ![0] = next] EXCEPT ![id] = o]
<1>1. /\ Vector(u) /\ Linked(u) /\ v.size <= u.size
      /\ id \in 1..(u.size - 1)
      /\ \A i \in 1..(v.size - 1) : u.at[i] = v.at[i]
      /\ \A i \in v.size..(u.size - 1) : u.at[i] \in Nat
      /\ v.at[0] # 0 => u = v
      /\ v.at[0] = 0 => id = v.size /\ v.size < u.size
  BY RoomVector
<1>2. NextId(v) = id
  BY DEF NextId
<1>3. AddVal(v, o) = [size |-> u.size, at |-> slots]
  <2> DEFINE z == [u EXCEPT !.at[0] = next]
  <2>1. u = [size |-> u.size, at |-> u.at]
    BY <1>1 DEF Vector
  <2> HIDE DEF u
  <2>2. z = [size |-> u.size, at |-> [u.at EXCEPT ![0] = next]]
    BY <2>1
  <2>3. [z EXCEPT !.at[id] = o] = [size |-> u.size, at |-> slots]
    <3> HIDE DEF next, id
    <3> DEFINE a == [u.at EXCEPT ![0] = next]
    <3>1. z = [size |-> u.size, at |-> a]
      BY <2>2
    <3> HIDE DEF z, a
    <3>2. [z EXCEPT !.at[id] = o] = [size |-> u.size, at |-> [a EXCEPT ![id] = o]]
      BY <3>1
    <3> QED
      BY <3>2 DEF a
  <2>4. AddVal(v, o) = [z EXCEPT !.at[id] = o]
    BY <1>2 DEF AddVal, AllocId, u
  <2> QED
    BY <2>3, <2>4
<1>4. next \in 0..(u.size - 1) /\ (id < v.size => v.at[id] \in Nat)
  <2>1. next \in Objs \cup 0..(u.size - 1)
    BY <1>1 DEF Vector
  <2>2. next \in Nat
    BY <1>1 DEF Linked, Vector
  <2>3. id < v.size => v.at[id] = next
    BY <1>1 DEF Vector
  <2> QED
    BY <2>1, <2>2, <2>3, PointersApart
<1> HIDE DEF next
<1>5. /\ slots \in [0..(u.size - 1) -> Objs \cup 0..(u.size - 1)]
      /\ slots[0] = next /\ slots[id] = o
      /\ \A i \in 1..(u.size - 1) : i # id => slots[i] = u.at[i]
  <2> DEFINE S == Objs \cup 0..(u.size - 1)
  <2>1. u.at \in [0..(u.size - 1) -> S] /\ id \in 1..(u.size - 1) /\ u.size \in Nat \ {0}
    BY <1>1 DEF Vector
  <2>2. next \in S /\ o \in S
    BY <1>4
  <2> HIDE DEF S, u, id
  <2> QED
    BY <2>1, <2>2 DEF S
<1>9. Linked([size |-> u.size, at |-> slots])
  <2>1. /\ Vector(u) /\ Linked(u) /\ u.at[0] # 0
        /\ slots[0] = u.at[u.at[0]] /\ slots[u.at[0]] = o
        /\ \A i \in 1..(u.size - 1) : i # u.at[0] => slots[i] = u.at[i]
    BY <1>1, <1>5 DEF next
  <2> HIDE DEF slots, u
  <2> QED
    BY <2>1, TakeLinked
<1> HIDE DEF slots, id
<1> DEFINE w == [size |-> u.size, at |-> slots]
<1>6. Vector(w) /\ w.size = u.size /\ w.at = slots
  BY <1>1, <1>4, <1>5 DEF Vector
<1>7. \A i \in 0..(w.size - 1) : w.at[i] \in Objs =>
        w.at[i] = o \/ (i \in 1..(v.size - 1) /\ w.at[i] = v.at[i])
  <2> SUFFICES ASSUME NEW i \in 0..(w.size - 1), w.at[i] \in Objs
               PROVE  w.at[i] = o \/ (i \in 1..(v.size - 1) /\ w.at[i] = v.at[i])
    OBVIOUS
  <2> HIDE DEF u, w
  <2>1. v.size \in Nat \ {0} /\ u.size \in Nat \ {0}
    BY <1>1 DEF Vector
  <2>2. i # 0
    BY <1>4, <1>5, <1>6, <2>1, PointersApart
  <2>3. CASE i = id
    BY <1>5, <1>6, <2>3
  <2>4. CASE i # id
    <3>1. w.at[i] = u.at[i]
      BY <1>5, <1>6, <2>1, <2>2, <2>4
    <3>2. i < v.size
      BY <1>1, <1>6, <2>1, <3>1, PointersApart
    <3> QED
      BY <1>1, <2>1, <2>2, <3>1, <3>2
  <2> QED
    BY <2>3, <2>4
<1>8. \A i \in 1..(v.size - 1) : i # id => w.at[i] = v.at[i]
  <2> HIDE DEF u, w
  <2> QED
    BY <1>1, <1>5, <1>6 DEF Vector
<1> HIDE DEF w
<1> QED
  BY <1>1, <1>2, <1>3, <1>4, <1>5, <1>6, <1>7, <1>8, <1>9 DEF w

\* free_id: the slot becomes the head.
LEMMA FreeIdVector ==
    ASSUME NEW v, Vector(v), Linked(v), NEW id \in 1..(v.size - 1), v.at[id] \in Objs
    PROVE  LET w == FreeId(v, id) IN
           /\ Vector(w) /\ Linked(w) /\ w.size = v.size
           /\ w.at[0] = id /\ w.at[id] = v.at[0]
           /\ \A i \in 1..(v.size - 1) : i # id => w.at[i] = v.at[i]
<1> DEFINE slots == [[v.at EXCEPT ![id] = v.at[0]] EXCEPT ![0] = id]
<1>1. FreeId(v, id) = [size |-> v.size, at |-> slots]
  <2> HIDE DEF slots
  <2>1. FreeId(v, id) = [v EXCEPT !.at = slots]
    BY DEF FreeId, slots
  <2> QED
    BY <2>1 DEF Vector
<1>2. /\ slots \in [0..(v.size - 1) -> Objs \cup 0..(v.size - 1)]
      /\ slots[0] = id /\ slots[id] = v.at[0]
      /\ \A i \in 1..(v.size - 1) : i # id => slots[i] = v.at[i]
  BY DEF Vector
<1> HIDE DEF slots
<1>3. Linked([size |-> v.size, at |-> slots])
  <2> DEFINE n == v.size
  <2>1. /\ n \in Nat \ {0} /\ v.at[0] \in 0..(n - 1)
        /\ \A j \in 0..(n - 1) : v.at[j] # id
        /\ v.at[id] \notin Nat
    BY PointersApart DEF Vector, Linked
  <2>2. ASSUME NEW i \in 0..(n - 1), slots[i] \in 1..(n - 1)
        PROVE  slots[slots[i]] \in Nat
    <3>1. CASE i = 0
      BY <1>2, <2>1, <3>1
    <3>2. CASE i # 0
      <4> DEFINE k == IF i = id THEN 0 ELSE i
      <4>1. slots[i] = v.at[k] /\ k \in 0..(n - 1)
        BY <1>2, <2>1, <3>2
      <4>2. v.at[k] # id /\ v.at[v.at[k]] \in Nat
        BY <2>1, <2>2, <4>1 DEF Linked
      <4> QED
        BY <1>2, <2>1, <2>2, <4>1, <4>2
    <3> QED
      BY <3>1, <3>2
  <2>3. ASSUME NEW i \in 0..(n - 1), NEW j \in 0..(n - 1), slots[i] = slots[j], slots[i] \in 1..(n - 1)
        PROVE  i = j
    <3>1. ASSUME NEW l \in 1..(n - 1)
          PROVE  slots[l] = v.at[IF l = id THEN 0 ELSE l]
      BY <1>2, <3>1
    <3>2. CASE i = 0 \/ j = 0
      BY <1>2, <2>1, <2>3, <3>1, <3>2
    <3>3. CASE i # 0 /\ j # 0
      BY <2>1, <2>3, <3>1, <3>3 DEF Linked
    <3> QED
      BY <3>2, <3>3
  <2> QED
    BY <2>2, <2>3 DEF Linked
<1> QED
  BY <1>1, <1>2, <1>3 DEF Vector
-----------------------------------------------------------------------------
(* Types, whatever anybody does                                              *)

\* A vector in which an id given twice may have left a pointer at the head.
Slots(v) ==
    /\ v = [size |-> v.size, at |-> v.at]
    /\ v.size \in Nat \ {0}
    /\ v.at \in [0..(v.size - 1) -> Objs \cup 0..(v.size - 1)]

Shared ==
    /\ table = [ids |-> table.ids, names |-> table.names]
    /\ Slots(table.ids)
    /\ \A n \in DOMAIN table.names : table.names[n] \in Objs
    /\ memory \in [Objs -> {"unused", "live", "freed"}]
    /\ refs \in [Objs -> Int]
    /\ objId \in [Objs -> Nat]
    /\ \A o \in Objs : objId[o] \in 0..(table.ids.size - 1)
    /\ app \in [Servants -> {"new", "added", "removed", "dropped"}]

\* Where the local variable x is an object.
Points == {"existing", "insert", "store", "alloc", "link", "hold", "setId", "cast", "invoke"}

Threads ==
    /\ at \in [Sessions -> Labels]
    /\ x \in [Sessions -> Objs \cup {NoObject}]
    /\ newId \in [Sessions -> Nat \cup Objs]
    /\ \A s \in Sessions :
          /\ at[s] \in Points => x[s] \in Objs
          /\ at[s] = "link" => newId[s] \in Objs \cup 0..(table.ids.size - 1)
          /\ at[s] \in {"hold", "setId"} => newId[s] \in 0..(table.ids.size - 1)

Weak == Shared /\ Threads

\* Two slots are written.
LEMMA WriteSlots ==
    ASSUME NEW v, Slots(v), NEW i \in 0..(v.size - 1), NEW j \in 0..(v.size - 1),
           NEW a \in Objs \cup 0..(v.size - 1), NEW b \in Objs \cup 0..(v.size - 1)
    PROVE  Slots([size |-> v.size, at |-> [[v.at EXCEPT ![i] = a] EXCEPT ![j] = b]])
<1> DEFINE S == Objs \cup 0..(v.size - 1)
           slots == [[v.at EXCEPT ![i] = a] EXCEPT ![j] = b]
<1>1. v.at \in [0..(v.size - 1) -> S] /\ a \in S /\ b \in S
  BY DEF Slots
<1>2. slots \in [0..(v.size - 1) -> S]
  <2> HIDE DEF S
  <2> QED
    BY <1>1
<1> HIDE DEF slots
<1> QED
  BY <1>2 DEF Slots

LEMMA RoomSlots ==
    ASSUME NEW v, Slots(v)
    PROVE  LET w == WithRoom(v) IN
           Slots(w) /\ v.size <= w.size /\ w.at[0] \in Objs \cup 0..(w.size - 1)
<1>1. CASE v.at[0] # 0
  BY <1>1 DEF WithRoom, Slots
<1>2. CASE v.at[0] = 0
  <2> DEFINE n == v.size
             slots == [i \in 0..(2 * n - 1) |-> IF i = 0 THEN n ELSE IF i < n THEN v.at[i]
                                               ELSE IF i = 2 * n - 1 THEN 0 ELSE i + 1]
  <2>1. n \in Nat \ {0}
    BY DEF Slots
  <2>2. WithRoom(v) = [size |-> 2 * n, at |-> slots]
    BY <1>2, <2>1, DoubledVector
  <2>3. slots \in [0..(2 * n - 1) -> Objs \cup 0..(2 * n - 1)]
    BY <2>1 DEF Slots
  <2>4. slots[0] \in 0..(2 * n - 1)
    BY <2>1
  <2> HIDE DEF slots
  <2> QED
    BY <2>1, <2>2, <2>3, <2>4 DEF Slots
<1> QED
  BY <1>1, <1>2

LEMMA AddValSlots ==
    ASSUME NEW v, Slots(v), v.at[0] \in Nat, NEW o \in Objs
    PROVE  LET w == AddVal(v, o) IN
           Slots(w) /\ v.size <= w.size /\ NextId(v) \in 0..(w.size - 1)
<1> DEFINE u == WithRoom(v)
           id == u.at[0]
           next == u.at[id]
<1>1. Slots(u) /\ v.size <= u.size
  BY RoomSlots
<1>2. id \in 0..(u.size - 1)
  <2>1. CASE v.at[0] # 0
    BY <2>1, PointersApart DEF WithRoom, Slots
  <2>2. CASE v.at[0] = 0
    <3>1. v.size \in Nat \ {0}
      BY DEF Slots
    <3> QED
      BY <2>2, <3>1, DoubledVector
  <2> QED
    BY <2>1, <2>2
<1>3. next \in Objs \cup 0..(u.size - 1)
  BY <1>1, <1>2 DEF Slots
<1>4. AddVal(v, o) = [size |-> u.size, at |-> [[u.at EXCEPT ![0] = next] EXCEPT ![id] = o]]
  <2> DEFINE a == [u.at EXCEPT ![0] = next]
             z == [u EXCEPT !.at[0] = next]
  <2>1. AddVal(v, o) = [z EXCEPT !.at[id] = o]
    BY DEF AddVal, AllocId, NextId
  <2>2. z = [size |-> u.size, at |-> a]
    <3> HIDE DEF u, next
    <3> QED
      BY <1>1 DEF Slots
  <2>3. [z EXCEPT !.at[id] = o] = [size |-> u.size, at |-> [a EXCEPT ![id] = o]]
    <3> HIDE DEF a, z, id
    <3> QED
      BY <2>2
  <2> QED
    BY <2>1, <2>3
<1>5. 0 \in 0..(u.size - 1)
  BY <1>1 DEF Slots
<1> HIDE DEF u, next, id
<1>6. Slots(AddVal(v, o)) /\ AddVal(v, o).size = u.size
  BY <1>1, <1>2, <1>3, <1>4, <1>5, WriteSlots
<1> QED
  BY <1>1, <1>2, <1>6 DEF NextId, u, id

LEMMA FreeIdSlots ==
    ASSUME NEW v, Slots(v), NEW id \in 0..(v.size - 1)
    PROVE  Slots(FreeId(v, id)) /\ FreeId(v, id).size = v.size
<1> DEFINE slots == [[v.at EXCEPT ![id] = v.at[0]] EXCEPT ![0] = id]
<1>1. FreeId(v, id) = [size |-> v.size, at |-> slots]
  <2>1. FreeId(v, id) = [v EXCEPT !.at = slots]
    BY DEF FreeId
  <2> HIDE DEF slots
  <2> QED
    BY <2>1 DEF Slots
<1>2. 0 \in 0..(v.size - 1) /\ v.at[0] \in Objs \cup 0..(v.size - 1)
  BY DEF Slots
<1> QED
  BY <1>1, <1>2, WriteSlots

\* A step that leaves all of the objects alone.
LEMMA SameShared ==
    ASSUME Shared, UNCHANGED <<table, memory, refs, objId, app>>
    PROVE  Shared' /\ table'.ids.size >= table.ids.size
BY DEF Shared, Slots

\* A step of one session, and a step of the application.
LEMMA MoveThreads ==
    ASSUME Weak, table'.ids.size \in Nat, table'.ids.size >= table.ids.size,
           NEW s \in Sessions, NEW l \in Labels,
           NEW y \in Objs \cup {NoObject}, NEW n \in Nat \cup Objs,
           at' = [at EXCEPT ![s] = l], x' = [x EXCEPT ![s] = y], newId' = [newId EXCEPT ![s] = n],
           l \in Points => y \in Objs,
           l = "link" => n \in Objs \cup 0..(table'.ids.size - 1),
           l \in {"hold", "setId"} => n \in 0..(table'.ids.size - 1)
    PROVE  Threads'
<1>1. ASSUME NEW t \in Sessions
      PROVE  /\ at'[t] \in Points => x'[t] \in Objs
             /\ at'[t] = "link" => newId'[t] \in Objs \cup 0..(table'.ids.size - 1)
             /\ at'[t] \in {"hold", "setId"} => newId'[t] \in 0..(table'.ids.size - 1)
  <2>1. table.ids.size \in Nat
    BY DEF Weak, Shared, Slots
  <2>2. CASE t = s
    BY <2>2 DEF Weak, Threads
  <2>3. CASE t # s
    BY <2>1, <2>3 DEF Weak, Threads
  <2> QED
    BY <2>2, <2>3
<1> QED
  BY <1>1 DEF Weak, Threads

LEMMA SameThreads ==
    ASSUME Weak, table'.ids.size \in Nat, table'.ids.size >= table.ids.size,
           UNCHANGED <<at, x, newId>>
    PROVE  Threads'
<1>1. table.ids.size \in Nat
  BY DEF Weak, Shared, Slots
<1> QED
  BY <1>1 DEF Weak, Threads

\* What the handlers do to the objects.
LEMMA SessionShared ==
    ASSUME Weak, NEW s \in Sessions, Client(s) \/ Create(s) \/ Find(s) \/ Call(s)
    PROVE  Shared' /\ table'.ids.size >= table.ids.size
<1> USE DEF At, Goto, heap, local, history
<1>1. /\ Shared /\ Slots(table.ids) /\ table = [ids |-> table.ids, names |-> table.names]
      /\ at[s] \in Points => x[s] \in Objs
      /\ table.ids.size \in Nat \ {0}
  BY DEF Weak, Shared, Threads, Slots
<1>2. CASE \/ Client(s) \/ Load(s) \/ LoadZero(s) \/ LoadFree(s) \/ WrongClass(s)
           \/ TouchFreed(s) \/ RetrieveNothing(s) \/ RetrieveFreed(s)
  <2>1. UNCHANGED <<table, memory, refs, objId, app>>
    BY <1>2 DEF Client, AskByName, AskCreate, AskCall, Ask, Load, LoadZero, LoadFree,
                WrongClass, TouchFreed, RetrieveNothing, RetrieveFreed, Fail
  <2> QED
    BY <1>1, <2>1, SameShared
<1>3. CASE \/ LookUp(s) \/ Existing(s) \/ FindCreator(s) \/ NoCreator(s) \/ ConstructNull(s)
           \/ NameFree(s) \/ NameExists(s) \/ LinkOutside(s)
  <2>1. UNCHANGED <<table, memory, refs, objId, app>>
    BY <1>3 DEF LookUp, Existing, FindCreator, NoCreator, ConstructNull, NameFree, NameExists,
                LinkOutside, Fail
  <2> QED
    BY <1>1, <2>1, SameShared
<1>4. CASE Construct(s)
  <2>1. PICK o \in Objs \ Servants :
           /\ memory' = [memory EXCEPT ![o] = "live"]
           /\ refs' = [refs EXCEPT ![o] = IF req[s].op = "create" THEN 1 ELSE 0]
    BY <1>4 DEF Construct, HeldByTable
  <2>2. UNCHANGED <<table, objId, app>>
    BY <1>4 DEF Construct
  <2> QED
    BY <1>1, <2>1, <2>2 DEF Shared
<1>5. CASE StoreName(s)
  <2> DEFINE m == WithName(table, req[s].name, x[s])
  <2>1. /\ table' = [table EXCEPT !.names = m] /\ x[s] \in Objs
        /\ UNCHANGED <<memory, refs, objId, app>>
    BY <1>1, <1>5 DEF StoreName, Points
  <2>2. \A n \in DOMAIN m : m[n] \in Objs
    BY <2>1 DEF Weak, Shared, WithName
  <2> HIDE DEF m
  <2>3. table' = [ids |-> table.ids, names |-> m]
    BY <1>1, <2>1
  <2> QED
    BY <1>1, <2>1, <2>2, <2>3 DEF Shared
<1>6. CASE Alloc(s)
  <2> DEFINE w == WithRoom(table.ids)
  <2>1. table' = [table EXCEPT !.ids = w] /\ UNCHANGED <<memory, refs, objId, app>>
    BY <1>6 DEF Alloc
  <2>2. Slots(w) /\ w.size >= table.ids.size
    BY <1>1, RoomSlots DEF Slots
  <2> HIDE DEF w
  <2>3. table' = [ids |-> w, names |-> table.names] /\ w.size \in Nat
    BY <1>1, <2>1, <2>2 DEF Slots
  <2> QED
    BY <1>1, <2>1, <2>2, <2>3 DEF Shared
<1>7. CASE Link(s)
  <2> DEFINE v == table.ids
             slots == [[v.at EXCEPT ![0] = v.at[newId[s]]] EXCEPT ![newId[s]] = x[s]]
  <2>1. /\ table' = [table EXCEPT !.ids.at = slots]
        /\ at[s] = "link" /\ newId[s] \in Nat
        /\ UNCHANGED <<memory, refs, objId, app>>
    BY <1>7 DEF Link
  <2>2. newId[s] \in 0..(v.size - 1) /\ x[s] \in Objs
    BY <1>1, <2>1, PointersApart DEF Weak, Threads, Points
  <2>3. v.at[newId[s]] \in Objs \cup 0..(v.size - 1) /\ 0 \in 0..(v.size - 1)
    BY <1>1, <2>2 DEF Slots
  <2>4. Slots([size |-> v.size, at |-> slots])
    BY <1>1, <2>2, <2>3, WriteSlots
  <2> HIDE DEF slots
  <2>5. table' = [ids |-> [size |-> v.size, at |-> slots], names |-> table.names]
    BY <1>1, <2>1 DEF Slots
  <2> QED
    BY <1>1, <2>1, <2>4, <2>5 DEF Shared
<1>8. CASE Hold(s) \/ Cast(s)
  <2>1. /\ refs' = [refs EXCEPT ![x[s]] = @ + 1] /\ x[s] \in Objs
        /\ UNCHANGED <<table, memory, objId, app>>
    BY <1>1, <1>8 DEF Hold, Cast, HeldByTable, HeldByCall, Points
  <2>2. refs' \in [Objs -> Int]
    BY <1>1, <2>1 DEF Shared
  <2> QED
    BY <1>1, <2>1, <2>2 DEF Shared
<1>9. CASE SetId(s)
  <2>1. /\ objId' = [objId EXCEPT ![x[s]] = newId[s]] /\ at[s] = "setId"
        /\ UNCHANGED <<table, memory, refs, app>>
    BY <1>9 DEF SetId
  <2>2. newId[s] \in 0..(table.ids.size - 1) /\ newId[s] \in Nat
    BY <1>1, <2>1 DEF Weak, Threads
  <2>3. objId' \in [Objs -> Nat] /\ \A o \in Objs : objId'[o] \in 0..(table.ids.size - 1)
    BY <1>1, <2>1, <2>2 DEF Shared
  <2> QED
    BY <1>1, <2>1, <2>3 DEF Shared
<1>10. CASE Retrieve(s)
  <2> DEFINE o == table.names[req[s].name]
  <2>1. /\ memory' = [memory EXCEPT ![o] = IF refs[o] = 0 THEN "freed" ELSE @]
        /\ UNCHANGED <<table, refs, objId, app>> /\ o \in Objs
    BY <1>1, <1>10 DEF Retrieve, Found, HasName, Shared
  <2> HIDE DEF o
  <2> QED
    BY <1>1, <2>1 DEF Shared
<1>11. CASE Invoke(s)
  <2>1. /\ Release(x[s], HeldByCall) /\ x[s] \in Objs
        /\ UNCHANGED <<table, objId, app>>
    BY <1>1, <1>11 DEF Invoke, Points
  <2>2. refs' \in [Objs -> Int] /\ memory' \in [Objs -> {"unused", "live", "freed"}]
    BY <1>1, <2>1 DEF Release, RefsAfter, HeldByCall, Shared
  <2> QED
    BY <1>1, <2>1, <2>2 DEF Shared
<1> QED
  BY <1>2, <1>3, <1>4, <1>5, <1>6, <1>7, <1>8, <1>9, <1>10, <1>11 DEF Create, Find, Call

\* What they do to the thread of the session.
LEMMA SessionThreads ==
    ASSUME Weak, NEW s \in Sessions, Client(s) \/ Create(s) \/ Find(s) \/ Call(s),
           table'.ids.size \in Nat, table'.ids.size >= table.ids.size
    PROVE  Threads'
<1> USE DEF At, Goto, heap, local, history
<1>1. /\ x[s] \in Objs \cup {NoObject} /\ newId[s] \in Nat \cup Objs
      /\ at \in [Sessions -> Labels] /\ x \in [Sessions -> Objs \cup {NoObject}]
      /\ newId \in [Sessions -> Nat \cup Objs]
      /\ at[s] \in Points => x[s] \in Objs
      /\ table.ids.size \in Nat
  BY DEF Weak, Shared, Threads, Slots
<1>2. x = [x EXCEPT ![s] = x[s]] /\ newId = [newId EXCEPT ![s] = newId[s]]
  BY <1>1
<1>3. ASSUME NEW l \in {"lookUp", "retrieve", "findCreator", "load", "construct", "ended"},
             at' = [at EXCEPT ![s] = l], UNCHANGED <<x, newId>>
      PROVE  Threads'
  <2>1. l \in Labels /\ l \notin Points /\ l \notin {"link", "hold", "setId"}
    BY DEF Labels, Points
  <2> QED
    BY <1>1, <1>2, <1>3, <2>1, MoveThreads
<1>4. CASE Client(s) \/ FindCreator(s) \/ WrongClass(s)
  BY <1>3, <1>4
  DEF Client, AskByName, AskCreate, AskCall, Ask, FindCreator, WrongClass
<1>5. CASE \/ Existing(s) \/ NoCreator(s) \/ SetId(s) \/ Retrieve(s) \/ RetrieveNothing(s)
           \/ Invoke(s)
  <2>1. Idle(s)
    BY <1>5 DEF Existing, NoCreator, SetId, Retrieve, RetrieveNothing, Invoke
  <2> QED
    BY <1>1, <2>1, MoveThreads DEF Idle, Labels, Points
<1>6. CASE ConstructNull(s) \/ NameExists(s) \/ LinkOutside(s) \/ RetrieveFreed(s)
           \/ LoadZero(s) \/ LoadFree(s) \/ TouchFreed(s)
  BY <1>6, SameThreads
  DEF ConstructNull, NameExists, LinkOutside, RetrieveFreed, LoadZero, LoadFree, TouchFreed, Fail
<1>7. CASE LookUp(s)
  <2>1. CASE Found(req[s].name)
    <3>1. PICK o \in Objs : x' = [x EXCEPT ![s] = o]
      BY <1>7, <2>1 DEF LookUp, Found, HasName, Weak, Shared
    <3>2. UNCHANGED newId /\ at' = [at EXCEPT ![s] = "existing"]
      BY <1>7, <2>1 DEF LookUp
    <3> QED
      BY <1>1, <1>2, <3>1, <3>2, MoveThreads DEF Labels
  <2>2. CASE ~Found(req[s].name)
    BY <1>3, <1>7, <2>2 DEF LookUp
  <2> QED
    BY <2>1, <2>2
<1>8. CASE NameFree(s) \/ StoreName(s) \/ Hold(s) \/ Cast(s)
  <2>1. PICK l \in {"store", "alloc", "setId", "invoke"} :
           at' = [at EXCEPT ![s] = l] /\ (l = "setId" => at[s] = "hold")
    BY <1>8 DEF NameFree, StoreName, Hold, Cast
  <2>2. UNCHANGED <<x, newId>> /\ x[s] \in Objs /\ l \in Labels
    BY <1>1, <1>8 DEF NameFree, StoreName, Hold, Cast, Points, Labels
  <2>3. l = "setId" => newId[s] \in 0..(table'.ids.size - 1)
    BY <1>1, <2>1 DEF Weak, Threads
  <2> QED
    BY <1>1, <1>2, <2>1, <2>2, <2>3, MoveThreads
<1>9. CASE Construct(s)
  <2>1. PICK o \in Objs : x' = [x EXCEPT ![s] = o]
    BY <1>9 DEF Construct
  <2>2. PICK l \in {"alloc", "insert"} : at' = [at EXCEPT ![s] = l]
    BY <1>9 DEF Construct
  <2>3. UNCHANGED newId
    BY <1>9 DEF Construct
  <2> QED
    BY <1>1, <1>2, <2>1, <2>2, <2>3, MoveThreads DEF Labels
<1>10. CASE Alloc(s)
  <2> DEFINE w == WithRoom(table.ids)
  <2>1. /\ newId' = [newId EXCEPT ![s] = w.at[0]] /\ UNCHANGED x
        /\ at[s] = "alloc" /\ at' = [at EXCEPT ![s] = "link"]
        /\ table' = [table EXCEPT !.ids = w]
    BY <1>10 DEF Alloc, NextId
  <2>2. w.at[0] \in Objs \cup 0..(w.size - 1) /\ x[s] \in Objs
    BY <1>1, <2>1, RoomSlots DEF Weak, Shared, Points
  <2> HIDE DEF w
  <2>3. table'.ids = w
    BY <2>1 DEF Weak, Shared
  <2>4. w.at[0] \in Nat \cup Objs /\ "link" \in Labels
    BY <2>2 DEF Labels
  <2> QED
    BY <1>1, <1>2, <2>1, <2>2, <2>3, <2>4, MoveThreads
<1>11. CASE Link(s)
  <2>1. /\ UNCHANGED <<x, newId>> /\ at[s] = "link" /\ newId[s] \in Nat
    BY <1>11 DEF Link
  <2>2. PICK l \in {"setId", "hold"} : at' = [at EXCEPT ![s] = l]
    BY <1>11 DEF Link
  <2>3. x[s] \in Objs /\ newId[s] \in 0..(table'.ids.size - 1) /\ l \in Labels
    BY <1>1, <2>1, PointersApart DEF Weak, Threads, Points, Labels
  <2> QED
    BY <1>1, <1>2, <2>1, <2>2, <2>3, MoveThreads
<1>12. CASE Load(s)
  <2> DEFINE y == Ptr(table, req[s].proxy.id)
  <2>1. /\ x' = [x EXCEPT ![s] = y] /\ at' = [at EXCEPT ![s] = "cast"] /\ UNCHANGED newId
        /\ req[s].proxy.id \in 1..(table.ids.size - 1) /\ y \notin Nat
    BY <1>12 DEF Load, InRange, IsValid, Free, Ptr
  <2>2. y \in Objs
    BY <1>1, <2>1 DEF Weak, Shared, Slots, Ptr
  <2> HIDE DEF y
  <2> QED
    BY <1>1, <1>2, <2>1, <2>2, MoveThreads DEF Labels
<1> QED
  BY <1>4, <1>5, <1>6, <1>7, <1>8, <1>9, <1>10, <1>11, <1>12 DEF Create, Find, Call

\* What the application does.
LEMMA ApplicationShared ==
    ASSUME Weak, Application \/ AddOutside
    PROVE  Shared' /\ table'.ids.size >= table.ids.size /\ UNCHANGED <<at, x, newId>>
<1> USE DEF heap, local, history
<1>1. /\ Shared /\ Slots(table.ids) /\ table = [ids |-> table.ids, names |-> table.names]
      /\ table.ids.size \in Nat \ {0}
  BY DEF Weak, Shared, Slots
<1>2. UNCHANGED <<at, x, newId>>
  BY DEF Application, AddOutside, AddServant, RemoveServant, RemovePassedOver, Drop, ServantLost,
         Fail
<1>3. ASSUME NEW o \in Servants, NEW n \in Names, AddServant(o, n)
      PROVE  Shared' /\ table'.ids.size >= table.ids.size
  <2>1. /\ app' = [app EXCEPT ![o] = "added"] /\ memory' = [memory EXCEPT ![o] = "live"]
        /\ o \in Objs
    BY <1>3, ObjectsAssumption DEF AddServant
  <2>2. CASE Found(n)
    BY <1>1, <1>3, <2>1, <2>2 DEF AddServant, Shared
  <2>3. CASE ~Found(n)
    <3> DEFINE w == AddVal(table.ids, o)
               m == WithName(table, n, o)
               id == NextId(table.ids)
    <3>1. /\ refs' = [refs EXCEPT ![o] = 2] /\ objId' = [objId EXCEPT ![o] = id]
          /\ table' = AddNamed(table, o, n) /\ table.ids.at[0] \in Nat
      BY <1>3, <2>3 DEF AddServant, HeldByTable
    <3>2. Slots(w) /\ table.ids.size <= w.size /\ id \in 0..(w.size - 1) /\ w.size \in Nat
      BY <1>1, <2>1, <3>1, AddValSlots DEF Slots
    <3>3. \A k \in DOMAIN m : m[k] \in Objs
      BY <1>1, <2>1 DEF Shared, WithName
    <3>4. table' = [ids |-> w, names |-> m]
      <4>1. AddPtr(table, o) = [ids |-> w, names |-> table.names]
        BY <1>1 DEF AddPtr
      <4>2. table' = [AddPtr(table, o) EXCEPT !.names = m]
        BY <3>1 DEF AddNamed
      <4> HIDE DEF w, m
      <4> QED
        BY <4>1, <4>2
    <3> HIDE DEF w, m, id
    <3>5. objId' \in [Objs -> Nat] /\ \A p \in Objs : objId'[p] \in 0..(w.size - 1)
      BY <1>1, <2>1, <3>1, <3>2 DEF Shared
    <3>6. refs' \in [Objs -> Int]
      <4>1. 2 \in Int
        OBVIOUS
      <4> QED
        BY <1>1, <3>1, <4>1 DEF Shared
    <3> QED
      BY <1>1, <2>1, <3>2, <3>3, <3>4, <3>5, <3>6 DEF Shared
  <2> QED
    BY <2>2, <2>3
<1>4. ASSUME NEW o \in Objs, NEW n \in {HeldByTable, 1}, Release(o, n)
      PROVE  refs' \in [Objs -> Int] /\ memory' \in [Objs -> {"unused", "live", "freed"}]
  BY <1>1, <1>4 DEF Release, RefsAfter, HeldByTable, Shared
<1>5. ASSUME NEW o \in Servants, RemoveServant(o)
      PROVE  Shared' /\ table'.ids.size >= table.ids.size
  <2> DEFINE w == FreeId(table.ids, objId[o])
             p == Ptr(table, objId[o])
  <2>1. /\ table' = [table EXCEPT !.ids = w] /\ Release(p, HeldByTable)
        /\ app' = [app EXCEPT ![o] = "removed"] /\ p \notin Nat /\ UNCHANGED objId
    BY <1>5 DEF RemoveServant, RemoveId, Ptr, Free
  <2>2. objId[o] \in 0..(table.ids.size - 1)
    BY <1>1, ObjectsAssumption DEF Shared
  <2>3. Slots(w) /\ w.size = table.ids.size
    BY <1>1, <2>2, FreeIdSlots
  <2>4. p \in Objs
    BY <1>1, <2>1, <2>2 DEF Slots, Ptr
  <2> HIDE DEF w, p
  <2>5. table' = [ids |-> w, names |-> table.names]
    BY <1>1, <2>1
  <2> QED
    BY <1>1, <1>4, <2>1, <2>3, <2>4, <2>5 DEF Shared
<1>6. ASSUME NEW o \in Servants, RemovePassedOver(o) \/ Drop(o)
      PROVE  Shared' /\ table'.ids.size >= table.ids.size
  <2>1. o \in Objs /\ UNCHANGED <<table, objId>>
    BY <1>6, ObjectsAssumption DEF RemovePassedOver, Drop
  <2>2. refs' \in [Objs -> Int] /\ memory' \in [Objs -> {"unused", "live", "freed"}]
    BY <1>1, <1>4, <1>6, <2>1 DEF RemovePassedOver, Drop, Shared
  <2>3. app' \in [Servants -> {"new", "added", "removed", "dropped"}]
    BY <1>1, <1>6 DEF RemovePassedOver, Drop, Shared
  <2> QED
    BY <1>1, <2>1, <2>2, <2>3 DEF Shared
<1>7. ASSUME AddOutside \/ \E o \in Servants : ServantLost(o)
      PROVE  Shared' /\ table'.ids.size >= table.ids.size
  <2>1. UNCHANGED <<table, memory, refs, objId, app>>
    BY <1>7 DEF AddOutside, ServantLost, Fail
  <2> QED
    BY <1>1, <2>1, SameShared
<1> QED
  BY <1>2, <1>3, <1>5, <1>6, <1>7 DEF Application

LEMMA WeakStep == Weak /\ [Next]_vars => Weak'
<1> SUFFICES ASSUME Weak, [Next]_vars PROVE Weak'
  OBVIOUS
<1>1. ASSUME Shared' PROVE table'.ids.size \in Nat
  BY <1>1 DEF Shared, Slots
<1>2. ASSUME NEW s \in Sessions, Client(s) \/ Create(s) \/ Find(s) \/ Call(s)
      PROVE  Weak'
  <2>1. Shared' /\ table'.ids.size >= table.ids.size
    BY <1>2, SessionShared
  <2> QED
    BY <1>1, <1>2, <2>1, SessionThreads DEF Weak
<1>3. CASE Application \/ AddOutside
  <2>1. Shared' /\ table'.ids.size >= table.ids.size /\ UNCHANGED <<at, x, newId>>
    BY <1>3, ApplicationShared
  <2> QED
    BY <1>1, <2>1, SameThreads DEF Weak
<1>4. CASE UNCHANGED vars
  BY <1>4 DEF vars, heap, local, Weak, Shared, Slots, Threads
<1> QED
  BY <1>2, <1>3, <1>4 DEF Next

LEMMA WeakInit == Init => Weak
<1> SUFFICES ASSUME Init PROVE Weak
  OBVIOUS
<1>1. Slots(NewList(3)) /\ NewList(3).size = 4
  BY NewVector DEF Vector, Slots
<1> QED
  BY <1>1 DEF Init, NewTable, Weak, Shared, Threads, Labels, Points

\* The session handles a request by name, or creates without one.
ByName(s) == req[s].op # "create"

\* The session looks for a name or creates: what Creation is about.
Busy(s) == at[s] \notin {"idle", "load", "cast", "invoke", "ended"}

\* Where it has yet to store the pointer, by name or without.
Beginning == {"lookUp", "findCreator", "construct", "insert", "store"}

\* The requests that are handled are what the clients may ask.
Handling ==
    /\ req \in [Sessions -> Request]
    /\ proxies \in [Sessions -> SUBSET Proxy]
    /\ asked \in 0..(MaxRequests + MaxMisused)
    /\ \A s \in Sessions :
          /\ at[s] \in {"lookUp", "existing", "insert", "store", "hold", "retrieve"} => ByName(s)
          /\ at[s] \in Beginning => req[s].op \in {"create", "createNamed"}
          /\ Busy(s) /\ ByName(s) => req[s].name \in Names

\* The classes and the names, and what TypeOK allows fault to be.
Faults == {"no", "freed", "null creator", "server.cpp:214", "access_byid.cpp:55",
           "access_byid.cpp:105", "access_byid.cpp:215"}

Kinds ==
    /\ DOMAIN table.names \subseteq Names
    /\ class \in [Objs -> Classes]
    /\ fault \in Faults

\* Who overtakes a session in alloc_id, or creates by the name that it creates
\* by, overlaps with it.
Marks ==
    /\ misuse \subseteq Misuses
    /\ "overtaken" \in misuse \/ "sameName" \in misuse => "overlap" \in misuse

\* The requests that the clients make.
LEMMA NoRequestTyped ==
    /\ NoRequest \in Request /\ NoProxy \in Proxy /\ NoProxy.cls \in Classes
    /\ \A c \in Classes, op \in Ops :
          /\ [NoRequest EXCEPT !.op = op, !.cls = c] \in Request
          /\ \A n \in Names : [NoRequest EXCEPT !.op = op, !.name = n, !.cls = c] \in Request
    /\ \A p \in Proxy : [NoRequest EXCEPT !.proxy = p] \in Request
<1>1. NoProxy \in Proxy /\ NoProxy.cls \in Classes
  <2>1. (CHOOSE c \in Classes : TRUE) \in Classes
    BY UsageAssumption
  <2> QED
    BY <2>1 DEF NoProxy, Proxy
<1> QED
  BY <1>1 DEF NoRequest, Request, Ops

\* At the beginning.
LEMMA BaseInit == Init => Weak /\ Handling /\ Kinds /\ Marks
<1> SUFFICES ASSUME Init PROVE Handling /\ Kinds /\ Marks
  BY WeakInit
<1>1. class \in [Objs -> Classes] /\ req \in [Sessions -> Request]
  BY NoRequestTyped DEF Init
<1>2. 0 \in 0..(MaxRequests + MaxMisused)
  BY UsageAssumption
<1> QED
  BY <1>1, <1>2 DEF Init, Handling, Kinds, Faults, Marks, Busy, Beginning, NewTable

\* A step of a session that keeps its request.
LEMMA MoveHandling ==
    ASSUME Handling, Weak, NEW s \in Sessions, NEW l, NEW y,
           UNCHANGED <<req, proxies, asked>>,
           at' = [at EXCEPT ![s] = l], x' = [x EXCEPT ![s] = y],
           l \in {"lookUp", "existing", "insert", "store", "hold", "retrieve"} => ByName(s),
           l \in Beginning => at[s] \in Beginning,
           l \notin {"idle", "load", "cast", "invoke", "ended"} => Busy(s)
    PROVE  Handling'
<1>1. ASSUME NEW t \in Sessions
      PROVE  /\ at'[t] \in {"lookUp", "existing", "insert", "store", "hold", "retrieve"} => ByName(t)'
             /\ at'[t] \in Beginning => req'[t].op \in {"create", "createNamed"}
             /\ Busy(t)' /\ ByName(t)' => req'[t].name \in Names
  BY DEF Handling, Busy, ByName, Weak, Threads
<1> QED
  BY <1>1 DEF Handling

\* A session that returns, with a proxy for its client or without.
LEMMA IdleHandling ==
    ASSUME Handling, Weak, NEW s \in Sessions, Idle(s), asked' = asked,
           \/ UNCHANGED proxies
           \/ \E id \in Nat, o \in Objs \cup {NoObject} : Adopt(s, id, o)
    PROVE  Handling'
<1>1. proxies' \in [Sessions -> SUBSET Proxy]
  <2>1. CASE UNCHANGED proxies
    BY <2>1 DEF Handling
  <2>2. ASSUME NEW id \in Nat, NEW o \in Objs \cup {NoObject}, Adopt(s, id, o)
        PROVE  proxies' \in [Sessions -> SUBSET Proxy]
    <3>1. req[s].cls \in Classes
      BY DEF Handling, Request
    <3>2. [id |-> id, cls |-> req[s].cls, obj |-> o] \in Proxy
      BY <3>1 DEF Proxy
    <3> QED
      BY <2>2, <3>2 DEF Adopt, Handling
  <2> QED
    BY <2>1, <2>2
<1>2. req' \in [Sessions -> Request]
  BY NoRequestTyped DEF Idle, Handling
<1>3. ASSUME NEW t \in Sessions
      PROVE  /\ at'[t] \in {"lookUp", "existing", "insert", "store", "hold", "retrieve"} => ByName(t)'
             /\ at'[t] \in Beginning => req'[t].op \in {"create", "createNamed"}
             /\ Busy(t)' /\ ByName(t)' => req'[t].name \in Names
  BY DEF Idle, Goto, Handling, Busy, ByName, Beginning, Weak, Threads
<1> QED
  BY <1>1, <1>2, <1>3 DEF Handling

\* A client asks.
LEMMA AskHandling ==
    ASSUME Handling, Weak, NEW s \in Sessions, Client(s)
    PROVE  Handling'
<1> DEFINE Sound(r, handler) ==
              /\ r \in Request
              /\ \/ handler = "lookUp" /\ r.op = "createNamed" /\ r.name \in Names
                 \/ handler = "retrieve" /\ r.op # "create" /\ r.name \in Names
                 \/ handler = "findCreator" /\ r.op = "create"
                 \/ handler = "load"
<1>1. ASSUME NEW r, NEW handler, Ask(s, r, handler), Sound(r, handler)
      PROVE  Handling'
  <2>1. /\ asked' = asked + 1 /\ req' = [req EXCEPT ![s] = r]
        /\ at' = [at EXCEPT ![s] = handler] /\ UNCHANGED <<x, proxies>>
        /\ asked < IF misuse = {} THEN MaxRequests ELSE MaxMisused
    BY <1>1 DEF Ask, Goto
  <2>2. asked' \in 0..(MaxRequests + MaxMisused)
    BY <2>1, UsageAssumption DEF Handling
  <2>3. req' \in [Sessions -> Request]
    BY <1>1, <2>1 DEF Handling
  <2>4. ASSUME NEW t \in Sessions
        PROVE  /\ at'[t] \in {"lookUp", "existing", "insert", "store", "hold", "retrieve"} => ByName(t)'
               /\ at'[t] \in Beginning => req'[t].op \in {"create", "createNamed"}
               /\ Busy(t)' /\ ByName(t)' => req'[t].name \in Names
    <3>1. CASE t = s
      BY <1>1, <2>1, <3>1 DEF Handling, Busy, ByName, Beginning, Weak, Threads
    <3>2. CASE t # s
      BY <2>1, <3>2 DEF Handling, Busy, ByName, Weak, Threads
    <3> QED
      BY <3>1, <3>2
  <2> QED
    BY <1>1, <2>1, <2>2, <2>3, <2>4 DEF Handling
<1>3. NoRequest = [op |-> "call", name |-> NoName, cls |-> NoProxy.cls, proxy |-> NoProxy]
  BY DEF NoRequest
<1>4. ASSUME NEW n \in Names, NEW c \in Classes
      PROVE  /\ Sound([NoRequest EXCEPT !.op = "createNamed", !.name = n, !.cls = c], "lookUp")
             /\ Sound([NoRequest EXCEPT !.op = "retrieve", !.name = n, !.cls = c], "retrieve")
             /\ Sound([NoRequest EXCEPT !.op = "create", !.cls = c], "findCreator")
  <2>1. /\ [NoRequest EXCEPT !.op = "createNamed", !.name = n, !.cls = c] \in Request
        /\ [NoRequest EXCEPT !.op = "retrieve", !.name = n, !.cls = c] \in Request
        /\ [NoRequest EXCEPT !.op = "create", !.cls = c] \in Request
    BY NoRequestTyped DEF Ops
  <2> QED
    BY <1>3, <2>1
<1>5. ASSUME NEW p \in Proxy PROVE Sound([NoRequest EXCEPT !.proxy = p], "load")
  BY NoRequestTyped
<1> HIDE DEF Sound
<1>6. CASE AskByName(s)
  BY <1>1, <1>4, <1>6 DEF AskByName
<1>7. CASE AskCreate(s)
  <2>1. PICK c \in Classes : Ask(s, [NoRequest EXCEPT !.op = "create", !.cls = c], "findCreator")
    BY <1>7 DEF AskCreate
  <2>2. Sound([NoRequest EXCEPT !.op = "create", !.cls = c], "findCreator")
    <3>1. [NoRequest EXCEPT !.op = "create", !.cls = c] \in Request
      BY NoRequestTyped DEF Ops
    <3> QED
      BY <1>3, <3>1 DEF Sound
  <2> QED
    BY <1>1, <2>1, <2>2
<1>8. CASE AskCall(s)
  <2>1. PICK p \in proxies[s] : Ask(s, [NoRequest EXCEPT !.proxy = p], "load")
    BY <1>8 DEF AskCall
  <2>2. p \in Proxy
    BY DEF Handling
  <2> QED
    BY <1>1, <1>5, <2>1, <2>2
<1> QED
  BY <1>6, <1>7, <1>8 DEF Client

\* Steps that handle no request.
LEMMA SameHandling ==
    ASSUME Handling, UNCHANGED <<req, proxies, asked, at>>
    PROVE  Handling'
BY DEF Handling, Busy, ByName

\* The handlers of creation.
LEMMA CreateHandling ==
    ASSUME Weak, Handling, NEW s \in Sessions, Create(s)
    PROVE  Handling'
<1> USE DEF At, Goto, heap, local, history
<1>1. /\ at \in [Sessions -> Labels] /\ x \in [Sessions -> Objs \cup {NoObject}]
      /\ \A n \in DOMAIN table.names : table.names[n] \in Objs
      /\ at[s] = "existing" => x[s] \in Objs
  BY DEF Weak, Shared, Threads, Points
<1>2. /\ 0..3 \subseteq Nat /\ (at[s] = "setId" => newId[s] \in Nat)
      /\ \A o \in Objs : objId[o] \in Nat
  BY DEF Weak, Shared, Threads
<1>3. CASE LookUp(s)
  <2>1. at[s] = "lookUp" /\ UNCHANGED <<req, proxies, asked>>
    BY <1>3 DEF LookUp
  <2>2. ByName(s) /\ Busy(s) /\ at[s] \in Beginning
    BY <2>1 DEF Handling, Busy, Beginning
  <2>3. CASE Found(req[s].name)
    <3>1. /\ x' = [x EXCEPT ![s] = table.names[req[s].name]]
          /\ at' = [at EXCEPT ![s] = "existing"] /\ table.names[req[s].name] \in Objs
      BY <1>1, <1>3, <2>3 DEF LookUp, Found, HasName
    <3> QED
      BY <1>1, <2>1, <2>2, <3>1, MoveHandling DEF Beginning
  <2>4. CASE ~Found(req[s].name)
    <3>1. x' = [x EXCEPT ![s] = x[s]] /\ at' = [at EXCEPT ![s] = "findCreator"]
      BY <1>1, <1>3, <2>4 DEF LookUp
    <3> QED
      BY <1>1, <2>1, <2>2, <3>1, MoveHandling
  <2> QED
    BY <2>3, <2>4
<1>4. CASE Existing(s)
  <2>1. Idle(s) /\ asked' = asked /\ at[s] = "existing"
        /\ (UNCHANGED proxies \/ Adopt(s, objId[x[s]], x[s]))
    BY <1>4 DEF Existing, IdOf
  <2>2. UNCHANGED proxies \/ \E id \in Nat, o \in Objs \cup {NoObject} : Adopt(s, id, o)
    BY <1>1, <1>2, <2>1
  <2> QED
    BY <1>1, <2>1, <2>2, IdleHandling
<1>5. CASE NoCreator(s)
  <2>1. /\ Idle(s) /\ asked' = asked
        /\ \E id \in 0..3 : Adopt(s, id, NoObject)
    BY <1>5 DEF NoCreator
  <2>2. \E id \in Nat, o \in Objs \cup {NoObject} : Adopt(s, id, o)
    BY <1>2, <2>1
  <2> QED
    BY <1>1, <2>1, <2>2, IdleHandling
<1>6. CASE SetId(s)
  <2>1. Idle(s) /\ asked' = asked /\ Adopt(s, newId[s], x[s]) /\ at[s] = "setId"
    BY <1>6 DEF SetId
  <2>2. \E id \in Nat, o \in Objs \cup {NoObject} : Adopt(s, id, o)
    BY <1>1, <1>2, <2>1
  <2> QED
    BY <1>1, <2>1, <2>2, IdleHandling
<1>7. CASE FindCreator(s) \/ Construct(s) \/ NameFree(s) \/ StoreName(s) \/ Alloc(s) \/ Link(s) \/ Hold(s)
  <2>1. Busy(s)
    BY <1>7 DEF FindCreator, Construct, NameFree, StoreName, Alloc, Link, Hold, Busy
  <2>2. PICK l \in {"construct", "alloc", "link", "setId", "insert", "store", "hold"} :
           /\ at' = [at EXCEPT ![s] = l] /\ (l \in {"insert", "store", "hold"} => ByName(s))
           /\ l \in Beginning => at[s] \in Beginning
    <3>1. CASE FindCreator(s) \/ StoreName(s) \/ Alloc(s) \/ Hold(s)
      BY <3>1 DEF FindCreator, StoreName, Alloc, Hold, Beginning
    <3>4. CASE NameFree(s)
      BY <3>4 DEF NameFree, Beginning, Handling
    <3>2. CASE Construct(s)
      BY <3>2 DEF Construct, ByName, Beginning
    <3>3. CASE Link(s)
      BY <3>3 DEF Link, ByName, Beginning
    <3> QED
      BY <1>7, <3>1, <3>2, <3>3, <3>4
  <2>3. \E y : x' = [x EXCEPT ![s] = y]
    <3>1. CASE Construct(s)
      BY <3>1 DEF Construct
    <3>2. CASE ~Construct(s)
      <4>1. x' = x
        BY <1>7, <3>2 DEF FindCreator, NameFree, StoreName, Alloc, Link, Hold
      <4>2. x' = [x EXCEPT ![s] = x[s]]
        BY <1>1, <4>1
      <4> QED
        BY <4>2
    <3> QED
      BY <3>1, <3>2
  <2>4. UNCHANGED <<req, proxies, asked>>
    BY <1>7 DEF FindCreator, Construct, NameFree, StoreName, Alloc, Link, Hold
  <2>5. PICK y : x' = [x EXCEPT ![s] = y]
    BY <2>3
  <2> QED
    BY <1>1, <2>1, <2>2, <2>4, <2>5, MoveHandling
<1>8. CASE ConstructNull(s) \/ NameExists(s) \/ LinkOutside(s)
  <2>1. UNCHANGED <<req, proxies, asked, at>>
    BY <1>8 DEF ConstructNull, NameExists, LinkOutside, Fail
  <2> QED
    BY <2>1, SameHandling
<1> QED
  BY <1>3, <1>4, <1>5, <1>6, <1>7, <1>8 DEF Create

\* Those of look-ups and calls.
LEMMA CallHandling ==
    ASSUME Weak, Handling, NEW s \in Sessions, Find(s) \/ Call(s)
    PROVE  Handling'
<1> USE DEF At, Goto, heap, local, history
<1>1. /\ at \in [Sessions -> Labels] /\ x \in [Sessions -> Objs \cup {NoObject}]
      /\ \A n \in DOMAIN table.names : table.names[n] \in Objs
  BY DEF Weak, Shared, Threads
<1>2. \A o \in Objs : objId[o] \in Nat
  BY DEF Weak, Shared
<1>3. CASE Retrieve(s)
  <2> DEFINE o == table.names[req[s].name]
  <2>1. Idle(s) /\ asked' = asked /\ Adopt(s, objId[o], o) /\ o \in Objs
    BY <1>1, <1>3 DEF Retrieve, IdOf, Found, HasName
  <2> HIDE DEF o
  <2>2. \E id \in Nat, p \in Objs \cup {NoObject} : Adopt(s, id, p)
    BY <1>2, <2>1
  <2> QED
    BY <1>1, <2>1, <2>2, IdleHandling
<1>4. CASE RetrieveNothing(s) \/ Invoke(s)
  <2>1. Idle(s) /\ asked' = asked /\ UNCHANGED proxies
    BY <1>4 DEF RetrieveNothing, Invoke
  <2> QED
    BY <1>1, <2>1, IdleHandling
<1>5. CASE Load(s) \/ Cast(s) \/ WrongClass(s)
  <2>1. PICK l \in {"cast", "invoke", "ended"} : at' = [at EXCEPT ![s] = l]
    BY <1>5 DEF Load, Cast, WrongClass
  <2>2. \E y : x' = [x EXCEPT ![s] = y]
    <3>1. CASE Load(s)
      BY <3>1 DEF Load
    <3>2. CASE ~Load(s)
      <4>1. x' = x
        BY <1>5, <3>2 DEF Cast, WrongClass
      <4>2. x' = [x EXCEPT ![s] = x[s]]
        BY <1>1, <4>1
      <4> QED
        BY <4>2
    <3> QED
      BY <3>1, <3>2
  <2>3. UNCHANGED <<req, proxies, asked>>
    BY <1>5 DEF Load, Cast, WrongClass
  <2>4. PICK y : x' = [x EXCEPT ![s] = y]
    BY <2>2
  <2> QED
    BY <1>1, <2>1, <2>3, <2>4, MoveHandling DEF Beginning
<1>6. CASE RetrieveFreed(s) \/ LoadZero(s) \/ LoadFree(s) \/ TouchFreed(s)
  <2>1. UNCHANGED <<req, proxies, asked, at>>
    BY <1>6 DEF RetrieveFreed, LoadZero, LoadFree, TouchFreed, Fail
  <2> QED
    BY <1>1, <2>1, SameHandling
<1> QED
  BY <1>3, <1>4, <1>5, <1>6 DEF Find, Call

\* The requests after any step.
LEMMA HandlingStep == Weak /\ Handling /\ [Next]_vars => Handling'
<1> SUFFICES ASSUME Weak, Handling, [Next]_vars PROVE Handling'
  OBVIOUS
<1>1. ASSUME NEW s \in Sessions, Client(s) \/ Create(s) \/ Find(s) \/ Call(s)
      PROVE  Handling'
  BY <1>1, AskHandling, CreateHandling, CallHandling
<1>2. CASE Application \/ AddOutside
  <2>1. UNCHANGED <<req, proxies, asked, at>>
    BY <1>2 DEF Application, AddOutside, AddServant, RemoveServant, RemovePassedOver, Drop,
                ServantLost, Fail, heap, local, history
  <2> QED
    BY <2>1, SameHandling
<1>3. CASE UNCHANGED vars
  BY <1>3, SameHandling DEF vars, local, history
<1> QED
  BY <1>1, <1>2, <1>3 DEF Next

\* The classes and the names after any step.
LEMMA KindsStep == Weak /\ Handling /\ Kinds /\ [Next]_vars => Kinds'
<1> SUFFICES ASSUME Weak, Handling, Kinds, [Next]_vars PROVE Kinds'
  OBVIOUS
<1> USE DEF At, heap, local, history
<1>1. table = [ids |-> table.ids, names |-> table.names]
  BY DEF Weak, Shared
<1>2. ASSUME UNCHANGED class, table'.names = table.names, fault' \in Faults PROVE Kinds'
  BY <1>2 DEF Kinds
<1>3. ASSUME NEW s \in Sessions, Client(s) \/ Create(s) \/ Find(s) \/ Call(s)
      PROVE  Kinds'
  <2>1. CASE Client(s)
    BY <1>2, <2>1 DEF Client, AskByName, AskCreate, AskCall, Ask, Kinds
  <2>2. CASE \/ LookUp(s) \/ Existing(s) \/ FindCreator(s) \/ NoCreator(s) \/ NameFree(s)
             \/ Hold(s) \/ SetId(s)
    BY <1>2, <2>2 DEF LookUp, Existing, FindCreator, NoCreator, NameFree, Hold, SetId, Kinds
  <2>3. CASE ConstructNull(s) \/ NameExists(s) \/ LinkOutside(s) \/ RetrieveFreed(s)
             \/ LoadZero(s) \/ LoadFree(s) \/ TouchFreed(s)
    BY <1>2, <2>3
    DEF ConstructNull, NameExists, LinkOutside, RetrieveFreed, LoadZero, LoadFree, TouchFreed,
        Fail, Faults
  <2>4. CASE Retrieve(s) \/ RetrieveNothing(s) \/ Load(s) \/ Cast(s) \/ WrongClass(s) \/ Invoke(s)
    BY <1>2, <2>4 DEF Retrieve, RetrieveNothing, Load, Cast, WrongClass, Invoke, Kinds
  <2>5. CASE Construct(s)
    BY <2>5 DEF Construct, Handling, Request, Kinds
  <2>6. CASE StoreName(s)
    <3>1. table'.names = WithName(table, req[s].name, x[s]) /\ UNCHANGED <<class, fault>>
      BY <1>1, <2>6 DEF StoreName
    <3>2. req[s].name \in Names
      BY <2>6 DEF StoreName, Handling, Busy
    <3> QED
      BY <3>1, <3>2 DEF Kinds, WithName
  <2>7. CASE Alloc(s) \/ Link(s)
    BY <1>1, <1>2, <2>7 DEF Alloc, Link, Kinds
  <2> QED
    BY <1>3, <2>1, <2>2, <2>3, <2>4, <2>5, <2>6, <2>7 DEF Create, Find, Call
<1>4. ASSUME NEW o \in Servants, NEW n \in Names, AddServant(o, n)
      PROVE  Kinds'
  <2>1. PICK c \in Creatable : class' = [class EXCEPT ![o] = c]
    BY <1>4 DEF AddServant
  <2>2. class' \in [Objs -> Classes] /\ fault' = fault
    BY <1>4, <2>1, UsageAssumption DEF AddServant, Kinds
  <2>3. DOMAIN table'.names \subseteq Names
    <3>1. CASE Found(n)
      BY <1>4, <3>1 DEF AddServant, Kinds
    <3>2. CASE ~Found(n)
      <4> DEFINE w == AddVal(table.ids, o)
                 m == WithName(table, n, o)
      <4>1. AddPtr(table, o) = [ids |-> w, names |-> table.names]
        BY <1>1 DEF AddPtr
      <4>2. table' = [AddPtr(table, o) EXCEPT !.names = m]
        BY <1>4, <3>2 DEF AddServant, AddNamed
      <4>3. DOMAIN m \subseteq Names
        BY DEF Kinds, WithName
      <4> HIDE DEF w, m
      <4> QED
        BY <4>1, <4>2, <4>3
    <3> QED
      BY <3>1, <3>2
  <2> QED
    BY <2>2, <2>3 DEF Kinds
<1>5. ASSUME NEW o \in Servants,
             RemoveServant(o) \/ RemovePassedOver(o) \/ Drop(o)
      PROVE  Kinds'
  BY <1>1, <1>2, <1>5 DEF RemoveServant, RemoveId, RemovePassedOver, Drop, Kinds
<1>6. CASE AddOutside \/ \E o \in Servants : ServantLost(o)
  BY <1>2, <1>6 DEF AddOutside, ServantLost, Fail, Faults
<1>7. CASE UNCHANGED vars
  BY <1>2, <1>7 DEF vars, Kinds
<1> QED
  BY <1>3, <1>4, <1>5, <1>6, <1>7 DEF Next, Application

\* What is done stays done.
LEMMA MarksStep == [Next]_vars => misuse \subseteq misuse' /\ (Marks => Marks')
<1> SUFFICES ASSUME [Next]_vars PROVE misuse \subseteq misuse' /\ (Marks => Marks')
  OBVIOUS
<1> USE DEF heap, local, history
<1>2. ASSUME NEW new \in SUBSET {"unknown", "noCreator"}, Misused(new)
      PROVE  misuse \subseteq misuse' /\ (Marks => Marks')
  BY <1>2 DEF Misused, Marks, Misuses
<1>3. ASSUME UNCHANGED misuse
      PROVE  misuse \subseteq misuse' /\ (Marks => Marks')
  BY <1>3 DEF Marks
<1>4. ASSUME Misused(Overlap) \/ Misused(Overtaking) \/ Misused(Overlap \cup Overtaking)
      PROVE  misuse \subseteq misuse' /\ (Marks => Marks')
  BY <1>4 DEF Misused, Overlap, Overtaking, Marks, Misuses
<1>5. ASSUME NEW n, \/ Misused(Overlap \cup SameName(n))
                   \/ Misused(Overlap \cup Overtaking \cup SameName(n))
      PROVE  misuse \subseteq misuse' /\ (Marks => Marks')
  BY <1>5 DEF Misused, Overlap, Overtaking, SameName, Marks, Misuses
<1>6. ASSUME NEW s \in Sessions, Client(s) \/ Create(s) \/ Find(s) \/ Call(s)
      PROVE  misuse \subseteq misuse' /\ (Marks => Marks')
  <2>1. CASE Client(s)
    BY <1>3, <1>4, <1>5, <2>1 DEF Client, AskByName, AskCreate, AskCall
  <2>2. CASE NoCreator(s) \/ ConstructNull(s)
    BY <1>2, <2>2 DEF NoCreator, ConstructNull
  <2>3. CASE Alloc(s)
    BY <1>4, <2>3 DEF Alloc
  <2>4. CASE \/ LookUp(s) \/ Existing(s) \/ FindCreator(s) \/ Construct(s) \/ NameFree(s)
             \/ NameExists(s) \/ StoreName(s) \/ Link(s) \/ LinkOutside(s) \/ Hold(s) \/ SetId(s)
    BY <1>3, <2>4 DEF LookUp, Existing, FindCreator, Construct, NameFree, NameExists, StoreName,
                      Link, LinkOutside, Hold, SetId, Fail
  <2>5. CASE Find(s) \/ Call(s)
    BY <1>3, <2>5
    DEF Find, Retrieve, RetrieveNothing, RetrieveFreed, Call, Load, LoadZero, LoadFree,
        Cast, WrongClass, Invoke, TouchFreed, Fail
  <2> QED
    BY <1>6, <2>1, <2>2, <2>3, <2>4, <2>5 DEF Create
<1>7. CASE Application \/ AddOutside
  BY <1>3, <1>4, <1>5, <1>7 DEF Application, AddOutside, AddServant, RemoveServant,
                                RemovePassedOver, Drop, ServantLost, Fail
<1>8. CASE UNCHANGED vars
  BY <1>3, <1>8 DEF vars
<1> QED
  BY <1>6, <1>7, <1>8 DEF Next

Base == Weak /\ Handling /\ Kinds /\ Marks

LEMMA BaseStep == Base /\ [Next]_vars => Base'
BY WeakStep, HandlingStep, KindsStep, MarksStep DEF Base

LEMMA BaseInvariance == Spec => []Base
<1>1. Init => Base
  BY BaseInit DEF Base
<1> QED
  BY <1>1, BaseStep, PTL DEF Spec
-----------------------------------------------------------------------------
(* The steps, while no session has been overtaken                            *)

LEMMA CallingFinite == \A o : IsFiniteSet(Calling(o)) /\ Cardinality(Calling(o)) \in Nat
<1> TAKE o
<1>1. Calling(o) \in SUBSET Sessions
  BY DEF Calling
<1> QED
  BY <1>1, FS_Subset, FS_CardinalityType, UsageAssumption

\* An object that is being called is live and counts a reference.
LEMMA CalledCounts ==
    ASSUME Shape, Landed, Counts, NEW s \in Sessions, at[s] = "invoke"
    PROVE  memory[x[s]] = "live" /\ refs[x[s]] >= 1 + HeldElsewhere(x[s])
<1>1. s \in Calling(x[s]) /\ x[s] \in Objs /\ memory[x[s]] = "live"
  BY DEF Calling, Landed
<1>2. Cardinality(Calling(x[s])) >= 1
  BY <1>1, CallingFinite, FS_EmptySet
<1>3. HeldElsewhere(x[s]) \in Nat /\ refs[x[s]] \in Int
  BY <1>1 DEF HeldElsewhere, Shape
<1> QED
  BY <1>1, <1>2, <1>3, CallingFinite DEF Counts

\* A step of a session that neither begins nor ends a call.
LEMMA CallingStays ==
    ASSUME NEW s \in Sessions, NEW l, at \in [Sessions -> Labels],
           at[s] # "invoke", l # "invoke", at' = [at EXCEPT ![s] = l],
           \A t \in Sessions \ {s} : x'[t] = x[t]
    PROVE  \A o : Calling(o)' = Calling(o)
BY DEF Calling

\* A step of a session that neither reads the head of the free list nor links.
LEMMA SameList ==
    ASSUME Shape, Linked(table.ids), ReadHead, table'.ids = table.ids,
           NEW s \in Sessions, NEW l, l # "link", at' = [at EXCEPT ![s] = l],
           \A t \in Sessions \ {s} : newId'[t] = newId[t]
    PROVE  Linked(table.ids)' /\ ReadHead'
<1>1. \A t \in Sessions : at'[t] = "link" => at[t] = "link" /\ newId'[t] = newId[t]
  BY DEF Shape
<1> QED
  BY <1>1 DEF ReadHead

\* A step that leaves the objects, the table and the sessions alone.
LEMMA StutterStep ==
    ASSUME IInv, UNCHANGED <<table, memory, refs, objId, app, at, x, newId>>
    PROVE  IInv'
BY DEF IInv, Shape, Linked, ReadHead, Constructed, Landed, Served, Counts, Calling, HeldElsewhere

\* A step of one session that leaves the objects and the table alone.
LEMMA QuietStep ==
    ASSUME IInv, NEW s \in Sessions, NEW l \in Labels, NEW y \in Objs \cup {NoObject},
           NEW n \in Nat,
           UNCHANGED <<table, memory, refs, objId, app>>,
           at[s] # "invoke", l # "invoke", l # "link",
           at' = [at EXCEPT ![s] = l],
           x' = [x EXCEPT ![s] = y],
           newId' = [newId EXCEPT ![s] = n],
           l \in {"insert", "store", "alloc", "link", "hold", "setId", "cast"} =>
               y \in Objs /\ memory[y] # "unused",
           l \in {"insert", "store", "alloc", "link", "hold", "setId"} => y \notin Servants
    PROVE  IInv'
<1> USE DEF IInv
<1>1. \A o : Calling(o)' = Calling(o)
  BY CallingStays DEF Shape
<1>2. Shape'
  BY DEF Shape
<1>3. Constructed'
  BY DEF Shape, Constructed
<1>4. Landed'
  BY DEF Shape, Landed
<1>5. Served'
  BY DEF Served
<1>6. Counts'
  BY <1>1 DEF Counts, HeldElsewhere
<1>7. Linked(table.ids)' /\ ReadHead'
  BY SameList DEF Shape
<1> QED
  BY <1>2, <1>3, <1>4, <1>5, <1>6, <1>7

LEMMA InvInit == Init => IInv
<1> SUFFICES ASSUME Init PROVE IInv
  OBVIOUS
<1> USE ObjectsAssumption DEF Init, NewTable
<1>1. Shape
  BY NewVector DEF Shape, Labels
<1>2. Constructed
  BY NewVector, PointersApart DEF Constructed
<1>3. Landed
  BY DEF Landed
<1>4. Served
  BY DEF Served
<1>5. Counts
  BY DEF Counts
<1>6. Linked(table.ids) /\ ReadHead
  BY NewVector DEF ReadHead
<1> QED
  BY <1>1, <1>2, <1>3, <1>4, <1>5, <1>6 DEF IInv

\* Asking, looking up, loading an argument, and answers that change nothing.
LEMMA QuietSteps ==
    ASSUME IInv, NEW s \in Sessions,
           \/ Client(s) \/ LookUp(s) \/ Existing(s) \/ FindCreator(s) \/ NoCreator(s)
           \/ NameFree(s) \/ RetrieveNothing(s) \/ Load(s) \/ WrongClass(s)
    PROVE  IInv'
<1> USE DEF At, Goto, heap, local, history
<1>1. /\ at \in [Sessions -> Labels] /\ x \in [Sessions -> Objs \cup {NoObject}]
      /\ newId \in [Sessions -> Nat]
      /\ \A n \in DOMAIN table.names : table.names[n] \in Objs
  BY DEF IInv, Shape, Constructed
<1>2. ASSUME NEW r, NEW handler \in {"lookUp", "retrieve", "findCreator", "load"},
             Ask(s, r, handler)
      PROVE  IInv'
  <2>1. /\ x' = [x EXCEPT ![s] = x[s]] /\ newId' = [newId EXCEPT ![s] = newId[s]]
        /\ UNCHANGED <<table, memory, refs, objId, app>> /\ at[s] = "idle"
        /\ at' = [at EXCEPT ![s] = handler]
    BY <1>1, <1>2 DEF Ask
  <2>2. /\ handler \in Labels /\ x[s] \in Objs \cup {NoObject} /\ newId[s] \in Nat
        /\ handler \notin {"insert", "store", "alloc", "link", "hold", "setId", "cast", "invoke"}
    BY <1>1 DEF Labels
  <2> HIDE <1>1, <1>2
  <2> QED
    BY <2>1, <2>2, QuietStep
<1>3. CASE Client(s)
  BY <1>2, <1>3 DEF Client, AskByName, AskCreate, AskCall
<1>4. CASE LookUp(s)
  <2>1. PICK l \in {"existing", "findCreator"}, y \in Objs \cup {NoObject} :
           at' = [at EXCEPT ![s] = l] /\ x' = [x EXCEPT ![s] = y]
    <3>1. CASE Found(req[s].name)
      BY <1>1, <1>4, <3>1 DEF LookUp, Found, HasName
    <3>2. CASE ~Found(req[s].name)
      <4>1. x' = [x EXCEPT ![s] = x[s]] /\ at' = [at EXCEPT ![s] = "findCreator"]
        BY <1>1, <1>4, <3>2 DEF LookUp
      <4> QED
        BY <1>1, <4>1
    <3> QED
      BY <3>1, <3>2
  <2>2. /\ newId' = [newId EXCEPT ![s] = newId[s]]
        /\ UNCHANGED <<table, memory, refs, objId, app>> /\ at[s] = "lookUp"
    BY <1>1, <1>4 DEF LookUp
  <2> QED
    BY <1>1, <2>1, <2>2, QuietStep DEF Labels
<1>5. CASE Existing(s) \/ NoCreator(s) \/ RetrieveNothing(s)
  <2>1. Idle(s) /\ UNCHANGED <<table, memory, refs, objId, app>> /\ at[s] # "invoke"
    BY <1>5 DEF Existing, NoCreator, RetrieveNothing
  <2> QED
    BY <1>1, <2>1, QuietStep DEF Idle, Labels
<1>6. CASE FindCreator(s) \/ WrongClass(s)
  <2>1. PICK l \in {"construct", "ended"} : at' = [at EXCEPT ![s] = l]
    BY <1>6 DEF FindCreator, WrongClass
  <2>2. /\ x' = [x EXCEPT ![s] = x[s]] /\ newId' = [newId EXCEPT ![s] = newId[s]]
        /\ UNCHANGED <<table, memory, refs, objId, app>> /\ at[s] # "invoke"
    BY <1>1, <1>6 DEF FindCreator, WrongClass
  <2>3. /\ l \in Labels /\ x[s] \in Objs \cup {NoObject} /\ newId[s] \in Nat
        /\ l \notin {"insert", "store", "alloc", "link", "hold", "setId", "cast", "invoke"}
    BY <1>1 DEF Labels
  <2> HIDE <1>1, <1>6
  <2> QED
    BY <2>1, <2>2, <2>3, QuietStep
<1>7. CASE Load(s)
  <2> DEFINE id == req[s].proxy.id
             y == Ptr(table, id)
  <2>1. y \in Objs /\ memory[y] # "unused"
    <3>1. id \in 1..(table.ids.size - 1) /\ table.ids.at[id] \notin Nat
      BY <1>7 DEF Load, InRange, IsValid, Free
    <3>2. table.ids.at[id] \in Objs
      BY <3>1 DEF IInv, Shape, Vector
    <3> QED
      BY <3>1, <3>2 DEF IInv, Shape, Vector, Constructed, Ptr
  <2>2. /\ x' = [x EXCEPT ![s] = y] /\ newId' = [newId EXCEPT ![s] = newId[s]]
        /\ at' = [at EXCEPT ![s] = "cast"]
        /\ UNCHANGED <<table, memory, refs, objId, app>> /\ at[s] # "invoke"
    BY <1>1, <1>7 DEF Load
  <2> HIDE DEF y
  <2> QED
    BY <1>1, <2>1, <2>2, QuietStep DEF Labels
<1>8. CASE NameFree(s)
  <2>1. /\ at[s] = "insert" /\ at' = [at EXCEPT ![s] = "store"]
        /\ x' = [x EXCEPT ![s] = x[s]] /\ newId' = [newId EXCEPT ![s] = newId[s]]
        /\ UNCHANGED <<table, memory, refs, objId, app>>
    BY <1>1, <1>8 DEF NameFree
  <2>2. /\ x[s] \in Objs /\ memory[x[s]] # "unused" /\ x[s] \notin Servants
        /\ newId[s] \in Nat /\ "store" \in Labels
    BY <1>1, <2>1 DEF IInv, Constructed, Labels
  <2> QED
    BY <2>1, <2>2, QuietStep
<1> QED
  BY <1>3, <1>4, <1>5, <1>6, <1>7, <1>8

\* A new object has no references but those it is given.
LEMMA ConstructStep ==
    ASSUME IInv, NEW s \in Sessions, Construct(s)
    PROVE  IInv'
<1> USE DEF IInv
<1>1. PICK o \in Objs \ Servants :
         /\ memory[o] = "unused"
         /\ memory' = [memory EXCEPT ![o] = "live"]
         /\ refs' = [refs EXCEPT ![o] = IF req[s].op = "create" THEN HeldByTable ELSE 0]
         /\ x' = [x EXCEPT ![s] = o]
  BY DEF Construct
<1>2. PICK l \in {"alloc", "insert"} : at' = [at EXCEPT ![s] = l]
  BY DEF Construct, Goto
<1>3. at[s] = "construct" /\ UNCHANGED <<table, objId, app, newId>>
  BY DEF Construct, At
<1>4. \A p : Calling(p)' = Calling(p)
  BY <1>1, <1>2, <1>3, CallingStays DEF Shape
<1>5. Calling(o) = {}
  BY <1>1 DEF Landed, Calling
<1>6. Shape'
  BY <1>1, <1>2, <1>3 DEF Shape, HeldByTable, Labels
<1>7. Constructed'
  BY <1>1, <1>2, <1>3 DEF Constructed, Shape
<1>8. Landed'
  BY <1>1, <1>2, <1>3 DEF Landed, Shape
<1>9. Served'
  BY <1>1, <1>3, ObjectsAssumption DEF Served, Shape
<1>10. Counts'
  <2> SUFFICES ASSUME NEW p \in Objs, memory'[p] = "live"
               PROVE  refs'[p] >= Cardinality(Calling(p)') + HeldElsewhere(p)'
    BY DEF Counts
  <2>1. HeldElsewhere(p)' = HeldElsewhere(p)
    BY <1>3 DEF HeldElsewhere
  <2>2. CASE p = o
    <3>1. Cardinality(Calling(p)') = 0 /\ HeldElsewhere(p) = 0
      BY <1>1, <1>4, <1>5, <2>2, FS_EmptySet DEF HeldElsewhere
    <3> QED
      BY <1>1, <2>1, <2>2, <3>1 DEF Shape, HeldByTable
  <2>3. CASE p # o
    BY <1>1, <1>4, <2>1, <2>3 DEF Counts, Shape
  <2> QED
    BY <2>2, <2>3
<1>11. Linked(table.ids)' /\ ReadHead'
  BY <1>2, <1>3, SameList
<1> QED
  BY <1>6, <1>7, <1>8, <1>9, <1>10, <1>11

\* The steps of add_ptr.
LEMMA StoreNameStep ==
    ASSUME IInv, NEW s \in Sessions, StoreName(s)
    PROVE  IInv'
<1> USE DEF IInv
<1>1. /\ table' = [table EXCEPT !.names = WithName(table, req[s].name, x[s])]
      /\ at[s] = "store" /\ at' = [at EXCEPT ![s] = "alloc"]
      /\ UNCHANGED <<memory, refs, objId, app, x, newId>>
  BY DEF StoreName, At, Goto, heap, local
<1>2. /\ table' = [ids |-> table'.ids, names |-> table'.names]
      /\ table'.ids = table.ids
      /\ table'.names = WithName(table, req[s].name, x[s])
  BY <1>1 DEF Shape
<1>3. \A p : Calling(p)' = Calling(p)
  BY <1>1, CallingStays DEF Shape
<1>4. Shape'
  BY <1>1, <1>2 DEF Shape, Labels
<1>5. Constructed'
  BY <1>1, <1>2 DEF Constructed, Shape, WithName
<1>6. Landed' /\ Served' /\ Counts'
  BY <1>1, <1>2, <1>3 DEF Landed, Served, Counts, HeldElsewhere, Shape
<1>7. Linked(table.ids)' /\ ReadHead'
  BY <1>1, <1>2, SameList
<1> QED
  BY <1>4, <1>5, <1>6, <1>7

\* Who has not been overtaken does not overtake.
LEMMA AllocStep ==
    ASSUME IInv, NEW s \in Sessions, Alloc(s), "overtaken" \notin misuse'
    PROVE  IInv'
<1> USE DEF IInv
<1> DEFINE v == table.ids
           w == WithRoom(v)
<1>1. /\ table' = [table EXCEPT !.ids = w] /\ newId' = [newId EXCEPT ![s] = w.at[0]]
      /\ at[s] = "alloc" /\ at' = [at EXCEPT ![s] = "link"]
      /\ UNCHANGED <<memory, refs, objId, app, x>>
      /\ \A t \in Sessions : at[t] # "link"
  BY DEF Alloc, At, Goto, heap, NextId, Misused, Overtaking
<1>2. table' = [ids |-> table'.ids, names |-> table'.names] /\ table'.ids = w /\ table'.names = table.names
  BY <1>1 DEF Shape
<1>3. /\ Vector(w) /\ Linked(w) /\ v.size <= w.size
      /\ w.at[0] \in 1..(w.size - 1)
      /\ \A i \in 1..(v.size - 1) : w.at[i] = v.at[i]
      /\ \A i \in v.size..(w.size - 1) : w.at[i] \in Nat
      /\ v.size \in Nat \ {0} /\ w.size \in Nat \ {0}
  BY RoomVector DEF Shape, Vector
<1> HIDE DEF w
<1>4. \A p : Calling(p)' = Calling(p)
  BY <1>1, CallingStays DEF Shape
<1>5. Shape'
  BY <1>1, <1>2, <1>3 DEF Shape, Labels
<1>6. Constructed'
  <2>1. \A i \in 0..(w.size - 1) : w.at[i] \in Objs => memory[w.at[i]] # "unused"
    BY <1>3, PointersApart DEF Constructed
  <2> QED
    BY <1>1, <1>2, <2>1 DEF Constructed, Shape
<1>7. Served'
  BY <1>1, <1>2, <1>3 DEF Served
<1>8. Landed' /\ Counts'
  BY <1>1, <1>4 DEF Landed, Counts, HeldElsewhere, Shape
<1>9. Linked(table.ids)' /\ ReadHead'
  BY <1>1, <1>2, <1>3 DEF ReadHead, Shape
<1> QED
  BY <1>5, <1>6, <1>7, <1>8, <1>9

LEMMA LinkStep ==
    ASSUME IInv, NEW s \in Sessions, Link(s)
    PROVE  IInv'
<1> USE DEF IInv
<1> DEFINE v == table.ids
           id == newId[s]
           slots == [[v.at EXCEPT ![0] = v.at[id]] EXCEPT ![id] = x[s]]
<1>1. /\ table' = [table EXCEPT !.ids.at = slots]
      /\ at[s] = "link" /\ id = v.at[0] /\ id # 0
      /\ \A t \in Sessions : at[t] = "link" => t = s
      /\ UNCHANGED <<memory, refs, objId, app, x, newId>>
  BY DEF Link, At, Goto, heap, local, ReadHead, Shape
<1>2. PICK l \in {"setId", "hold"} : at' = [at EXCEPT ![s] = l]
  BY DEF Link, Goto
<1>3. /\ id \in 1..(v.size - 1) /\ x[s] \in Objs /\ memory[x[s]] # "unused"
      /\ v.size \in Nat \ {0} /\ v.at[id] \in 0..(v.size - 1)
      /\ v.at \in [0..(v.size - 1) -> Objs \cup 0..(v.size - 1)]
      /\ Vector(v)
  <2>1. id \in 1..(v.size - 1) /\ x[s] \in Objs /\ memory[x[s]] # "unused" /\ Vector(v)
    BY <1>1 DEF Shape, Constructed
  <2>2. v.at[id] \in Nat
    BY <1>1, <2>1 DEF Linked, Vector
  <2> QED
    BY <2>1, <2>2, PointersApart DEF Vector
<1>4. /\ slots \in [0..(v.size - 1) -> Objs \cup 0..(v.size - 1)]
      /\ slots[0] = v.at[id] /\ slots[id] = x[s]
      /\ \A i \in 1..(v.size - 1) : i # id => slots[i] = v.at[i]
  <2> DEFINE S == Objs \cup 0..(v.size - 1)
  <2>1. /\ v.at \in [0..(v.size - 1) -> S] /\ id \in 1..(v.size - 1)
        /\ v.at[id] \in S /\ x[s] \in S
    BY <1>3
  <2> HIDE DEF S, v, id
  <2> QED
    BY <1>3, <2>1 DEF S
<1> HIDE DEF slots
<1>5. /\ table' = [ids |-> table'.ids, names |-> table'.names]
      /\ table'.ids = [size |-> v.size, at |-> slots]
      /\ table'.names = table.names
  BY <1>1 DEF Shape, Vector
<1>6. \A p : Calling(p)' = Calling(p)
  BY <1>1, <1>2, CallingStays DEF Shape
<1>7. Shape'
  <2>1. Vector([size |-> v.size, at |-> slots])
    BY <1>3, <1>4 DEF Vector
  <2> QED
    BY <1>1, <1>2, <1>5, <2>1 DEF Shape, Labels
<1>8. Constructed'
  <2>1. \A i \in 0..(v.size - 1) : slots[i] \in Objs => memory[slots[i]] # "unused"
    <3> SUFFICES ASSUME NEW i \in 0..(v.size - 1), slots[i] \in Objs
                 PROVE  memory[slots[i]] # "unused"
      OBVIOUS
    <3>1. i # 0
      BY <1>3, <1>4, PointersApart
    <3>2. CASE i = id
      BY <1>3, <1>4, <3>2
    <3>3. CASE i # id
      BY <1>3, <1>4, <3>1, <3>3 DEF Constructed
    <3> QED
      BY <3>2, <3>3
  <2> QED
    BY <1>1, <1>2, <1>5, <2>1 DEF Constructed, Shape
<1>9. Served'
  <2>1. \A o \in Servants : app[o] = "added" /\ objId[o] # 0 => objId[o] # id
    BY <1>1, <1>3, PointersApart, ObjectsAssumption DEF Served
  <2>2. \A i \in 1..(v.size - 1) : i # id => table'.ids.at[i] = table.ids.at[i]
    BY <1>4, <1>5
  <2>3. table'.ids.size = table.ids.size
    BY <1>5
  <2> HIDE DEF id, v
  <2>4. ASSUME NEW o \in Servants, app[o] = "added", objId[o] # 0
        PROVE  objId[o] \in 1..(table'.ids.size - 1) /\ table'.ids.at[objId[o]] = o
    <3>1. objId[o] \in 1..(table.ids.size - 1) /\ table.ids.at[objId[o]] = o
      BY <2>4 DEF Served
    <3>2. objId[o] # id
      BY <2>1, <2>4
    <3> QED
      BY <2>2, <2>3, <3>1, <3>2 DEF v
  <2> QED
    BY <1>1, <2>4 DEF Served
<1>10. Landed' /\ Counts'
  BY <1>1, <1>2, <1>6 DEF Landed, Counts, HeldElsewhere, Shape
<1>11. Linked(table.ids)'
  <2> HIDE DEF v
  <2>1. Linked([size |-> v.size, at |-> slots])
    BY <1>1, <1>3, <1>4, TakeLinked DEF v
  <2> QED
    BY <1>5, <2>1
<1>12. ReadHead'
  BY <1>1, <1>2 DEF ReadHead, Shape
<1> QED
  BY <1>7, <1>8, <1>9, <1>10, <1>11, <1>12

\* The table's own reference, and the id.
LEMMA HoldStep ==
    ASSUME IInv, NEW s \in Sessions, Hold(s)
    PROVE  IInv'
<1> USE DEF IInv
<1>1. /\ at[s] = "hold" /\ at' = [at EXCEPT ![s] = "setId"]
      /\ refs' = [refs EXCEPT ![x[s]] = @ + 1]
      /\ UNCHANGED <<table, memory, objId, app, x, newId>>
  BY DEF Hold, At, Goto, local, HeldByTable
<1>2. \A p : Calling(p)' = Calling(p)
  BY <1>1, CallingStays DEF Shape
<1>3. Shape'
  <2>1. x[s] \in Objs /\ refs \in [Objs -> Int]
    BY <1>1 DEF Constructed, Shape
  <2>2. refs' \in [Objs -> Int]
    BY <1>1, <2>1
  <2> QED
    BY <1>1, <2>2 DEF Shape, Labels
<1>4. Constructed' /\ Landed' /\ Served'
  BY <1>1 DEF Shape, Constructed, Landed, Served
<1>5. Counts'
  <2> SUFFICES ASSUME NEW p \in Objs, memory[p] = "live"
               PROVE  refs'[p] >= Cardinality(Calling(p)) + HeldElsewhere(p)
    BY <1>1, <1>2 DEF Counts, HeldElsewhere
  <2>1. refs[p] \in Int /\ refs'[p] \in {refs[p], refs[p] + 1}
    BY <1>1 DEF Shape
  <2>2. HeldElsewhere(p) \in Nat
    BY DEF HeldElsewhere
  <2> QED
    BY <2>1, <2>2, CallingFinite DEF Counts
<1>6. Linked(table.ids)' /\ ReadHead'
  BY <1>1, SameList DEF Shape
<1> QED
  BY <1>3, <1>4, <1>5, <1>6

LEMMA SetIdStep ==
    ASSUME IInv, NEW s \in Sessions, SetId(s)
    PROVE  IInv'
<1> USE DEF IInv
<1>1. /\ at[s] = "setId" /\ at' = [at EXCEPT ![s] = "idle"]
      /\ objId' = [objId EXCEPT ![x[s]] = newId[s]]
      /\ x' = [x EXCEPT ![s] = NoObject] /\ newId' = [newId EXCEPT ![s] = 0]
      /\ UNCHANGED <<table, memory, refs, app>>
  BY DEF SetId, At, Goto, Idle
<1>2. \A p : Calling(p)' = Calling(p)
  BY <1>1, CallingStays DEF Shape
<1>3. \A o \in Servants : objId'[o] = objId[o]
  BY <1>1, ObjectsAssumption DEF Constructed, Shape
<1>4. Shape'
  BY <1>1 DEF Shape, Labels
<1>5. Constructed' /\ Landed' /\ Served'
  BY <1>1, <1>3 DEF Shape, Constructed, Landed, Served
<1>6. Counts'
  BY <1>1, <1>2, <1>3 DEF Counts, HeldElsewhere
<1>7. Linked(table.ids)' /\ ReadHead'
  BY <1>1, SameList DEF Shape
<1> QED
  BY <1>4, <1>5, <1>6, <1>7

\* A retrieval deletes only what nobody calls and no servant.
LEMMA RetrieveStep ==
    ASSUME IInv, NEW s \in Sessions, Retrieve(s)
    PROVE  IInv'
<1> USE DEF IInv
<1> DEFINE o == table.names[req[s].name]
<1>1. /\ at[s] = "retrieve" /\ at' = [at EXCEPT ![s] = "idle"]
      /\ memory' = [memory EXCEPT ![o] = IF refs[o] = 0 THEN "freed" ELSE @]
      /\ x' = [x EXCEPT ![s] = NoObject] /\ newId' = [newId EXCEPT ![s] = 0]
      /\ UNCHANGED <<table, refs, objId, app>>
  BY DEF Retrieve, At, Goto, Idle
<1>2. o \in Objs /\ memory[o] = "live"
  <2>1. req[s].name \in DOMAIN table.names /\ memory[o] # "freed"
    BY DEF Retrieve, Found, HasName
  <2> QED
    BY <2>1 DEF Constructed, Shape
<1>3. \A p : Calling(p)' = Calling(p)
  BY <1>1, CallingStays DEF Shape
<1>4. refs[o] = 0 => Calling(o) = {} /\ HeldElsewhere(o) = 0
  <2>1. \A t \in Sessions : at[t] = "invoke" /\ x[t] = o => refs[o] # 0
    <3> SUFFICES ASSUME NEW t \in Sessions, at[t] = "invoke", x[t] = o PROVE refs[o] # 0
      OBVIOUS
    <3>1. refs[o] >= 1 + HeldElsewhere(o) /\ HeldElsewhere(o) \in Nat /\ refs[o] \in Int
      BY <1>2, CalledCounts DEF HeldElsewhere, Shape
    <3> QED
      BY <3>1
  <2>2. refs[o] >= Cardinality(Calling(o)) + HeldElsewhere(o) /\ HeldElsewhere(o) \in Nat
    BY <1>2 DEF Counts, HeldElsewhere
  <2>3. refs[o] = 0 => Calling(o) = {}
    BY <2>1 DEF Calling
  <2> HIDE DEF o
  <2>4. refs[o] = 0 => HeldElsewhere(o) = 0
    BY <2>2, CallingFinite
  <2> QED
    BY <2>3, <2>4
<1> HIDE DEF o
<1>5. Shape'
  BY <1>1, <1>2 DEF Shape, Labels
<1>6. Constructed'
  BY <1>1, <1>2 DEF Shape, Constructed
<1>7. Landed'
  BY <1>1, <1>2, <1>4 DEF Shape, Landed, Calling
<1>8. Served'
  BY <1>1, <1>2, <1>4, ObjectsAssumption DEF Shape, Served, HeldElsewhere
<1>9. Counts'
  BY <1>1, <1>2, <1>3 DEF Shape, Counts, HeldElsewhere
<1>10. Linked(table.ids)' /\ ReadHead'
  BY <1>1, SameList DEF Shape
<1> QED
  BY <1>5, <1>6, <1>7, <1>8, <1>9, <1>10

\* A call begins: the object is held.
LEMMA CastStep ==
    ASSUME IInv, NEW s \in Sessions, Cast(s)
    PROVE  IInv'
<1> USE DEF IInv
<1> DEFINE o == x[s]
<1>1. /\ at[s] = "cast" /\ at' = [at EXCEPT ![s] = "invoke"]
      /\ refs' = [refs EXCEPT ![o] = @ + 1]
      /\ UNCHANGED <<table, memory, objId, app, x, newId>>
  BY DEF Cast, At, Goto, local, HeldByCall
<1>2. o \in Objs /\ memory[o] = "live"
  <2>1. memory[o] # "freed"
    BY DEF Cast
  <2> QED
    BY <1>1, <2>1 DEF Constructed, Shape
<1>3. Shape'
  <2>1. refs' \in [Objs -> Int]
    BY <1>1, <1>2 DEF Shape
  <2> QED
    BY <1>1, <2>1 DEF Shape, Labels
<1>4. Constructed' /\ Landed' /\ Served'
  BY <1>1, <1>2 DEF Shape, Constructed, Landed, Served
<1>5. Counts'
  <2> SUFFICES ASSUME NEW p \in Objs, memory[p] = "live"
               PROVE  refs'[p] >= Cardinality(Calling(p)') + HeldElsewhere(p)
    BY <1>1 DEF Counts, HeldElsewhere
  <2>1. refs[p] \in Int /\ refs[p] >= Cardinality(Calling(p)) + HeldElsewhere(p)
        /\ HeldElsewhere(p) \in Nat
    BY DEF Shape, Counts, HeldElsewhere
  <2>2. CASE p = o
    <3>1. Calling(p)' = Calling(p) \cup {s} /\ s \notin Calling(p)
      BY <1>1, <2>2 DEF Calling, Shape
    <3>2. Cardinality(Calling(p)') = Cardinality(Calling(p)) + 1
      BY <3>1, CallingFinite, FS_AddElement
    <3> QED
      BY <1>1, <1>2, <2>1, <2>2, <3>2, CallingFinite DEF Shape
  <2>3. CASE p # o
    <3>1. Calling(p)' = Calling(p)
      BY <1>1, <2>3 DEF Calling, Shape
    <3> QED
      BY <1>1, <2>1, <2>3, <3>1 DEF Shape
  <2> QED
    BY <2>2, <2>3
<1>6. Linked(table.ids)' /\ ReadHead'
  BY <1>1, SameList DEF Shape
<1> QED
  BY <1>3, <1>4, <1>5, <1>6

\* A reference of o goes that neither another call nor HeldElsewhere counts.
LEMMA ReleaseOne ==
    ASSUME IInv, NEW o \in Objs, memory[o] = "live", Release(o, 1),
           refs[o] - 1 >= Cardinality(Calling(o)') + HeldElsewhere(o)'
    PROVE  /\ refs' = [refs EXCEPT ![o] = @ - 1]
           /\ memory' \in [Objs -> {"unused", "live", "freed"}]
           /\ \A p \in Objs : memory'[p] = "unused" <=> memory[p] = "unused"
           /\ \A p \in Objs : memory'[p] # memory[p] =>
                 /\ p = o /\ HeldElsewhere(p)' = 0
                 /\ \A t \in Sessions : ~(at'[t] = "invoke" /\ x'[t] = p)
<1>1. Calling(o)' \in SUBSET Sessions
  BY DEF Calling
<1>2. IsFiniteSet(Calling(o)') /\ Cardinality(Calling(o)') \in Nat
  BY <1>1, FS_Subset, FS_CardinalityType, UsageAssumption
<1>3. HeldElsewhere(o)' \in Nat
  BY DEF HeldElsewhere
<1>4. refs[o] - 1 = 0 => Calling(o)' = {} /\ HeldElsewhere(o)' = 0
  BY <1>2, <1>3, FS_EmptySet
<1>5. refs[o] \in Int /\ memory \in [Objs -> {"unused", "live", "freed"}]
  BY DEF IInv, Shape
<1> QED
  BY <1>4, <1>5 DEF Release, RefsAfter, Calling

\* A call ends: its reference goes.
LEMMA InvokeStep ==
    ASSUME IInv, NEW s \in Sessions, Invoke(s)
    PROVE  IInv'
<1> USE DEF IInv
<1>0. at[s] = "invoke"
  BY DEF Invoke, At
<1>1. PICK o \in Objs :
      /\ o = x[s] /\ at[s] = "invoke" /\ at' = [at EXCEPT ![s] = "idle"]
      /\ x' = [x EXCEPT ![s] = NoObject] /\ newId' = [newId EXCEPT ![s] = 0]
      /\ Release(o, 1)
      /\ UNCHANGED <<table, objId, app>>
  BY <1>0 DEF Invoke, At, Goto, Idle, HeldByCall, Landed
<1>2. o \in Objs /\ memory[o] = "live"
  BY <1>1 DEF Landed
<1>3. /\ \A p \in Objs \ {o} : Calling(p)' = Calling(p)
      /\ Cardinality(Calling(o)') = Cardinality(Calling(o)) - 1
  <2>1. Calling(o)' = Calling(o) \ {s} /\ s \in Calling(o)
    BY <1>1, <1>2, ObjectsAssumption DEF Shape, Calling
  <2>2. \A p \in Objs \ {o} : Calling(p)' = Calling(p)
    BY <1>1, ObjectsAssumption DEF Shape, Calling
  <2> QED
    BY <2>1, <2>2, CallingFinite, FS_RemoveElement
<1>4. \A p \in Objs : /\ HeldElsewhere(p)' = HeldElsewhere(p)
                      /\ HeldElsewhere(p) \in Nat /\ refs[p] \in Int
  BY <1>1 DEF HeldElsewhere, Shape
<1>5. refs[o] - 1 >= Cardinality(Calling(o)') + HeldElsewhere(o)'
  BY <1>2, <1>3, <1>4, CallingFinite DEF Counts
<1>6. /\ refs' = [refs EXCEPT ![o] = @ - 1]
      /\ memory' \in [Objs -> {"unused", "live", "freed"}]
      /\ \A p \in Objs : memory'[p] = "unused" <=> memory[p] = "unused"
      /\ \A p \in Objs : memory'[p] # memory[p] =>
            /\ p = o /\ HeldElsewhere(p)' = 0
            /\ \A t \in Sessions : ~(at'[t] = "invoke" /\ x'[t] = p)
  BY <1>1, <1>2, <1>5, ReleaseOne
<1>7. Shape'
  <2>1. refs' \in [Objs -> Int]
    BY <1>2, <1>6 DEF Shape
  <2> QED
    BY <1>1, <1>6, <2>1 DEF Shape, Labels
<1>8. Constructed'
  BY <1>1, <1>6 DEF Shape, Constructed
<1>9. Landed'
  BY <1>1, <1>6 DEF Shape, Landed
<1>10. Served'
  BY <1>1, <1>6, ObjectsAssumption DEF Shape, Served, HeldElsewhere
<1>11. Counts'
  <2> SUFFICES ASSUME NEW p \in Objs, memory'[p] = "live"
               PROVE  refs'[p] >= Cardinality(Calling(p)') + HeldElsewhere(p)'
    BY DEF Counts
  <2>1. CASE p = o
    BY <1>2, <1>5, <1>6, <2>1 DEF Shape
  <2>2. CASE p # o
    BY <1>3, <1>4, <1>6, <2>2 DEF Counts, Shape
  <2> QED
    BY <2>1, <2>2
<1>12. Linked(table.ids)' /\ ReadHead'
  BY <1>1, SameList DEF Shape
<1> QED
  BY <1>7, <1>8, <1>9, <1>10, <1>11, <1>12

\* The application removes a servant, or gives up its own reference.
LEMMA ReleaseServant ==
    ASSUME IInv, NEW o \in Servants, app[o] \in {"added", "removed"}, Release(o, 1),
           NEW after \in {"removed", "dropped"}, app' = [app EXCEPT ![o] = after],
           UNCHANGED <<objId, at, x, newId>>,
           Linked(table'.ids), table'.ids = table.ids \/ \A s \in Sessions : at[s] # "link",
           table' = [ids |-> table'.ids, names |-> table'.names],
           table'.names = table.names, Vector(table'.ids), table'.ids.size = table.ids.size,
           \A i \in 1..(table.ids.size - 1) :
               table'.ids.at[i] = table.ids.at[i]
               \/ (table.ids.at[i] = o /\ table'.ids.at[i] \in Nat),
           HeldElsewhere(o) = 1 + HeldElsewhere(o)'
    PROVE  IInv'
<1> USE DEF IInv
<1>1. o \in Objs /\ memory[o] = "live"
  BY ObjectsAssumption DEF Served
<1>2. \A p : Calling(p)' = Calling(p)
  BY DEF Calling
<1>3. \A p \in Objs : /\ p # o => HeldElsewhere(p)' = HeldElsewhere(p)
                      /\ HeldElsewhere(p)' \in Nat /\ refs[p] \in Int
  BY DEF HeldElsewhere, Shape
<1>4. refs[o] - 1 >= Cardinality(Calling(o)') + HeldElsewhere(o)'
  <2>1. refs[o] >= Cardinality(Calling(o)) + HeldElsewhere(o)
    BY <1>1 DEF Counts
  <2>2. Cardinality(Calling(o)') = Cardinality(Calling(o)) /\ Cardinality(Calling(o)) \in Nat
    BY <1>2, CallingFinite
  <2> QED
    BY <1>1, <1>3, <2>1, <2>2
<1>5. /\ refs' = [refs EXCEPT ![o] = @ - 1]
      /\ memory' \in [Objs -> {"unused", "live", "freed"}]
      /\ \A p \in Objs : memory'[p] = "unused" <=> memory[p] = "unused"
      /\ \A p \in Objs : memory'[p] # memory[p] =>
            /\ p = o /\ HeldElsewhere(p)' = 0
            /\ \A t \in Sessions : ~(at'[t] = "invoke" /\ x'[t] = p)
  BY <1>1, <1>4, ReleaseOne
<1>6. Shape'
  <2>1. refs' \in [Objs -> Int]
    BY <1>1, <1>5 DEF Shape
  <2>2. app' \in [Servants -> {"new", "added", "removed", "dropped"}]
    BY DEF Shape
  <2> QED
    BY <1>5, <2>1, <2>2 DEF Shape
<1>7. Constructed'
  <2>1. \A i \in 0..(table'.ids.size - 1) :
           table'.ids.at[i] \in Objs => memory[table'.ids.at[i]] # "unused"
    <3> SUFFICES ASSUME NEW i \in 0..(table'.ids.size - 1), table'.ids.at[i] \in Objs
                 PROVE  memory[table'.ids.at[i]] # "unused"
      OBVIOUS
    <3>1. table.ids.size \in Nat \ {0} /\ table'.ids.at[0] \in Nat
      BY DEF Shape, Vector
    <3>2. i \in 1..(table.ids.size - 1) /\ table'.ids.at[i] = table.ids.at[i]
      BY <3>1, PointersApart
    <3> QED
      BY <3>1, <3>2 DEF Constructed
  <2>2. \A i \in 0..(table'.ids.size - 1) :
           table'.ids.at[i] \in Objs => memory'[table'.ids.at[i]] # "unused"
    BY <1>5, <2>1
  <2> QED
    BY <1>5, <2>2 DEF Shape, Constructed
<1>8. Landed'
  BY <1>5 DEF Shape, Landed
<1>9. Served'
  <2> SUFFICES ASSUME NEW p \in Servants
               PROVE  /\ app'[p] = "new" => memory'[p] = "unused" /\ objId'[p] = 0
                      /\ app'[p] \in {"added", "removed"} => memory'[p] = "live"
                      /\ app'[p] = "added" /\ objId'[p] # 0 =>
                            /\ objId'[p] \in 1..(table'.ids.size - 1)
                            /\ table'.ids.at[objId'[p]] = p
    BY DEF Served
  <2>1. CASE p = o
    BY <1>1, <1>5, <2>1 DEF HeldElsewhere, Shape
  <2>2. CASE p # o
    BY <1>1, <1>5, <2>2, ObjectsAssumption DEF Served, Shape
  <2> QED
    BY <2>1, <2>2
<1>10. Counts'
  <2> SUFFICES ASSUME NEW p \in Objs, memory'[p] = "live"
               PROVE  refs'[p] >= Cardinality(Calling(p)') + HeldElsewhere(p)'
    BY DEF Counts
  <2>1. CASE p = o
    BY <1>1, <1>4, <1>5, <2>1 DEF Shape
  <2>2. CASE p # o
    BY <1>2, <1>3, <1>5, <2>2 DEF Counts, Shape
  <2> QED
    BY <2>1, <2>2
<1>11. ReadHead'
  BY DEF ReadHead
<1> QED
  BY <1>6, <1>7, <1>8, <1>9, <1>10, <1>11

LEMMA RemoveServantStep ==
    ASSUME IInv, NEW o \in Servants, RemoveServant(o), "overtaken" \notin misuse'
    PROVE  IInv'
<1> DEFINE id == objId[o]
           w == FreeId(table.ids, id)
<1>1. /\ app[o] = "added" /\ id # 0
      /\ app' = [app EXCEPT ![o] = "removed"]
      /\ table' = [table EXCEPT !.ids = w]
      /\ Release(Ptr(table, id), 1)
      /\ UNCHANGED <<objId, at, x, newId>>
      /\ \A s \in Sessions : at[s] # "link"
  BY DEF RemoveServant, RemoveId, HeldByTable, local, Misused, Overtaking
<1>2. id \in 1..(table.ids.size - 1) /\ table.ids.at[id] = o /\ Vector(table.ids)
      /\ Linked(table.ids) /\ o \in Objs
      /\ app \in [Servants -> {"new", "added", "removed", "dropped"}]
  BY <1>1, ObjectsAssumption DEF IInv, Served, Shape
<1>3. /\ Vector(w) /\ Linked(w) /\ w.size = table.ids.size
      /\ w.at[id] = table.ids.at[0]
      /\ \A i \in 1..(table.ids.size - 1) : i # id => w.at[i] = table.ids.at[i]
  BY <1>2, FreeIdVector
<1> HIDE DEF w
<1>4. /\ table' = [ids |-> table'.ids, names |-> table'.names]
      /\ table'.ids = w /\ table'.names = table.names
  BY <1>1 DEF IInv, Shape
<1>5. table.ids.at[0] \in Nat
  BY <1>2 DEF Vector
<1>6. Release(o, 1)
  BY <1>1, <1>2 DEF Ptr
<1>7. HeldElsewhere(o) = 1 + HeldElsewhere(o)'
  BY <1>1, <1>2 DEF HeldElsewhere
<1>8. \A i \in 1..(table.ids.size - 1) :
         table'.ids.at[i] = table.ids.at[i]
         \/ (table.ids.at[i] = o /\ table'.ids.at[i] \in Nat)
  BY <1>2, <1>3, <1>4, <1>5
<1> QED
  BY <1>1, <1>3, <1>4, <1>6, <1>7, <1>8, ReleaseServant

LEMMA DropStep ==
    ASSUME IInv, NEW o \in Servants, Drop(o)
    PROVE  IInv'
<1>1. /\ app[o] = "removed" /\ app' = [app EXCEPT ![o] = "dropped"]
      /\ Release(o, 1)
      /\ UNCHANGED <<table, objId, at, x, newId>>
  BY DEF Drop, local
<1>2. /\ table = [ids |-> table.ids, names |-> table.names] /\ Vector(table.ids)
      /\ Linked(table.ids)
      /\ app \in [Servants -> {"new", "added", "removed", "dropped"}]
  BY DEF IInv, Shape
<1>3. HeldElsewhere(o) = 1 + HeldElsewhere(o)'
  BY <1>1, <1>2 DEF HeldElsewhere
<1> QED
  BY <1>1, <1>2, <1>3, ReleaseServant

\* A servant that was passed over has no id to free.
LEMMA RemovePassedOverStep ==
    ASSUME IInv, NEW o \in Servants, RemovePassedOver(o)
    PROVE  IInv'
<1> USE DEF IInv
<1>1. /\ app[o] = "added" /\ objId[o] = 0 /\ app' = [app EXCEPT ![o] = "removed"]
      /\ UNCHANGED <<table, memory, refs, objId, at, x, newId>>
  BY DEF RemovePassedOver, heap, local
<1>2. \A p : Calling(p)' = Calling(p) /\ HeldElsewhere(p)' = HeldElsewhere(p)
  BY <1>1 DEF Calling, HeldElsewhere, Shape
<1>3. Shape'
  BY <1>1 DEF Shape
<1>4. Constructed' /\ Landed' /\ Served' /\ Counts'
  BY <1>1, <1>2 DEF Constructed, Landed, Served, Counts, Shape
<1>5. Linked(table.ids)' /\ ReadHead'
  BY <1>1 DEF ReadHead
<1> QED
  BY <1>3, <1>4, <1>5

\* The application adds a servant, with a name that is free or in vain.
LEMMA AddServantStep ==
    ASSUME IInv, NEW o \in Servants, NEW n \in Names, AddServant(o, n), "overtaken" \notin misuse'
    PROVE  IInv'
<1> USE DEF IInv
<1> DEFINE v == table.ids
           w == AddVal(v, o)
           id == NextId(v)
<1>1. /\ app[o] = "new" /\ app' = [app EXCEPT ![o] = "added"]
      /\ memory' = [memory EXCEPT ![o] = "live"]
      /\ UNCHANGED <<at, x, newId>>
  BY DEF AddServant, local
<1>2. /\ o \in Objs /\ memory[o] = "unused" /\ objId[o] = 0
      /\ Calling(o) = {}
      /\ \A p : Calling(p)' = Calling(p)
      /\ \A p \in Objs \ {o} : memory'[p] = memory[p]
  BY <1>1, ObjectsAssumption DEF Served, Landed, Calling, Shape
<1>3. \A i \in 0..(v.size - 1) : v.at[i] # o
  BY <1>2 DEF Constructed
<1>4. Landed'
  BY <1>1, <1>2 DEF Landed, Shape
<1>5. CASE Found(n)
  <2>1. refs' = [refs EXCEPT ![o] = 1] /\ UNCHANGED <<table, objId>>
    BY <1>5 DEF AddServant
  <2>2. Shape'
    BY <1>1, <1>2, <2>1 DEF Shape
  <2>3. Constructed'
    BY <1>1, <1>2, <2>1 DEF Constructed, Shape
  <2>4. Served'
    BY <1>1, <1>2, <2>1 DEF Served, Shape
  <2>5. Counts'
    <3> SUFFICES ASSUME NEW p \in Objs, memory'[p] = "live"
                 PROVE  refs'[p] >= Cardinality(Calling(p)') + HeldElsewhere(p)'
      BY DEF Counts
    <3>1. CASE p = o
      <4>1. Cardinality(Calling(p)') = 0 /\ HeldElsewhere(p)' = 1
        BY <1>1, <1>2, <2>1, <3>1, FS_EmptySet DEF HeldElsewhere, Shape
      <4> QED
        BY <2>1, <3>1, <4>1 DEF Shape
    <3>2. CASE p # o
      <4>1. HeldElsewhere(p)' = HeldElsewhere(p)
        BY <1>1, <2>1, <3>2 DEF HeldElsewhere, Shape
      <4> QED
        BY <1>2, <2>1, <3>2, <4>1 DEF Counts, Shape
    <3> QED
      BY <3>1, <3>2
  <2>6. Linked(table.ids)' /\ ReadHead'
    BY <1>1, <2>1 DEF ReadHead
  <2> QED
    BY <1>4, <2>2, <2>3, <2>4, <2>5, <2>6
<1>6. CASE ~Found(n)
  <2>1. /\ refs' = [refs EXCEPT ![o] = 2] /\ objId' = [objId EXCEPT ![o] = id]
        /\ table' = AddNamed(table, o, n)
        /\ \A s \in Sessions : at[s] # "link"
    BY <1>6 DEF AddServant, HeldByTable, Misused, Overtaking
  <2>2. /\ Vector(w) /\ Linked(w) /\ v.size <= w.size
        /\ id \in 1..(w.size - 1) /\ w.at[id] = o
        /\ \A i \in 1..(v.size - 1) : i # id => w.at[i] = v.at[i]
        /\ \A i \in 0..(w.size - 1) : w.at[i] \in Objs =>
              w.at[i] = o \/ (i \in 1..(v.size - 1) /\ w.at[i] = v.at[i])
        /\ id < v.size => v.at[id] \in Nat
    <3>1. Vector(v) /\ Linked(v)
      BY DEF Shape
    <3> HIDE DEF v
    <3> QED
      BY <1>2, <3>1, AddValVector
  <2> HIDE DEF w, id
  <2>8. v.size \in Nat \ {0} /\ w.size \in Nat \ {0} /\ id \in Nat
    BY <2>2 DEF Shape, Vector
  <2>3. /\ table' = [ids |-> table'.ids, names |-> table'.names]
        /\ table'.ids = w /\ table'.names = WithName(table, n, o)
    <3>1. AddPtr(table, o) = [ids |-> w, names |-> table.names]
      BY DEF Shape, AddPtr, w
    <3> QED
      BY <2>1, <3>1 DEF AddNamed
  <2>4. Shape'
    <3>1. objId' \in [Objs -> Nat] /\ refs' \in [Objs -> Int]
      <4>1. objId \in [Objs -> Nat] /\ refs \in [Objs -> Int]
        BY DEF Shape
      <4>2. objId' \in [Objs -> Nat]
        BY <2>1, <2>8, <4>1
      <4>3. refs' \in [Objs -> Int]
        <5>1. refs' = [refs EXCEPT ![o] = 2] /\ 2 \in Int
          BY <2>1
        <5> QED
          BY <4>1, <5>1
      <4> QED
        BY <4>2, <4>3
    <3>2. \A s \in Sessions : at[s] = "link" => newId[s] \in 1..(w.size - 1)
      BY <2>2, <2>8 DEF Shape
    <3>3. memory' \in [Objs -> {"unused", "live", "freed"}]
      BY <1>1 DEF Shape
    <3>4. app' \in [Servants -> {"new", "added", "removed", "dropped"}]
      BY <1>1 DEF Shape
    <3> QED
      BY <1>1, <2>2, <2>3, <3>1, <3>2, <3>3, <3>4 DEF Shape
  <2>5. Constructed'
    <3>1. \A p \in Objs : memory[p] # "unused" \/ p = o => memory'[p] # "unused"
      BY <1>1, <1>2 DEF Shape
    <3>2. \A i \in 0..(w.size - 1) : w.at[i] \in Objs => memory'[w.at[i]] # "unused"
      BY <2>2, <2>8, <3>1 DEF Constructed
    <3>3. \A m \in DOMAIN table'.names :
             table'.names[m] \in Objs /\ memory'[table'.names[m]] # "unused"
      BY <1>2, <2>3, <3>1 DEF Constructed, WithName
    <3> QED
      BY <1>1, <2>3, <3>1, <3>2, <3>3 DEF Constructed
  <2>6. Served'
    <3> SUFFICES ASSUME NEW p \in Servants
                 PROVE  /\ app'[p] = "new" => memory'[p] = "unused" /\ objId'[p] = 0
                        /\ app'[p] \in {"added", "removed"} => memory'[p] = "live"
                        /\ app'[p] = "added" /\ objId'[p] # 0 =>
                              objId'[p] \in 1..(w.size - 1) /\ w.at[objId'[p]] = p
      BY <2>3 DEF Served
    <3>1. CASE p = o
      BY <1>1, <1>2, <2>1, <2>2, <2>8, <3>1 DEF Shape
    <3>2. CASE p # o
      <4>1. app'[p] = app[p] /\ memory'[p] = memory[p] /\ objId'[p] = objId[p]
        BY <1>1, <1>2, <2>1, <3>2, ObjectsAssumption DEF Shape
      <4>2. ASSUME app[p] = "added", objId[p] # 0
            PROVE  objId[p] \in 1..(w.size - 1) /\ w.at[objId[p]] = p
        <5>1. objId[p] \in 1..(v.size - 1) /\ v.at[objId[p]] = p
          BY <4>2 DEF Served
        <5>2. objId[p] # id
          BY <2>2, <2>8, <5>1, PointersApart, ObjectsAssumption
        <5> QED
          BY <2>2, <2>8, <5>1, <5>2
      <4> QED
        BY <4>1, <4>2 DEF Served
    <3> QED
      BY <3>1, <3>2
  <2>7. Counts'
    <3> SUFFICES ASSUME NEW p \in Objs, memory'[p] = "live"
                 PROVE  refs'[p] >= Cardinality(Calling(p)') + HeldElsewhere(p)'
      BY DEF Counts
    <3>1. CASE p = o
      <4>1. Cardinality(Calling(p)') = 0
        BY <1>2, <3>1, FS_EmptySet
      <4>2. HeldElsewhere(p)' \in {0, 1, 2}
        BY DEF HeldElsewhere
      <4>3. refs'[p] = 2
        BY <1>2, <2>1, <3>1 DEF Shape
      <4> QED
        BY <4>1, <4>2, <4>3
    <3>2. CASE p # o
      <4>1. HeldElsewhere(p)' = HeldElsewhere(p)
        BY <1>1, <2>1, <3>2 DEF HeldElsewhere, Shape
      <4> QED
        BY <1>2, <2>1, <3>2, <4>1 DEF Counts, Shape
    <3> QED
      BY <3>1, <3>2
  <2>9. Linked(table.ids)' /\ ReadHead'
    BY <1>1, <2>1, <2>2, <2>3 DEF ReadHead
  <2> QED
    BY <1>4, <2>4, <2>5, <2>6, <2>7, <2>9
<1> QED
  BY <1>5, <1>6

LEMMA InvStep == IInv /\ [Next]_vars /\ "overtaken" \notin misuse' => IInv'
<1> SUFFICES ASSUME IInv, [Next]_vars, "overtaken" \notin misuse' PROVE IInv'
  OBVIOUS
<1>1. ASSUME NEW s \in Sessions, Client(s) \/ Create(s) \/ Find(s) \/ Call(s)
      PROVE  IInv'
  <2>1. CASE Client(s) \/ LookUp(s) \/ Existing(s) \/ FindCreator(s) \/ NoCreator(s)
             \/ NameFree(s) \/ RetrieveNothing(s) \/ Load(s) \/ WrongClass(s)
    BY <2>1, QuietSteps
  <2>2. CASE Construct(s)
    BY <2>2, ConstructStep
  <2>3. CASE StoreName(s) \/ Alloc(s) \/ Link(s)
    BY <2>3, StoreNameStep, AllocStep, LinkStep
  <2>4. CASE Hold(s) \/ SetId(s)
    BY <2>4, HoldStep, SetIdStep
  <2>5. CASE Retrieve(s)
    BY <2>5, RetrieveStep
  <2>6. CASE Cast(s) \/ Invoke(s)
    BY <2>6, CastStep, InvokeStep
  <2>7. CASE ConstructNull(s) \/ NameExists(s) \/ LinkOutside(s) \/ RetrieveFreed(s)
             \/ LoadZero(s) \/ LoadFree(s) \/ TouchFreed(s)
    BY <2>7, StutterStep
    DEF ConstructNull, NameExists, LinkOutside, RetrieveFreed, LoadZero, LoadFree, TouchFreed,
        Fail, heap, local
  <2> QED
    BY <1>1, <2>1, <2>2, <2>3, <2>4, <2>5, <2>6, <2>7 DEF Create, Find, Call
<1>2. CASE Application
  <2>1. ASSUME NEW o \in Servants, ServantLost(o)
        PROVE  IInv'
    BY <2>1, StutterStep DEF ServantLost, Fail, heap, local
  <2> QED
    BY <1>2, <2>1, AddServantStep, RemoveServantStep, RemovePassedOverStep, DropStep
    DEF Application
<1>3. CASE AddOutside
  BY <1>3, StutterStep DEF AddOutside, Fail, heap, local
<1>4. CASE UNCHANGED vars
  BY <1>4, StutterStep DEF vars, heap, local
<1> QED
  BY <1>1, <1>2, <1>3, <1>4 DEF Next

\* An object that does not live has no reference.
Unheld == \A o \in Objs : memory[o] # "live" => refs[o] = 0

LEMMA UnheldStep == IInv /\ Unheld /\ [Next]_vars => Unheld'
<1> SUFFICES ASSUME IInv, Unheld, [Next]_vars PROVE Unheld'
  OBVIOUS
<1> USE DEF At, heap, local, history
<1>1. /\ memory \in [Objs -> {"unused", "live", "freed"}] /\ refs \in [Objs -> Int]
      /\ \A n \in DOMAIN table.names : table.names[n] \in Objs
      /\ \A o \in Objs : memory[o] # "live" => refs[o] = 0
  BY DEF IInv, Shape, Constructed, Unheld
<1>2. ASSUME NEW o \in Objs, NEW n \in {HeldByTable, HeldByCall, 1}, memory[o] = "live", Release(o, n)
      PROVE  Unheld'
  BY <1>1, <1>2 DEF Release, RefsAfter, HeldByTable, HeldByCall, Unheld
<1>3. ASSUME UNCHANGED <<memory, refs>> PROVE Unheld'
  BY <1>3 DEF Unheld
<1>4. ASSUME NEW s \in Sessions, Client(s) \/ Create(s) \/ Find(s) \/ Call(s)
      PROVE  Unheld'
  <2>1. CASE Client(s)
    BY <1>3, <2>1 DEF Client, AskByName, AskCreate, AskCall, Ask
  <2>2. CASE \/ LookUp(s) \/ Existing(s) \/ FindCreator(s) \/ NoCreator(s) \/ NameFree(s)
             \/ StoreName(s) \/ Alloc(s) \/ Link(s) \/ SetId(s)
             \/ RetrieveNothing(s) \/ Load(s) \/ WrongClass(s)
    BY <1>3, <2>2
    DEF LookUp, Existing, FindCreator, NoCreator, NameFree, StoreName, Alloc, Link, SetId,
        RetrieveNothing, Load, WrongClass
  <2>3. CASE ConstructNull(s) \/ NameExists(s) \/ LinkOutside(s) \/ RetrieveFreed(s)
             \/ LoadZero(s) \/ LoadFree(s) \/ TouchFreed(s)
    BY <1>3, <2>3
    DEF ConstructNull, NameExists, LinkOutside, RetrieveFreed, LoadZero, LoadFree, TouchFreed,
        Fail
  <2>4. CASE Construct(s)
    <3>1. PICK o \in Objs \ Servants :
             /\ memory' = [memory EXCEPT ![o] = "live"]
             /\ \E n : refs' = [refs EXCEPT ![o] = n]
      BY <2>4 DEF Construct
    <3> QED
      BY <1>1, <3>1 DEF Unheld
  <2>5. CASE Hold(s) \/ Cast(s)
    <3>1. x[s] \in Objs /\ memory[x[s]] = "live"
      BY <1>1, <2>5 DEF IInv, Constructed, Hold, Cast
    <3>2. (\E n : refs' = [refs EXCEPT ![x[s]] = n]) /\ memory' = memory
      BY <2>5 DEF Hold, Cast
    <3> QED
      BY <1>1, <3>1, <3>2 DEF Unheld
  <2>6. CASE Retrieve(s)
    <3>1. /\ refs' = refs
          /\ LET o == table.names[req[s].name] IN
                memory' = [memory EXCEPT ![o] = IF refs[o] = 0 THEN "freed" ELSE @]
      BY <2>6 DEF Retrieve
    <3> QED
      BY <1>1, <3>1 DEF Unheld
  <2>7. CASE Invoke(s)
    BY <1>2, <2>7 DEF IInv, Landed, Invoke
  <2> QED
    BY <1>4, <2>1, <2>2, <2>3, <2>4, <2>5, <2>6, <2>7 DEF Create, Find, Call
<1>5. ASSUME NEW o \in Servants, NEW n \in Names, AddServant(o, n)
      PROVE  Unheld'
  <2>1. /\ memory' = [memory EXCEPT ![o] = "live"]
        /\ \E m : refs' = [refs EXCEPT ![o] = m]
    BY <1>5 DEF AddServant
  <2> QED
    BY <1>1, <2>1 DEF Unheld
<1>6. ASSUME NEW o \in Servants, RemoveServant(o)
      PROVE  Unheld'
  <2>1. Ptr(table, objId[o]) = o /\ memory[o] = "live" /\ o \in Objs
    BY <1>6, ObjectsAssumption DEF RemoveServant, IInv, Served, Ptr
  <2> QED
    BY <1>2, <1>6, <2>1 DEF RemoveServant
<1>7. ASSUME NEW o \in Servants, RemovePassedOver(o) \/ Drop(o)
      PROVE  Unheld'
  <2>1. CASE RemovePassedOver(o)
    BY <1>3, <2>1 DEF RemovePassedOver
  <2>2. CASE Drop(o)
    <3>1. memory[o] = "live" /\ o \in Objs /\ Release(o, 1)
      BY <2>2, ObjectsAssumption DEF Drop, IInv, Served
    <3> QED
      BY <1>2, <3>1
  <2> QED
    BY <1>7, <2>1, <2>2
<1>8. CASE AddOutside \/ \E o \in Servants : ServantLost(o)
  BY <1>3, <1>8 DEF AddOutside, ServantLost, Fail
<1>9. CASE UNCHANGED vars
  BY <1>3, <1>9 DEF vars
<1> QED
  BY <1>4, <1>5, <1>6, <1>7, <1>8, <1>9 DEF Next, Application

Heap == Kinds /\ Unheld

\* What every state has before a session is overtaken.
Typed == IInv /\ Handling /\ Heap

Kept == "overtaken" \notin misuse => IInv /\ Unheld

LEMMA TypedInvariance == Spec => [](Base /\ ("overtaken" \notin misuse => Typed))
<1>1. Init => Kept
  <2>1. Init => Unheld
    BY DEF Init, Unheld
  <2> QED
    BY <2>1, InvInit DEF Kept
<1>2. Kept /\ [Next]_vars => Kept'
  <2> SUFFICES ASSUME Kept, [Next]_vars, "overtaken" \notin misuse' PROVE IInv' /\ Unheld'
    BY DEF Kept
  <2>1. "overtaken" \notin misuse
    BY MarksStep
  <2> QED
    BY <2>1, InvStep, UnheldStep DEF Kept
<1>3. Base /\ Kept => Base /\ ("overtaken" \notin misuse => Typed)
  BY DEF Base, Kept, Typed, Heap
<1> QED
  BY <1>1, <1>2, <1>3, BaseInvariance, PTL DEF Spec
-----------------------------------------------------------------------------
\* Every variable has its type, whatever the clients and the application do; and
\* no reference is released that was not taken as long as no session has been
\* overtaken between reading the head of the free list and unlinking it.
THEOREM TypeCorrect == Spec => []TypeOK
<1>1. ASSUME Base, "overtaken" \notin misuse => Typed PROVE TypeOK
  <2>1. Weak /\ Handling /\ Kinds /\ Marks
    BY <1>1 DEF Base
  <2>2. ASSUME "overtaken" \notin misuse, NEW o \in Objs PROVE refs[o] \in Nat
    <3>1. IInv /\ Unheld
      BY <1>1, <2>2 DEF Typed, Heap
    <3>2. HeldElsewhere(o) \in Nat /\ Cardinality(Calling(o)) \in Nat /\ refs[o] \in Int
      BY <3>1, CallingFinite DEF HeldElsewhere, IInv, Shape
    <3>3. memory[o] = "live" => refs[o] >= Cardinality(Calling(o)) + HeldElsewhere(o)
      BY <3>1 DEF IInv, Counts
    <3>4. memory[o] # "live" => refs[o] = 0
      BY <3>1 DEF Unheld
    <3> QED
      BY <3>2, <3>3, <3>4
  <2>3. refs \in [Objs -> Int]
    BY <2>1 DEF Weak, Shared
  <2>4. "overtaken" \notin misuse => refs \in [Objs -> Nat]
    BY <2>2, <2>3
  <2> QED
    BY <2>1, <2>3, <2>4
    DEF TypeOK, Weak, Shared, Slots, Threads, Labels, Handling, Kinds, Faults, Marks
<1> QED
  BY <1>1, TypedInvariance, PTL

\* A call runs on an object that stays alive until it returns, whatever any
\* number of clients and the application do meanwhile, as long as no session has
\* been overtaken in alloc_id: the reference that the arguments of the call hold
\* is never the one that a removal, a retrieval or another call gives up.
THEOREM CalledStayAlive == Spec => []CallsLand
<1>1. ("overtaken" \notin misuse => Typed) => CallsLand
  BY DEF Typed, IInv, Landed, CallsLand
<1> QED
  BY <1>1, TypedInvariance, PTL

\* A servant is found under its id until the application removes it, however
\* many creations go on at once without the lock, as long as none of them has
\* been overtaken in alloc_id.
THEOREM ServantsFound == Spec => []ServantsServed
<1>1. ("overtaken" \notin misuse => Typed) => ServantsServed
  BY DEF Typed, IInv, Served, ServantsServed, IsValid, Ptr
<1> QED
  BY <1>1, TypedInvariance, PTL

\* Where a session creates by name and the name is not yet its own.
Creates(s) == at[s] \in Beginning /\ req[s].op = "createNamed"

\* As long as nobody creates by a name that another creates by, a name that was
\* found free is still free when it is stored.
Apart ==
    /\ \A s, t \in Sessions : Creates(s) /\ Creates(t) /\ req[s].name = req[t].name => s = t
    /\ \A s \in Sessions : Creates(s) /\ at[s] # "lookUp" => ~Found(req[s].name)

\* A step of a session that goes on with its creation, ends it, or handles no
\* creation by name; the names stay as they are.
LEMMA MoveApart ==
    ASSUME Weak, Handling, Apart, table'.names = table.names, NEW s \in Sessions, NEW l,
           at' = [at EXCEPT ![s] = l], \A t \in Sessions \ {s} : req'[t] = req[t],
           \/ l \notin Beginning
           \/ req'[s].op # "createNamed"
           \/ /\ Creates(s) /\ req'[s] = req[s] /\ l # "lookUp"
              /\ at[s] = "lookUp" => ~Found(req[s].name)
    PROVE  Apart'
<1>1. \A t \in Sessions : Creates(t)' =>
         /\ Creates(t) /\ req'[t] = req[t] /\ (t # s => at'[t] = at[t])
         /\ t = s => at'[t] # "lookUp" /\ (at[s] = "lookUp" => ~Found(req[s].name))
  BY DEF Creates, Weak, Threads
<1>2. \A n : Found(n)' = Found(n)
  BY DEF Found, HasName
<1> QED
  BY <1>1, <1>2 DEF Apart

LEMMA SameApart ==
    ASSUME Apart, UNCHANGED <<at, req>>, table'.names = table.names
    PROVE  Apart'
BY DEF Apart, Creates, Found, HasName

\* A client asks for no name that another session creates by.
LEMMA AskApart ==
    ASSUME Weak, Handling, Apart, NEW s \in Sessions, Client(s), "sameName" \notin misuse'
    PROVE  Apart'
<1> USE DEF heap, local, history
<1>1. NoRequest = [op |-> "call", name |-> NoName, cls |-> NoProxy.cls, proxy |-> NoProxy]
  BY DEF NoRequest
<1>2. ASSUME NEW r, NEW handler \in {"lookUp", "retrieve", "findCreator", "load"},
             Ask(s, r, handler)
      PROVE  /\ table' = table /\ at' = [at EXCEPT ![s] = handler] /\ at[s] = "idle"
             /\ req' = [req EXCEPT ![s] = r] /\ req'[s] = r
             /\ \A t \in Sessions \ {s} : req'[t] = req[t]
  BY <1>2 DEF Ask, At, Goto, Handling
<1>3. ASSUME NEW r, NEW handler \in {"lookUp", "retrieve", "findCreator", "load"},
             Ask(s, r, handler), handler \notin Beginning \/ r.op # "createNamed"
      PROVE  Apart'
  BY <1>2, <1>3, MoveApart
<1>4. ASSUME NEW n \in Names, NEW c \in Classes,
             Ask(s, [NoRequest EXCEPT !.op = "createNamed", !.name = n, !.cls = c], "lookUp"),
             Misused(Overlap \cup SameName(n))
      PROVE  Apart'
  <2> DEFINE r == [NoRequest EXCEPT !.op = "createNamed", !.name = n, !.cls = c]
  <2>1. r.op = "createNamed" /\ r.name = n
    BY <1>1
  <2> HIDE DEF r
  <2>2. /\ table' = table /\ at' = [at EXCEPT ![s] = "lookUp"]
        /\ req'[s] = r /\ \A t \in Sessions \ {s} : req'[t] = req[t]
    BY <1>2, <1>4 DEF r
  <2>3. \A t \in Sessions : ~(Creates(t) /\ req[t].name = n)
    BY <1>4 DEF Misused, SameName, Creates, Beginning
  <2>4. \A t \in Sessions \ {s} : at'[t] = at[t] /\ Creates(t)' = Creates(t)
    BY <2>2 DEF Creates, Weak, Threads
  <2>5. at'[s] = "lookUp" /\ \A m : Found(m)' = Found(m)
    BY <2>2 DEF Found, HasName, Weak, Threads
  <2> QED
    BY <2>1, <2>2, <2>3, <2>4, <2>5 DEF Apart
<1>5. CASE AskByName(s)
  <2>1. ASSUME NEW n \in Names, NEW c \in Classes,
               Ask(s, [NoRequest EXCEPT !.op = "retrieve", !.name = n, !.cls = c], "retrieve")
        PROVE  Apart'
    BY <1>3, <2>1 DEF Beginning
  <2> QED
    BY <1>4, <1>5, <2>1 DEF AskByName
<1>6. CASE AskCreate(s)
  <2>1. PICK c \in Classes : Ask(s, [NoRequest EXCEPT !.op = "create", !.cls = c], "findCreator")
    BY <1>6 DEF AskCreate
  <2>2. [NoRequest EXCEPT !.op = "create", !.cls = c].op # "createNamed"
    BY <1>1
  <2> QED
    BY <1>3, <2>1, <2>2
<1>7. CASE AskCall(s)
  BY <1>3, <1>7 DEF AskCall, Beginning
<1> QED
  BY <1>5, <1>6, <1>7 DEF Client

\* Nor does a session store a name, or the application, that another creates by.
LEMMA StoreApart ==
    ASSUME Weak, Handling, Apart, NEW s \in Sessions, StoreName(s)
    PROVE  Apart' /\ ~Found(req[s].name)
<1>1. /\ table' = [table EXCEPT !.names = WithName(table, req[s].name, x[s])]
      /\ at[s] = "store" /\ at' = [at EXCEPT ![s] = "alloc"] /\ req' = req
  BY DEF StoreName, At, Goto, heap, local
<1>2. Creates(s) /\ ~Found(req[s].name)
  BY <1>1 DEF Handling, ByName, Creates, Beginning, Apart
<1>3. \A n : Found(n)' <=> Found(n) \/ n = req[s].name
  BY <1>1 DEF Weak, Shared, Found, HasName, WithName
<1>4. \A t \in Sessions : Creates(t)' => Creates(t) /\ t # s /\ at'[t] = at[t]
  BY <1>1 DEF Creates, Beginning, Weak, Threads
<1> QED
  BY <1>1, <1>2, <1>3, <1>4 DEF Apart

LEMMA ServantApart ==
    ASSUME Weak, Apart, NEW o \in Servants, NEW n \in Names, AddServant(o, n),
           "sameName" \notin misuse'
    PROVE  Apart'
<1>1. UNCHANGED <<at, req>>
  BY DEF AddServant, local
<1>2. CASE Found(n)
  BY <1>1, <1>2, SameApart DEF AddServant
<1>3. CASE ~Found(n)
  <2>1. table' = AddNamed(table, o, n) /\ \A t \in Sessions : ~(Creates(t) /\ req[t].name = n)
    BY <1>3 DEF AddServant, Misused, SameName, Creates, Beginning
  <2>2. \A m : Found(m)' <=> Found(m) \/ m = n
    <3> DEFINE w == AddVal(table.ids, o)
               m == WithName(table, n, o)
    <3>1. AddPtr(table, o) = [ids |-> w, names |-> table.names]
      BY DEF AddPtr, Weak, Shared
    <3>2. table' = [AddPtr(table, o) EXCEPT !.names = m]
      BY <2>1 DEF AddNamed
    <3>3. DOMAIN m = DOMAIN table.names \cup {n}
      BY DEF WithName
    <3> HIDE DEF w, m
    <3>4. table'.names = m
      BY <3>1, <3>2
    <3> QED
      BY <3>3, <3>4 DEF Found, HasName
  <2> QED
    BY <1>1, <2>1, <2>2 DEF Apart, Creates
<1> QED
  BY <1>2, <1>3

\* The other steps of a session.
LEMMA SessionApart ==
    ASSUME Weak, Handling, Apart, NEW s \in Sessions, Create(s) \/ Find(s) \/ Call(s), ~StoreName(s)
    PROVE  Apart' /\ table'.names = table.names
<1> USE DEF At, Goto, heap, local, history
<1>1. table'.names = table.names
  <2>1. CASE Alloc(s) \/ Link(s)
    BY <2>1 DEF Alloc, Link, Weak, Shared
  <2>2. CASE ~(Alloc(s) \/ Link(s))
    BY <2>2
    DEF Create, LookUp, Existing, FindCreator, NoCreator, Construct, ConstructNull, NameFree,
        NameExists, LinkOutside, Hold, SetId, Find, Retrieve, RetrieveNothing, RetrieveFreed,
        Call, Load, LoadZero, LoadFree, Cast, WrongClass, Invoke, TouchFreed, Fail
  <2> QED
    BY <2>1, <2>2
<1>2. CASE UNCHANGED <<at, req>>
  BY <1>1, <1>2, SameApart
<1>3. CASE Idle(s)
  <2>1. "idle" \notin Beginning
    BY DEF Beginning
  <2>2. at' = [at EXCEPT ![s] = "idle"] /\ \A t \in Sessions \ {s} : req'[t] = req[t]
    BY <1>3 DEF Idle, Handling
  <2> QED
    BY <1>1, <2>1, <2>2, MoveApart
<1>4. CASE LookUp(s) \/ FindCreator(s) \/ Construct(s) \/ NameFree(s)
  <2>1. PICK l : at' = [at EXCEPT ![s] = l]
    BY <1>4 DEF LookUp, FindCreator, Construct, NameFree
  <2>2. /\ req' = req /\ at[s] \in Beginning
        /\ l \in Beginning => l # "lookUp" /\ (at[s] = "lookUp" => ~Found(req[s].name))
    BY <1>4, <2>1 DEF LookUp, FindCreator, Construct, NameFree, Beginning, Weak, Threads
  <2> QED
    BY <1>1, <2>1, <2>2, MoveApart DEF Creates
<1>5. CASE Alloc(s) \/ Link(s) \/ Hold(s) \/ Load(s) \/ Cast(s) \/ WrongClass(s)
  <2>1. PICK l \in {"link", "setId", "hold", "cast", "invoke", "ended"} :
           at' = [at EXCEPT ![s] = l] /\ req' = req
    BY <1>5 DEF Alloc, Link, Hold, Load, Cast, WrongClass
  <2>2. l \notin Beginning /\ \A t \in Sessions \ {s} : req'[t] = req[t]
    BY <2>1 DEF Beginning
  <2> QED
    BY <1>1, <2>1, <2>2, MoveApart
<1> QED
  BY <1>1, <1>2, <1>3, <1>4, <1>5
  DEF Create, Existing, NoCreator, ConstructNull, NameExists, LinkOutside, SetId, Find,
      Retrieve, RetrieveNothing, RetrieveFreed, Call, LoadZero, LoadFree, Invoke, TouchFreed, Fail

\* Nobody changes what a name means.
LEMMA NamesStep ==
    ASSUME Base, Apart, [Next]_vars, "sameName" \notin misuse'
    PROVE  /\ Apart'
           /\ \A n \in DOMAIN table.names :
                 n \in DOMAIN table'.names /\ table'.names[n] = table.names[n]
<1> USE DEF heap, local, history
<1>1. Weak /\ Handling /\ table = [ids |-> table.ids, names |-> table.names]
  BY DEF Base, Weak, Shared
<1>2. ASSUME NEW s \in Sessions, StoreName(s)
      PROVE  \A n \in DOMAIN table.names :
                n \in DOMAIN table'.names /\ table'.names[n] = table.names[n]
  <2>1. ~Found(req[s].name)
    BY <1>1, <1>2, StoreApart
  <2>2. table'.names = WithName(table, req[s].name, x[s])
    BY <1>1, <1>2 DEF StoreName
  <2> QED
    BY <2>1, <2>2 DEF Found, HasName, WithName
<1>3. ASSUME NEW s \in Sessions, Client(s)
      PROVE  table' = table
  BY <1>3 DEF Client, AskByName, AskCreate, AskCall, Ask
<1>4. ASSUME NEW s \in Sessions, Client(s) \/ Create(s) \/ Find(s) \/ Call(s)
      PROVE  /\ Apart'
             /\ \A n \in DOMAIN table.names :
                   n \in DOMAIN table'.names /\ table'.names[n] = table.names[n]
  <2>1. CASE Client(s)
    BY <1>1, <1>3, <2>1, AskApart
  <2>2. CASE StoreName(s)
    BY <1>1, <1>2, <2>2, StoreApart
  <2>3. CASE ~Client(s) /\ ~StoreName(s)
    BY <1>1, <1>4, <2>3, SessionApart
  <2> QED
    BY <2>1, <2>2, <2>3
<1>5. ASSUME NEW o \in Servants, NEW m \in Names, AddServant(o, m)
      PROVE  /\ Apart'
             /\ \A n \in DOMAIN table.names :
                   n \in DOMAIN table'.names /\ table'.names[n] = table.names[n]
  <2>1. CASE Found(m)
    BY <1>1, <1>5, <2>1, ServantApart DEF AddServant
  <2>2. CASE ~Found(m)
    <3> DEFINE w == AddPtr(table, o)
               names == WithName(table, m, o)
    <3>1. table' = [w EXCEPT !.names = names]
      BY <1>5, <2>2 DEF AddServant, AddNamed
    <3>2. w = [ids |-> AddVal(table.ids, o), names |-> table.names]
      BY <1>1 DEF AddPtr
    <3>3. \A n \in DOMAIN table.names : n \in DOMAIN names /\ names[n] = table.names[n]
      BY <2>2 DEF Found, HasName, WithName
    <3> HIDE DEF w, names
    <3>4. table'.names = names
      BY <3>1, <3>2
    <3> QED
      BY <1>1, <1>5, <3>3, <3>4, ServantApart
  <2> QED
    BY <2>1, <2>2
<1>6. ASSUME NEW o \in Servants,
             RemoveServant(o) \/ RemovePassedOver(o) \/ Drop(o) \/ ServantLost(o)
      PROVE  UNCHANGED <<at, req>> /\ table'.names = table.names
  BY <1>1, <1>6 DEF RemoveServant, RemoveId, RemovePassedOver, Drop, ServantLost, Fail
<1>7. AddOutside \/ UNCHANGED vars => UNCHANGED <<at, req>> /\ table' = table
  BY DEF AddOutside, Fail, vars
<1> QED
  BY <1>4, <1>5, <1>6, <1>7, SameApart DEF Next, Application

\* A name, once given, means one object, for any number of creations and servants
\* added, as long as nobody begins to create by a name that another session is
\* creating by; a removal leaves it.
THEOREM NamesStay == Spec => NamesKept
<1> DEFINE Separate == "sameName" \notin misuse => Apart
<1>1. Init => Separate
  BY DEF Init, Apart, Creates, Beginning
<1>2. Base /\ Separate /\ [Next]_vars => Separate'
  BY NamesStep, MarksStep
<1>3. Base /\ Separate /\ [Next]_vars =>
        [ "sameName" \notin misuse' => \A n \in DOMAIN table.names :
            n \in DOMAIN table'.names /\ table'.names[n] = table.names[n] ]_vars
  BY NamesStep, MarksStep
<1> HIDE DEF Separate
<1> QED
  BY <1>1, <1>2, <1>3, BaseInvariance, PTL DEF Spec, NamesKept
-----------------------------------------------------------------------------
(* Clients that do not create at the same time                               *)

\* Before an id is handed out: what is in use stays where it is.
LEMMA RoomTable ==
    ASSUME NEW t, TableOK(t), NEW u, u = [t EXCEPT !.ids = WithRoom(t.ids)]
    PROVE  /\ TableOK(u) /\ u.names = t.names /\ InUse(u) = InUse(t)
           /\ \A i \in InUse(t) : Ptr(u, i) = Ptr(t, i)
<1> DEFINE w == WithRoom(t.ids)
<1>1. u.ids = w /\ u.names = t.names /\ u = [ids |-> u.ids, names |-> u.names]
  BY DEF TableOK
<1>2. IdsUsed(w, InUse(t)) /\ \A i \in InUse(t) : w.at[i] = t.ids.at[i]
  BY RoomMade DEF TableOK
<1> HIDE DEF w
<1>3. InUse(u) = InUse(t)
  BY <1>1, <1>2, WalkExact DEF InUse
<1> QED
  BY <1>1, <1>2, <1>3 DEF TableOK, Ptr

\* One session at most looks for a name or creates: what it has read from the
\* head of the free list is still the head, and what it has stored is there.
Lone ==
    /\ \A s, t \in Sessions : Busy(s) /\ Busy(t) => s = t
    /\ TableOK(table)
    /\ \A i \in InUse(table) : table.ids.at[i] \in Objs
    /\ \A s \in Sessions :
          /\ at[s] = "link" => newId[s] = table.ids.at[0]
          /\ at[s] \in {"hold", "setId"} =>
                newId[s] \in 1..(table.ids.size - 1) /\ table.ids.at[newId[s]] = x[s]

\* The ids in use are the slots that hold pointers.
LEMMA UsedSlots ==
    ASSUME TableOK(table)
    PROVE  /\ InUse(table) \subseteq 1..(table.ids.size - 1)
           /\ \A i \in 1..(table.ids.size - 1) : table.ids.at[i] \in Objs => i \in InUse(table)
<1>1. IdsUsed(table.ids, InUse(table))
  BY DEF TableOK
<1>2. InUse(table) \subseteq 1..(table.ids.size - 1) /\ table.ids.size \in Nat
  BY <1>1 DEF IdsUsed, Wellformed
<1>3. ASSUME NEW i \in 1..(table.ids.size - 1), table.ids.at[i] \in Objs, i \notin InUse(table)
      PROVE  FALSE
  <2>1. i \in 0..(table.ids.size - 1)
    BY <1>2
  <2>2. table.ids.at[i] \in 0..(table.ids.size - 1)
    BY <1>1, <1>3, <2>1, FreeSlots
  <2>3. table.ids.at[i] \in Nat
    BY <1>2, <2>2
  <2> QED
    BY <1>3, <2>3, PointersApart
<1> QED
  BY <1>2, <1>3

\* A step of one session that leaves the vector alone.
LEMMA MoveLone ==
    ASSUME Lone, Shape, NEW s \in Sessions, NEW l, NEW y, NEW n,
           table'.ids = table.ids, table' = [ids |-> table'.ids, names |-> table'.names],
           at' = [at EXCEPT ![s] = l], x' = [x EXCEPT ![s] = y],
           newId' = [newId EXCEPT ![s] = n],
           \/ l \in {"idle", "load", "cast", "invoke", "ended"} \/ Busy(s) \/ ~Creation,
           l # "link",
           l \in {"hold", "setId"} => n \in 1..(table.ids.size - 1) /\ table.ids.at[n] = y
    PROVE  Lone'
<1>1. ASSUME NEW t \in Sessions, NEW u \in Sessions, Busy(t)', Busy(u)', t # u PROVE FALSE
  BY <1>1 DEF Lone, Busy, Shape, Creation
<1>2. InUse(table)' = InUse(table)
  BY DEF InUse
<1>3. TableOK(table)'
  BY <1>2 DEF Lone, TableOK
<1>4. ASSUME NEW t \in Sessions
      PROVE  /\ at'[t] = "link" => newId'[t] = table'.ids.at[0]
             /\ at'[t] \in {"hold", "setId"} =>
                   newId'[t] \in 1..(table'.ids.size - 1) /\ table'.ids.at[newId'[t]] = x'[t]
  BY DEF Lone, Shape
<1>5. \A i \in InUse(table)' : table'.ids.at[i] \in Objs
  BY <1>2 DEF Lone
<1> QED
  BY <1>1, <1>3, <1>4, <1>5 DEF Lone

\* Steps that leave the creations alone.
LEMMA SameLone ==
    ASSUME Lone, UNCHANGED <<table, at, x, newId>>
    PROVE  Lone'
BY DEF Lone, Busy, InUse, TableOK

\* The steps of a creation.
LEMMA AllocLone ==
    ASSUME IInv, Lone, NEW s \in Sessions, Alloc(s)
    PROVE  Lone'
<1>1. /\ at[s] = "alloc" /\ at' = [at EXCEPT ![s] = "link"] /\ x' = x
      /\ newId' = [newId EXCEPT ![s] = NextId(table.ids)]
      /\ table' = [table EXCEPT !.ids = WithRoom(table.ids)]
  BY DEF Alloc, At, Goto
<1>2. TableOK(table)' /\ InUse(table)' = InUse(table)
      /\ \A i \in InUse(table) : table'.ids.at[i] = table.ids.at[i]
  BY <1>1, RoomTable DEF Lone, Ptr
<1>3. /\ at \in [Sessions -> Labels] /\ newId \in [Sessions -> Nat]
      /\ table'.ids = WithRoom(table.ids)
  BY <1>1 DEF IInv, Shape
<1>4. \A t \in Sessions \ {s} : ~Busy(t)' /\ Busy(s)
  BY <1>1, <1>3 DEF Lone, Busy
<1>5. at'[s] = "link" /\ newId'[s] = table'.ids.at[0]
  BY <1>1, <1>3 DEF NextId
<1>6. \A t \in Sessions \ {s} : at'[t] \notin {"link", "hold", "setId"}
  BY <1>4 DEF Busy
<1>7. \A i \in InUse(table)' : table'.ids.at[i] \in Objs
  BY <1>2 DEF Lone
<1> QED
  BY <1>2, <1>4, <1>5, <1>6, <1>7 DEF Lone

\* The pointer is stored where add_val would store it.
LEMMA LinkIsAdd ==
    ASSUME IInv, Lone, NEW s \in Sessions, Link(s)
    PROVE  table' = AddPtr(table, x[s]) /\ newId[s] = NextId(table.ids)
<1> DEFINE v == table.ids
           id == newId[s]
           next == v.at[id]
           a == [v.at EXCEPT ![0] = next]
           b == [a EXCEPT ![id] = x[s]]
<1>1. /\ at[s] = "link"
      /\ table' = [table EXCEPT !.ids.at = b]
  BY DEF Link, At
<1>2. id = v.at[0] /\ id # 0 /\ v = [size |-> v.size, at |-> v.at]
      /\ table = [ids |-> table.ids, names |-> table.names]
  BY <1>1 DEF Lone, IInv, Shape, Vector
<1>3. WithRoom(v) = v
  BY <1>2 DEF WithRoom
<1>4. NextId(v) = id
  BY <1>2, <1>3 DEF NextId
<1>5. AllocId(v) = [v EXCEPT !.at[0] = next]
  BY <1>3, <1>4 DEF AllocId
<1>6. AllocId(v) = [size |-> v.size, at |-> a]
  <2> HIDE DEF next
  <2> QED
    BY <1>2, <1>5
<1>7. AddVal(v, x[s]) = [AllocId(v) EXCEPT !.at[id] = x[s]]
  BY <1>4 DEF AddVal
<1>8. AddVal(v, x[s]) = [size |-> v.size, at |-> b]
  <2> HIDE DEF a
  <2> QED
    BY <1>6, <1>7
<1>9. table' = [ids |-> [size |-> v.size, at |-> b], names |-> table.names]
  <2> HIDE DEF b
  <2> QED
    BY <1>1, <1>2
<1>10. AddPtr(table, x[s]) = [ids |-> AddVal(v, x[s]), names |-> table.names]
  BY <1>2 DEF AddPtr
<1> QED
  BY <1>4, <1>8, <1>9, <1>10

\* The free list after the slot is taken.
LEMMA LinkLone ==
    ASSUME IInv, Lone, NEW s \in Sessions, Link(s)
    PROVE  Lone'
<1>1. /\ at[s] = "link" /\ x' = x /\ newId' = newId
      /\ at' = [at EXCEPT ![s] = IF req[s].op = "create" THEN "setId" ELSE "hold"]
  BY DEF Link, At, Goto, local, heap
<1>2. Added(table, table', newId[s], x[s])
  BY LinkIsAdd, AddPtrTable DEF Lone
<1>3. /\ TableOK(table)' /\ InUse(table)' = InUse(table) \cup {newId[s]}
      /\ table'.ids.at[newId[s]] = x[s] /\ newId[s] \in 1..(table'.ids.size - 1)
      /\ \A i \in InUse(table) : table'.ids.at[i] = table.ids.at[i]
  BY <1>2 DEF Added, Ptr
<1>4. at \in [Sessions -> Labels] /\ x[s] \in Objs
  BY <1>1 DEF IInv, Shape, Constructed
<1>5. \A t \in Sessions \ {s} : ~Busy(t)'
  BY <1>1, <1>4 DEF Lone, Busy
<1>6. \A t \in Sessions \ {s} : at'[t] \notin {"link", "hold", "setId"}
  BY <1>5 DEF Busy
<1>7. at'[s] # "link"
  BY <1>1, <1>4
<1>8. \A i \in InUse(table)' : table'.ids.at[i] \in Objs
  BY <1>3, <1>4 DEF Lone
<1> QED
  BY <1>1, <1>3, <1>5, <1>6, <1>7, <1>8 DEF Lone

\* The application adds or removes while nobody creates.
LEMMA ServantLone ==
    ASSUME IInv, Lone, NEW o \in Servants,
           \/ (\E n \in Names : AddServant(o, n)) \/ RemoveServant(o),
           "overlap" \notin misuse'
    PROVE  Lone'
<1>1. CASE UNCHANGED table
  <2>1. UNCHANGED <<at, x, newId>>
    BY DEF AddServant, RemoveServant, local
  <2> QED
    BY <1>1, <2>1, SameLone
<1>2. CASE ~UNCHANGED table
  <2>1. ~Creation /\ UNCHANGED <<at, x, newId>>
    BY <1>2 DEF AddServant, RemoveServant, Misused, Overlap, local
  <2>2. \A s \in Sessions : ~Busy(s)'
    BY <2>1 DEF Creation, Busy
  <2>3. \A s \in Sessions : at'[s] \notin {"link", "hold", "setId"}
    BY <2>2 DEF Busy
  <2>4. o \in Objs
    BY ObjectsAssumption
  <2>5. TableOK(table)' /\ \A i \in InUse(table)' : table'.ids.at[i] \in Objs
    <3>1. ASSUME NEW n \in Names, AddServant(o, n)
          PROVE  TableOK(table)' /\ \A i \in InUse(table)' : table'.ids.at[i] \in Objs
      <4>1. table' = AddNamed(table, o, n)
        BY <1>2, <3>1 DEF AddServant
      <4>2. Added(table, table', NextId(table.ids), o)
        BY <4>1, AddNamedTable DEF Lone
      <4> QED
        BY <2>4, <4>2 DEF Added, Lone, Ptr
    <3>2. CASE RemoveServant(o)
      <4>1. objId[o] \in 1..(table.ids.size - 1) /\ table.ids.at[objId[o]] = o
        BY <3>2 DEF RemoveServant, IInv, Served
      <4>2. objId[o] \in InUse(table)
        BY <2>4, <4>1, UsedSlots DEF Lone
      <4>3. table' = RemoveId(table, objId[o])
        BY <3>2 DEF RemoveServant
      <4>4. Removed(table, table', objId[o])
        BY <4>2, <4>3, RemoveIdTable DEF Lone
      <4> QED
        BY <4>4 DEF Removed, Lone, Ptr
    <3> QED
      BY <3>1, <3>2
  <2> QED
    BY <2>2, <2>3, <2>5 DEF Lone
<1> QED
  BY <1>1, <1>2

\* A client asks while nobody creates.
LEMMA AskLone ==
    ASSUME IInv, Lone, NEW s \in Sessions, Client(s), "overlap" \notin misuse'
    PROVE  Lone'
<1>1. /\ at \in [Sessions -> Labels] /\ x \in [Sessions -> Objs \cup {NoObject}]
      /\ newId \in [Sessions -> Nat] /\ Shape
      /\ table = [ids |-> table.ids, names |-> table.names]
  BY DEF IInv, Shape
<1>2. ASSUME NEW r, NEW handler \in {"lookUp", "retrieve", "findCreator", "load"},
             Ask(s, r, handler), handler = "load" \/ ~Creation
      PROVE  Lone'
  <2>1. /\ UNCHANGED table /\ at' = [at EXCEPT ![s] = handler]
        /\ x' = [x EXCEPT ![s] = x[s]] /\ newId' = [newId EXCEPT ![s] = newId[s]]
    BY <1>1, <1>2 DEF Ask, Goto
  <2> QED
    BY <1>1, <1>2, <2>1, MoveLone
<1>3. CASE AskCall(s)
  BY <1>2, <1>3 DEF AskCall
<1>4. CASE AskByName(s) \/ AskCreate(s)
  <2>1. ~Creation
    BY <1>4 DEF AskByName, AskCreate, Misused, Overlap
  <2> QED
    BY <1>2, <1>4, <2>1 DEF AskByName, AskCreate
<1> QED
  BY <1>3, <1>4 DEF Client

\* Any step of a session.
LEMMA SessionLone ==
    ASSUME IInv, Lone, NEW s \in Sessions, Create(s) \/ Find(s) \/ Call(s)
    PROVE  Lone'
<1> USE DEF At, Goto, heap, local, history
<1>1. /\ at \in [Sessions -> Labels] /\ x \in [Sessions -> Objs \cup {NoObject}]
      /\ newId \in [Sessions -> Nat] /\ Shape
      /\ table = [ids |-> table.ids, names |-> table.names]
  BY DEF IInv, Shape
<1>2. CASE Alloc(s) \/ Link(s)
  BY <1>2, AllocLone, LinkLone
<1>3. CASE ConstructNull(s) \/ NameExists(s) \/ LinkOutside(s) \/ RetrieveFreed(s)
           \/ LoadZero(s) \/ LoadFree(s) \/ TouchFreed(s)
  <2>1. UNCHANGED <<table, at, x, newId>>
    BY <1>3 DEF ConstructNull, NameExists, LinkOutside, RetrieveFreed, LoadZero, LoadFree,
                TouchFreed, Fail
  <2> QED
    BY <2>1, SameLone
<1>4. CASE \/ Existing(s) \/ NoCreator(s) \/ SetId(s) \/ Retrieve(s) \/ RetrieveNothing(s)
           \/ Invoke(s)
  <2>1. /\ UNCHANGED table /\ at' = [at EXCEPT ![s] = "idle"]
        /\ x' = [x EXCEPT ![s] = NoObject] /\ newId' = [newId EXCEPT ![s] = 0]
    BY <1>4 DEF Existing, NoCreator, SetId, Retrieve, RetrieveNothing, Invoke, Idle
  <2> QED
    BY <1>1, <2>1, MoveLone
<1>5. CASE \/ LookUp(s) \/ FindCreator(s) \/ Construct(s) \/ NameFree(s) \/ StoreName(s)
           \/ Hold(s) \/ Load(s) \/ Cast(s) \/ WrongClass(s)
  <2>1. table'.ids = table.ids /\ table' = [ids |-> table'.ids, names |-> table'.names]
    <3>1. CASE StoreName(s)
      <4> DEFINE m == WithName(table, req[s].name, x[s])
      <4>1. table' = [table EXCEPT !.names = m]
        BY <3>1 DEF StoreName
      <4> HIDE DEF m
      <4>2. table' = [ids |-> table.ids, names |-> m]
        BY <1>1, <4>1
      <4> QED
        BY <4>2
    <3>2. CASE UNCHANGED table
      BY <1>1, <3>2
    <3> QED
      BY <1>5, <3>1, <3>2
      DEF LookUp, FindCreator, Construct, NameFree, Hold, Load, Cast, WrongClass
  <2>2. \E y : x' = [x EXCEPT ![s] = y]
    <3>1. CASE UNCHANGED x
      <4>1. x' = [x EXCEPT ![s] = x[s]]
        BY <1>1, <3>1
      <4> QED
        BY <4>1
    <3>2. CASE ~UNCHANGED x
      BY <1>5, <3>2
      DEF LookUp, FindCreator, Construct, NameFree, StoreName, Hold, Load, Cast, WrongClass
    <3> QED
      BY <3>1, <3>2
  <2>3. PICK y : x' = [x EXCEPT ![s] = y]
    BY <2>2
  <2>4. newId' = [newId EXCEPT ![s] = newId[s]]
    <3>1. newId' = newId
      BY <1>5
      DEF LookUp, FindCreator, Construct, NameFree, StoreName, Hold, Load, Cast, WrongClass
    <3> QED
      BY <1>1, <3>1
  <2>5. PICK l \in {"existing", "findCreator", "construct", "insert", "store", "alloc", "setId",
                    "cast", "invoke", "ended"} : at' = [at EXCEPT ![s] = l] /\ (l = "setId" => Hold(s))
                                         /\ (l \notin {"cast", "invoke", "ended"} => Busy(s))
    BY <1>5
    DEF LookUp, FindCreator, Construct, NameFree, StoreName, Hold, Load, Cast, WrongClass, Busy
  <2>6. l = "setId" => newId[s] \in 1..(table.ids.size - 1) /\ table.ids.at[newId[s]] = y
    <3> SUFFICES ASSUME l = "setId"
                 PROVE  newId[s] \in 1..(table.ids.size - 1) /\ table.ids.at[newId[s]] = y
      OBVIOUS
    <3>1. at[s] = "hold" /\ x' = x
      BY <2>5 DEF Hold
    <3>2. y = x[s]
      BY <1>1, <2>3, <3>1
    <3> QED
      BY <3>1, <3>2 DEF Lone
  <2> QED
    BY <1>1, <2>1, <2>3, <2>4, <2>5, <2>6, MoveLone
<1> QED
  BY <1>2, <1>3, <1>4, <1>5 DEF Create, Find, Call

\* Any step that makes no overlap.
LEMMA LoneStep == IInv /\ Lone /\ [Next]_vars /\ "overlap" \notin misuse' => Lone'
<1> SUFFICES ASSUME IInv, Lone, [Next]_vars, "overlap" \notin misuse' PROVE Lone'
  OBVIOUS
<1>1. ASSUME NEW s \in Sessions, Client(s) \/ Create(s) \/ Find(s) \/ Call(s)
      PROVE  Lone'
  BY <1>1, AskLone, SessionLone
<1>2. ASSUME NEW o \in Servants, RemovePassedOver(o) \/ Drop(o)
      PROVE  Lone'
  <2>1. UNCHANGED <<table, at, x, newId>>
    BY <1>2 DEF RemovePassedOver, Drop, local, heap
  <2> QED
    BY <2>1, SameLone
<1>3. CASE Application
  <2>1. ASSUME NEW o \in Servants, ServantLost(o) PROVE Lone'
    BY <2>1, SameLone DEF ServantLost, Fail, local
  <2> QED
    BY <1>2, <1>3, <2>1, ServantLone DEF Application
<1>4. CASE AddOutside \/ UNCHANGED vars
  BY <1>4, SameLone DEF AddOutside, Fail, vars, local
<1> QED
  BY <1>1, <1>3, <1>4 DEF Next

\* At the beginning.
LEMMA LoneInit == Init => Lone
<1> SUFFICES ASSUME Init PROVE Lone
  OBVIOUS
<1>1. TableOK(table) /\ InUse(table) = {}
  BY NewTableEmpty DEF Init
<1> QED
  BY <1>1 DEF Lone, Init, Busy
-----------------------------------------------------------------------------
(* Each object is stored once                                                *)

\* A session has constructed an object that is not in the table yet.
Storing(s) == at[s] \in {"insert", "store", "alloc", "link"}

\* The application keeps a servant that the table does not hold.
Unlisted(o) == app[o] \in {"removed", "dropped"} \/ (app[o] = "added" /\ objId[o] = 0)

\* No object has two ids.  One that a session is about to store has none, nor has
\* a servant that was passed over or removed.
Once ==
    /\ \A i, j \in InUse(table) : table.ids.at[i] = table.ids.at[j] => i = j
    /\ \A i \in InUse(table) :
          /\ \A s \in Sessions : Storing(s) => table.ids.at[i] # x[s]
          /\ \A o \in Servants : Unlisted(o) => table.ids.at[i] # o

\* What is stored has been constructed.
LEMMA UsedConstructed ==
    ASSUME IInv, Lone, NEW i \in InUse(table)
    PROVE  table.ids.at[i] \in Objs /\ memory[table.ids.at[i]] # "unused"
<1>1. i \in 0..(table.ids.size - 1)
  BY UsedSlots DEF Lone, IInv, Shape, Vector
<1> QED
  BY <1>1 DEF Lone, IInv, Constructed

\* Steps that store nothing.
LEMMA SameOnce ==
    ASSUME Once, InUse(table)' = InUse(table),
           \A i \in InUse(table) : table'.ids.at[i] = table.ids.at[i],
           \A s \in Sessions : Storing(s)' =>
               \/ Storing(s) /\ x'[s] = x[s]
               \/ \A i \in InUse(table) : table.ids.at[i] # x'[s],
           \A o \in Servants : Unlisted(o)' =>
               \/ Unlisted(o)
               \/ \A i \in InUse(table) : table.ids.at[i] # o
    PROVE  Once'
BY DEF Once

\* A step of a session that constructs nothing and stores nothing.
LEMMA QuietOnce ==
    ASSUME IInv, Lone, Once, NEW s \in Sessions,
           \/ Client(s) \/ LookUp(s) \/ Existing(s) \/ FindCreator(s) \/ NoCreator(s)
           \/ NameFree(s) \/ StoreName(s) \/ Alloc(s) \/ Hold(s) \/ SetId(s) \/ Find(s) \/ Call(s)
           \/ ConstructNull(s) \/ NameExists(s) \/ LinkOutside(s)
    PROVE  Once'
<1> USE DEF At, Goto, heap, local, history
<1>1. /\ at \in [Sessions -> Labels] /\ x \in [Sessions -> Objs \cup {NoObject}]
      /\ objId \in [Objs -> Nat] /\ TableOK(table)
      /\ table = [ids |-> table.ids, names |-> table.names]
  BY DEF IInv, Shape, Lone
<1>2. InUse(table)' = InUse(table) /\ \A i \in InUse(table) : table'.ids.at[i] = table.ids.at[i]
  <2>1. CASE Alloc(s)
    <3>1. table' = [table EXCEPT !.ids = WithRoom(table.ids)]
      BY <2>1 DEF Alloc
    <3> QED
      BY <1>1, <3>1, RoomTable DEF Ptr
  <2>2. CASE ~Alloc(s)
    <3>1. table'.ids = table.ids
      BY <1>1, <2>2 DEF Client, AskByName, AskCreate, AskCall, Ask, LookUp, Existing, FindCreator,
         NoCreator, NameFree, StoreName, Hold, SetId, Find, Retrieve, RetrieveNothing,
         RetrieveFreed, Call, Load, LoadZero, LoadFree, Cast, WrongClass, Invoke, TouchFreed,
         ConstructNull, NameExists, LinkOutside, Fail
    <3> QED
      BY <3>1 DEF InUse
  <2> QED
    BY <2>1, <2>2
<1>3. \A t \in Sessions : Storing(t)' => Storing(t) /\ x'[t] = x[t]
  <2>1. CASE NameFree(s) \/ StoreName(s) \/ Alloc(s)
    <3>1. at[s] \in {"insert", "store", "alloc"} /\ x' = x
      BY <2>1 DEF NameFree, StoreName, Alloc
    <3>2. \A t \in Sessions \ {s} : at'[t] = at[t]
      BY <1>1, <2>1 DEF NameFree, StoreName, Alloc
    <3> QED
      BY <3>1, <3>2 DEF Storing
  <2>2. CASE ConstructNull(s) \/ NameExists(s) \/ LinkOutside(s) \/ RetrieveFreed(s)
             \/ LoadZero(s) \/ LoadFree(s) \/ TouchFreed(s)
    <3>1. UNCHANGED <<at, x>>
      BY <2>2 DEF ConstructNull, NameExists, LinkOutside, RetrieveFreed, LoadZero, LoadFree,
                  TouchFreed, Fail
    <3> QED
      BY <3>1 DEF Storing
  <2>3. CASE Client(s)
    <3>1. x' = x /\ \E r \in {"lookUp", "retrieve", "findCreator", "load"} :
                        at' = [at EXCEPT ![s] = r]
      BY <2>3 DEF Client, AskByName, AskCreate, AskCall, Ask
    <3> QED
      BY <1>1, <3>1 DEF Storing
  <2>4. CASE \/ Existing(s) \/ NoCreator(s) \/ SetId(s) \/ Retrieve(s) \/ RetrieveNothing(s)
             \/ Invoke(s)
    <3>1. at' = [at EXCEPT ![s] = "idle"] /\ x' = [x EXCEPT ![s] = NoObject]
      BY <2>4 DEF Existing, NoCreator, SetId, Retrieve, RetrieveNothing, Invoke, Idle
    <3> QED
      BY <1>1, <3>1 DEF Storing
  <2>5. CASE LookUp(s) \/ FindCreator(s) \/ Hold(s) \/ Load(s) \/ Cast(s) \/ WrongClass(s)
    <3>1. PICK l \in {"existing", "findCreator", "construct", "setId", "cast", "invoke", "ended"} :
             at' = [at EXCEPT ![s] = l]
      BY <2>5 DEF LookUp, FindCreator, Hold, Load, Cast, WrongClass
    <3>2. \A t \in Sessions \ {s} : x'[t] = x[t]
      BY <1>1, <2>5 DEF LookUp, FindCreator, Hold, Load, Cast, WrongClass
    <3> QED
      BY <1>1, <3>1, <3>2 DEF Storing
  <2> QED
    BY <2>1, <2>2, <2>3, <2>4, <2>5 DEF Find, Call
<1>4. ASSUME NEW o \in Servants, Unlisted(o)'
      PROVE  Unlisted(o) \/ \A i \in InUse(table) : table.ids.at[i] # o
  <2>1. app' = app /\ (objId' = objId \/ SetId(s))
    BY DEF Client, AskByName, AskCreate, AskCall, Ask, LookUp, Existing, FindCreator,
         NoCreator, NameFree, StoreName, Alloc, Hold, SetId, Find, Retrieve, RetrieveNothing,
         RetrieveFreed, Call, Load, LoadZero, LoadFree, Cast, WrongClass, Invoke, TouchFreed,
         ConstructNull, NameExists, LinkOutside, Fail
  <2>2. CASE SetId(s)
    <3>1. at[s] = "setId" /\ objId' = [objId EXCEPT ![x[s]] = newId[s]]
      BY <2>2 DEF SetId
    <3>2. x[s] # o
      BY <3>1 DEF IInv, Constructed
    <3>3. objId'[o] = objId[o]
      BY <1>1, <3>1, <3>2, ObjectsAssumption
    <3> QED
      BY <1>4, <2>1, <3>3 DEF Unlisted
  <2>3. CASE objId' = objId
    BY <1>4, <2>1, <2>3 DEF Unlisted
  <2> QED
    BY <2>1, <2>2, <2>3
<1> QED
  BY <1>2, <1>3, <1>4, SameOnce

\* A new object is in no slot.
LEMMA ConstructOnce ==
    ASSUME IInv, Lone, Once, NEW s \in Sessions, Construct(s)
    PROVE  Once'
<1>1. PICK o \in Objs \ Servants : memory[o] = "unused" /\ x' = [x EXCEPT ![s] = o]
  BY DEF Construct
<1>2. /\ UNCHANGED <<table, objId, app>>
      /\ at \in [Sessions -> Labels] /\ x \in [Sessions -> Objs \cup {NoObject}]
      /\ \A t \in Sessions \ {s} : at'[t] = at[t]
  BY DEF Construct, Goto, IInv, Shape
<1>3. InUse(table)' = InUse(table)
  BY <1>2 DEF InUse
<1>4. \A i \in InUse(table) : table.ids.at[i] # o
  BY <1>1, UsedConstructed
<1>5. \A t \in Sessions : Storing(t)' =>
         \/ Storing(t) /\ x'[t] = x[t]
         \/ \A i \in InUse(table) : table.ids.at[i] # x'[t]
  BY <1>1, <1>2, <1>4 DEF Storing
<1>6. \A p \in Servants : Unlisted(p)' => Unlisted(p)
  BY <1>2 DEF Unlisted
<1> QED
  BY <1>2, <1>3, <1>5, <1>6, SameOnce

\* The session that stores is the only one that creates.
LEMMA LinkOnce ==
    ASSUME IInv, Lone, Once, NEW s \in Sessions, Link(s)
    PROVE  Once'
<1>1. /\ at[s] = "link" /\ UNCHANGED <<x, objId, app>>
      /\ at' = [at EXCEPT ![s] = IF req[s].op = "create" THEN "setId" ELSE "hold"]
  BY DEF Link, At, Goto, local, heap
<1>2. Added(table, table', newId[s], x[s])
  BY LinkIsAdd, AddPtrTable DEF Lone
<1>3. /\ InUse(table)' = InUse(table) \cup {newId[s]}
      /\ table'.ids.at[newId[s]] = x[s]
      /\ \A i \in InUse(table) : table'.ids.at[i] = table.ids.at[i]
      /\ newId[s] \notin InUse(table)
  BY <1>2 DEF Added, Ptr
<1>4. \A t \in Sessions : ~Storing(t)'
  <2>1. \A t \in Sessions \ {s} : ~Busy(t)
    BY <1>1 DEF Lone, Busy
  <2>2. at'[s] \in {"setId", "hold"} /\ \A t \in Sessions \ {s} : at'[t] = at[t]
    BY <1>1 DEF IInv, Shape
  <2> QED
    BY <2>1, <2>2 DEF Storing, Busy
<1>5. Storing(s) /\ x[s] \notin Servants
  BY <1>1 DEF Storing, IInv, Constructed
<1>6. \A p \in Servants : Unlisted(p)' <=> Unlisted(p)
  BY <1>1 DEF Unlisted
<1>7. \A i \in InUse(table) : table.ids.at[i] # x[s]
  BY <1>5 DEF Once
<1> QED
  BY <1>3, <1>4, <1>5, <1>6, <1>7 DEF Once

\* Neither is a servant that is added, ...
LEMMA AddServantOnce ==
    ASSUME IInv, Lone, Once, NEW o \in Servants, NEW n \in Names, AddServant(o, n)
    PROVE  Once'
<1>1. /\ app[o] = "new" /\ app' = [app EXCEPT ![o] = "added"] /\ UNCHANGED <<at, x>>
      /\ app \in [Servants -> {"new", "added", "removed", "dropped"}]
      /\ objId \in [Objs -> Nat]
  BY DEF AddServant, local, IInv, Shape
<1>2. o \in Objs /\ memory[o] = "unused"
  BY <1>1, ObjectsAssumption DEF IInv, Served
<1>3. \A i \in InUse(table) : table.ids.at[i] # o
  BY <1>2, UsedConstructed
<1>4. \A s \in Sessions : Storing(s)' <=> Storing(s)
  BY <1>1 DEF Storing
<1>5. \A s \in Sessions : Storing(s) => x[s] # o
  BY DEF Storing, IInv, Constructed
<1>6. CASE Found(n)
  <2>1. UNCHANGED <<table, objId>>
    BY <1>6 DEF AddServant
  <2>2. InUse(table)' = InUse(table)
    BY <2>1 DEF InUse
  <2>3. \A p \in Servants : Unlisted(p)' => Unlisted(p) \/ p = o
    BY <1>1, <2>1 DEF Unlisted
  <2> QED
    BY <1>1, <1>3, <1>4, <2>1, <2>2, <2>3, SameOnce
<1>7. CASE ~Found(n)
  <2>1. table' = AddNamed(table, o, n) /\ objId' = [objId EXCEPT ![o] = NextId(table.ids)]
    BY <1>7 DEF AddServant
  <2> DEFINE id == NextId(table.ids)
  <2>2. Added(table, table', id, o)
    BY <2>1, AddNamedTable DEF Lone
  <2>3. objId' = [objId EXCEPT ![o] = id]
    BY <2>1
  <2> HIDE DEF id
  <2>4. /\ InUse(table)' = InUse(table) \cup {id} /\ table'.ids.at[id] = o
        /\ \A i \in InUse(table) : table'.ids.at[i] = table.ids.at[i]
        /\ id \notin InUse(table) /\ id \in 1..(table'.ids.size - 1)
    BY <2>2 DEF Added, Ptr
  <2>5. id # 0
    BY <2>4 DEF Added
  <2>6. ~Unlisted(o)' /\ \A p \in Servants : p # o => (Unlisted(p)' <=> Unlisted(p))
    BY <1>1, <1>2, <2>3, <2>5, ObjectsAssumption DEF Unlisted
  <2> QED
    BY <1>1, <1>3, <1>4, <1>5, <2>4, <2>6 DEF Once
<1> QED
  BY <1>6, <1>7

\* ... and one that is removed leaves its slot.
LEMMA RemoveServantOnce ==
    ASSUME IInv, Lone, Once, NEW o \in Servants, RemoveServant(o)
    PROVE  Once'
<1>1. /\ app[o] = "added" /\ app' = [app EXCEPT ![o] = "removed"] /\ objId[o] # 0
      /\ table' = RemoveId(table, objId[o])
      /\ UNCHANGED <<at, x, objId>>
      /\ app \in [Servants -> {"new", "added", "removed", "dropped"}]
  BY DEF RemoveServant, local, IInv, Shape
<1>2. objId[o] \in 1..(table.ids.size - 1) /\ table.ids.at[objId[o]] = o /\ o \in Objs
  BY <1>1, ObjectsAssumption DEF IInv, Served
<1>3. objId[o] \in InUse(table)
  BY <1>2, UsedSlots DEF Lone
<1>4. Removed(table, table', objId[o])
  BY <1>1, <1>3, RemoveIdTable DEF Lone
<1>5. InUse(table)' = InUse(table) \ {objId[o]}
      /\ \A i \in InUse(table)' : table'.ids.at[i] = table.ids.at[i]
  BY <1>4 DEF Removed, Ptr
<1>6. \A i \in InUse(table)' : table.ids.at[i] # o
  BY <1>2, <1>3, <1>5 DEF Once
<1>7. \A s \in Sessions : Storing(s)' <=> Storing(s)
  BY <1>1 DEF Storing
<1>8. \A p \in Servants : Unlisted(p)' => Unlisted(p) \/ p = o
  BY <1>1 DEF Unlisted
<1> QED
  BY <1>1, <1>5, <1>6, <1>7, <1>8 DEF Once

\* Any step that makes no overlap.
LEMMA OnceStep ==
    ASSUME IInv, Lone, Once, [Next]_vars
    PROVE  Once'
<1>1. ASSUME UNCHANGED <<table, at, x, objId>>,
             \A o \in Servants : Unlisted(o)' => Unlisted(o)
      PROVE  Once'
  <2>1. InUse(table)' = InUse(table) /\ \A s \in Sessions : Storing(s)' <=> Storing(s)
    BY <1>1 DEF InUse, Storing
  <2> QED
    BY <1>1, <2>1, SameOnce
<1>2. ASSUME NEW s \in Sessions, Client(s) \/ Create(s) \/ Find(s) \/ Call(s)
      PROVE  Once'
  BY <1>2, QuietOnce, ConstructOnce, LinkOnce DEF Create
<1>3. ASSUME NEW o \in Servants, RemovePassedOver(o) \/ Drop(o)
      PROVE  Once'
  <2>1. app \in [Servants -> {"new", "added", "removed", "dropped"}]
    BY DEF IInv, Shape
  <2>2. CASE RemovePassedOver(o)
    <3>1. /\ app[o] = "added" /\ objId[o] = 0 /\ app' = [app EXCEPT ![o] = "removed"]
          /\ UNCHANGED <<table, at, x, objId>>
      BY <2>2 DEF RemovePassedOver, heap, local
    <3>2. \A p \in Servants : Unlisted(p)' => Unlisted(p)
      BY <2>1, <3>1 DEF Unlisted
    <3> QED
      BY <1>1, <3>1, <3>2
  <2>3. CASE Drop(o)
    <3>1. /\ app[o] = "removed" /\ app' = [app EXCEPT ![o] = "dropped"]
          /\ UNCHANGED <<table, at, x, objId>>
      BY <2>3 DEF Drop, local
    <3>2. \A p \in Servants : Unlisted(p)' => Unlisted(p)
      BY <2>1, <3>1 DEF Unlisted
    <3> QED
      BY <1>1, <3>1, <3>2
  <2> QED
    BY <1>3, <2>2, <2>3
<1>4. ASSUME UNCHANGED <<table, at, x, objId, app>> PROVE Once'
  BY <1>1, <1>4 DEF Unlisted
<1>5. CASE Application
  <2>1. ASSUME NEW o \in Servants, ServantLost(o) PROVE Once'
    BY <1>4, <2>1 DEF ServantLost, Fail, heap, local
  <2> QED
    BY <1>3, <1>5, <2>1, AddServantOnce, RemoveServantOnce DEF Application
<1>6. CASE AddOutside \/ UNCHANGED vars
  BY <1>4, <1>6 DEF AddOutside, Fail, vars, heap, local
<1> QED
  BY <1>2, <1>5, <1>6 DEF Next

\* At the beginning.
LEMMA OnceInit == Init => Once
BY NewTableEmpty DEF Init, Once
-----------------------------------------------------------------------------
(* The counts of references                                                  *)

\* The references of an object besides those of calls: the table's and the
\* application's, and while a session creates it only the one that an anonymous
\* creation has taken already.
Stored(o) == \E i \in 1..(table.ids.size - 1) : table.ids.at[i] = o

ByApp(o) == IF o \in Servants /\ app[o] \in {"added", "removed"} THEN 1 ELSE 0

HeldBesides(o) ==
    IF Creating(o) = {} THEN (IF Stored(o) THEN 1 ELSE 0) + ByApp(o)
    ELSE IF \E s \in Creating(o) : ByName(s) THEN 0 ELSE 1

ExactFor(o) ==
    memory[o] = "live" =>
        /\ refs[o] = HeldBesides(o) + Cardinality(Calling(o))
        /\ Creating(o) = {} => refs[o] > 0

Exact == \A o \in Objs : ExactFor(o)

\* What is stored is under an id in use.
LEMMA StoredUsed ==
    Lone => \A p \in Objs : Stored(p) <=> \E i \in InUse(table) : table.ids.at[i] = p
BY UsedSlots DEF Lone, Stored

\* The same after a step.
LEMMA StoredUsedNext ==
    (Lone => \A p \in Objs : Stored(p) <=> \E i \in InUse(table) : table.ids.at[i] = p)'
BY StoredUsed, PTL

\* An object that the step does not concern.
LEMMA KeepsExact ==
    ASSUME NEW p \in Objs, ExactFor(p), memory'[p] = memory[p], refs'[p] = refs[p],
           Calling(p)' = Calling(p), Creating(p)' = Creating(p),
           \A t \in Creating(p) : ByName(t)' <=> ByName(t),
           Stored(p)' <=> Stored(p), ByApp(p)' = ByApp(p)
    PROVE  ExactFor(p)'
<1>1. HeldBesides(p)' = HeldBesides(p)
  BY DEF HeldBesides
<1> QED
  BY <1>1 DEF ExactFor

\* A step of one session: the objects that it does not work on.
Makes == {"insert", "store", "alloc", "link", "hold"}

\* The objects that a step of a session does not touch.
LEMMA OthersExact ==
    ASSUME Shape, Exact, NEW s \in Sessions, NEW l, NEW y, NEW p \in Objs,
           at' = [at EXCEPT ![s] = l], x' = [x EXCEPT ![s] = y],
           memory'[p] = memory[p], refs'[p] = refs[p], app' = app,
           \A t \in Sessions \ {s} : req'[t] = req[t],
           Stored(p)' <=> Stored(p),
           at[s] = "invoke" => x[s] # p, l = "invoke" => y # p,
           \/ at[s] \in Makes => x[s] # p
           \/ at[s] \in Makes /\ l \in Makes /\ y = x[s] /\ req'[s] = req[s],
           l \in Makes /\ y = p => at[s] \in Makes /\ x[s] = p
    PROVE  ExactFor(p)'
<1>1. /\ at \in [Sessions -> Labels] /\ x \in [Sessions -> Objs \cup {NoObject}]
      /\ ExactFor(p)
  BY DEF Shape, Exact
<1>2. Calling(p)' = Calling(p)
  BY <1>1 DEF Calling
<1>3. Creating(p)' = Creating(p)
  BY <1>1 DEF Creating, Makes
<1>4. \A t \in Creating(p) : ByName(t)' <=> ByName(t)
  BY <1>1 DEF Creating, Makes, ByName
<1>5. ByApp(p)' = ByApp(p)
  BY DEF ByApp
<1> QED
  BY <1>1, <1>2, <1>3, <1>4, <1>5, KeepsExact

\* No other session creates.
LEMMA OneCreates ==
    ASSUME Lone, NEW s \in Sessions, Busy(s), NEW p, NEW t \in Creating(p)
    PROVE  t = s
<1>1. t \in Sessions /\ Busy(t)
  BY DEF Creating, Busy
<1> QED
  BY <1>1 DEF Lone

\* A step that takes no reference and gives none up.
LEMMA QuietExact ==
    ASSUME Shape, Exact, NEW s \in Sessions, NEW l, NEW y,
           at' = [at EXCEPT ![s] = l], x' = [x EXCEPT ![s] = y],
           UNCHANGED <<memory, refs, app>>,
           \A t \in Sessions \ {s} : req'[t] = req[t],
           \A p \in Objs : Stored(p)' <=> Stored(p),
           at[s] # "invoke", l # "invoke",
           \/ at[s] \notin Makes /\ l \notin Makes
           \/ at[s] \in Makes /\ l \in Makes /\ y = x[s] /\ req'[s] = req[s]
    PROVE  Exact'
<1>1. ASSUME NEW p \in Objs PROVE ExactFor(p)'
  BY OthersExact
<1> QED
  BY <1>1 DEF Exact

\* Making room stores nothing.
LEMMA AllocStored ==
    ASSUME Lone, Lone', NEW s \in Sessions, Alloc(s)
    PROVE  \A p \in Objs : Stored(p)' <=> Stored(p)
<1>1. table' = [table EXCEPT !.ids = WithRoom(table.ids)]
  BY DEF Alloc
<1>0. TableOK(table)
  BY DEF Lone
<1>2. InUse(table)' = InUse(table) /\ \A i \in InUse(table) : table'.ids.at[i] = table.ids.at[i]
  BY <1>0, <1>1, RoomTable DEF Ptr
<1> QED
  BY <1>2, StoredUsed, StoredUsedNext

\* Such steps.
LEMMA QuietExactSteps ==
    ASSUME IInv, Handling, Lone, Lone', Exact, NEW s \in Sessions,
           \/ Client(s) \/ LookUp(s) \/ Existing(s) \/ FindCreator(s) \/ NoCreator(s)
           \/ NameFree(s) \/ StoreName(s) \/ Alloc(s) \/ SetId(s) \/ RetrieveNothing(s)
           \/ Load(s) \/ WrongClass(s)
    PROVE  Exact'
<1> USE DEF At, Goto, heap, local, history
<1>1. /\ at \in [Sessions -> Labels] /\ x \in [Sessions -> Objs \cup {NoObject}] /\ Shape
      /\ table = [ids |-> table.ids, names |-> table.names]
  BY DEF IInv, Shape
<1>2. UNCHANGED <<memory, refs, app>>
  BY DEF Client, AskByName, AskCreate, AskCall, Ask, LookUp, Existing, FindCreator, NoCreator,
         NameFree, StoreName, Alloc, SetId, RetrieveNothing, Load, WrongClass
<1>3. \A p \in Objs : Stored(p)' <=> Stored(p)
  <2>1. CASE Alloc(s)
    BY <2>1, AllocStored
  <2>2. CASE ~Alloc(s)
    <3>1. table'.ids = table.ids
      BY <1>1, <2>2 DEF Client, AskByName, AskCreate, AskCall, Ask, LookUp, Existing, FindCreator,
         NoCreator, NameFree, StoreName, SetId, RetrieveNothing, Load, WrongClass
    <3> QED
      BY <3>1 DEF Stored
  <2> QED
    BY <2>1, <2>2
<1>4. \E y : x' = [x EXCEPT ![s] = y] /\ (x' = x => y = x[s])
  <2>1. CASE UNCHANGED x
    <3>1. x' = [x EXCEPT ![s] = x[s]]
      BY <1>1, <2>1
    <3> QED
      BY <3>1
  <2>2. CASE ~UNCHANGED x
    BY <2>2 DEF Client, AskByName, AskCreate, AskCall, Ask, LookUp, Existing, FindCreator,
         NoCreator, NameFree, StoreName, Alloc, SetId, RetrieveNothing, Load, WrongClass, Idle
  <2> QED
    BY <2>1, <2>2
<1>5. PICK y : x' = [x EXCEPT ![s] = y] /\ (x' = x => y = x[s])
  BY <1>4
<1>6. \A t \in Sessions \ {s} : req'[t] = req[t]
  <2>1. \/ req' = req \/ \E r : req' = [req EXCEPT ![s] = r]
    BY DEF Client, AskByName, AskCreate, AskCall, Ask, LookUp, Existing, FindCreator,
         NoCreator, NameFree, StoreName, Alloc, SetId, RetrieveNothing, Load, WrongClass, Idle
  <2>2. req \in [Sessions -> Request]
    BY DEF Handling
  <2> QED
    BY <2>1, <2>2
<1>7. CASE NameFree(s) \/ StoreName(s) \/ Alloc(s)
  <2>1. at[s] \in {"insert", "store", "alloc"} /\ UNCHANGED <<x, req>>
    BY <1>7 DEF NameFree, StoreName, Alloc
  <2>2. PICK l \in {"store", "alloc", "link"} : at' = [at EXCEPT ![s] = l]
    BY <1>7 DEF NameFree, StoreName, Alloc
  <2>3. /\ at[s] \in Makes /\ l \in Makes /\ at[s] # "invoke" /\ l # "invoke" /\ y = x[s]
        /\ req'[s] = req[s]
    BY <1>5, <2>1 DEF Makes
  <2> QED
    BY <1>1, <1>2, <1>3, <1>5, <1>6, <2>2, <2>3, QuietExact
<1>8. CASE ~(NameFree(s) \/ StoreName(s) \/ Alloc(s))
  <2>1. at[s] \notin Makes /\ at[s] # "invoke"
    BY <1>8 DEF Client, AskByName, AskCreate, AskCall, Ask, LookUp, Existing, FindCreator,
         NoCreator, SetId, RetrieveNothing, Load, WrongClass, Makes
  <2>2. PICK l \in {"idle", "lookUp", "retrieve", "findCreator", "load", "existing", "construct",
                    "cast", "ended"} : at' = [at EXCEPT ![s] = l]
    BY <1>8 DEF Client, AskByName, AskCreate, AskCall, Ask, LookUp, Existing, FindCreator,
         NoCreator, SetId, RetrieveNothing, Load, WrongClass, Idle
  <2>3. l \notin Makes /\ l # "invoke"
    BY DEF Makes
  <2> HIDE DEF At, Goto, heap, local, history
  <2> QED
    BY <1>1, <1>2, <1>3, <1>5, <1>6, <2>1, <2>2, <2>3, QuietExact
<1> QED
  BY <1>7, <1>8

\* An anonymous creation starts with its reference, another without.
LEMMA ConstructExact ==
    ASSUME IInv, Lone, Exact, NEW s \in Sessions, Construct(s)
    PROVE  Exact'
<1>1. PICK o \in Objs \ Servants :
         /\ memory[o] = "unused"
         /\ memory' = [memory EXCEPT ![o] = "live"]
         /\ refs' = [refs EXCEPT ![o] = IF req[s].op = "create" THEN HeldByTable ELSE 0]
         /\ x' = [x EXCEPT ![s] = o]
  BY DEF Construct
<1>2. PICK l \in {"alloc", "insert"} : at' = [at EXCEPT ![s] = l]
  BY DEF Construct, Goto
<1>3. at[s] = "construct" /\ UNCHANGED <<table, app, req>>
  BY DEF Construct, At
<1>4. Shape /\ at \in [Sessions -> Labels] /\ x \in [Sessions -> Objs \cup {NoObject}]
      /\ memory \in [Objs -> {"unused", "live", "freed"}] /\ refs \in [Objs -> Int]
  BY DEF IInv, Shape
<1>5. \A p \in Objs : Stored(p)' <=> Stored(p)
  BY <1>3 DEF Stored
<1>6. ASSUME NEW p \in Objs, p # o PROVE ExactFor(p)'
  <2>1. memory'[p] = memory[p] /\ refs'[p] = refs[p]
    BY <1>1, <1>4, <1>6
  <2>2. at[s] \notin Makes /\ at[s] # "invoke" /\ l # "invoke"
    BY <1>3 DEF Makes
  <2> QED
    BY <1>1, <1>2, <1>3, <1>4, <1>5, <1>6, <2>1, <2>2, OthersExact
<1>7. ExactFor(o)'
  <2>1. Calling(o)' = {}
    BY <1>1, <1>2, <1>3, <1>4 DEF Calling, IInv, Landed
  <2>2. Creating(o)' = {s}
    <3>1. \A t \in Sessions \ {s} : ~Busy(t)
      BY <1>3 DEF Lone, Busy
    <3> QED
      BY <1>1, <1>2, <1>4, <3>1 DEF Creating, Busy
  <2>3. refs'[o] = IF ByName(s) THEN 0 ELSE 1
    BY <1>1, <1>4 DEF ByName, HeldByTable
  <2>4. HeldBesides(o)' = IF ByName(s) THEN 0 ELSE 1
    BY <1>3, <2>2 DEF HeldBesides, ByName
  <2> QED
    BY <2>1, <2>2, <2>3, <2>4, FS_EmptySet DEF ExactFor
<1> QED
  BY <1>6, <1>7 DEF Exact

\* The reference becomes the table's.
LEMMA LinkExact ==
    ASSUME IInv, Lone, Lone', Exact, NEW s \in Sessions, Link(s)
    PROVE  Exact'
<1>0. at[s] = "link"
  BY DEF Link, At
<1>1. PICK o \in Objs :
      /\ o = x[s] /\ o \notin Servants
      /\ at' = [at EXCEPT ![s] = IF ByName(s) THEN "hold" ELSE "setId"]
      /\ UNCHANGED <<memory, refs, app, req, x>>
  BY <1>0 DEF Link, At, Goto, heap, local, ByName, IInv, Constructed
<1>2. Added(table, table', newId[s], o)
  BY <1>1, LinkIsAdd, AddPtrTable DEF Lone
<1>3. /\ InUse(table)' = InUse(table) \cup {newId[s]}
      /\ table'.ids.at[newId[s]] = o
      /\ \A i \in InUse(table) : table'.ids.at[i] = table.ids.at[i]
      /\ newId[s] \notin InUse(table)
  BY <1>2 DEF Added, Ptr
<1>4. Stored(o)' /\ \A p \in Objs : p # o => (Stored(p)' <=> Stored(p))
  BY <1>1, <1>3, StoredUsed, StoredUsedNext
<1>5. Shape /\ at \in [Sessions -> Labels] /\ x \in [Sessions -> Objs \cup {NoObject}]
  BY DEF IInv, Shape
<1>6. x' = [x EXCEPT ![s] = o]
  BY <1>1, <1>5
<1>7. ASSUME NEW p \in Objs, p # o PROVE ExactFor(p)'
  <2> DEFINE l == IF ByName(s) THEN "hold" ELSE "setId"
  <2>1. l # "invoke" /\ at[s] # "invoke" /\ at' = [at EXCEPT ![s] = l]
    BY <1>0, <1>1
  <2>2. memory'[p] = memory[p] /\ refs'[p] = refs[p] /\ app' = app
        /\ (Stored(p)' <=> Stored(p)) /\ x[s] # p /\ \A t \in Sessions \ {s} : req'[t] = req[t]
    BY <1>1, <1>4, <1>7
  <2> HIDE DEF l
  <2> QED
    BY <1>5, <1>6, <1>7, <2>1, <2>2, OthersExact
<1>8. Creating(o) = {s}
  BY <1>0, <1>1, OneCreates DEF Busy, Creating
<1>9. ExactFor(o) /\ Calling(o)' = Calling(o)
  BY <1>0, <1>1, <1>5 DEF Exact, Calling
<1>10. ExactFor(o)'
  <2>1. CASE ByName(s)
    <3>1. Creating(o)' = Creating(o)
      BY <1>0, <1>1, <1>5, <2>1 DEF Creating
    <3>2. HeldBesides(o)' = HeldBesides(o)
      BY <1>1, <1>8, <3>1 DEF HeldBesides, ByName
    <3> QED
      BY <1>1, <1>9, <3>1, <3>2 DEF ExactFor
  <2>2. CASE ~ByName(s)
    <3>1. Creating(o)' = {}
      BY <1>1, <1>5, <1>8, <2>2 DEF Creating
    <3>2. HeldBesides(o)' = 1 /\ HeldBesides(o) = 1
      BY <1>1, <1>4, <1>8, <2>2, <3>1 DEF HeldBesides, ByApp
    <3>3. Cardinality(Calling(o)) \in Nat
      BY CallingFinite
    <3> QED
      BY <1>1, <1>9, <3>1, <3>2, <3>3 DEF ExactFor
  <2> QED
    BY <2>1, <2>2
<1> QED
  BY <1>7, <1>10 DEF Exact

\* A creation by name takes it last.
LEMMA HoldExact ==
    ASSUME IInv, Handling, Lone, Exact, NEW s \in Sessions, Hold(s)
    PROVE  Exact'
<1>0. at[s] = "hold"
  BY DEF Hold, At
<1>1. PICK o \in Objs :
      /\ o = x[s] /\ o \notin Servants
      /\ at' = [at EXCEPT ![s] = "setId"]
      /\ refs' = [refs EXCEPT ![o] = @ + 1]
      /\ UNCHANGED <<table, memory, app, req, x>>
  BY <1>0 DEF Hold, At, Goto, local, HeldByTable, IInv, Constructed
<1>2. Shape /\ at \in [Sessions -> Labels] /\ x \in [Sessions -> Objs \cup {NoObject}]
      /\ refs \in [Objs -> Int] /\ ByName(s)
  BY <1>0 DEF IInv, Shape, Handling
<1>3. \A p \in Objs : Stored(p)' <=> Stored(p)
  BY <1>1 DEF Stored
<1>4. Stored(o)
  BY <1>0, <1>1 DEF Lone, Stored
<1>5. x' = [x EXCEPT ![s] = o]
  BY <1>1, <1>2
<1>6. ASSUME NEW p \in Objs, p # o PROVE ExactFor(p)'
  <2>1. memory'[p] = memory[p] /\ refs'[p] = refs[p] /\ x[s] # p
    BY <1>1, <1>2, <1>6
  <2> QED
    BY <1>0, <1>1, <1>2, <1>3, <1>5, <1>6, <2>1, OthersExact DEF Makes
<1>7. Creating(o) = {s} /\ Creating(o)' = {}
  <2>1. \A t \in Creating(o) : t = s
    BY <1>0, OneCreates DEF Busy
  <2> QED
    BY <1>0, <1>1, <1>2, <2>1 DEF Creating
<1>8. Calling(o)' = Calling(o) /\ Cardinality(Calling(o)) \in Nat
  BY <1>0, <1>1, <1>2, CallingFinite DEF Calling
<1>9. HeldBesides(o) = 0 /\ HeldBesides(o)' = 1
  BY <1>1, <1>2, <1>3, <1>4, <1>7 DEF HeldBesides, ByApp
<1>10. ExactFor(o) /\ refs'[o] = refs[o] + 1
  BY <1>1, <1>2 DEF Exact
<1>11. ExactFor(o)'
  BY <1>1, <1>7, <1>8, <1>9, <1>10 DEF ExactFor
<1> QED
  BY <1>6, <1>11 DEF Exact

\* A call takes its reference ...
LEMMA CastExact ==
    ASSUME IInv, Exact, NEW s \in Sessions, Cast(s)
    PROVE  Exact'
<1>0. at[s] = "cast"
  BY DEF Cast, At
<1>1. PICK o \in Objs :
      /\ o = x[s]
      /\ at' = [at EXCEPT ![s] = "invoke"]
      /\ refs' = [refs EXCEPT ![o] = @ + 1]
      /\ UNCHANGED <<table, memory, app, req, x>>
  BY <1>0 DEF Cast, At, Goto, local, HeldByCall, IInv, Constructed
<1>2. Shape /\ at \in [Sessions -> Labels] /\ x \in [Sessions -> Objs \cup {NoObject}]
      /\ refs \in [Objs -> Int]
  BY DEF IInv, Shape
<1>3. \A p \in Objs : (Stored(p)' <=> Stored(p)) /\ ByApp(p)' = ByApp(p)
  BY <1>1 DEF Stored, ByApp
<1>4. x' = [x EXCEPT ![s] = o]
  BY <1>1, <1>2
<1>5. ASSUME NEW p \in Objs, p # o PROVE ExactFor(p)'
  <2>1. memory'[p] = memory[p] /\ refs'[p] = refs[p] /\ x[s] # p
    BY <1>1, <1>2, <1>5
  <2> QED
    BY <1>0, <1>1, <1>2, <1>3, <1>4, <1>5, <2>1, OthersExact DEF Makes
<1>6. Creating(o)' = Creating(o) /\ HeldBesides(o)' = HeldBesides(o) /\ HeldBesides(o) \in Nat
  <2>1. Creating(o)' = Creating(o)
    BY <1>0, <1>1, <1>2 DEF Creating
  <2> QED
    BY <1>1, <1>3, <2>1 DEF HeldBesides, ByName, ByApp
<1>7. Cardinality(Calling(o)') = Cardinality(Calling(o)) + 1 /\ Cardinality(Calling(o)) \in Nat
  <2>1. Calling(o)' = Calling(o) \cup {s} /\ s \notin Calling(o)
    BY <1>0, <1>1, <1>2 DEF Calling
  <2> QED
    BY <2>1, CallingFinite, FS_AddElement
<1>8. ExactFor(o) /\ refs'[o] = refs[o] + 1
  BY <1>1, <1>2 DEF Exact
<1>9. ExactFor(o)'
  BY <1>1, <1>6, <1>7, <1>8 DEF ExactFor
<1> QED
  BY <1>5, <1>9 DEF Exact

\* ... and gives it up, and the last one frees.
LEMMA InvokeExact ==
    ASSUME IInv, Handling, Exact, NEW s \in Sessions, Invoke(s)
    PROVE  Exact'
<1>0. at[s] = "invoke"
  BY DEF Invoke, At
<1>1. PICK o \in Objs :
      /\ o = x[s] /\ memory[o] = "live"
      /\ at' = [at EXCEPT ![s] = "idle"] /\ x' = [x EXCEPT ![s] = NoObject]
      /\ refs' = [refs EXCEPT ![o] = refs[o] - 1]
      /\ memory' = [memory EXCEPT ![o] = IF refs[o] - 1 = 0 THEN "freed" ELSE @]
      /\ UNCHANGED <<table, app>> /\ \A t \in Sessions \ {s} : req'[t] = req[t]
  BY <1>0 DEF Invoke, Idle, Goto, Release, RefsAfter, HeldByCall, IInv, Landed, Handling
<1>2. Shape /\ at \in [Sessions -> Labels] /\ x \in [Sessions -> Objs \cup {NoObject}]
      /\ refs \in [Objs -> Int] /\ memory \in [Objs -> {"unused", "live", "freed"}]
  BY DEF IInv, Shape
<1>3. \A p \in Objs : (Stored(p)' <=> Stored(p)) /\ ByApp(p)' = ByApp(p)
  BY <1>1 DEF Stored, ByApp
<1>4. NoObject \notin Objs
  BY ObjectsAssumption
<1>5. ASSUME NEW p \in Objs, p # o PROVE ExactFor(p)'
  <2>1. memory'[p] = memory[p] /\ refs'[p] = refs[p] /\ x[s] # p
    BY <1>1, <1>2, <1>5
  <2> QED
    BY <1>0, <1>1, <1>2, <1>3, <1>5, <2>1, OthersExact DEF Makes
<1>6. Creating(o)' = Creating(o) /\ HeldBesides(o)' = HeldBesides(o) /\ HeldBesides(o) \in Nat
  <2>1. Creating(o)' = Creating(o) /\ s \notin Creating(o)
    BY <1>0, <1>1, <1>2 DEF Creating
  <2>2. \A t \in Creating(o) : ByName(t)' <=> ByName(t)
    BY <1>1, <2>1 DEF Creating, ByName
  <2> QED
    BY <1>3, <2>1, <2>2 DEF HeldBesides, ByApp
<1>7. Cardinality(Calling(o)') = Cardinality(Calling(o)) - 1 /\ Cardinality(Calling(o)) \in Nat
  <2>1. Calling(o)' = Calling(o) \ {s} /\ s \in Calling(o)
    BY <1>0, <1>1, <1>2, <1>4 DEF Calling
  <2> QED
    BY <2>1, CallingFinite, FS_RemoveElement
<1>8. ExactFor(o) /\ refs'[o] = refs[o] - 1 /\ refs[o] \in Int
      /\ (refs[o] - 1 = 0 => memory'[o] = "freed")
  BY <1>1, <1>2 DEF Exact
<1>9. Cardinality(Calling(o)') \in Nat
  <2>1. \A n \in Nat : n - 1 \in Nat \/ n = 0
    OBVIOUS
  <2>2. Calling(o)' \subseteq Calling(o)
    BY <1>0, <1>1, <1>2, <1>4 DEF Calling
  <2> QED
    BY <2>2, CallingFinite, FS_Subset, FS_CardinalityType
<1>10. ExactFor(o)'
  BY <1>1, <1>6, <1>7, <1>8, <1>9 DEF ExactFor
<1> QED
  BY <1>5, <1>10 DEF Exact

\* Nothing that is found has no reference, so the look-up frees nothing.
LEMMA RetrieveExact ==
    ASSUME IInv, Handling, Exact, NEW s \in Sessions, Retrieve(s)
    PROVE  Exact'
<1>1. PICK o \in Objs :
      /\ at[s] = "retrieve"
      /\ at' = [at EXCEPT ![s] = "idle"] /\ x' = [x EXCEPT ![s] = NoObject]
      /\ memory' = [memory EXCEPT ![o] = IF refs[o] = 0 THEN "freed" ELSE @]
      /\ UNCHANGED <<table, refs, app>> /\ \A t \in Sessions \ {s} : req'[t] = req[t]
  <2>1. table.names[req[s].name] \in Objs
    BY DEF Retrieve, Found, HasName, IInv, Constructed
  <2> QED
    BY <2>1 DEF Retrieve, At, Idle, Goto, Handling
<1>2. Shape /\ at \in [Sessions -> Labels] /\ x \in [Sessions -> Objs \cup {NoObject}]
      /\ memory \in [Objs -> {"unused", "live", "freed"}]
  BY DEF IInv, Shape
<1>3. \A p \in Objs : (Stored(p)' <=> Stored(p))
  BY <1>1 DEF Stored
<1>4. ASSUME NEW p \in Objs, memory'[p] = memory[p] PROVE ExactFor(p)'
  <2>1. at[s] \notin Makes /\ at[s] # "invoke"
    BY <1>1 DEF Makes
  <2> QED
    BY <1>1, <1>2, <1>3, <1>4, <2>1, OthersExact DEF Makes
<1>5. ASSUME NEW p \in Objs, memory'[p] # memory[p] PROVE ExactFor(p)'
  BY <1>1, <1>2, <1>5 DEF ExactFor
<1> QED
  BY <1>4, <1>5 DEF Exact

\* A step of the application.
LEMMA ApplicationExact ==
    ASSUME IInv, Exact, UNCHANGED <<at, x, req>>, NEW o \in Objs,
           \A p \in Objs : p # o =>
               memory'[p] = memory[p] /\ refs'[p] = refs[p] /\ (Stored(p)' <=> Stored(p))
               /\ ByApp(p)' = ByApp(p),
           Creating(o) = {}, refs[o] \in Int, refs'[o] \in Int,
           memory'[o] = "live" =>
               refs'[o] = HeldBesides(o)' + Cardinality(Calling(o)) /\ refs'[o] > 0
    PROVE  Exact'
<1>1. \A p : Calling(p)' = Calling(p) /\ Creating(p)' = Creating(p)
  BY DEF Calling, Creating
<1>2. ASSUME NEW p \in Objs, p # o PROVE ExactFor(p)'
  <2>1. ExactFor(p) /\ \A t \in Creating(p) : ByName(t)' <=> ByName(t)
    BY DEF Exact, ByName
  <2> QED
    BY <1>1, <1>2, <2>1, KeepsExact
<1>3. ExactFor(o)'
  BY <1>1 DEF ExactFor
<1> QED
  BY <1>2, <1>3 DEF Exact

\* No session creates a servant.
LEMMA ServantNotMade ==
    ASSUME IInv, NEW o \in Servants
    PROVE  Creating(o) = {} /\ o \in Objs
BY ObjectsAssumption DEF IInv, Constructed, Creating

\* A servant has the application's and the table's.
LEMMA AddServantExact ==
    ASSUME IInv, Lone, Lone', Exact, NEW o \in Servants, NEW n \in Names, AddServant(o, n)
    PROVE  Exact'
<1>1. /\ app[o] = "new" /\ app' = [app EXCEPT ![o] = "added"]
      /\ memory' = [memory EXCEPT ![o] = "live"]
      /\ UNCHANGED <<at, x, req>>
  BY DEF AddServant, local
<1>2. /\ refs \in [Objs -> Int] /\ memory \in [Objs -> {"unused", "live", "freed"}]
      /\ app \in [Servants -> {"new", "added", "removed", "dropped"}]
      /\ memory[o] = "unused" /\ Creating(o) = {} /\ o \in Objs
  BY <1>1, ServantNotMade DEF IInv, Shape, Served
<1>3. Calling(o) = {} /\ Cardinality(Calling(o)) = 0
  BY <1>2, FS_EmptySet DEF Calling, IInv, Landed
<1>4. Creating(o)' = {}
  BY <1>1, <1>2 DEF Creating
<1>5. \A p \in Objs : p # o => memory'[p] = memory[p] /\ ByApp(p)' = ByApp(p)
  BY <1>1, <1>2 DEF ByApp
<1>6. ~Stored(o)
  <2>1. \A i \in 1..(table.ids.size - 1) : i \in 0..(table.ids.size - 1)
    BY DEF IInv, Shape, Vector
  <2> QED
    BY <1>2, <2>1 DEF Stored, IInv, Constructed
<1>7. ByApp(o)' = 1
  BY <1>1, <1>2 DEF ByApp
<1>8. CASE Found(n)
  <2>1. refs' = [refs EXCEPT ![o] = 1] /\ UNCHANGED table
    BY <1>8 DEF AddServant
  <2>2. \A p \in Objs : Stored(p)' <=> Stored(p)
    BY <2>1 DEF Stored
  <2>3. HeldBesides(o)' = 1
    BY <1>2, <1>4, <1>6, <1>7, <2>2 DEF HeldBesides
  <2>4. refs'[o] = 1 /\ \A p \in Objs : p # o => refs'[p] = refs[p]
    BY <1>2, <2>1
  <2> QED
    BY <1>1, <1>2, <1>3, <1>5, <2>2, <2>3, <2>4, ApplicationExact
<1>9. CASE ~Found(n)
  <2>1. refs' = [refs EXCEPT ![o] = 2] /\ table' = AddNamed(table, o, n)
    BY <1>9 DEF AddServant, HeldByTable
  <2>2. Added(table, table', NextId(table.ids), o)
    BY <2>1, AddNamedTable DEF Lone
  <2> DEFINE id == NextId(table.ids)
  <2>3. /\ InUse(table)' = InUse(table) \cup {id}
        /\ table'.ids.at[id] = o
        /\ \A i \in InUse(table) : table'.ids.at[i] = table.ids.at[i]
    BY <2>2 DEF Added, Ptr
  <2> HIDE DEF id
  <2>4. Stored(o)' /\ \A p \in Objs : p # o => (Stored(p)' <=> Stored(p))
    BY <1>2, <2>3, StoredUsed, StoredUsedNext
  <2>5. HeldBesides(o)' = 2
    BY <1>4, <1>7, <2>4 DEF HeldBesides
  <2>6. refs'[o] = 2 /\ \A p \in Objs : p # o => refs'[p] = refs[p]
    BY <1>2, <2>1
  <2>7. refs[o] \in Int /\ refs'[o] \in Int
        /\ refs'[o] = HeldBesides(o)' + Cardinality(Calling(o)) /\ refs'[o] > 0
    BY <1>2, <1>3, <2>5, <2>6
  <2>8. \A p \in Objs : p # o =>
           memory'[p] = memory[p] /\ refs'[p] = refs[p] /\ (Stored(p)' <=> Stored(p))
           /\ ByApp(p)' = ByApp(p)
    BY <1>5, <2>4, <2>6
  <2> QED
    BY <1>1, <1>2, <2>7, <2>8, ApplicationExact
<1> QED
  BY <1>8, <1>9

\* Its removal gives up the table's.
LEMMA RemoveServantExact ==
    ASSUME IInv, Lone, Lone', Once, Exact, NEW o \in Servants, RemoveServant(o)
    PROVE  Exact'
<1>1. /\ app[o] = "added" /\ app' = [app EXCEPT ![o] = "removed"] /\ objId[o] # 0
      /\ table' = RemoveId(table, objId[o])
      /\ Release(Ptr(table, objId[o]), HeldByTable)
      /\ UNCHANGED <<at, x, req>>
  BY DEF RemoveServant, local
<1>2. /\ refs \in [Objs -> Int] /\ memory \in [Objs -> {"unused", "live", "freed"}]
      /\ app \in [Servants -> {"new", "added", "removed", "dropped"}]
      /\ memory[o] = "live" /\ Creating(o) = {} /\ o \in Objs
      /\ objId[o] \in 1..(table.ids.size - 1) /\ table.ids.at[objId[o]] = o
  BY <1>1, ServantNotMade DEF IInv, Shape, Served
<1>3. /\ refs' = [refs EXCEPT ![o] = refs[o] - 1]
      /\ memory' = [memory EXCEPT ![o] = IF refs[o] - 1 = 0 THEN "freed" ELSE @]
  BY <1>1, <1>2 DEF Ptr, Release, RefsAfter, HeldByTable
<1>4. Removed(table, table', objId[o]) /\ objId[o] \in InUse(table)
  BY <1>1, <1>2, UsedSlots, RemoveIdTable DEF Lone
<1>5. InUse(table)' = InUse(table) \ {objId[o]}
      /\ \A i \in InUse(table)' : table'.ids.at[i] = table.ids.at[i]
  BY <1>4 DEF Removed, Ptr
<1>6. \A i \in InUse(table) : table.ids.at[i] = o => i = objId[o]
  BY <1>2, <1>4 DEF Once
<1>7. ~Stored(o)' /\ Stored(o) /\ \A p \in Objs : p # o => (Stored(p)' <=> Stored(p))
  BY <1>2, <1>4, <1>5, <1>6, StoredUsed, StoredUsedNext
<1>8. Creating(o)' = {}
  BY <1>1, <1>2 DEF Creating
<1>9. (\A p \in Objs : p # o => ByApp(p)' = ByApp(p)) /\ ByApp(o)' = 1 /\ ByApp(o) = 1
  BY <1>1, <1>2 DEF ByApp
<1>10. HeldBesides(o)' = 1 /\ HeldBesides(o) = 2
  BY <1>2, <1>7, <1>8, <1>9 DEF HeldBesides
<1>11. ExactFor(o) /\ Cardinality(Calling(o)) \in Nat
  BY <1>2, CallingFinite DEF Exact
<1>12. refs'[o] = 1 + Cardinality(Calling(o)) /\ refs'[o] > 0
  BY <1>2, <1>3, <1>10, <1>11 DEF ExactFor
<1>13. \A p \in Objs : p # o => memory'[p] = memory[p] /\ refs'[p] = refs[p]
  BY <1>2, <1>3
<1>14. refs'[o] \in Int /\ refs[o] \in Int
  BY <1>2, <1>11, <1>12
<1> QED
  BY <1>1, <1>2, <1>7, <1>9, <1>10, <1>12, <1>13, <1>14, ApplicationExact

\* The application gives up its own.
LEMMA LeaveServantExact ==
    ASSUME IInv, Lone, Once, Exact, NEW o \in Servants, RemovePassedOver(o) \/ Drop(o)
    PROVE  Exact'
<1>1. /\ app \in [Servants -> {"new", "added", "removed", "dropped"}]
      /\ refs \in [Objs -> Int] /\ memory \in [Objs -> {"unused", "live", "freed"}]
  BY DEF IInv, Shape
<1>2. CASE RemovePassedOver(o)
  <2>1. /\ app[o] = "added" /\ app' = [app EXCEPT ![o] = "removed"]
        /\ UNCHANGED <<table, memory, refs, at, x, req>>
    BY <1>2 DEF RemovePassedOver, heap, local
  <2>2. ASSUME NEW p \in Objs PROVE ExactFor(p)'
    <3>1. ByApp(p)' = ByApp(p)
      BY <1>1, <2>1 DEF ByApp
    <3>2. ExactFor(p) /\ Calling(p)' = Calling(p) /\ Creating(p)' = Creating(p)
          /\ (Stored(p)' <=> Stored(p)) /\ \A t \in Creating(p) : ByName(t)' <=> ByName(t)
      BY <2>1 DEF Exact, Calling, Creating, Stored, ByName
    <3> QED
      BY <2>1, <3>1, <3>2, KeepsExact
  <2> QED
    BY <2>2 DEF Exact
<1>3. CASE Drop(o)
  <2>1. /\ app[o] = "removed" /\ app' = [app EXCEPT ![o] = "dropped"]
        /\ refs' = [refs EXCEPT ![o] = refs[o] - 1]
        /\ memory' = [memory EXCEPT ![o] = IF refs[o] - 1 = 0 THEN "freed" ELSE @]
        /\ UNCHANGED <<table, at, x, req>>
    BY <1>3 DEF Drop, local, Release, RefsAfter
  <2>2. memory[o] = "live" /\ Creating(o) = {} /\ o \in Objs
    BY <2>1, ServantNotMade DEF IInv, Served
  <2>3. ~Stored(o) /\ ~Stored(o)'
    <3>1. ~Stored(o)
      BY <2>1, <2>2, StoredUsed DEF Once, Unlisted
    <3> QED
      BY <2>1, <3>1 DEF Stored
  <2>4. \A p \in Objs : Stored(p)' <=> Stored(p)
    BY <2>1 DEF Stored
  <2>5. (\A p \in Objs : p # o => ByApp(p)' = ByApp(p)) /\ ByApp(o)' = 0 /\ ByApp(o) = 1
    BY <1>1, <2>1 DEF ByApp
  <2>6. Creating(o)' = {}
    BY <2>1, <2>2 DEF Creating
  <2>7. HeldBesides(o)' = 0 /\ HeldBesides(o) = 1
    BY <2>2, <2>3, <2>5, <2>6 DEF HeldBesides
  <2>8. ExactFor(o) /\ Cardinality(Calling(o)) \in Nat
    BY <2>2, CallingFinite DEF Exact
  <2>9. refs'[o] = Cardinality(Calling(o)) /\ (memory'[o] = "live" => refs'[o] > 0)
    BY <1>1, <2>1, <2>2, <2>7, <2>8 DEF ExactFor
  <2>10. \A p \in Objs : p # o => memory'[p] = memory[p] /\ refs'[p] = refs[p]
    BY <1>1, <2>1
  <2>11. refs'[o] \in Int /\ refs[o] \in Int /\ refs'[o] = HeldBesides(o)' + Cardinality(Calling(o))
    BY <1>1, <2>2, <2>7, <2>8, <2>9
  <2> QED
    BY <2>1, <2>2, <2>4, <2>5, <2>9, <2>10, <2>11, ApplicationExact
<1> QED
  BY <1>2, <1>3

\* A fault changes nothing.
LEMMA SameExact ==
    ASSUME Exact, UNCHANGED <<table, memory, refs, app, at, x, req>>
    PROVE  Exact'
BY DEF Exact, ExactFor, HeldBesides, Stored, ByApp, ByName, Creating, Calling

\* The counts after any step that makes no overlap.
LEMMA ExactStep ==
    ASSUME IInv, Handling, Lone, Lone', Once, Exact, [Next]_vars
    PROVE  Exact'
<1>1. ASSUME NEW s \in Sessions, Client(s) \/ Create(s) \/ Find(s) \/ Call(s)
      PROVE  Exact'
  <2>1. CASE ConstructNull(s) \/ NameExists(s) \/ LinkOutside(s) \/ RetrieveFreed(s)
             \/ LoadZero(s) \/ LoadFree(s) \/ TouchFreed(s)
    BY <2>1, SameExact
    DEF ConstructNull, NameExists, LinkOutside, RetrieveFreed, LoadZero, LoadFree, TouchFreed,
        Fail, heap, local
  <2>2. CASE \/ Client(s) \/ LookUp(s) \/ Existing(s) \/ FindCreator(s) \/ NoCreator(s)
             \/ NameFree(s) \/ StoreName(s) \/ Alloc(s) \/ SetId(s) \/ RetrieveNothing(s)
             \/ Load(s) \/ WrongClass(s)
    BY <2>2, QuietExactSteps
  <2>3. CASE Construct(s) \/ Link(s) \/ Hold(s) \/ Cast(s) \/ Invoke(s) \/ Retrieve(s)
    BY <2>3, ConstructExact, LinkExact, HoldExact, CastExact, InvokeExact, RetrieveExact
  <2> QED
    BY <1>1, <2>1, <2>2, <2>3 DEF Create, Find, Call
<1>2. CASE Application
  <2>1. ASSUME NEW o \in Servants, ServantLost(o)
        PROVE  Exact'
    BY <2>1, SameExact DEF ServantLost, Fail, heap, local
  <2> QED
    BY <1>2, <2>1, AddServantExact, RemoveServantExact, LeaveServantExact DEF Application
<1>3. CASE AddOutside \/ UNCHANGED vars
  BY <1>3, SameExact DEF AddOutside, Fail, vars, heap, local
<1> QED
  BY <1>1, <1>2, <1>3 DEF Next

\* Clients that have not overlapped.
Single == "overlap" \notin misuse => Typed /\ Lone /\ Once /\ Exact

\* Until creations overlap no session is overtaken.
LEMMA NoneOvertaken ==
    ASSUME Base, "overtaken" \notin misuse => Typed, "overlap" \notin misuse
    PROVE  Typed
BY DEF Base, Marks

\* What holds until creations overlap.
LEMMA SingleInvariance == Spec => []Single
<1> DEFINE Before == Base /\ ("overtaken" \notin misuse => Typed)
<1>1. Init /\ Before => Single
  <2>1. Init => Exact
    BY DEF Init, Exact, ExactFor
  <2> QED
    BY <2>1, LoneInit, OnceInit, NoneOvertaken DEF Single
<1>2. Before' /\ Single /\ [Next]_vars => Single'
  <2> SUFFICES ASSUME Before', Single, [Next]_vars, "overlap" \notin misuse'
               PROVE  Typed' /\ Lone' /\ Once' /\ Exact'
    BY DEF Single
  <2>1. Typed'
    BY DEF Base, Marks
  <2>2. "overlap" \notin misuse
    BY MarksStep
  <2>3. IInv /\ Handling /\ Lone /\ Once /\ Exact
    BY <2>2 DEF Single, Typed
  <2>4. Lone'
    BY <2>3, LoneStep
  <2>5. Once'
    BY <2>3, <2>4, OnceStep
  <2>6. Exact'
    BY <2>3, <2>4, ExactStep
  <2> QED
    BY <2>1, <2>4, <2>5, <2>6
<1> HIDE DEF Before
<1>3. Spec => []Before
  BY TypedInvariance DEF Before
<1> QED
  BY <1>1, <1>2, <1>3, PTL DEF Spec

\* An object counts its holders, the table, the application and the calls that
\* run on it, for clients that do not create at the same time: no reference is
\* lost and none released twice, whatever the application removes meanwhile.
THEOREM CountsHolders == Spec => []RefsExact
<1>1. ASSUME Single PROVE RefsExact
  <2> SUFFICES ASSUME "overlap" \notin misuse, NEW o \in Objs, memory[o] = "live"
               PROVE  /\ refs[o] = Cardinality({i \in InUse(table) : table.ids.at[i] = o})
                        + Cardinality({s \in Creating(o) : req[s].op = "create"})
                        - Cardinality({s \in Creating(o) : at[s] = "hold"})
                        + Cardinality(Calling(o))
                        + (IF o \in Servants /\ app[o] \in {"added", "removed"} THEN 1 ELSE 0)
                      /\ refs[o] > 0 \/ Creating(o) # {}
    BY DEF RefsExact
  <2> DEFINE A == {i \in InUse(table) : table.ids.at[i] = o}
             B == {s \in Creating(o) : req[s].op = "create"}
             C == {s \in Creating(o) : at[s] = "hold"}
             D == Cardinality(Calling(o))
  <2>1. Lone /\ Once /\ ExactFor(o) /\ IInv /\ Handling
    BY <1>1 DEF Single, Exact, Typed
  <2>2. D \in Nat
    BY CallingFinite
  <2>3. \A S : S = {} => Cardinality(S) = 0
    BY FS_EmptySet
  <2>4. \A e : Cardinality({e}) = 1
    BY FS_Singleton
  <2>5. A = {} <=> ~Stored(o)
    BY <2>1, StoredUsed
  <2>6. Stored(o) => Cardinality(A) = 1
    <3> SUFFICES ASSUME Stored(o) PROVE Cardinality(A) = 1
      OBVIOUS
    <3>1. PICK i \in InUse(table) : table.ids.at[i] = o
      BY <2>1, StoredUsed
    <3>2. \A j \in InUse(table) : table.ids.at[j] = o => j = i
      BY <2>1, <3>1 DEF Once
    <3>3. A = {i}
      BY <3>1, <3>2
    <3> HIDE DEF A
    <3> QED
      BY <2>4, <3>3
  <2>7. Cardinality(A) = IF Stored(o) THEN 1 ELSE 0
    BY <2>3, <2>5, <2>6
  <2>8. ByApp(o) = IF o \in Servants /\ app[o] \in {"added", "removed"} THEN 1 ELSE 0
    BY DEF ByApp
  <2>9. refs[o] = HeldBesides(o) + D /\ (refs[o] > 0 \/ Creating(o) # {})
    BY <2>1 DEF ExactFor
  <2>10. HeldBesides(o) = Cardinality(A) + Cardinality(B) - Cardinality(C) + ByApp(o)
    <3>1. CASE Creating(o) = {}
      <4>1. Cardinality(B) = 0 /\ Cardinality(C) = 0
        BY <2>3, <3>1
      <4>2. ByApp(o) \in Nat
        BY DEF ByApp
      <4> HIDE DEF A, B, C
      <4> QED
        BY <2>7, <3>1, <4>1, <4>2 DEF HeldBesides
    <3>2. ASSUME NEW s \in Creating(o)
          PROVE  HeldBesides(o) = Cardinality(A) + Cardinality(B) - Cardinality(C) + ByApp(o)
      <4>1. s \in Sessions /\ x[s] = o /\ at[s] \in Makes /\ Busy(s)
        BY DEF Creating, Makes, Busy
      <4>2. Creating(o) = {s}
        BY <2>1, <4>1, OneCreates
      <4>3. ByApp(o) = 0
        BY <2>1, <4>1 DEF ByApp, IInv, Constructed, Makes
      <4>4. Cardinality(B) = IF ByName(s) THEN 0 ELSE 1
        <5>1. ByName(s) => B = {}
          BY <4>2 DEF ByName
        <5>2. ~ByName(s) => B = {s}
          BY <4>2 DEF ByName
        <5> HIDE DEF B
        <5> QED
          BY <2>3, <2>4, <5>1, <5>2
      <4>5. Cardinality(C) = IF at[s] = "hold" THEN 1 ELSE 0
        <5>1. at[s] # "hold" => C = {}
          BY <4>2
        <5>2. at[s] = "hold" => C = {s}
          BY <4>2
        <5> HIDE DEF C
        <5> QED
          BY <2>3, <2>4, <5>1, <5>2
      <4>6. Stored(o) <=> at[s] = "hold"
        <5>1. at[s] = "hold" => Stored(o)
          BY <2>1, <4>1 DEF Lone, Stored
        <5>2. at[s] # "hold" => ~Stored(o)
          BY <2>1, <4>1, StoredUsed DEF Once, Storing, Makes
        <5> QED
          BY <5>1, <5>2
      <4>7. HeldBesides(o) = IF ByName(s) THEN 0 ELSE 1
        BY <4>2 DEF HeldBesides
      <4>8. at[s] = "hold" => ByName(s)
        BY <2>1, <4>1 DEF Handling
      <4> HIDE DEF A, B, C
      <4> QED
        BY <2>7, <4>3, <4>4, <4>5, <4>6, <4>7, <4>8
    <3> QED
      BY <3>1, <3>2
  <2>11. Cardinality(B) \in Int /\ Cardinality(C) \in Int
    <3>1. B \in SUBSET Sessions /\ C \in SUBSET Sessions
      BY DEF Creating
    <3> HIDE DEF B, C
    <3> QED
      BY <3>1, FS_Subset, FS_CardinalityType, UsageAssumption
  <2> HIDE DEF A, B, C, D
  <2> QED
    <3>1. Cardinality(A) \in Nat /\ ByApp(o) \in Nat
      BY <2>7 DEF ByApp
    <3>2. HeldBesides(o) \in Int
      BY DEF HeldBesides, ByApp
    <3>3. refs[o] = Cardinality(A) + Cardinality(B) - Cardinality(C) + D + ByApp(o)
      BY <2>2, <2>9, <2>10, <2>11, <3>1, <3>2
    <3> QED
      BY <2>8, <2>9, <3>3 DEF A, B, C, D
<1> QED
  BY <1>1, SingleInvariance, PTL
-----------------------------------------------------------------------------
(* No misuse, and no servant removed                                         *)

\* The proxy denotes an object that is created and stored.
Good(p) ==
    /\ p.obj \in Objs
    /\ p.id \in 1..(table.ids.size - 1) /\ table.ids.at[p.id] = p.obj
    /\ ~Unfinished(p.obj)

\* Nothing has failed and nothing is freed.
Whole == fault = "no" /\ \A o \in Objs : memory[o] # "freed"

\* The proxies of a client and the one it calls; a handler that calls runs on
\* that one's object.
GoodSession(s) ==
    /\ \A p \in proxies[s] : Good(p)
    /\ at[s] \in {"load", "cast", "invoke"} => Good(req[s].proxy)
    /\ at[s] \in {"cast", "invoke"} => x[s] = req[s].proxy.obj
    /\ at[s] \notin {"load", "cast", "invoke", "ended"} => req[s].proxy.obj = NoObject

GoodProxies == \A s \in Sessions : GoodSession(s)

\* An object knows its id once its creation is over.
IdsKnown ==
    \A i \in 1..(table.ids.size - 1) : table.ids.at[i] \in Objs =>
        objId[table.ids.at[i]] = i \/ Unfinished(table.ids.at[i])

\* A name is that of an object that is stored or about to be, and the session
\* that creates by name has the name to itself from the look-up on.
Unstored(s) == at[s] \in {"alloc", "link"}
Making(s) == at[s] \in {"insert", "store", "alloc", "link", "hold", "setId"}

NamesKnown ==
    /\ \A n \in DOMAIN table.names :
          \/ Stored(table.names[n])
          \/ \E s \in Sessions : Unstored(s) /\ x[s] = table.names[n]
    /\ \A s \in Sessions :
          /\ at[s] = "existing" => Found(req[s].name) /\ x[s] = table.names[req[s].name]
          /\ at[s] \in {"findCreator", "construct", "insert", "store"} /\ ByName(s) => ~Found(req[s].name)
          /\ Making(s) /\ at[s] \notin {"insert", "store"} /\ ByName(s) => Found(req[s].name)
          /\ Making(s) => \A n \in DOMAIN table.names :
                table.names[n] = x[s] <=>
                    at[s] \notin {"insert", "store"} /\ ByName(s) /\ n = req[s].name

\* What no misuse and no removal adds.
Clean == Whole /\ GoodProxies /\ IdsKnown /\ NamesKnown

\* All that holds before the first misuse or removal.
Reliable == Base /\ Typed /\ Lone /\ Once /\ Exact /\ Clean

\* The steps that there are then.
Honest(s) ==
    \/ Client(s) \/ LookUp(s) \/ Existing(s) \/ FindCreator(s) \/ Construct(s)
    \/ NameFree(s) \/ StoreName(s) \/ Alloc(s) \/ Link(s) \/ Hold(s) \/ SetId(s)
    \/ Retrieve(s) \/ RetrieveNothing(s) \/ Load(s) \/ Cast(s) \/ WrongClass(s) \/ Invoke(s)

\* The application adds a servant while nobody creates.
Publishes(o, n) == AddServant(o, n) /\ ~Creation

\* Misuse and removal are remembered.
LEMMA UntouchedBack == [Next]_vars /\ Base /\ Untouched' => Untouched
<1> SUFFICES ASSUME [Next]_vars, Base, Untouched' PROVE Untouched
  OBVIOUS
<1>1. misuse = {}
  BY MarksStep DEF Untouched
<1>2. app \in [Servants -> {"new", "added", "removed", "dropped"}]
  BY DEF Base, Weak, Shared
<1>3. \/ app' = app
      \/ \E o \in Servants : app[o] # "dropped" /\ \E a \in {"added", "removed", "dropped"} :
             app' = [app EXCEPT ![o] = a] /\ (a = "added" => app[o] = "new")
  <2> USE DEF heap, local, history
  <2>1. ASSUME NEW s \in Sessions, Client(s) \/ Create(s) \/ Find(s) \/ Call(s)
        PROVE  app' = app
    <3>1. CASE Client(s)
      BY <3>1 DEF Client, AskByName, AskCreate, AskCall, Ask
    <3>2. CASE Create(s)
      BY <3>2 DEF Create, LookUp, Existing, FindCreator, NoCreator, Construct, ConstructNull,
                  NameFree, NameExists, StoreName, Alloc, Link, LinkOutside, Hold, SetId, Fail
    <3>3. CASE Find(s) \/ Call(s)
      BY <3>3 DEF Find, Retrieve, RetrieveNothing, RetrieveFreed, Call, Load, LoadZero, LoadFree,
                  Cast, WrongClass, Invoke, TouchFreed, Fail
    <3> QED
      BY <2>1, <3>1, <3>2, <3>3
  <2>2. ASSUME NEW o \in Servants, NEW n \in Names,
               AddServant(o, n) \/ RemoveServant(o) \/ RemovePassedOver(o) \/ Drop(o), app' # app
        PROVE  app[o] # "dropped" /\ \E a \in {"added", "removed", "dropped"} :
                  app' = [app EXCEPT ![o] = a] /\ (a = "added" => app[o] = "new")
    BY <2>2 DEF AddServant, RemoveServant, RemovePassedOver, Drop
  <2>3. ASSUME NEW o \in Servants, RemoveServant(o) \/ RemovePassedOver(o) \/ Drop(o), app' # app
        PROVE  app[o] # "dropped" /\ \E a \in {"added", "removed", "dropped"} :
                  app' = [app EXCEPT ![o] = a] /\ (a = "added" => app[o] = "new")
    BY <2>3 DEF RemoveServant, RemovePassedOver, Drop
  <2>4. ASSUME AddOutside \/ (\E o \in Servants : ServantLost(o)) \/ UNCHANGED vars
        PROVE  app' = app
    BY <2>4 DEF AddOutside, ServantLost, Fail, vars
  <2> QED
    BY <2>1, <2>2, <2>3, <2>4 DEF Next, Application
<1>4. \A o \in Servants : app[o] \in {"new", "added"}
  BY <1>2, <1>3 DEF Untouched
<1> QED
  BY <1>1, <1>4 DEF Untouched

\* Without misuse and removal the only steps are those.
LEMMA HonestSteps ==
    ASSUME Reliable, Untouched', [Next]_vars
    PROVE  \/ \E s \in Sessions : Honest(s)
           \/ \E o \in Servants, n \in Names : Publishes(o, n)
           \/ UNCHANGED vars
<1>1. /\ IInv /\ Threads /\ Handling /\ Shape /\ Lone /\ Whole /\ GoodProxies /\ NamesKnown
      /\ Constructed /\ Base /\ Served
  BY DEF Reliable, Typed, Clean, IInv, Base, Weak
<1>2. Untouched /\ misuse' = {} /\ \A o \in Servants : app'[o] \in {"new", "added"}
  BY <1>1, UntouchedBack DEF Untouched
<1>3. ASSUME NEW s \in Sessions, Create(s) \/ Find(s) \/ Call(s)
      PROVE  Honest(s)
  <2>1. ~NoCreator(s) /\ ~ConstructNull(s)
    BY <1>2 DEF NoCreator, ConstructNull, Misused
  <2>2. ~NameExists(s)
    <3> SUFFICES ASSUME NameExists(s) PROVE FALSE
      OBVIOUS
    <3>1. at[s] = "insert" /\ Found(req[s].name)
      BY DEF NameExists, At
    <3>2. ByName(s)
      BY <1>1, <3>1 DEF Handling
    <3> QED
      BY <1>1, <3>1, <3>2 DEF NamesKnown
  <2>3. ~LinkOutside(s)
    BY <1>1 DEF LinkOutside, At, Shape
  <2>4. ~RetrieveFreed(s) /\ ~TouchFreed(s)
    <3>1. ~RetrieveFreed(s)
      BY <1>1 DEF RetrieveFreed, Found, HasName, Constructed, Whole
    <3>2. ~TouchFreed(s)
      <4> SUFFICES ASSUME TouchFreed(s) PROVE FALSE
        OBVIOUS
      <4>1. at[s] \in Points /\ memory[x[s]] = "freed"
        BY DEF TouchFreed, Points
      <4>2. x[s] \in Objs
        BY <1>1, <4>1 DEF Threads
      <4> QED
        BY <1>1, <4>1, <4>2 DEF Whole
    <3> QED
      BY <3>1, <3>2
  <2>5. ~LoadZero(s) /\ ~LoadFree(s)
    <3>1. at[s] = "load" => InRange(s) /\ ~Free(req[s].proxy.id)
      BY <1>1, PointersApart DEF GoodProxies, GoodSession, Good, InRange, IsValid, Free
    <3> QED
      BY <3>1 DEF LoadZero, LoadFree, At
  <2> QED
    BY <1>3, <2>1, <2>2, <2>3, <2>4, <2>5 DEF Create, Find, Call, Honest
<1>4. ASSUME NEW o \in Servants, NEW n \in Names, AddServant(o, n)
      PROVE  Publishes(o, n)
  <2>1. ~Creation
    BY <1>2, <1>4 DEF AddServant, Misused, Overlap
  <2> QED
    BY <1>4, <2>1 DEF Publishes
<1>5. ASSUME NEW o \in Servants, RemoveServant(o) \/ RemovePassedOver(o) \/ Drop(o)
      PROVE  FALSE
  <2>1. app'[o] \in {"removed", "dropped"}
    BY <1>1, <1>5 DEF RemoveServant, RemovePassedOver, Drop, Shape
  <2> QED
    BY <1>2, <2>1
<1>6. ~AddOutside
  <2>1. table.ids.at[0] \in Nat
    BY <1>1 DEF Shape, Vector
  <2> QED
    BY <2>1 DEF AddOutside
<1>7. ASSUME NEW o \in Servants, ServantLost(o)
      PROVE  FALSE
  <2>1. app[o] \in {"new", "added"} /\ o \in Objs
    BY <1>2, ObjectsAssumption DEF Untouched
  <2>2. memory[o] # "freed"
    BY <1>1, <2>1 DEF Whole
  <2>3. app[o] = "added" /\ objId[o] # 0 => Ptr(table, objId[o]) = o
    BY <1>1 DEF Served, Ptr
  <2> QED
    BY <1>7, <2>1, <2>2, <2>3 DEF ServantLost
<1> QED
  BY <1>3, <1>4, <1>5, <1>6, <1>7 DEF Next, Application, Honest
-----------------------------------------------------------------------------
(* The slots and the proxies                                                 *)

\* What is stored stays where it is, and only Link stores.
LEMMA HonestSlots ==
    ASSUME IInv, Lone, NEW s \in Sessions, Honest(s)
    PROVE  /\ table.ids.size <= table'.ids.size
           /\ \A i \in InUse(table) : i \in InUse(table)' /\ table'.ids.at[i] = table.ids.at[i]
           /\ \A i \in InUse(table)' :
                 i \notin InUse(table) => Link(s) /\ i = newId[s] /\ table'.ids.at[i] = x[s]
           /\ Link(s) => newId[s] \in InUse(table)' /\ table'.ids.at[newId[s]] = x[s]
                         /\ newId[s] \notin InUse(table)
<1> USE DEF At, Goto, heap, local, history
<1>1. /\ TableOK(table) /\ Vector(table.ids) /\ Linked(table.ids)
      /\ table = [ids |-> table.ids, names |-> table.names]
  BY DEF Lone, IInv, Shape
<1>2. CASE Alloc(s)
  <2>1. table' = [table EXCEPT !.ids = WithRoom(table.ids)] /\ at[s] = "alloc"
    BY <1>2 DEF Alloc
  <2>2. InUse(table)' = InUse(table) /\ \A i \in InUse(table) : table'.ids.at[i] = table.ids.at[i]
    BY <1>1, <2>1, RoomTable DEF Ptr
  <2>3. table'.ids = WithRoom(table.ids)
    BY <1>1, <2>1
  <2>4. table.ids.size <= table'.ids.size
    BY <1>1, <2>3, RoomVector
  <2>5. ~Link(s)
    BY <2>1 DEF Link
  <2> QED
    BY <2>2, <2>4, <2>5
<1>3. CASE Link(s)
  <2>1. Added(table, table', newId[s], x[s])
    BY <1>3, LinkIsAdd, AddPtrTable DEF Lone
  <2> QED
    BY <1>3, <2>1 DEF Added, Ptr
<1>4. CASE ~Alloc(s) /\ ~Link(s)
  <2>1. table'.ids = table.ids
    BY <1>1, <1>4 DEF Honest, Client, AskByName, AskCreate, AskCall, Ask, LookUp, Existing,
        FindCreator, Construct, NameFree, StoreName, Hold, SetId, Retrieve, RetrieveNothing, Load,
        Cast, WrongClass, Invoke
  <2>2. InUse(table)' = InUse(table)
    BY <2>1 DEF InUse
  <2>3. table.ids.size <= table'.ids.size
    BY <1>1, <2>1 DEF Vector
  <2> QED
    BY <1>4, <2>1, <2>2, <2>3
<1> QED
  BY <1>2, <1>3, <1>4

\* A servant takes the next slot.
LEMMA PublishSlots ==
    ASSUME IInv, Lone, NEW o \in Servants, NEW n \in Names, Publishes(o, n)
    PROVE  /\ table.ids.size <= table'.ids.size
           /\ \A i \in InUse(table) : i \in InUse(table)' /\ table'.ids.at[i] = table.ids.at[i]
           /\ \A i \in InUse(table)' :
                 i \notin InUse(table) => i = NextId(table.ids) /\ ~Found(n)
           /\ ~Found(n) => /\ NextId(table.ids) \in InUse(table)'
                           /\ NextId(table.ids) \notin InUse(table)
                           /\ table'.ids.at[NextId(table.ids)] = o
                           /\ table'.names = WithName(table, n, o)
           /\ Found(n) => table' = table
<1>1. TableOK(table) /\ Vector(table.ids) /\ table.ids.size \in Nat
  BY DEF Lone, IInv, Shape, Vector
<1>2. CASE Found(n)
  <2>1. table' = table
    BY <1>2 DEF Publishes, AddServant
  <2>2. InUse(table)' = InUse(table)
    BY <2>1 DEF InUse
  <2> QED
    BY <1>1, <1>2, <2>1, <2>2
<1>3. CASE ~Found(n)
  <2>1. table' = AddNamed(table, o, n)
    BY <1>3 DEF Publishes, AddServant
  <2>2. Added(table, table', NextId(table.ids), o) /\ table'.names = WithName(table, n, o)
    BY <1>1, <2>1, AddNamedTable
  <2> DEFINE id == NextId(table.ids)
  <2>3. Added(table, table', id, o)
    BY <2>2
  <2> HIDE DEF id
  <2>4. /\ table.ids.size <= table'.ids.size
        /\ InUse(table)' = InUse(table) \cup {id} /\ id \notin InUse(table)
        /\ table'.ids.at[id] = o /\ \A i \in InUse(table) : table'.ids.at[i] = table.ids.at[i]
    BY <2>3 DEF Added, Ptr
  <2> QED
    BY <1>3, <2>2, <2>4 DEF id
<1> QED
  BY <1>2, <1>3

\* Only what is new becomes unfinished.
LEMMA HonestUnfinished ==
    ASSUME IInv, Lone, NEW s \in Sessions, Honest(s), NEW o \in Objs
    PROVE  /\ memory[o] # "unused" /\ Unfinished(o)' => Unfinished(o)
           /\ Unfinished(o) /\ ~Unfinished(o)' => SetId(s) /\ o = x[s]
<1> USE DEF At, Goto, heap, local, history
<1>1. /\ at \in [Sessions -> Labels] /\ x \in [Sessions -> Objs \cup {NoObject}]
  BY DEF IInv, Shape
<1>2. Unfinished(o) <=> \E t \in Sessions : x[t] = o /\ Making(t)
  BY DEF Unfinished, Making
<1>3. Unfinished(o)' <=> \E t \in Sessions : x'[t] = o /\ Making(t)'
  BY DEF Unfinished, Making
<1>4. \A t \in Sessions \ {s} : x'[t] = x[t] /\ at'[t] = at[t]
  BY <1>1 DEF Honest, Client, AskByName, AskCreate, AskCall, Ask, LookUp, Existing,
        FindCreator, Construct, NameFree, StoreName, Alloc, Link, Hold, SetId, Retrieve,
        RetrieveNothing,
        Load, Cast, WrongClass, Invoke, Idle
<1>5. CASE NameFree(s) \/ StoreName(s) \/ Alloc(s) \/ Link(s) \/ Hold(s)
  <2>1. Making(s) /\ x' = x
    BY <1>5 DEF NameFree, StoreName, Alloc, Link, Hold, Making
  <2>2. at'[s] \in {"store", "alloc", "link", "setId", "hold"}
    BY <1>1, <1>5 DEF NameFree, StoreName, Alloc, Link, Hold
  <2>3. Making(s)'
    BY <2>2 DEF Making
  <2> QED
    BY <1>2, <1>3, <1>4, <2>1, <2>3 DEF Making
<1>6. CASE Construct(s)
  <2>1. /\ at[s] = "construct" /\ memory[x'[s]] = "unused"
    BY <1>1, <1>6 DEF Construct
  <2> QED
    BY <1>2, <1>3, <1>4, <2>1 DEF Making
<1>7. CASE SetId(s)
  <2>1. at'[s] = "idle" /\ at[s] = "setId"
    BY <1>1, <1>7 DEF SetId, Idle
  <2> QED
    BY <1>2, <1>3, <1>4, <1>7, <2>1 DEF Making
<1>8. CASE ~(\/ NameFree(s) \/ StoreName(s) \/ Alloc(s) \/ Link(s) \/ Hold(s) \/ Construct(s)
             \/ SetId(s))
  <2>1. ~Making(s)
    BY <1>8 DEF Honest, Client, AskByName, AskCreate, AskCall, Ask, LookUp, Existing,
        FindCreator, Retrieve, RetrieveNothing, Load, Cast, WrongClass, Invoke, Making
  <2>2. at'[s] \in {"idle", "lookUp", "retrieve", "findCreator", "load", "existing", "construct",
                    "cast", "invoke", "ended"}
    BY <1>1, <1>8 DEF Honest, Client, AskByName, AskCreate, AskCall, Ask, LookUp, Existing,
        FindCreator, Retrieve, RetrieveNothing, Load, Cast, WrongClass, Invoke, Idle
  <2>3. ~Making(s)'
    BY <2>2 DEF Making
  <2> QED
    BY <1>2, <1>3, <1>4, <2>1, <2>3 DEF Making
<1> QED
  BY <1>5, <1>6, <1>7, <1>8

\* Steps that leave the creations alone.
LEMMA SameUnfinished ==
    UNCHANGED <<at, x>> => \A o : Unfinished(o)' <=> Unfinished(o)
BY DEF Unfinished

\* A proxy that is good stays good.
LEMMA StaysGood ==
    ASSUME Reliable, Untouched', [Next]_vars, Lone', NEW p, Good(p)
    PROVE  Good(p)'
<1>1. /\ IInv /\ Lone /\ p.obj \in Objs /\ p.id \in 1..(table.ids.size - 1)
      /\ table.ids.at[p.id] = p.obj /\ ~Unfinished(p.obj) /\ table.ids.size \in Nat
  BY DEF Reliable, Typed, Good, IInv, Shape, Vector
<1>2. p.id \in InUse(table)
  BY <1>1, UsedSlots DEF Lone
<1>3. p.id \in 0..(table.ids.size - 1)
  BY <1>1
<1>4. memory[p.obj] # "unused"
  BY <1>1, <1>3 DEF IInv, Constructed
<1>5. ASSUME table.ids.size <= table'.ids.size, table'.ids.at[p.id] = table.ids.at[p.id],
             ~Unfinished(p.obj)'
      PROVE  Good(p)'
  <2>1. table'.ids.size \in Nat
    BY <1>5 DEF Lone, TableOK, IdsUsed, Wellformed
  <2> QED
    BY <1>1, <1>5, <2>1 DEF Good
<1>6. ASSUME NEW s \in Sessions, Honest(s) PROVE Good(p)'
  <2>1. ~Unfinished(p.obj)'
    BY <1>1, <1>4, <1>6, HonestUnfinished
  <2> QED
    BY <1>1, <1>2, <1>5, <1>6, <2>1, HonestSlots
<1>7. ASSUME NEW o \in Servants, NEW n \in Names, Publishes(o, n) PROVE Good(p)'
  <2>1. UNCHANGED <<at, x>>
    BY <1>7 DEF Publishes, AddServant, local
  <2> QED
    BY <1>1, <1>2, <1>5, <1>7, <2>1, PublishSlots, SameUnfinished
<1>8. CASE UNCHANGED vars
  BY <1>1, <1>5, <1>8, SameUnfinished DEF vars, local
<1> QED
  BY <1>6, <1>7, <1>8, HonestSteps

\* Who finds an object by its name gets its id.
LEMMA NamedGood ==
    ASSUME Reliable, NEW s \in Sessions, Busy(s), ~Making(s), NEW n \in DOMAIN table.names,
           NEW o, o = table.names[n], NEW c
    PROVE  o \in Objs /\ ~Unfinished(o) /\ Stored(o) /\ Good([id |-> objId[o], cls |-> c, obj |-> o])
<1>1. IInv /\ Lone /\ NamesKnown /\ IdsKnown /\ o \in Objs
  BY DEF Reliable, Clean, Typed, IInv, Constructed
<1>2. \A t \in Sessions : Making(t) => FALSE
  BY <1>1 DEF Lone, Making, Busy
<1>3. ~Unfinished(o)
  BY <1>2 DEF Unfinished, Making
<1>4. Stored(o)
  BY <1>1, <1>2 DEF NamesKnown, Unstored, Making
<1>5. PICK i \in 1..(table.ids.size - 1) : table.ids.at[i] = o
  BY <1>4 DEF Stored
<1>6. objId[o] = i
  BY <1>1, <1>3, <1>5 DEF IdsKnown
<1> DEFINE p == [id |-> objId[o], cls |-> c, obj |-> o]
<1>7. p.id = i /\ p.obj = o
  BY <1>6
<1> HIDE DEF p
<1>8. Good(p)
  BY <1>1, <1>3, <1>5, <1>7 DEF Good
<1> QED
  BY <1>1, <1>3, <1>4, <1>8 DEF p

\* A step of one session, as far as the others are concerned.
LEMMA OneSession ==
    ASSUME IInv, Handling, NEW s \in Sessions, Honest(s)
    PROVE  \A t \in Sessions \ {s} :
               /\ at'[t] = at[t] /\ x'[t] = x[t] /\ req'[t] = req[t] /\ newId'[t] = newId[t]
               /\ proxies'[t] = proxies[t]
<1> USE DEF At, Goto, heap, local, history
<1>1. /\ at \in [Sessions -> Labels] /\ x \in [Sessions -> Objs \cup {NoObject}]
      /\ newId \in [Sessions -> Nat] /\ req \in [Sessions -> Request]
      /\ proxies \in [Sessions -> SUBSET Proxy]
  BY DEF IInv, Shape, Handling
<1>2. CASE Client(s)
  BY <1>1, <1>2 DEF Client, AskByName, AskCreate, AskCall, Ask
<1>3. CASE Existing(s) \/ SetId(s) \/ Retrieve(s) \/ RetrieveNothing(s) \/ Invoke(s)
  BY <1>1, <1>3 DEF Existing, SetId, Retrieve, RetrieveNothing, Invoke, Idle, Adopt
<1>4. CASE \/ LookUp(s) \/ FindCreator(s) \/ Construct(s) \/ NameFree(s) \/ StoreName(s)
           \/ Alloc(s) \/ Link(s) \/ Hold(s) \/ Load(s) \/ Cast(s) \/ WrongClass(s)
  BY <1>1, <1>4 DEF LookUp, FindCreator, Construct, NameFree, StoreName, Alloc, Link, Hold, Load,
        Cast, WrongClass
<1> QED
  BY <1>2, <1>3, <1>4 DEF Honest

\* A session that returns: what its client gets is good.
LEMMA IdleGood ==
    ASSUME IInv, Handling, NEW s \in Sessions, Idle(s),
           \A p \in proxies[s] : Good(p)',
           UNCHANGED proxies \/ \E i, o : Adopt(s, i, o) /\ \A c : Good([id |-> i, cls |-> c, obj |-> o])'
    PROVE  GoodSession(s)'
<1>1. /\ at \in [Sessions -> Labels] /\ req \in [Sessions -> Request]
      /\ proxies \in [Sessions -> SUBSET Proxy]
  BY DEF IInv, Shape, Handling
<1>2. at'[s] = "idle" /\ req'[s] = NoRequest
  BY <1>1 DEF Idle, Goto
<1>3. req'[s].proxy.obj = NoObject
  BY <1>2 DEF NoRequest, NoProxy
<1>4. \A p \in proxies'[s] : Good(p)'
  <2>1. CASE UNCHANGED proxies
    BY <2>1
  <2>2. ASSUME NEW i, NEW o, Adopt(s, i, o), \A c : Good([id |-> i, cls |-> c, obj |-> o])'
        PROVE  \A p \in proxies'[s] : Good(p)'
    <3> DEFINE q == [id |-> i, cls |-> req[s].cls, obj |-> o]
    <3>1. proxies'[s] = proxies[s] \cup {q}
      BY <1>1, <2>2 DEF Adopt
    <3>2. PICK c : c = req[s].cls
      OBVIOUS
    <3>3. \A p \in proxies'[s] : p \in proxies[s] \/ p = [id |-> i, cls |-> c, obj |-> o]
      BY <3>1, <3>2
    <3> QED
      BY <2>2, <3>3
  <2> QED
    BY <2>1, <2>2
<1> QED
  BY <1>2, <1>3, <1>4 DEF GoodSession

\* The proxies after any such step.
LEMMA GoodStep ==
    ASSUME Reliable, Untouched', [Next]_vars, Lone'
    PROVE  GoodProxies'
<1> USE DEF At, Goto, heap, local, history
<1>1. /\ IInv /\ Handling /\ Lone /\ GoodProxies
      /\ at \in [Sessions -> Labels] /\ x \in [Sessions -> Objs \cup {NoObject}]
      /\ req \in [Sessions -> Request] /\ proxies \in [Sessions -> SUBSET Proxy]
      /\ newId \in [Sessions -> Nat]
  BY DEF Reliable, Typed, Clean, IInv, Shape, Handling
<1>2. \A p : Good(p) => Good(p)'
  BY StaysGood
<1>3. ASSUME NEW t \in Sessions, at'[t] = at[t], x'[t] = x[t], req'[t] = req[t],
             proxies'[t] = proxies[t]
      PROVE  GoodSession(t)'
  <2>1. PICK p : p = req[t].proxy
    OBVIOUS
  <2>2. PICK q : q = proxies[t]
    OBVIOUS
  <2>3. /\ \A r \in q : Good(r)
        /\ at[t] \in {"load", "cast", "invoke"} => Good(p)
        /\ at[t] \in {"cast", "invoke"} => x[t] = p.obj
        /\ at[t] \notin {"load", "cast", "invoke", "ended"} => p.obj = NoObject
    BY <1>1, <2>1, <2>2 DEF GoodProxies, GoodSession
  <2>4. req'[t].proxy = p /\ proxies'[t] = q
    BY <1>3, <2>1, <2>2
  <2> QED
    BY <1>2, <1>3, <2>3, <2>4 DEF GoodSession
<1>4. ASSUME NEW s \in Sessions, Honest(s), GoodSession(s)' PROVE GoodProxies'
  BY <1>1, <1>3, <1>4, OneSession DEF GoodProxies
<1>5. ASSUME NEW s \in Sessions, Honest(s) PROVE GoodSession(s)'
  <2>1. /\ \A r \in proxies[s] : Good(r) /\ Good(r)'
        /\ at[s] \notin {"load", "cast", "invoke", "ended"} => req[s].proxy.obj = NoObject
    BY <1>1, <1>2 DEF GoodProxies, GoodSession
  <2>2. CASE AskByName(s) \/ AskCreate(s)
    <3>1. at'[s] \in {"lookUp", "retrieve", "findCreator"} /\ UNCHANGED proxies
          /\ req'[s].proxy = NoProxy
      <4>1. \A op, n, c : /\ [NoRequest EXCEPT !.op = op, !.name = n, !.cls = c].proxy = NoProxy
                          /\ [NoRequest EXCEPT !.op = op, !.cls = c].proxy = NoProxy
        BY DEF NoRequest
      <4>2. PICK r, handler :
               Ask(s, r, handler) /\ handler \in {"lookUp", "retrieve", "findCreator"} /\ r.proxy = NoProxy
        <5>1. CASE AskByName(s)
          <6>1. PICK n \in Names, c \in Classes :
                  \/ Ask(s, [NoRequest EXCEPT !.op = "createNamed", !.name = n, !.cls = c], "lookUp")
                  \/ Ask(s, [NoRequest EXCEPT !.op = "retrieve", !.name = n, !.cls = c], "retrieve")
            BY <5>1 DEF AskByName
          <6> DEFINE q1 == [NoRequest EXCEPT !.op = "createNamed", !.name = n, !.cls = c]
                     q2 == [NoRequest EXCEPT !.op = "retrieve", !.name = n, !.cls = c]
          <6>2. q1.proxy = NoProxy /\ q2.proxy = NoProxy
            BY <4>1
          <6>3. Ask(s, q1, "lookUp") \/ Ask(s, q2, "retrieve")
            BY <6>1
          <6> HIDE DEF q1, q2, Ask
          <6> QED
            BY <6>2, <6>3
        <5>2. CASE AskCreate(s)
          BY <4>1, <5>2 DEF AskCreate
        <5> QED
          BY <2>2, <5>1, <5>2
      <4> QED
        BY <1>1, <4>2 DEF Ask
    <3>2. req'[s].proxy.obj = NoObject
      BY <3>1 DEF NoProxy
    <3> QED
      BY <2>1, <3>1, <3>2 DEF GoodSession
  <2>3. CASE AskCall(s)
    <3>1. PICK p \in proxies[s] : Ask(s, [NoRequest EXCEPT !.proxy = p], "load")
      BY <2>3 DEF AskCall
    <3>2. req'[s].proxy = p /\ at'[s] = "load" /\ UNCHANGED proxies
      BY <1>1, <3>1 DEF Ask, NoRequest
    <3> QED
      BY <2>1, <3>2 DEF GoodSession
  <2>4. CASE LookUp(s) \/ FindCreator(s) \/ Construct(s) \/ NameFree(s) \/ StoreName(s) \/ Alloc(s) \/ Link(s)
             \/ Hold(s)
    <3>1. UNCHANGED <<req, proxies>> /\ at[s] \notin {"load", "cast", "invoke", "ended"}
      BY <2>4 DEF LookUp, FindCreator, Construct, NameFree, StoreName, Alloc, Link, Hold
    <3>2. at'[s] \notin {"load", "cast", "invoke", "ended"}
      BY <1>1, <2>4 DEF LookUp, FindCreator, Construct, NameFree, StoreName, Alloc, Link, Hold
    <3> QED
      BY <2>1, <3>1, <3>2 DEF GoodSession
  <2>5. CASE Existing(s)
    <3>1. PICK o, i : o = x[s] /\ i = objId[o]
      OBVIOUS
    <3>2. at[s] = "existing" /\ Idle(s) /\ (UNCHANGED proxies \/ Adopt(s, i, o))
      BY <2>5, <3>1 DEF Existing, IdOf
    <3>3. req[s].name \in DOMAIN table.names /\ o = table.names[req[s].name] /\ Busy(s) /\ ~Making(s)
      BY <3>1, <3>2 DEF Reliable, Clean, NamesKnown, Found, HasName, Busy, Making
    <3>4. \A c : Good([id |-> i, cls |-> c, obj |-> o])
      BY <3>1, <3>3, NamedGood
    <3> QED
      BY <1>1, <1>2, <2>1, <3>2, <3>4, IdleGood
  <2>6. CASE Retrieve(s)
    <3>1. PICK o, i : o = table.names[req[s].name] /\ i = objId[o]
      OBVIOUS
    <3>2. at[s] = "retrieve" /\ Idle(s) /\ Adopt(s, i, o) /\ req[s].name \in DOMAIN table.names
      BY <2>6, <3>1 DEF Retrieve, IdOf, Found, HasName
    <3>3. Busy(s) /\ ~Making(s)
      BY <3>2 DEF Busy, Making
    <3>4. \A c : Good([id |-> i, cls |-> c, obj |-> o])
      BY <3>1, <3>2, <3>3, NamedGood
    <3> QED
      BY <1>1, <1>2, <2>1, <3>2, <3>4, IdleGood
  <2>7. CASE SetId(s)
    <3>1. PICK o, i : o = x[s] /\ i = newId[s]
      OBVIOUS
    <3>2. /\ at[s] = "setId" /\ Idle(s) /\ Adopt(s, i, o) /\ UNCHANGED table
          /\ o \in Objs
      BY <2>7, <3>1 DEF SetId, Reliable, Typed, IInv, Constructed
    <3>3. i \in 1..(table'.ids.size - 1) /\ table'.ids.at[i] = o
      BY <1>1, <3>1, <3>2 DEF Lone
    <3>4. \A t \in Sessions : ~Making(t)'
      BY <1>1, <3>2 DEF Lone, Making, Busy, Idle
    <3>5. ~Unfinished(o)'
      BY <3>4 DEF Unfinished, Making
    <3>6. ASSUME NEW c PROVE Good([id |-> i, cls |-> c, obj |-> o])'
      BY <3>2, <3>3, <3>5 DEF Good
    <3> QED
      BY <1>1, <2>1, <3>2, <3>6, IdleGood
  <2>8. CASE RetrieveNothing(s) \/ Invoke(s)
    <3>1. Idle(s) /\ UNCHANGED proxies
      BY <2>8 DEF RetrieveNothing, Invoke
    <3> QED
      BY <1>1, <2>1, <3>1, IdleGood
  <2>9. CASE Load(s) \/ Cast(s) \/ WrongClass(s)
    <3>1. PICK p : p = req[s].proxy
      OBVIOUS
    <3>2. UNCHANGED <<req, proxies>> /\ at[s] \in {"load", "cast"}
      BY <2>9 DEF Load, Cast, WrongClass
    <3>3. Good(p) /\ Good(p)' /\ (at[s] = "cast" => x[s] = p.obj)
      BY <1>1, <1>2, <3>1, <3>2 DEF GoodProxies, GoodSession
    <3>4. at'[s] \in {"cast", "invoke", "ended"} /\ (at'[s] # "ended" => x'[s] = p.obj)
      <4>1. CASE Load(s)
        BY <1>1, <3>1, <3>3, <4>1 DEF Load, Ptr, Good
      <4>2. CASE Cast(s)
        BY <1>1, <3>3, <4>2 DEF Cast
      <4>3. CASE WrongClass(s)
        BY <1>1, <4>3 DEF WrongClass
      <4> QED
        BY <2>9, <4>1, <4>2, <4>3
    <3>5. req'[s].proxy = p
      BY <3>1, <3>2
    <3> QED
      BY <2>1, <3>2, <3>3, <3>4, <3>5 DEF GoodSession
  <2> QED
    BY <1>5, <2>2, <2>3, <2>4, <2>5, <2>6, <2>7, <2>8, <2>9 DEF Honest, Client
<1>6. ASSUME NEW o \in Servants, NEW n \in Names, Publishes(o, n) PROVE GoodProxies'
  BY <1>3, <1>6 DEF GoodProxies, Publishes, AddServant
<1>7. CASE UNCHANGED vars
  BY <1>3, <1>7 DEF GoodProxies, vars
<1> QED
  BY <1>4, <1>5, <1>6, <1>7, HonestSteps

\* The same after a step.
LEMMA UsedSlotsNext ==
    (TableOK(table) =>
        /\ InUse(table) \subseteq 1..(table.ids.size - 1)
        /\ \A i \in 1..(table.ids.size - 1) : table.ids.at[i] \in Objs => i \in InUse(table))'
<1>1. TableOK(table) =>
        /\ InUse(table) \subseteq 1..(table.ids.size - 1)
        /\ \A i \in 1..(table.ids.size - 1) : table.ids.at[i] \in Objs => i \in InUse(table)
  BY UsedSlots
<1> QED
  BY <1>1, PTL

\* Each pointer is stored once.
LEMMA SlotOnce ==
    ASSUME Lone, Once, NEW i \in 1..(table.ids.size - 1), NEW j \in 1..(table.ids.size - 1),
           table.ids.at[i] \in Objs, table.ids.at[i] = table.ids.at[j]
    PROVE  i = j
<1>1. i \in InUse(table) /\ j \in InUse(table)
  BY UsedSlots DEF Lone
<1> QED
  BY <1>1 DEF Once

\* An object in a slot has the id of that slot, once it is finished.
LEMMA IdsStep ==
    ASSUME Reliable, Untouched', [Next]_vars, Lone'
    PROVE  IdsKnown'
<1>1. /\ IInv /\ Once /\ Lone /\ IdsKnown /\ Handling
      /\ InUse(table) \subseteq 1..(table.ids.size - 1)
      /\ objId \in [Objs -> Nat] /\ \A i \in InUse(table) : table.ids.at[i] \in Objs
  BY UsedSlots DEF Reliable, Typed, Clean, Lone, IInv, Shape
<1>2. ASSUME NEW i \in InUse(table)', table'.ids.at[i] \in Objs
      PROVE  (objId[table.ids.at[i]] = i \/ Unfinished(table.ids.at[i]))'
  <2>1. PICK p \in Objs : p = table'.ids.at[i]
    BY <1>2
  <2>2. i \in InUse(table) /\ table.ids.at[i] = p => objId[p] = i \/ Unfinished(p)
    BY <1>1 DEF IdsKnown
  <2>3. ASSUME NEW s \in Sessions, Honest(s) PROVE objId'[p] = i \/ Unfinished(p)'
    <3>1. CASE i \notin InUse(table)
      <4>1. Link(s) /\ p = x[s]
        BY <1>1, <2>1, <2>3, <3>1, HonestSlots
      <4>2. at'[s] \in {"setId", "hold"} /\ x'[s] = p
        BY <1>1, <4>1 DEF Link, Goto, local, IInv, Shape
      <4> QED
        BY <4>2 DEF Unfinished
    <3>2. CASE i \in InUse(table)
      <4>1. table.ids.at[i] = p
        BY <1>1, <2>1, <2>3, <3>2, HonestSlots
      <4>2. CASE SetId(s) /\ p = x[s]
        <5>1. at[s] = "setId" /\ objId' = [objId EXCEPT ![x[s]] = newId[s]]
          BY <4>2 DEF SetId, At
        <5>2. newId[s] \in 1..(table.ids.size - 1) /\ table.ids.at[newId[s]] = p
          BY <1>1, <4>2, <5>1 DEF Lone
        <5>3. i = newId[s]
          BY <1>1, <3>2, <4>1, <5>2, SlotOnce
        <5> QED
          BY <1>1, <4>2, <5>1, <5>3
      <4>3. CASE ~(SetId(s) /\ p = x[s])
        <5>1. Unfinished(p) => Unfinished(p)'
          BY <1>1, <2>3, <4>3, HonestUnfinished
        <5>2. objId'[p] = objId[p]
          <6>1. CASE SetId(s)
            BY <1>1, <4>3, <6>1 DEF SetId
          <6>2. CASE ~SetId(s)
            BY <2>3, <6>2 DEF Honest, Client, AskByName, AskCreate, AskCall, Ask, LookUp, Existing,
               FindCreator, Construct, NameFree, StoreName, Alloc, Link, Hold, Retrieve, RetrieveNothing,
               Load, Cast, WrongClass, Invoke, heap
          <6> QED
            BY <6>1, <6>2
        <5> QED
          BY <2>2, <3>2, <4>1, <5>1, <5>2
      <4> QED
        BY <4>2, <4>3
    <3> QED
      BY <3>1, <3>2
  <2>4. ASSUME NEW o \in Servants, NEW n \in Names, Publishes(o, n)
        PROVE  objId'[p] = i \/ Unfinished(p)'
    <3>1. UNCHANGED <<at, x>> /\ app[o] = "new"
      BY <2>4 DEF Publishes, AddServant, local
    <3>2. memory[o] = "unused" /\ o \in Objs
      BY <1>1, <3>1, ObjectsAssumption DEF IInv, Served
    <3>3. Unfinished(p)' <=> Unfinished(p)
      BY <3>1, SameUnfinished
    <3>4. CASE i \notin InUse(table)
      <4>1. i = NextId(table.ids) /\ ~Found(n) /\ p = o
        BY <1>1, <2>1, <2>4, <3>4, PublishSlots
      <4>2. objId' = [objId EXCEPT ![o] = NextId(table.ids)]
        BY <2>4, <4>1 DEF Publishes, AddServant
      <4> QED
        BY <1>1, <4>1, <4>2
    <3>5. CASE i \in InUse(table)
      <4>1. table.ids.at[i] = p
        BY <1>1, <2>1, <2>4, <3>5, PublishSlots
      <4>2. i \in 0..(table.ids.size - 1)
        BY <1>1, <3>5 DEF IInv, Shape, Vector
      <4>3. p # o
        BY <3>2, <4>1, <4>2, <1>1 DEF IInv, Constructed
      <4>4. objId'[p] = objId[p]
        BY <1>1, <2>4, <4>3 DEF Publishes, AddServant
      <4> QED
        BY <2>2, <3>3, <3>5, <4>1, <4>4
    <3> QED
      BY <3>4, <3>5
  <2>5. ASSUME UNCHANGED vars PROVE objId'[p] = i \/ Unfinished(p)'
    <3>1. UNCHANGED <<table, objId, at, x>>
      BY <2>5 DEF vars, heap, local
    <3>2. InUse(table)' = InUse(table)
      BY <3>1 DEF InUse
    <3> QED
      BY <1>2, <2>1, <2>2, <3>1, <3>2, SameUnfinished
  <2>6. objId'[p] = i \/ Unfinished(p)'
    BY <2>3, <2>4, <2>5, HonestSteps
  <2> QED
    BY <2>1, <2>6 DEF Unfinished
<1>3. \A i \in 1..(table'.ids.size - 1) : table'.ids.at[i] \in Objs => i \in InUse(table)'
  BY UsedSlotsNext DEF Lone
<1> QED
  BY <1>2, <1>3 DEF IdsKnown

\* No reference that goes is the last one.
LEMMA WholeStep ==
    ASSUME Reliable, Untouched', [Next]_vars
    PROVE  Whole'
<1>1. /\ IInv /\ Lone /\ Exact /\ Whole /\ GoodProxies
      /\ memory \in [Objs -> {"unused", "live", "freed"}]
  BY DEF Reliable, Typed, Clean, IInv, Shape
<1>2. ASSUME NEW s \in Sessions, Honest(s) PROVE Whole'
  <2>1. fault' = fault
    BY <1>2 DEF Honest, Client, AskByName, AskCreate, AskCall, Ask, LookUp, Existing,
        FindCreator, Construct, NameFree, StoreName, Alloc, Link, Hold, SetId, Retrieve,
        RetrieveNothing,
        Load, Cast, WrongClass, Invoke
  <2>2. CASE Construct(s)
    BY <1>1, <2>1, <2>2 DEF Whole, Construct
  <2>3. CASE Retrieve(s)
    <3>1. PICK o : o = table.names[req[s].name]
      OBVIOUS
    <3>2. /\ at[s] = "retrieve" /\ req[s].name \in DOMAIN table.names /\ memory[o] # "freed"
          /\ memory' = [memory EXCEPT ![o] = IF refs[o] = 0 THEN "freed" ELSE @]
      BY <2>3, <3>1 DEF Retrieve, At, Found, HasName
    <3>3. o \in Objs /\ memory[o] = "live"
      BY <1>1, <3>1, <3>2 DEF IInv, Constructed
    <3>4. Creating(o) = {}
      <4>1. \A t \in Creating(o) : t = s
        BY <1>1, <3>2, OneCreates DEF Busy
      <4> QED
        BY <3>2, <4>1 DEF Creating
    <3>5. refs[o] > 0 /\ refs[o] \in Int
      BY <1>1, <3>3, <3>4 DEF Exact, ExactFor, IInv, Shape
    <3> QED
      BY <1>1, <2>1, <3>2, <3>5 DEF Whole
  <2>4. CASE Invoke(s)
    <3>1. PICK o : o = x[s]
      OBVIOUS
    <3>2. /\ at[s] = "invoke" /\ o \in Objs /\ memory[o] = "live"
          /\ memory' = [memory EXCEPT ![o] = IF refs[o] - 1 = 0 THEN "freed" ELSE @]
      BY <1>1, <2>4, <3>1 DEF Invoke, At, Release, RefsAfter, HeldByCall, IInv, Landed
    <3>3. ~Unfinished(o) /\ Stored(o)
      BY <1>1, <3>1, <3>2 DEF GoodProxies, GoodSession, Good, Stored
    <3>4. Creating(o) = {}
      BY <3>3 DEF Creating, Unfinished
    <3>5. HeldBesides(o) >= 1 /\ HeldBesides(o) \in Nat
      BY <3>3, <3>4 DEF HeldBesides, ByApp
    <3>6. Cardinality(Calling(o)) >= 1 /\ Cardinality(Calling(o)) \in Nat
      <4>1. s \in Calling(o)
        BY <3>1, <3>2 DEF Calling
      <4> QED
        BY <4>1, CallingFinite, FS_EmptySet
    <3>7. refs[o] - 1 # 0
      BY <1>1, <3>2, <3>5, <3>6 DEF Exact, ExactFor
    <3> QED
      BY <1>1, <2>1, <3>2, <3>7 DEF Whole
  <2>5. CASE ~Construct(s) /\ ~Retrieve(s) /\ ~Invoke(s)
    <3>1. memory' = memory
      BY <1>2, <2>5 DEF Honest, Client, AskByName, AskCreate, AskCall, Ask, LookUp, Existing,
        FindCreator, NameFree, StoreName, Alloc, Link, Hold, SetId, RetrieveNothing,
        Load, Cast, WrongClass, heap
    <3> QED
      BY <1>1, <2>1, <3>1 DEF Whole
  <2> QED
    BY <2>2, <2>3, <2>4, <2>5
<1>3. ASSUME NEW o \in Servants, NEW n \in Names, Publishes(o, n) PROVE Whole'
  BY <1>1, <1>3 DEF Publishes, AddServant, Whole
<1>4. CASE UNCHANGED vars
  BY <1>1, <1>4 DEF Whole, vars, heap
<1> QED
  BY <1>2, <1>3, <1>4, HonestSteps
-----------------------------------------------------------------------------
(* The names                                                                 *)

\* What NamesKnown says of one session.
NamesOf(s) ==
    /\ at[s] = "existing" => Found(req[s].name) /\ x[s] = table.names[req[s].name]
    /\ at[s] \in {"findCreator", "construct", "insert", "store"} /\ ByName(s) => ~Found(req[s].name)
    /\ Making(s) /\ at[s] \notin {"insert", "store"} /\ ByName(s) => Found(req[s].name)
    /\ Making(s) => \A n \in DOMAIN table.names :
          table.names[n] = x[s] <=>
                    at[s] \notin {"insert", "store"} /\ ByName(s) /\ n = req[s].name

\* An object that has a name, and is stored or about to be, stays so.
Present(o) == Stored(o) \/ \E s \in Sessions : Unstored(s) /\ x[s] = o

\* What has a name is stored, or about to be.
LEMMA PresentStays ==
    ASSUME IInv, Handling, Lone, Lone', NEW s \in Sessions, Honest(s), NEW o \in Objs, Present(o)
    PROVE  Present(o)'
<1> USE DEF At, Goto, heap, local, history
<1>1. at \in [Sessions -> Labels] /\ x \in [Sessions -> Objs \cup {NoObject}]
  BY DEF IInv, Shape
<1>2. CASE Stored(o)
  <2>1. PICK i \in InUse(table) : table.ids.at[i] = o
    BY <1>2, StoredUsed
  <2>2. i \in InUse(table)' /\ table'.ids.at[i] = o
    BY <2>1, HonestSlots
  <2>3. Stored(o)'
    BY <2>2, StoredUsedNext
  <2> QED
    BY <2>3 DEF Present
<1>3. ASSUME NEW t \in Sessions, Unstored(t), x[t] = o PROVE Present(o)'
  <2>1. CASE t # s
    <3>1. at'[t] = at[t] /\ x'[t] = x[t]
      BY <2>1, OneSession
    <3> QED
      BY <1>3, <3>1 DEF Present, Unstored
  <2>2. CASE t = s /\ Link(s)
    <3>1. newId[s] \in InUse(table)' /\ table'.ids.at[newId[s]] = o
      BY <1>3, <2>2, HonestSlots
    <3>2. PICK i : i = newId[s]
      OBVIOUS
    <3>3. Stored(o)'
      BY <3>1, <3>2, StoredUsedNext
    <3> QED
      BY <3>3 DEF Present
  <2>3. CASE t = s /\ ~Link(s)
    <3>1. at[s] \in {"alloc", "link"}
      BY <1>3, <2>3 DEF Unstored
    <3>2. Alloc(s)
      BY <2>3, <3>1 DEF Honest, Client, AskByName, AskCreate, AskCall, Ask, LookUp, Existing,
        FindCreator, Construct, NameFree, StoreName, Link, Hold, SetId, Retrieve, RetrieveNothing,
        Load, Cast, WrongClass, Invoke
    <3>3. at'[s] = "link" /\ x'[s] = x[s]
      BY <1>1, <3>2 DEF Alloc
    <3> QED
      BY <1>3, <2>3, <3>3 DEF Present, Unstored
  <2> QED
    BY <2>1, <2>2, <2>3
<1> QED
  BY <1>2, <1>3 DEF Present

\* What the step means to the session that makes it.
LEMMA OwnNames ==
    ASSUME IInv, Handling, Lone, NEW s \in Sessions, NamesOf(s), Honest(s)
    PROVE  NamesOf(s)'
<1> USE DEF At, Goto, heap, local, history
<1>1. /\ at \in [Sessions -> Labels] /\ x \in [Sessions -> Objs \cup {NoObject}]
      /\ table = [ids |-> table.ids, names |-> table.names]
      /\ req \in [Sessions -> Request]
      /\ \A n \in DOMAIN table.names : table.names[n] \in Objs /\ memory[table.names[n]] # "unused"
  BY DEF IInv, Shape, Handling, Constructed
<1>2. CASE Client(s)
  <2>1. ASSUME NEW r, NEW handler, Ask(s, r, handler),
               \/ handler \in {"lookUp", "retrieve", "load"}
               \/ handler = "findCreator" /\ r.op = "create"
        PROVE  NamesOf(s)'
    BY <1>1, <2>1 DEF Ask, NamesOf, Making, ByName
  <2>2. \A c : [NoRequest EXCEPT !.op = "create", !.cls = c].op = "create"
    BY DEF NoRequest
  <2>3. CASE AskCreate(s)
    <3>1. PICK c \in Classes : Ask(s, [NoRequest EXCEPT !.op = "create", !.cls = c], "findCreator")
      BY <2>3 DEF AskCreate
    <3>2. [NoRequest EXCEPT !.op = "create", !.cls = c].op = "create"
      BY <2>2
    <3> QED
      BY <2>1, <3>1, <3>2
  <2> QED
    BY <1>2, <2>1, <2>3 DEF Client, AskByName, AskCall
<1>3. CASE Existing(s) \/ SetId(s) \/ Retrieve(s) \/ RetrieveNothing(s) \/ Invoke(s)
           \/ Load(s) \/ Cast(s) \/ WrongClass(s)
  <2>1. at'[s] \in {"idle", "cast", "invoke", "ended"}
    BY <1>1, <1>3 DEF Existing, SetId, Retrieve, RetrieveNothing, Invoke, Load, Cast, WrongClass,
                      Idle
  <2> QED
    BY <2>1 DEF NamesOf, Making
<1>4. CASE LookUp(s)
  <2>1. /\ at[s] = "lookUp" /\ UNCHANGED <<table, req>>
        /\ \/ at'[s] = "existing" /\ x'[s] = table.names[req[s].name] /\ Found(req[s].name)
           \/ at'[s] = "findCreator" /\ ~Found(req[s].name)
    BY <1>1, <1>4 DEF LookUp
  <2> QED
    BY <2>1 DEF NamesOf, Making, Found
<1>5. CASE FindCreator(s)
  <2>1. at[s] = "findCreator" /\ at'[s] = "construct" /\ UNCHANGED <<table, req>>
    BY <1>1, <1>5 DEF FindCreator
  <2> QED
    BY <2>1 DEF NamesOf, Making, Found, ByName
<1>6. CASE Construct(s)
  <2>1. /\ at[s] = "construct" /\ UNCHANGED <<table, req>> /\ memory[x'[s]] = "unused"
        /\ at'[s] = IF ByName(s) THEN "insert" ELSE "alloc"
    BY <1>1, <1>6 DEF Construct, ByName
  <2>2. \A n \in DOMAIN table.names : table.names[n] # x'[s]
    BY <1>1, <2>1
  <2> QED
    BY <2>1, <2>2 DEF NamesOf, Making, Found, ByName
<1>7. CASE StoreName(s)
  <2>1. /\ at[s] = "store" /\ at'[s] = "alloc" /\ UNCHANGED <<req, x>>
        /\ table'.names = WithName(table, req[s].name, x[s])
    BY <1>1, <1>7 DEF StoreName
  <2>2. ByName(s) /\ Making(s)
    BY <2>1 DEF Handling, Making
  <2>3. /\ DOMAIN table'.names = DOMAIN table.names \cup {req[s].name}
        /\ table'.names[req[s].name] = x[s]
        /\ \A n \in DOMAIN table.names : n # req[s].name => table'.names[n] = table.names[n]
    BY <2>1 DEF WithName
  <2>4. \A n \in DOMAIN table.names : table.names[n] # x[s]
    BY <2>1, <2>2 DEF NamesOf
  <2>5. \A n \in DOMAIN table'.names : table'.names[n] = x[s] <=> n = req[s].name
    BY <2>3, <2>4
  <2> QED
    BY <2>1, <2>2, <2>3, <2>5 DEF NamesOf, Making, Found, HasName, ByName
<1>8. CASE NameFree(s)
  <2>1. at[s] = "insert" /\ at'[s] = "store" /\ UNCHANGED <<table, req, x>>
    BY <1>1, <1>8 DEF NameFree
  <2> QED
    BY <2>1 DEF NamesOf, Making, Beginning, Found, ByName
<1>9. CASE Alloc(s) \/ Link(s) \/ Hold(s)
  <2>1. /\ at[s] \in {"alloc", "link", "hold"} /\ at'[s] \in {"link", "hold", "setId"}
        /\ UNCHANGED <<req, x>> /\ table'.names = table.names
    BY <1>1, <1>9 DEF Alloc, Link, Hold
  <2> QED
    BY <2>1 DEF NamesOf, Making, Found, HasName, ByName
<1> QED
  BY <1>2, <1>3, <1>4, <1>5, <1>6, <1>7, <1>8, <1>9 DEF Honest

\* The names after any such step.
LEMMA NamesKnownStep ==
    ASSUME Reliable, Untouched', [Next]_vars, Lone'
    PROVE  NamesKnown'
<1> USE DEF At, Goto, heap, local, history
<1>1. /\ IInv /\ Once /\ Lone /\ NamesKnown /\ Handling
      /\ table = [ids |-> table.ids, names |-> table.names]
      /\ at \in [Sessions -> Labels] /\ x \in [Sessions -> Objs \cup {NoObject}]
  BY DEF Reliable, Typed, Clean, IInv, Shape
<1>2. (\A n \in DOMAIN table.names : Present(table.names[n])) /\ \A s \in Sessions : NamesOf(s)
  BY <1>1 DEF NamesKnown, Present, NamesOf
<1>3. \A n \in DOMAIN table.names : table.names[n] \in Objs
  BY <1>1 DEF IInv, Constructed
<1>4. ASSUME (\A n \in DOMAIN table.names : Present(table.names[n]))',
             (\A s \in Sessions : NamesOf(s))'
      PROVE  NamesKnown'
  BY <1>4 DEF NamesKnown, Present, NamesOf
<1>5. ASSUME NEW s \in Sessions, Honest(s) PROVE NamesKnown'
  <2>1. \A o \in Objs : Present(o) => Present(o)'
    BY <1>1, <1>5, PresentStays
  <2>2. CASE StoreName(s)
    <3>1. /\ at[s] = "store" /\ at'[s] = "alloc" /\ UNCHANGED <<req, x>>
          /\ table'.names = WithName(table, req[s].name, x[s])
      BY <1>1, <2>2 DEF StoreName
    <3>2. ASSUME NEW n \in DOMAIN table'.names PROVE Present(table.names[n])'
      <4>1. PICK o : o = table'.names[n]
        OBVIOUS
      <4>2. \/ n \in DOMAIN table.names /\ o = table.names[n]
            \/ o = x[s]
        BY <3>1, <4>1 DEF WithName
      <4>3. o = x[s] => Present(o)'
        BY <3>1 DEF Present, Unstored
      <4>4. Present(o)'
        BY <1>2, <1>3, <2>1, <4>2, <4>3
      <4> QED
        BY <4>1, <4>4 DEF Present
    <3>3. ASSUME NEW t \in Sessions PROVE NamesOf(t)'
      <4>1. CASE t = s
        BY <1>1, <1>2, <1>5, <4>1, OwnNames
      <4>2. CASE t # s
        <5>1. at'[t] = at[t]
          BY <1>1, <1>5, <4>2, OneSession
        <5>2. ~Busy(t)
          BY <1>1, <3>1, <4>2 DEF Lone, Busy
        <5>3. at'[t] \in {"idle", "load", "cast", "invoke", "ended"}
          BY <5>1, <5>2 DEF Busy
        <5> QED
          BY <5>3 DEF NamesOf, Making
      <4> QED
        BY <4>1, <4>2
    <3> QED
      BY <1>4, <3>2, <3>3
  <2>3. CASE ~StoreName(s)
    <3>1. table'.names = table.names
      BY <1>1, <1>5, <2>3 DEF Honest, Client, AskByName, AskCreate, AskCall, Ask, LookUp, Existing,
        FindCreator, Construct, NameFree, Alloc, Link, Hold, SetId, Retrieve, RetrieveNothing,
        Load, Cast, WrongClass, Invoke
    <3>2. ASSUME NEW n \in DOMAIN table'.names PROVE Present(table.names[n])'
      <4>1. PICK o : o = table.names[n]
        OBVIOUS
      <4>2. o \in Objs /\ Present(o) /\ o = table'.names[n]
        BY <1>2, <1>3, <3>1, <4>1
      <4>3. Present(o)'
        BY <2>1, <4>2
      <4> QED
        BY <4>2, <4>3 DEF Present
    <3>3. ASSUME NEW t \in Sessions PROVE NamesOf(t)'
      <4>1. CASE t = s
        BY <1>1, <1>2, <1>5, <4>1, OwnNames
      <4>2. CASE t # s
        <5>1. at'[t] = at[t] /\ x'[t] = x[t] /\ req'[t] = req[t]
          BY <1>1, <1>5, <4>2, OneSession
        <5> QED
          BY <1>2, <3>1, <5>1 DEF NamesOf, Making, Found, HasName, ByName
      <4> QED
        BY <4>1, <4>2
    <3> QED
      BY <1>4, <3>2, <3>3
  <2> QED
    BY <2>2, <2>3
<1>6. ASSUME NEW o \in Servants, NEW n \in Names, Publishes(o, n) PROVE NamesKnown'
  <2>1. UNCHANGED <<at, x, req>> /\ ~Creation
    BY <1>6 DEF Publishes, AddServant
  <2>2. \A s \in Sessions : NamesOf(s)'
    <3>1. \A s \in Sessions : at'[s] \in {"idle", "load", "cast", "invoke", "ended"}
      BY <2>1 DEF Creation
    <3> QED
      BY <3>1 DEF NamesOf, Making
  <2>3. \A p \in Objs : Present(p) => Present(p)'
    <3> SUFFICES ASSUME NEW p \in Objs, Present(p) PROVE Present(p)'
      OBVIOUS
    <3>1. CASE Stored(p)
      <4>1. PICK i \in InUse(table) : table.ids.at[i] = p
        BY <1>1, <3>1, StoredUsed
      <4>2. i \in InUse(table)' /\ table'.ids.at[i] = p
        BY <1>1, <1>6, <4>1, PublishSlots
      <4>3. Stored(p)'
        BY <4>2, StoredUsedNext
      <4> QED
        BY <4>3 DEF Present
    <3>2. CASE ~Stored(p)
      BY <2>1, <3>2 DEF Present, Unstored
    <3> QED
      BY <3>1, <3>2
  <2>4. ASSUME NEW m \in DOMAIN table'.names PROVE Present(table.names[m])'
    <3>1. PICK p : p = table'.names[m]
      OBVIOUS
    <3>2. CASE Found(n)
      <4>1. table' = table
        BY <1>1, <1>6, <3>2, PublishSlots
      <4>2. p \in Objs /\ Present(p)
        BY <1>2, <1>3, <3>1, <4>1
      <4>3. Present(p)'
        BY <2>3, <4>2
      <4> QED
        BY <3>1, <4>3 DEF Present
    <3>3. CASE ~Found(n)
      <4>1. PICK i : i = NextId(table.ids)
        OBVIOUS
      <4>2. i \in InUse(table)' /\ table'.ids.at[i] = o /\ table'.names = WithName(table, n, o)
        BY <1>1, <1>6, <3>3, <4>1, PublishSlots
      <4>3. o \in Objs
        BY ObjectsAssumption
      <4>4. Stored(o)'
        BY <4>2, <4>3, StoredUsedNext
      <4>5. p = o \/ (m \in DOMAIN table.names /\ p = table.names[m])
        BY <3>1, <4>2 DEF WithName
      <4>6. Present(p)'
        <5>1. CASE p = o
          BY <4>4, <5>1 DEF Present
        <5>2. CASE p # o
          BY <1>2, <1>3, <2>3, <4>5, <5>2
        <5> QED
          BY <5>1, <5>2
      <4> QED
        BY <3>1, <4>6 DEF Present
    <3> QED
      BY <3>2, <3>3
  <2> QED
    BY <1>4, <2>2, <2>4
<1>7. CASE UNCHANGED vars
  BY <1>1, <1>7 DEF NamesKnown, Stored, Unstored, Making, Found, HasName, ByName, vars
<1> QED
  BY <1>5, <1>6, <1>7, HonestSteps

\* At the beginning.
LEMMA CleanInit == Init => Clean
<1> SUFFICES ASSUME Init PROVE Clean
  OBVIOUS
<1>1. table.ids.size = 4 /\ \A i \in 0..3 : table.ids.at[i] \in Nat
  BY NewVector DEF Init, NewTable
<1>2. DOMAIN table.names = {}
  BY DEF Init, NewTable
<1>3. Whole /\ NamesKnown
  BY <1>2 DEF Init, Whole, NamesKnown, Making
<1>4. GoodProxies
  BY DEF Init, GoodProxies, GoodSession, NoRequest, NoProxy
<1>5. IdsKnown
  BY <1>1, PointersApart DEF IdsKnown
<1> QED
  BY <1>3, <1>4, <1>5 DEF Clean

\* Clients that misuse nothing, and an application that removes nothing.
Careful == Untouched => Clean

\* What holds until somebody misuses the server or a servant is removed.
LEMMA CarefulInvariance == Spec => []Careful
<1>1. Init => Careful
  BY CleanInit DEF Careful
<1>2. Base /\ Single /\ Careful /\ Single' /\ [Next]_vars => Careful'
  <2> SUFFICES ASSUME Base, Single, Careful, Single', [Next]_vars, Untouched' PROVE Clean'
    BY DEF Careful
  <2>1. Untouched
    BY UntouchedBack
  <2>2. Reliable /\ Lone'
    BY <2>1 DEF Single, Untouched, Reliable, Careful
  <2> QED
    BY <2>2, WholeStep, GoodStep, IdsStep, NamesKnownStep DEF Clean
<1> QED
  BY <1>1, <1>2, BaseInvariance, SingleInvariance, PTL DEF Spec

\* What holds until somebody misuses the server or a servant is removed.
LEMMA ReliableInvariance == Spec => [](Untouched => Reliable)
<1>1. Base /\ Single /\ Careful => (Untouched => Reliable)
  BY DEF Single, Careful, Untouched, Reliable
<1> QED
  BY <1>1, BaseInvariance, SingleInvariance, CarefulInvariance, PTL

\* Every proxy denotes the object it was given for, through every creation and
\* call of the other clients, whatever the vector of ids does meanwhile, short of
\* misuse and until a servant is removed.
THEOREM ProxiesDenote == Spec => []ProxyDenotes
<1>1. ASSUME Untouched => Reliable PROVE ProxyDenotes
  BY <1>1, ObjectsAssumption
  DEF ProxyDenotes, Reliable, Clean, GoodProxies, GoodSession, Good, IsValid, Ptr
<1> QED
  BY <1>1, ReliableInvariance, PTL

\* No assert fails and no freed object is touched, short of misuse and until a
\* servant is removed.
THEOREM Faultless == Spec => []NoFault
<1>1. ASSUME Untouched => Reliable PROVE NoFault
  BY <1>1 DEF NoFault, Reliable, Clean, Whole
<1> QED
  BY <1>1, ReliableInvariance, PTL

\* Whenever no session is adding to the table, the objects known by name are
\* all known by id, short of misuse and until a servant is removed.
THEOREM NamesHaveIds == Spec => []NamesAccounted
<1>1. ASSUME Untouched => Reliable PROVE NamesAccounted
  <2> SUFFICES ASSUME Untouched, \A o \in Objs : Creating(o) = {}, NEW n \in DOMAIN table.names
               PROVE  table.names[n] \in Pointers(table)
    BY DEF NamesAccounted, Accounted
  <2>1. Lone /\ NamesKnown /\ table.names[n] \in Objs
    BY <1>1 DEF Reliable, Clean, Typed, IInv, Constructed
  <2>2. ~\E s \in Sessions : Unstored(s) /\ x[s] = table.names[n]
    BY <2>1 DEF Creating, Unstored
  <2>3. Stored(table.names[n])
    BY <2>1, <2>2 DEF NamesKnown
  <2> QED
    BY <2>1, <2>3, StoredUsed DEF Pointers
<1> QED
  BY <1>1, ReliableInvariance, PTL
-----------------------------------------------------------------------------
(* All the sessions together implement the object service.                   *)

Objects == {o \in Pointers(table) : ~Unfinished(o)}
Known == [n \in Finished |-> table.names[n]]
Holding == [s \in Sessions |-> {p.obj : p \in proxies[s]}]
Meant == [s \in Sessions |-> req[s].proxy.obj]
Running == [s \in Sessions |-> IF at[s] = "invoke" THEN x[s] ELSE NoObject]

\* The service gives s a proxy of o.
Receives(s, o) == Holding' = [Holding EXCEPT ![s] = @ \cup {o}]

\* What the service does, in the terms of the table: nothing ...
LEMMA ServiceStutters ==
    ASSUME UNCHANGED <<Objects, Known, Holding, Meant, Running, Untouched>>
    PROVE  UNCHANGED Service!vars
BY DEF Service!vars, Objects, Known, Holding, Meant, Running

\* ... a creation, without a name and with one ...
LEMMA ServiceCreates ==
    ASSUME NEW s \in Sessions, NEW o \in Objs, o \notin Objects, Objects' = Objects \cup {o},
           Receives(s, o), UNCHANGED <<Known, Meant, Running, Untouched>>
    PROVE  Service!Next
<1>1. Service!Create(s, o)
  BY DEF Service!Create, Service!Exists, Service!Gets, Objects, Known, Holding, Meant, Running,
         Receives
<1> QED
  BY <1>1 DEF Service!Next

LEMMA ServiceCreatesNamed ==
    ASSUME NEW s \in Sessions, NEW o \in Objs, o \notin Objects, Objects' = Objects \cup {o},
           NEW n \in Names, n \notin Finished,
           Known' = [m \in Finished \cup {n} |-> IF m = n THEN o ELSE Known[m]],
           Receives(s, o), UNCHANGED <<Meant, Running, Untouched>>
    PROVE  Service!Next
<1>1. Service!CreateNamed(s, n, o)
  BY DEF Service!CreateNamed, Service!Exists, Service!Named, Service!Gets, Objects, Known,
         Holding, Meant, Running, Receives
<1> QED
  BY <1>1 DEF Service!Next

\* ... a servant ...
LEMMA ServicePublishes ==
    ASSUME NEW o \in Objs, o \notin Objects, Objects' = Objects \cup {o},
           NEW n \in Names, n \notin Finished,
           Known' = [m \in Finished \cup {n} |-> IF m = n THEN o ELSE Known[m]],
           UNCHANGED <<Holding, Meant, Running, Untouched>>
    PROVE  Service!Next
<1>1. Service!Publish(n, o)
  BY DEF Service!Publish, Service!Exists, Service!Named, Objects, Known, Holding, Meant, Running
<1> QED
  BY <1>1 DEF Service!Next

\* ... a look-up ...
LEMMA ServiceFinds ==
    ASSUME NEW s \in Sessions, NEW n \in Names, n \in Finished, Receives(s, Known[n]),
           UNCHANGED <<Objects, Known, Meant, Running, Untouched>>
    PROVE  Service!Next
<1>1. Service!Find(s, n)
  BY DEF Service!Find, Service!Gets, Objects, Known, Holding, Meant, Running, Receives
<1> QED
  BY <1>1 DEF Service!Next

\* ... and a call: asked for, run and returned.
LEMMA ServiceAsks ==
    ASSUME NEW s \in Sessions, Meant[s] = NoObject, NEW o \in Holding[s],
           Meant' = [Meant EXCEPT ![s] = o],
           UNCHANGED <<Objects, Known, Holding, Running, Untouched>>
    PROVE  Service!Next
<1>1. Holding' = [Holding EXCEPT ![s] = Holding[s]]
  BY DEF Holding
<1>2. Service!Ask(s)
  BY <1>1 DEF Service!Ask, Objects, Known, Holding, Meant, Running
<1> QED
  BY <1>2 DEF Service!Next

LEMMA ServiceRuns ==
    ASSUME NEW s \in Sessions, Meant[s] \in Objects, Running[s] = NoObject,
           Running' = [Running EXCEPT ![s] = Meant[s]],
           UNCHANGED <<Objects, Known, Holding, Meant, Untouched>>
    PROVE  Service!Next
<1>1. Service!Run(s)
  BY DEF Service!Run, Objects, Known, Holding, Meant, Running
<1> QED
  BY <1>1 DEF Service!Next

LEMMA ServiceReturns ==
    ASSUME NEW s \in Sessions, Meant' = [Meant EXCEPT ![s] = NoObject],
           Running' = [Running EXCEPT ![s] = NoObject],
           UNCHANGED <<Objects, Known, Holding, Untouched>>
    PROVE  Service!Next
<1>1. Service!Return(s)
  BY DEF Service!Return, Objects, Known, Holding, Meant, Running
<1> QED
  BY <1>1 DEF Service!Next

\* The objects of the service are those stored and finished.
LEMMA ObjectsStored ==
    Lone => Objects = {o \in Objs : Stored(o) /\ ~Unfinished(o)}
<1> SUFFICES ASSUME Lone PROVE Objects = {o \in Objs : Stored(o) /\ ~Unfinished(o)}
  OBVIOUS
<1>1. ASSUME NEW o \in Objects PROVE o \in Objs /\ Stored(o) /\ ~Unfinished(o)
  <2>1. PICK i \in InUse(table) : o = table.ids.at[i]
    BY <1>1 DEF Objects, Pointers
  <2>2. o \in Objs
    BY <2>1 DEF Lone
  <2> QED
    BY <1>1, <2>1, <2>2, StoredUsed DEF Objects
<1>2. ASSUME NEW o \in Objs, Stored(o), ~Unfinished(o) PROVE o \in Objects
  <2>1. PICK i \in InUse(table) : o = table.ids.at[i]
    BY <1>2, StoredUsed
  <2> QED
    BY <1>2, <2>1 DEF Objects, Pointers
<1> QED
  BY <1>1, <1>2

\* The same after a step.
LEMMA ObjectsStoredNext ==
    (Lone => Objects = {o \in Objs : Stored(o) /\ ~Unfinished(o)})'
<1>1. Lone => Objects = {o \in Objs : Stored(o) /\ ~Unfinished(o)}
  BY ObjectsStored
<1> QED
  BY <1>1, PTL

\* What a session stores is what it has constructed.
LEMMA HonestStored ==
    ASSUME IInv, Lone, Lone', NEW s \in Sessions, Honest(s), NEW o \in Objs
    PROVE  /\ Stored(o) => Stored(o)'
           /\ Stored(o)' /\ ~Stored(o) => Link(s) /\ o = x[s]
<1>1. ASSUME Stored(o) PROVE Stored(o)'
  <2>1. PICK i \in InUse(table) : table.ids.at[i] = o
    BY <1>1, StoredUsed
  <2>2. i \in InUse(table)' /\ table'.ids.at[i] = o
    BY <2>1, HonestSlots
  <2> QED
    BY <2>2, StoredUsedNext
<1>2. ASSUME Stored(o)', ~Stored(o) PROVE Link(s) /\ o = x[s]
  <2>1. PICK i \in InUse(table)' : table'.ids.at[i] = o
    BY <1>2, StoredUsedNext
  <2>2. i \notin InUse(table)
    <3>1. i \in InUse(table) => table.ids.at[i] = o
      BY <2>1, HonestSlots
    <3> QED
      BY <1>2, <3>1, StoredUsed
  <2> QED
    BY <2>1, <2>2, HonestSlots
<1> QED
  BY <1>1, <1>2

\* Only its own steps make a session's object unfinished, or finished.
LEMMA SetIdFinishes ==
    ASSUME IInv, Handling, Lone, NEW s \in Sessions, SetId(s)
    PROVE  /\ x[s] \in Objs /\ Stored(x[s]) /\ Unfinished(x[s])
           /\ \A o : o = x[s] => ~Unfinished(o)'
<1>1. /\ at[s] = "setId" /\ newId[s] \in 1..(table.ids.size - 1) /\ table.ids.at[newId[s]] = x[s]
      /\ Idle(s) /\ at' = [at EXCEPT ![s] = "idle"] /\ at \in [Sessions -> Labels]
  BY DEF SetId, At, Lone, Idle, Goto, IInv, Shape
<1>2. x[s] \in Objs
  BY <1>1 DEF IInv, Constructed
<1>3. ASSUME NEW o, o = x[s], Unfinished(o)' PROVE FALSE
  <2>1. PICK t \in Sessions : at'[t] \in {"insert", "store", "alloc", "link", "hold", "setId"}
    BY <1>3 DEF Unfinished
  <2>2. t # s /\ at'[t] = at[t]
    BY <1>1, <2>1
  <2> QED
    BY <1>1, <2>1, <2>2 DEF Lone, Busy
<1> QED
  BY <1>1, <1>2, <1>3 DEF Stored, Unfinished

\* Apart from the last step of a creation, the objects there are stay the same.
LEMMA HonestObjects ==
    ASSUME IInv, Handling, Lone, Lone', NEW s \in Sessions, Honest(s)
    PROVE  /\ ~SetId(s) => Objects' = Objects
           /\ SetId(s) => x[s] \notin Objects /\ Objects' = Objects \cup {x[s]}
<1>1. /\ Objects = {o \in Objs : Stored(o) /\ ~Unfinished(o)}
      /\ Objects' = {o \in Objs : Stored(o)' /\ ~Unfinished(o)'}
  BY ObjectsStored, ObjectsStoredNext
<1>2. ASSUME NEW o \in Objs, Stored(o), ~Unfinished(o) PROVE Stored(o)' /\ ~Unfinished(o)'
  <2>1. memory[o] # "unused"
    <3>1. PICK i \in 1..(table.ids.size - 1) : table.ids.at[i] = o
      BY <1>2 DEF Stored
    <3>2. i \in 0..(table.ids.size - 1)
      BY <3>1 DEF IInv, Shape, Vector
    <3> QED
      BY <3>1, <3>2 DEF IInv, Constructed
  <2> QED
    BY <1>2, <2>1, HonestStored, HonestUnfinished
<1>3. ASSUME NEW o \in Objs, Stored(o)', ~Unfinished(o)', ~(Stored(o) /\ ~Unfinished(o))
      PROVE  SetId(s) /\ o = x[s]
  <2>1. CASE ~Stored(o)
    <3>1. Link(s) /\ o = x[s]
      BY <1>3, <2>1, HonestStored
    <3>2. at'[s] \in {"setId", "hold"} /\ x'[s] = o
      BY <3>1 DEF Link, Goto, local, IInv, Shape
    <3> QED
      BY <1>3, <3>2 DEF Unfinished
  <2>2. CASE Unfinished(o)
    BY <1>3, <2>2, HonestUnfinished
  <2> QED
    BY <1>3, <2>1, <2>2
<1>4. ASSUME SetId(s) PROVE x[s] \in Objs /\ x[s] \notin Objects /\ x[s] \in Objects'
  <2>1. PICK o : o = x[s]
    OBVIOUS
  <2>2. o \in Objs /\ Stored(o) /\ Unfinished(o) /\ ~Unfinished(o)'
    BY <1>4, <2>1, SetIdFinishes
  <2>3. Stored(o)'
    BY <2>2, HonestStored
  <2> QED
    BY <1>1, <2>1, <2>2, <2>3
<1>5. ASSUME ~SetId(s) PROVE Objects' = Objects
  BY <1>1, <1>2, <1>3, <1>5
<1>6. ASSUME SetId(s) PROVE Objects' = Objects \cup {x[s]}
  <2>1. \A o \in Objects : o \in Objects'
    BY <1>1, <1>2
  <2>2. \A o \in Objects' : o \in Objects \/ o = x[s]
    BY <1>1, <1>3
  <2> QED
    BY <1>4, <1>6, <2>1, <2>2
<1> QED
  BY <1>4, <1>5, <1>6

\* Names are given by steps that leave the object unfinished.
LEMMA HonestNames ==
    ASSUME IInv, Handling, Lone, NamesKnown, NEW s \in Sessions, Honest(s), NEW n
    PROVE  /\ n \in DOMAIN table.names => n \in DOMAIN table'.names /\ table'.names[n] = table.names[n]
           /\ n \in DOMAIN table'.names \ DOMAIN table.names =>
                 table'.names[n] \in Objs /\ Unfinished(table.names[n])'
<1>1. /\ table = [ids |-> table.ids, names |-> table.names]
      /\ at \in [Sessions -> Labels]
  BY DEF IInv, Shape
<1>2. CASE StoreName(s)
  <2>1. /\ at[s] = "store" /\ at'[s] = "alloc" /\ x' = x
        /\ table'.names = WithName(table, req[s].name, x[s])
    BY <1>1, <1>2 DEF StoreName, At, Goto, local
  <2>2. req[s].name \notin DOMAIN table.names
    BY <2>1 DEF NamesKnown, Handling, Beginning, Found, HasName
  <2>3. x[s] \in Objs
    BY <2>1 DEF IInv, Constructed
  <2>4. ASSUME n \in DOMAIN table'.names \ DOMAIN table.names
        PROVE  table'.names[n] = x[s]
    BY <2>1, <2>4 DEF WithName
  <2>5. ASSUME n \in DOMAIN table'.names \ DOMAIN table.names
        PROVE  Unfinished(table.names[n])'
    <3>1. x'[s] = table'.names[n] /\ at'[s] = "alloc"
      BY <2>1, <2>4, <2>5
    <3> QED
      BY <3>1 DEF Unfinished
  <2> QED
    BY <2>1, <2>3, <2>4, <2>5, <2>2 DEF WithName
<1>3. CASE ~StoreName(s)
  <2>1. table'.names = table.names
    BY <1>1, <1>3 DEF Honest, Client, AskByName, AskCreate, AskCall, Ask, LookUp, Existing,
        FindCreator, Construct, NameFree, Alloc, Link, Hold, SetId, Retrieve, RetrieveNothing,
        Load, Cast, WrongClass, Invoke
  <2> QED
    BY <2>1
<1> QED
  BY <1>2, <1>3

\* Neither do the names of what is there change.
LEMMA HonestKnown ==
    ASSUME IInv, Handling, Lone, NamesKnown, NEW s \in Sessions, Honest(s)
    PROVE  /\ ~SetId(s) \/ ~ByName(s) => Known' = Known
           /\ SetId(s) /\ ByName(s) =>
                 /\ req[s].name \in Names /\ req[s].name \notin Finished
                 /\ Known' = [m \in Finished \cup {req[s].name} |->
                                  IF m = req[s].name THEN x[s] ELSE Known[m]]
<1>1. \A n \in DOMAIN table.names : table.names[n] \in Objs /\ memory[table.names[n]] # "unused"
  BY DEF IInv, Constructed
<1>2. ASSUME NEW n \in Finished PROVE n \in Finished' /\ table'.names[n] = table.names[n]
  <2>1. PICK o : o = table.names[n]
    OBVIOUS
  <2>2. n \in DOMAIN table.names /\ o \in Objs /\ memory[o] # "unused" /\ ~Unfinished(o)
    BY <1>1, <1>2, <2>1 DEF Finished
  <2>3. n \in DOMAIN table'.names /\ table'.names[n] = o
    BY <2>1, <2>2, HonestNames
  <2>4. ~Unfinished(o)'
    BY <2>2, HonestUnfinished
  <2>5. ~Unfinished(table.names[n])'
    BY <2>3, <2>4 DEF Unfinished
  <2> QED
    BY <2>1, <2>3, <2>5 DEF Finished
<1>3. ASSUME NEW n \in Finished', n \notin Finished
      PROVE  SetId(s) /\ n \in DOMAIN table.names /\ table.names[n] = x[s]
  <2>1. n \in DOMAIN table'.names /\ ~Unfinished(table.names[n])'
    BY <1>3 DEF Finished
  <2>2. n \in DOMAIN table.names /\ table'.names[n] = table.names[n]
    BY <2>1, HonestNames
  <2>3. PICK o : o = table.names[n]
    OBVIOUS
  <2>4. ~Unfinished(o)'
    BY <2>1, <2>2, <2>3 DEF Unfinished
  <2>5. Unfinished(o) /\ o \in Objs
    BY <1>1, <1>3, <2>2, <2>3 DEF Finished
  <2> QED
    BY <2>2, <2>3, <2>4, <2>5, HonestUnfinished
<1>4. ASSUME Finished' = Finished PROVE Known' = Known
  BY <1>2, <1>4 DEF Known
<1>5. CASE ~SetId(s)
  <2>1. Finished' = Finished
    BY <1>2, <1>3, <1>5
  <2> QED
    BY <1>4, <1>5, <2>1
<1>6. CASE SetId(s)
  <2>1. Making(s) /\ at[s] = "setId" /\ Busy(s)
    BY <1>6 DEF SetId, At, Making, Busy
  <2>2. \A n \in DOMAIN table.names : table.names[n] = x[s] <=> ByName(s) /\ n = req[s].name
    BY <2>1 DEF NamesKnown
  <2>3. CASE ~ByName(s)
    <3>1. Finished' = Finished
      BY <1>2, <1>3, <2>2, <2>3
    <3> QED
      BY <1>4, <2>3, <3>1
  <2>4. CASE ByName(s)
    <3> DEFINE m == req[s].name
    <3>1. m \in DOMAIN table.names /\ m \in Names /\ table.names[m] = x[s]
      BY <2>1, <2>2, <2>4 DEF NamesKnown, Found, HasName, Handling
    <3>2. x[s] \in Objs /\ Unfinished(x[s]) /\ \A o : o = x[s] => ~Unfinished(o)'
      BY <1>6, SetIdFinishes
    <3>3. table'.names = table.names
      BY <1>6 DEF SetId
    <3>4. m \notin Finished
      BY <3>1, <3>2 DEF Finished
    <3> HIDE DEF m
    <3>5. m \in Finished'
      <4>1. PICK o : o = x[s]
        OBVIOUS
      <4>2. ~Unfinished(o)' /\ table'.names[m] = o
        BY <3>1, <3>2, <3>3, <4>1
      <4> QED
        BY <3>1, <3>3, <4>2 DEF Finished, Unfinished
    <3>6. Finished' = Finished \cup {m}
      <4>1. \A n \in Finished' : n \in Finished \/ n = m
        BY <1>3, <2>2, <2>4 DEF m
      <4> QED
        BY <1>2, <3>5, <4>1
    <3>7. Known' = [n \in Finished \cup {m} |-> IF n = m THEN x[s] ELSE Known[n]]
      <4>1. Known' = [n \in Finished \cup {m} |-> table'.names[n]]
        BY <3>6 DEF Known
      <4>2. \A n \in Finished \cup {m} : table'.names[n] = IF n = m THEN x[s] ELSE Known[n]
        BY <3>1, <3>3 DEF Known
      <4> QED
        BY <4>1, <4>2
    <3> QED
      BY <1>6, <2>4, <3>1, <3>4, <3>7 DEF m
  <2> QED
    BY <2>3, <2>4, <1>6
<1> QED
  BY <1>5, <1>6

\* A client keeps a proxy.
LEMMA AdoptReceives ==
    ASSUME Handling, NEW s \in Sessions, NEW id, NEW o, Adopt(s, id, o)
    PROVE  Receives(s, o)
<1>1. proxies \in [Sessions -> SUBSET Proxy]
  BY DEF Handling
<1> DEFINE r == [id |-> id, cls |-> req[s].cls, obj |-> o]
<1>2. r.obj = o /\ proxies' = [proxies EXCEPT ![s] = @ \cup {r}]
  BY DEF Adopt
<1> HIDE DEF r
<1>3. \A t \in Sessions : proxies'[t] = IF t = s THEN proxies[t] \cup {r} ELSE proxies[t]
  BY <1>1, <1>2
<1>4. \A t \in Sessions : Holding'[t] = IF t = s THEN Holding[t] \cup {o} ELSE Holding[t]
  <2> SUFFICES ASSUME NEW t \in Sessions
               PROVE  Holding'[t] = IF t = s THEN Holding[t] \cup {o} ELSE Holding[t]
    OBVIOUS
  <2>1. Holding'[t] = {p.obj : p \in proxies'[t]} /\ Holding[t] = {p.obj : p \in proxies[t]}
    BY DEF Holding
  <2>2. CASE t = s
    <3>1. proxies'[t] = proxies[t] \cup {r}
      BY <1>3, <2>2
    <3> QED
      BY <1>2, <2>1, <2>2, <3>1
  <2>3. CASE t # s
    BY <1>3, <2>1, <2>3
  <2> QED
    BY <2>2, <2>3
<1>5. Holding = [t \in Sessions |-> Holding[t]] /\ Holding' = [t \in Sessions |-> Holding'[t]]
  BY DEF Holding
<1> QED
  BY <1>4, <1>5 DEF Receives

\* A handler that runs no method, and its end.
LEMMA QuietRunning ==
    ASSUME Shape, NEW s \in Sessions, NEW l, at' = [at EXCEPT ![s] = l],
           at[s] # "invoke", l # "invoke", \A t \in Sessions \ {s} : x'[t] = x[t]
    PROVE  Running' = Running
<1>1. \A t \in Sessions : (IF at'[t] = "invoke" THEN x'[t] ELSE NoObject)
                           = (IF at[t] = "invoke" THEN x[t] ELSE NoObject)
  BY DEF Shape
<1> QED
  BY <1>1 DEF Running

\* A handler that runs for no call.
LEMMA QuietMeant ==
    ASSUME \A t \in Sessions : req'[t].proxy.obj = req[t].proxy.obj
    PROVE  Meant' = Meant
BY DEF Meant

\* The end of a handler that was asked by name or class.
LEMMA IdleQuiet ==
    ASSUME Shape, Handling, GoodProxies, NEW s \in Sessions, Idle(s),
           at[s] \notin {"load", "cast", "invoke", "ended"}
    PROVE  UNCHANGED <<Meant, Running>>
<1>1. /\ at' = [at EXCEPT ![s] = "idle"] /\ req' = [req EXCEPT ![s] = NoRequest]
      /\ x' = [x EXCEPT ![s] = NoObject]
  BY DEF Idle, Goto
<1>2. x \in [Sessions -> Objs \cup {NoObject}] /\ req \in [Sessions -> Request]
  BY DEF Shape, Handling
<1>3. NoRequest.proxy.obj = NoObject /\ req[s].proxy.obj = NoObject
  BY DEF NoRequest, NoProxy, GoodProxies, GoodSession
<1>4. \A t \in Sessions : req'[t].proxy.obj = req[t].proxy.obj
  BY <1>1, <1>2, <1>3
<1>5. \A t \in Sessions \ {s} : x'[t] = x[t]
  BY <1>1, <1>2
<1> QED
  BY <1>1, <1>4, <1>5, QuietMeant, QuietRunning

\* The last step of a creation is the creation.
LEMMA SetIdImplements ==
    ASSUME Reliable, Lone', UNCHANGED Untouched, NEW s \in Sessions, SetId(s)
    PROVE  Service!Next
<1>1. IInv /\ Shape /\ Handling /\ Lone /\ NamesKnown /\ GoodProxies /\ Honest(s)
  BY DEF Reliable, Typed, Clean, IInv, Honest
<1>2. at[s] = "setId" /\ Idle(s) /\ Adopt(s, newId[s], x[s])
  BY DEF SetId, At
<1>3. UNCHANGED <<Meant, Running>> /\ Receives(s, x[s])
  BY <1>1, <1>2, IdleQuiet, AdoptReceives
<1>4. x[s] \in Objs /\ x[s] \notin Objects /\ Objects' = Objects \cup {x[s]}
  BY <1>1, HonestObjects, SetIdFinishes
<1>5. CASE ByName(s)
  <2> DEFINE n == req[s].name
  <2>1. /\ n \in Names /\ n \notin Finished
        /\ Known' = [m \in Finished \cup {n} |-> IF m = n THEN x[s] ELSE Known[m]]
    BY <1>1, <1>5, HonestKnown
  <2> HIDE DEF n
  <2> QED
    BY <1>3, <1>4, <2>1, ServiceCreatesNamed
<1>6. CASE ~ByName(s)
  <2>1. Known' = Known
    BY <1>1, <1>6, HonestKnown
  <2> QED
    BY <1>3, <1>4, <2>1, ServiceCreates
<1> QED
  BY <1>5, <1>6

\* A name that is found is that of a finished object.
LEMMA FindImplements ==
    ASSUME Reliable, Lone', UNCHANGED Untouched, NEW s \in Sessions, Existing(s) \/ Retrieve(s)
    PROVE  Service!Next \/ UNCHANGED Service!vars
<1>1. IInv /\ Shape /\ Handling /\ Lone /\ NamesKnown /\ GoodProxies /\ Honest(s) /\ ~SetId(s)
  BY DEF Reliable, Typed, Clean, IInv, Honest, Existing, Retrieve, SetId, At
<1>2. at[s] \in {"existing", "retrieve"} /\ Idle(s) /\ Busy(s) /\ ~Making(s)
  BY DEF Existing, Retrieve, At, Busy, Making
<1>3. UNCHANGED <<Objects, Known, Meant, Running>>
  BY <1>1, <1>2, IdleQuiet, HonestObjects, HonestKnown
<1>4. CASE UNCHANGED proxies
  <2>1. Holding' = Holding
    BY <1>4 DEF Holding
  <2> QED
    BY <1>3, <2>1, ServiceStutters
<1>5. CASE ~UNCHANGED proxies
  <2> DEFINE n == req[s].name
  <2>1. n \in DOMAIN table.names /\ n \in Names
    BY <1>1, <1>2 DEF NamesKnown, Found, HasName, Handling, Retrieve, Existing, At
  <2>2. Adopt(s, IdOf(table.names[n]), table.names[n])
    <3>1. CASE Existing(s)
      <4>1. x[s] = table.names[n]
        BY <1>1, <3>1 DEF NamesKnown, Existing, At
      <4>2. Adopt(s, IdOf(x[s]), x[s])
        BY <1>5, <3>1 DEF Existing
      <4> QED
        BY <4>1, <4>2
    <3>2. CASE Retrieve(s)
      BY <3>2 DEF Retrieve
    <3> QED
      BY <3>1, <3>2
  <2> HIDE DEF n
  <2>3. PICK o, id : o = table.names[n] /\ id = IdOf(o)
    OBVIOUS
  <2>4. ~Unfinished(o)
    BY <1>2, <2>1, <2>3, NamedGood
  <2>5. n \in Finished /\ Known[n] = o
    BY <2>1, <2>3, <2>4 DEF Finished, Known, Unfinished
  <2>6. Adopt(s, id, o)
    BY <2>2, <2>3
  <2>7. Receives(s, Known[n])
    BY <1>1, <2>5, <2>6, AdoptReceives
  <2> QED
    BY <1>3, <2>1, <2>5, <2>7, ServiceFinds
<1> QED
  BY <1>4, <1>5

\* The steps that nobody sees.
LEMMA QuietImplements ==
    ASSUME Reliable, Lone', UNCHANGED Untouched, NEW s \in Sessions,
           \/ LookUp(s) \/ FindCreator(s) \/ Construct(s) \/ NameFree(s) \/ StoreName(s)
           \/ Alloc(s) \/ Link(s) \/ Hold(s) \/ Load(s) \/ WrongClass(s)
    PROVE  UNCHANGED Service!vars
<1>1. IInv /\ Shape /\ Handling /\ Lone /\ NamesKnown /\ Honest(s) /\ ~SetId(s)
  BY DEF Reliable, Typed, Clean, IInv, Honest, LookUp, FindCreator, Construct, NameFree, StoreName, Alloc,
         Link, Hold, Load, WrongClass, SetId, At
<1>2. UNCHANGED <<Objects, Known>>
  BY <1>1, HonestObjects, HonestKnown
<1>3. UNCHANGED <<req, proxies>> /\ at[s] # "invoke"
  BY DEF LookUp, FindCreator, Construct, NameFree, StoreName, Alloc, Link, Hold, Load, WrongClass,
         At, local
<1>4. PICK l : l # "invoke" /\ at' = [at EXCEPT ![s] = l]
  <2>1. CASE LookUp(s)
    BY <2>1 DEF LookUp, Goto
  <2>2. CASE ~LookUp(s)
    BY <2>2 DEF FindCreator, Construct, NameFree, StoreName, Alloc, Link, Hold, Load, WrongClass, Goto
  <2> QED
    BY <2>1, <2>2
<1>5. \A t \in Sessions \ {s} : x'[t] = x[t]
  BY <1>1, OneSession
<1>6. UNCHANGED <<Meant, Running, Holding>>
  BY <1>1, <1>3, <1>4, <1>5, QuietMeant, QuietRunning DEF Holding
<1> QED
  BY <1>2, <1>6, ServiceStutters

\* A look-up that finds nothing is seen by nobody.
LEMMA NothingImplements ==
    ASSUME Reliable, Lone', UNCHANGED Untouched, NEW s \in Sessions, RetrieveNothing(s)
    PROVE  UNCHANGED Service!vars
<1>1. IInv /\ Shape /\ Handling /\ Lone /\ NamesKnown /\ GoodProxies /\ Honest(s) /\ ~SetId(s)
  BY DEF Reliable, Typed, Clean, IInv, Honest, RetrieveNothing, SetId, At
<1>2. at[s] = "retrieve" /\ Idle(s) /\ proxies' = proxies
  BY DEF RetrieveNothing, At
<1>3. UNCHANGED <<Objects, Known, Meant, Running>>
  BY <1>1, <1>2, IdleQuiet, HonestObjects, HonestKnown
<1>4. Holding' = Holding
  BY <1>2 DEF Holding
<1> QED
  BY <1>3, <1>4, ServiceStutters

\* Of the requests the service knows the calls.
LEMMA AskImplements ==
    ASSUME Reliable, Lone', UNCHANGED Untouched, NEW s \in Sessions, Client(s)
    PROVE  Service!Next \/ UNCHANGED Service!vars
<1>1. IInv /\ Shape /\ Handling /\ Lone /\ NamesKnown /\ GoodProxies /\ Honest(s)
  BY DEF Reliable, Typed, Clean, IInv, Honest
<1>2. ASSUME NEW r, NEW l, Ask(s, r, l), l # "invoke"
      PROVE  /\ UNCHANGED <<Objects, Known, Holding, Running>> /\ req[s].proxy.obj = NoObject
             /\ req' = [req EXCEPT ![s] = r] /\ req \in [Sessions -> Request]
  <2>1. /\ at[s] = "idle" /\ at' = [at EXCEPT ![s] = l] /\ req' = [req EXCEPT ![s] = r]
        /\ UNCHANGED <<x, proxies>>
    BY <1>2 DEF Ask, At, Goto
  <2>2. ~SetId(s)
    BY <2>1 DEF SetId, At
  <2>3. UNCHANGED <<Objects, Known>>
    BY <1>1, <2>2, HonestObjects, HonestKnown
  <2>4. Running' = Running
    BY <1>1, <1>2, <2>1, QuietRunning
  <2>5. Holding' = Holding
    BY <2>1 DEF Holding
  <2>6. req[s].proxy.obj = NoObject
    BY <1>1, <2>1 DEF GoodProxies, GoodSession
  <2> QED
    BY <1>1, <2>1, <2>3, <2>4, <2>5, <2>6 DEF Handling
<1>3. ASSUME NEW r, NEW l, Ask(s, r, l), l # "invoke", r.proxy = NoProxy
      PROVE  UNCHANGED Service!vars
  <2>1. \A t \in Sessions : req'[t].proxy.obj = req[t].proxy.obj
    BY <1>2, <1>3 DEF NoProxy
  <2> QED
    BY <1>2, <1>3, <2>1, QuietMeant, ServiceStutters
<1>4. CASE AskByName(s) \/ AskCreate(s)
  <2>1. \A n \in Names, c \in Classes, op \in Ops :
          /\ [NoRequest EXCEPT !.op = op, !.name = n, !.cls = c].proxy = NoProxy
          /\ [NoRequest EXCEPT !.op = op, !.cls = c].proxy = NoProxy
    BY DEF NoRequest
  <2>2. PICK r, l : Ask(s, r, l) /\ l \in {"lookUp", "retrieve", "findCreator"} /\ r.proxy = NoProxy
    <3>1. CASE AskByName(s)
      <4>1. PICK n \in Names, c \in Classes :
              \/ Ask(s, [NoRequest EXCEPT !.op = "createNamed", !.name = n, !.cls = c], "lookUp")
              \/ Ask(s, [NoRequest EXCEPT !.op = "retrieve", !.name = n, !.cls = c], "retrieve")
        BY <3>1 DEF AskByName
      <4> QED
        BY <2>1, <4>1 DEF Ops
    <3>2. CASE AskCreate(s)
      <4>1. PICK c \in Classes : Ask(s, [NoRequest EXCEPT !.op = "create", !.cls = c], "findCreator")
        BY <3>2 DEF AskCreate
      <4>2. [NoRequest EXCEPT !.op = "create", !.cls = c].proxy = NoProxy
        BY DEF NoRequest
      <4> QED
        BY <4>1, <4>2
    <3> QED
      BY <1>4, <3>1, <3>2
  <2> QED
    BY <1>3, <2>2
<1>5. CASE AskCall(s)
  <2>1. PICK p \in proxies[s] : Ask(s, [NoRequest EXCEPT !.proxy = p], "load")
    BY <1>5 DEF AskCall
  <2> DEFINE r == [NoRequest EXCEPT !.proxy = p]
  <2>2. r.proxy = p
    BY DEF NoRequest
  <2>3. Ask(s, r, "load")
    BY <2>1
  <2> HIDE DEF r
  <2>4. \A t \in Sessions : req'[t].proxy.obj = IF t = s THEN p.obj ELSE req[t].proxy.obj
    BY <1>2, <2>2, <2>3
  <2>5. Meant' = [Meant EXCEPT ![s] = p.obj] /\ Meant[s] = NoObject
    BY <1>2, <2>3, <2>4 DEF Meant
  <2>6. p.obj \in Holding[s]
    BY DEF Holding
  <2>7. UNCHANGED <<Objects, Known, Holding, Running>>
    BY <1>2, <2>3
  <2> QED
    BY <2>5, <2>6, <2>7, ServiceAsks
<1> QED
  BY <1>4, <1>5 DEF Client

\* A call runs on the object that its client means ...
LEMMA CastImplements ==
    ASSUME Reliable, Lone', UNCHANGED Untouched, NEW s \in Sessions, Cast(s)
    PROVE  Service!Next
<1>1. IInv /\ Shape /\ Handling /\ Lone /\ NamesKnown /\ GoodProxies /\ Honest(s) /\ ~SetId(s)
  BY DEF Reliable, Typed, Clean, IInv, Honest, Cast, SetId, At
<1>2. at[s] = "cast" /\ at' = [at EXCEPT ![s] = "invoke"] /\ UNCHANGED <<x, req, proxies>>
  BY DEF Cast, At, Goto, local
<1>3. UNCHANGED <<Objects, Known, Meant, Holding>>
  BY <1>1, <1>2, HonestObjects, HonestKnown DEF Meant, Holding
<1>4. x[s] = req[s].proxy.obj /\ Good(req[s].proxy) /\ Meant[s] = x[s]
  BY <1>1, <1>2 DEF GoodProxies, GoodSession, Meant
<1>5. Meant[s] \in Objects
  <2>1. Objects = {o \in Objs : Stored(o) /\ ~Unfinished(o)}
    BY <1>1, ObjectsStored
  <2>2. Stored(x[s]) /\ ~Unfinished(x[s]) /\ x[s] \in Objs
    BY <1>4 DEF Good, Stored
  <2> QED
    BY <1>4, <2>1, <2>2
<1>6. Running[s] = NoObject /\ Running' = [Running EXCEPT ![s] = Meant[s]]
  <2>1. \A t \in Sessions : (IF at'[t] = "invoke" THEN x'[t] ELSE NoObject)
                             = IF t = s THEN x[s] ELSE IF at[t] = "invoke" THEN x[t] ELSE NoObject
    BY <1>1, <1>2 DEF Shape
  <2> QED
    BY <1>2, <1>4, <2>1 DEF Running
<1> QED
  BY <1>3, <1>5, <1>6, ServiceRuns

\* ... and returns.
LEMMA InvokeImplements ==
    ASSUME Reliable, Lone', UNCHANGED Untouched, NEW s \in Sessions, Invoke(s)
    PROVE  Service!Next
<1>1. IInv /\ Shape /\ Handling /\ Lone /\ NamesKnown /\ Honest(s) /\ ~SetId(s)
  BY DEF Reliable, Typed, Clean, IInv, Honest, Invoke, SetId, At
<1>2. /\ at' = [at EXCEPT ![s] = "idle"] /\ proxies' = proxies
      /\ req' = [req EXCEPT ![s] = NoRequest] /\ x' = [x EXCEPT ![s] = NoObject]
  BY DEF Invoke, Idle, Goto
<1>3. UNCHANGED <<Objects, Known, Holding>>
  BY <1>1, <1>2, HonestObjects, HonestKnown DEF Holding
<1>4. NoRequest.proxy.obj = NoObject
  BY DEF NoRequest, NoProxy
<1>5. Meant' = [Meant EXCEPT ![s] = NoObject]
  <2>1. \A t \in Sessions : req'[t].proxy.obj = IF t = s THEN NoObject ELSE req[t].proxy.obj
    BY <1>1, <1>2, <1>4 DEF Handling
  <2> QED
    BY <2>1 DEF Meant
<1>6. Running' = [Running EXCEPT ![s] = NoObject]
  <2>1. \A t \in Sessions : (IF at'[t] = "invoke" THEN x'[t] ELSE NoObject)
             = IF t = s THEN NoObject ELSE IF at[t] = "invoke" THEN x[t] ELSE NoObject
    BY <1>1, <1>2 DEF Shape
  <2> QED
    BY <2>1 DEF Running
<1> QED
  BY <1>3, <1>5, <1>6, ServiceReturns

\* A servant is there, under its name, in one step.
LEMMA PublishImplements ==
    ASSUME Reliable, Lone', UNCHANGED Untouched, NEW o \in Servants, NEW n \in Names,
           Publishes(o, n)
    PROVE  Service!Next \/ UNCHANGED Service!vars
<1>1. IInv /\ Lone /\ o \in Objs
  BY ObjectsAssumption DEF Reliable, Typed
<1>2. /\ UNCHANGED <<at, x, req, proxies>> /\ ~Creation /\ app[o] = "new" /\ memory[o] = "unused"
  BY <1>1 DEF Publishes, AddServant, local, IInv, Served
<1>3. UNCHANGED <<Holding, Meant, Running>>
  BY <1>2 DEF Holding, Meant, Running
<1>4. (\A p : ~Unfinished(p)) /\ \A p : ~Unfinished(p)'
  BY <1>2 DEF Unfinished, Creation
<1>5. Finished = DOMAIN table.names /\ Finished' = DOMAIN table'.names
  BY <1>2, <1>4 DEF Finished, Unfinished, Creation
<1>6. /\ Objects = {p \in Objs : Stored(p)}
      /\ Objects' = {p \in Objs : Stored(p)'}
  BY <1>1, <1>4, ObjectsStored, ObjectsStoredNext
<1>7. CASE Found(n)
  <2>1. table' = table
    BY <1>1, <1>7, PublishSlots
  <2>2. UNCHANGED <<Objects, Known>>
    BY <1>5, <1>6, <2>1 DEF Known, Stored
  <2> QED
    BY <1>3, <2>2, ServiceStutters
<1>8. CASE ~Found(n)
  <2>1. PICK k : k = NextId(table.ids)
    OBVIOUS
  <2>2. /\ k \in InUse(table)' /\ k \notin InUse(table) /\ table'.ids.at[k] = o
        /\ table'.names = WithName(table, n, o)
        /\ \A i \in InUse(table) : i \in InUse(table)' /\ table'.ids.at[i] = table.ids.at[i]
        /\ \A i \in InUse(table)' : i \notin InUse(table) => i = k
    BY <1>1, <1>8, <2>1, PublishSlots
  <2>3. \A p \in Objs : Stored(p)' <=> Stored(p) \/ p = o
    BY <1>1, <2>2, StoredUsed, StoredUsedNext
  <2>4. ~Stored(o)
    <3>1. ASSUME NEW i \in 1..(table.ids.size - 1) PROVE table.ids.at[i] # o
      <4>1. i \in 0..(table.ids.size - 1)
        BY <1>1 DEF IInv, Shape, Vector
      <4> QED
        BY <1>1, <1>2, <4>1 DEF IInv, Constructed
    <3> QED
      BY <3>1 DEF Stored
  <2>5. o \notin Objects /\ Objects' = Objects \cup {o}
    BY <1>1, <1>6, <2>3, <2>4
  <2>6. n \notin Finished /\ Known' = [m \in Finished \cup {n} |-> IF m = n THEN o ELSE Known[m]]
    BY <1>5, <1>8, <2>2 DEF Found, HasName, Known, WithName
  <2> QED
    BY <1>1, <1>3, <2>5, <2>6, ServicePublishes
<1> QED
  BY <1>7, <1>8

\* Stuttering.
LEMMA SameImplements ==
    ASSUME UNCHANGED vars
    PROVE  UNCHANGED Service!vars
<1>1. UNCHANGED <<table, at, x, req, proxies, app, misuse>>
  BY DEF vars, local, history
<1>2. UNCHANGED <<Objects, Known, Holding, Meant, Running, Untouched>>
  BY <1>1 DEF Objects, Known, Holding, Meant, Running, Untouched, Finished, Unfinished, Pointers,
              InUse
<1> QED
  BY <1>2, ServiceStutters

\* All the clients together see the object service, as long as nothing is
\* misused and no servant removed: the steps of a creation in progress show
\* nowhere.
THEOREM Implements == Spec => ImplementsService
<1>1. Init => Service!Init
  <2> SUFFICES ASSUME Init PROVE Service!Init
    OBVIOUS
  <2>1. Lone /\ (\A i \in 1..(table.ids.size - 1) : table.ids.at[i] \in Nat)
    BY LoneInit, NewVector DEF Init, NewTable
  <2>2. Objects = {}
    BY <2>1, ObjectsStored, PointersApart DEF Stored
  <2>3. DOMAIN table.names = {}
    BY DEF Init, NewTable
  <2>4. Known = [n \in {} |-> NoObject]
    BY <2>3 DEF Known, Finished
  <2>5. Untouched = TRUE
    BY DEF Init, Untouched
  <2>6. NoRequest.proxy.obj = NoObject
    BY DEF NoRequest, NoProxy
  <2>7. /\ \A s \in Sessions : {p.obj : p \in proxies[s]} = {}
        /\ \A s \in Sessions : req[s].proxy.obj = NoObject
        /\ \A s \in Sessions : (IF at[s] = "invoke" THEN x[s] ELSE NoObject) = NoObject
    BY <2>6 DEF Init
  <2> QED
    BY <2>2, <2>4, <2>5, <2>7 DEF Service!Init, Objects, Known
<1>2. /\ Base /\ (Untouched => Reliable)
      /\ Single'
      /\ [Next]_vars
      => [Service!Next]_(Service!vars)
  <2> SUFFICES ASSUME Base, Untouched => Reliable, Single', [Next]_vars
               PROVE  Service!Next \/ UNCHANGED Service!vars
    OBVIOUS
  <2>1. CASE ~Untouched'
    BY <2>1 DEF Service!Next, Service!Anything
  <2>2. CASE UNCHANGED vars
    BY <2>2, SameImplements
  <2>3. CASE Untouched' /\ ~UNCHANGED vars
    <3>1. "overlap" \notin misuse' /\ Lone'
      BY <2>3 DEF Untouched, Single
    <3>2. Reliable /\ Untouched
      <4>1. Untouched
        BY <2>3, UntouchedBack
      <4> QED
        BY <4>1
    <3>3. UNCHANGED Untouched
      BY <2>3, <3>2
    <3>4. ASSUME NEW s \in Sessions, Honest(s) PROVE Service!Next \/ UNCHANGED Service!vars
      BY <3>1, <3>2, <3>3, <3>4, SetIdImplements, FindImplements, QuietImplements,
         NothingImplements, AskImplements, CastImplements, InvokeImplements DEF Honest
    <3> QED
      BY <2>3, <3>1, <3>2, <3>3, <3>4, HonestSteps, PublishImplements
  <2> QED
    BY <2>1, <2>2, <2>3
<1> QED
  BY <1>1, <1>2, BaseInvariance, ReliableInvariance, SingleInvariance, PTL
  DEF ImplementsService, Service!Spec, Spec
=============================================================================
