------------------------ MODULE SessionObjectsProofs ------------------------
(***************************************************************************)
(* What holds of the objects of a session for any number of objects, names *)
(* and requests, and that its handlers implement the object service.       *)
(***************************************************************************)
EXTENDS SessionObjects, ObjectTableProofs

\* The table: its ids in use, each with the session or an object that is alive
\* and knows the id.
TableInv ==
    /\ TableOK(table)
    /\ 1 \in InUse(table) /\ Ptr(table, 1) = Self
    /\ \A id \in InUse(table) :
          IF id = 1 THEN Ptr(table, id) = Self
          ELSE /\ Ptr(table, id) \in Objs
               /\ memory[Ptr(table, id)] = "live"
               /\ objId[Ptr(table, id)] = id
    /\ \A o \in Objs : memory[o] = "live" =>
          objId[o] \in InUse(table) /\ Ptr(table, objId[o]) = o /\ refs[o] = 1

\* Every request may take one id, and the vector doubles when they are all taken.
Creating == IF request # NoRequest /\ request.op = "create" /\ reply = NoReply THEN 1 ELSE 0

Room ==
    /\ IsFiniteSet(InUse(table))
    /\ Cardinality(InUse(table)) + Creating <= asked + 1
    /\ table.ids.size <= 2 * asked + 4

Types ==
    /\ DOMAIN table.names \subseteq Names
    /\ \A n \in DOMAIN table.names : table.names[n] \in Objs /\ memory[table.names[n]] # "unused"
    /\ memory \in [Objs -> {"unused", "live", "freed"}]
    /\ refs \in [Objs -> Nat]
    /\ class \in [Objs -> Classes]
    /\ objId \in [Objs -> Ids]
    /\ session \in {"running", "ended"}
    /\ fault \in {"no", "freed", "null creator", "access_byid.cpp:105", "access_byid.cpp:215"}
    /\ request \in Request \cup {NoRequest}
    /\ reply \in Reply \cup {NoReply}
    /\ reply # NoReply => request # NoRequest
    /\ proxies \subseteq Proxy
    /\ asked \in 0..MaxRequests
    /\ careful \in BOOLEAN

\* The object of a proxy is alive and has the id of the proxy; it is known by
\* the name that the proxy was asked by, or by none.
Known(p) ==
    /\ p.obj \in Objs /\ memory[p.obj] = "live" /\ objId[p.obj] = p.id
    /\ IF p.name = NoName THEN \A n \in DOMAIN table.names : table.names[n] # p.obj
       ELSE p.name \in DOMAIN table.names /\ table.names[p.name] = p.obj

\* The proxy that the client will make of the reply.
Coming == [id |-> reply.id, cls |-> request.cls, name |-> request.name, obj |-> reply.obj]

\* The client may adopt the object of the reply; it calls or removes one.
Offered == reply # NoReply /\ request.op \in {"create", "retrieve"} /\ Adopts
Uses(ops) == request # NoRequest /\ request.op \in ops

\* What a careful client can rely on: what is known by name is alive, every
\* proxy is good, and an object without a name has one proxy at most.
Reliable ==
    /\ \A n \in DOMAIN table.names : memory[table.names[n]] = "live"
    /\ \A p \in proxies : Known(p)
    /\ \A p, q \in proxies : p.name = NoName /\ p.obj = q.obj => p = q
    /\ Offered => /\ Known(Coming)
                  /\ request.name = NoName => \A p \in proxies : p.obj # reply.obj
    /\ Uses({"call", "remove"}) /\ reply = NoReply => Known(request.proxy)
    /\ Uses({"remove"}) => /\ request.proxy.name = NoName
                           /\ \A p \in proxies : p.obj # request.proxy.obj
    /\ fault = "no"

IInv == Types /\ TableInv /\ Room /\ (careful => Reliable)
-----------------------------------------------------------------------------
(* Facts of the types                                                        *)

LEMMA RequestFields ==
    ASSUME Types, request # NoRequest
    PROVE  /\ request.op \in {"create", "retrieve", "call", "remove"}
           /\ request.op \in {"create", "retrieve"} =>
                 request.name \in Names \cup {NoName} /\ request.cls \in Classes
           /\ request.op \in {"call", "remove"} => request.proxy \in Proxy
BY DEF Types, Request

LEMMA ReplyGiven ==
    ASSUME NEW ret \in {0, -1}, NEW id \in Ids, NEW cls \in Classes,
           NEW obj \in Objs \cup {NoObject}, Answer(ret, id, cls, obj)
    PROVE  /\ reply' \in Reply /\ reply' # NoReply
           /\ reply'.ret = ret /\ reply'.id = id /\ reply'.cls = cls /\ reply'.obj = obj
<1>1. reply' \in Reply
  BY DEF Answer, Reply
<1> QED
  BY <1>1, NullsAssumption DEF Answer

\* Ids are in range, for the vector is: it holds what has been asked for.
LEMMA SlotsInRange ==
    ASSUME Types, Room, TableInv
    PROVE  /\ table.ids.size \in Nat \ {0} /\ table.ids.size \in Ids
           /\ 0..(table.ids.size - 1) \subseteq Ids
           /\ InUse(table) \subseteq 1..(table.ids.size - 1)
           /\ IdsUsed(table.ids, InUse(table))
<1>1. IdsUsed(table.ids, InUse(table))
  BY DEF TableInv, TableOK
<1>2. table.ids.size \in Nat \ {0} /\ InUse(table) \subseteq 1..(table.ids.size - 1)
  BY <1>1 DEF IdsUsed, Wellformed
<1>3. asked \in Nat /\ asked <= MaxRequests /\ MaxRequests \in Nat
  <2>1. asked \in 0..MaxRequests
    BY DEF Types
  <2> QED
    BY <2>1, BoundAssumption
<1>4. table.ids.size <= 2 * asked + 4
  BY DEF Room
<1>5. 2 * asked + 4 <= 2 * MaxRequests + 8
  BY <1>3
<1>6. table.ids.size \in Ids /\ 0..(table.ids.size - 1) \subseteq Ids
  BY <1>2, <1>3, <1>4, <1>5 DEF Ids
<1> QED
  BY <1>1, <1>2, <1>6

\* What is looked up under an id and is an object is alive and has that id.
LEMMA LookupLive ==
    ASSUME Types, Room, TableInv, NEW id, IsValid(table.ids, id), Lookup(id) \in Objs
    PROVE  /\ id \in InUse(table) /\ id # 1
           /\ memory[Lookup(id)] = "live" /\ objId[Lookup(id)] = id
<1>1. /\ id \in 1..(table.ids.size - 1) /\ table.ids.size \in Nat \ {0}
      /\ IdsUsed(table.ids, InUse(table))
  BY SlotsInRange DEF IsValid
<1>2. id \in InUse(table)
  <2>1. id \notin InUse(table) => table.ids.at[id] \in 0..(table.ids.size - 1)
    BY <1>1, FreeSlots
  <2>2. table.ids.at[id] \in Objs /\ table.ids.at[id] \notin Nat
    BY ObjectsAssumption DEF Lookup, Ptr
  <2> QED
    BY <1>1, <2>1, <2>2
<1> QED
  BY <1>2, ObjectsAssumption DEF TableInv, Lookup
-----------------------------------------------------------------------------
LEMMA InitIInv == Init => IInv
<1> SUFFICES ASSUME Init PROVE IInv
  OBVIOUS
<1> DEFINE id == NextId(NewTable.ids)
<1>1. Added(NewTable, table, id, Self) /\ table.names = NewTable.names
  BY NewTableEmpty, AddPtrTable DEF Init
<1>2. InUse(table) = {id} /\ Ptr(table, id) = Self /\ TableOK(table)
  BY <1>1, NewTableEmpty DEF Added
<1>3. id = 1
  <2>1. NewList(3).at[0] = 1
    BY DEF NewList, Chain
  <2> QED
    BY <2>1 DEF NewTable, NextId, WithRoom
<1>4. table.ids.size = 4
  BY <1>1, NewTableEmpty DEF Added
<1>5. TableInv
  BY <1>2, <1>3 DEF TableInv, Init
<1>6. Room
  <2>1. IsFiniteSet(InUse(table)) /\ Cardinality(InUse(table)) = 1
    BY <1>2, FS_Singleton
  <2>2. Creating = 0 /\ asked = 0
    BY DEF Creating, Init
  <2> QED
    BY <1>4, <2>1, <2>2 DEF Room
<1>7. Types
  <2>1. (CHOOSE c \in Classes : TRUE) \in Classes
    BY NamesAssumption
  <2>2. DOMAIN table.names = {}
    BY <1>1, NewTableEmpty
  <2>3. 0 \in Ids /\ 0 \in 0..MaxRequests
    BY BoundAssumption DEF Ids
  <2>4. class \in [Objs -> Classes]
    BY <2>1 DEF Init
  <2> QED
    BY <2>2, <2>3, <2>4 DEF Init, Types
<1>8. Reliable
  BY <1>1, NewTableEmpty DEF Init, Reliable, Offered, Uses
<1> QED
  BY <1>5, <1>6, <1>7, <1>8 DEF IInv
-----------------------------------------------------------------------------
(* The client asks                                                           *)

LEMMA TableStays ==
    ASSUME TableInv, UNCHANGED <<table, heap>>
    PROVE  TableInv'
BY DEF TableInv, TableOK, heap, InUse, Ptr

LEMMA KnownStays ==
    ASSUME UNCHANGED <<table, heap>>, NEW p, Known(p)
    PROVE  Known(p)'
BY DEF Known, heap

LEMMA AskTypes ==
    ASSUME IInv, NEW r \in Request, Ask(r), proxies' \subseteq Proxy, careful' \in BOOLEAN
    PROVE  Types' /\ TableInv' /\ Room'
<1>1. /\ request' = r /\ asked' = asked + 1 /\ asked < MaxRequests /\ reply' = NoReply
      /\ reply = NoReply /\ request = NoRequest
      /\ UNCHANGED <<table, memory, refs, class, objId, session, fault>>
  BY DEF Ask, heap
<1>2. asked \in 0..MaxRequests /\ MaxRequests \in Nat
  BY BoundAssumption DEF IInv, Types
<1>3. asked' \in 0..MaxRequests
  BY <1>1, <1>2
<1>4. Types'
  BY <1>1, <1>3 DEF IInv, Types
<1>5. TableInv'
  BY <1>1, TableStays DEF IInv, heap
<1>6. Room'
  <2>1. /\ IsFiniteSet(InUse(table)) /\ Cardinality(InUse(table)) \in Nat
        /\ Cardinality(InUse(table)) <= asked + 1 /\ table.ids.size <= 2 * asked + 4
        /\ table.ids.size \in Nat
    BY <1>1, FS_CardinalityType, SlotsInRange DEF IInv, Room, Creating
  <2>2. Creating' \in {0, 1}
    BY DEF Creating
  <2>3. InUse(table)' = InUse(table)
    BY <1>1 DEF InUse
  <2> QED
    BY <1>1, <1>2, <2>1, <2>2, <2>3 DEF Room
<1> QED
  BY <1>4, <1>5, <1>6

LEMMA ChooseIInv ==
    ASSUME IInv, Choose
    PROVE  IInv'
<1>1. ASSUME NEW op \in {"create", "retrieve"}, NEW n \in Names \cup {NoName}, NEW c \in Classes,
             Ask([op |-> op, name |-> n, cls |-> c]), UNCHANGED <<proxies, careful>>
      PROVE  IInv'
  <2> DEFINE r == [op |-> op, name |-> n, cls |-> c]
  <2>1. r \in Request
    BY DEF Request
  <2>2. Types' /\ TableInv' /\ Room'
    BY <1>1, <2>1, AskTypes DEF IInv, Types
  <2>3. careful' => Reliable'
    <3> SUFFICES ASSUME careful' PROVE Reliable'
      OBVIOUS
    <3>1. /\ request' = r /\ reply' = NoReply /\ fault' = fault /\ proxies' = proxies
          /\ UNCHANGED <<table, heap>> /\ Reliable
      BY <1>1 DEF Ask, IInv
    <3>2. \A p \in proxies' : Known(p)'
      BY <3>1, KnownStays DEF Reliable
    <3>3. ~Offered' /\ ~Uses({"call", "remove"})' /\ ~Uses({"remove"})'
      BY <3>1 DEF Offered, Uses
    <3> QED
      BY <3>1, <3>2, <3>3 DEF Reliable, heap
  <2> QED
    BY <2>2, <2>3 DEF IInv
<1>2. ASSUME NEW p \in proxies, NEW op \in {"call", "remove"}, Ask([op |-> op, proxy |-> p]),
             IF op = "call" THEN UNCHANGED <<proxies, careful>>
             ELSE Forget(p) /\ careful' = (careful /\ p.name = NoName)
      PROVE  IInv'
  <2> DEFINE r == [op |-> op, proxy |-> p]
  <2>1. r \in Request
    BY DEF Request, IInv, Types
  <2>2. proxies' \subseteq proxies /\ careful' \in BOOLEAN /\ (careful' => careful)
    BY <1>2 DEF IInv, Types, Forget
  <2>3. Types' /\ TableInv' /\ Room'
    BY <1>2, <2>1, <2>2, AskTypes DEF IInv, Types
  <2>4. careful' => Reliable'
    <3> SUFFICES ASSUME careful' PROVE Reliable'
      OBVIOUS
    <3>1. /\ request' = r /\ reply' = NoReply /\ fault' = fault
          /\ UNCHANGED <<table, heap>> /\ Reliable
      BY <1>2, <2>2 DEF Ask, IInv
    <3>2. \A q \in proxies : Known(q)'
      BY <3>1, KnownStays DEF Reliable
    <3>3. ~Offered'
      BY <3>1 DEF Offered
    <3>4. request'.proxy = p /\ request'.op = op
      BY <3>1
    <3>5. op = "remove" => /\ p.name = NoName
                           /\ \A q \in proxies' : q.obj # p.obj
      BY <1>2, <3>1 DEF Forget, Reliable
    <3> QED
      BY <2>2, <3>1, <3>2, <3>3, <3>4, <3>5 DEF Reliable, heap, Uses
  <2> QED
    BY <2>3, <2>4 DEF IInv
<1> QED
  BY <1>1, <1>2 DEF Choose
-----------------------------------------------------------------------------
(* The session handles the request                                           *)

LEMMA ConstructIInv ==
    ASSUME IInv, Construct
    PROVE  IInv'
<1> DEFINE id == NextId(table.ids)
<1>1. PICK o \in Objs :
          /\ memory[o] = "unused"
          /\ table' = IF request.name = NoName THEN AddPtr(table, o)
                                               ELSE AddNamed(table, o, request.name)
          /\ memory' = [memory EXCEPT ![o] = "live"]
          /\ refs' = [refs EXCEPT ![o] = 1]
          /\ class' = [class EXCEPT ![o] = request.cls]
          /\ objId' = [objId EXCEPT ![o] = id]
          /\ Answer(0, id, request.cls, o)
  BY DEF Construct, HeldByTable
<1>2. /\ request # NoRequest /\ request.op = "create" /\ reply = NoReply /\ fault = "no"
      /\ ~Found(request.name)
  BY DEF Construct, Asked
<1>3. request.name \in Names \cup {NoName} /\ request.cls \in Classes
  BY <1>2, RequestFields DEF IInv
<1>4. /\ Added(table, table', id, o)
      /\ table'.names = IF request.name = NoName THEN table.names
                        ELSE WithName(table, request.name, o)
  BY <1>1, AddPtrTable, AddNamedTable DEF IInv, TableInv
<1>5. /\ TableOK(table') /\ InUse(table') = InUse(table) \cup {id} /\ id \notin InUse(table)
      /\ Ptr(table', id) = o
      /\ \A i \in InUse(table) : Ptr(table', i) = Ptr(table, i)
      /\ id \in 1..(table'.ids.size - 1) /\ table.ids.size <= table'.ids.size
      /\ table'.ids.size # table.ids.size =>
            1..(table.ids.size - 1) \subseteq InUse(table) /\ table'.ids.size = 2 * table.ids.size
  BY <1>4 DEF Added
<1>6. /\ memory \in [Objs -> {"unused", "live", "freed"}] /\ refs \in [Objs -> Nat]
      /\ class \in [Objs -> Classes] /\ objId \in [Objs -> Ids]
      /\ asked \in 0..MaxRequests /\ proxies \subseteq Proxy
  BY DEF IInv, Types
<1>7. UNCHANGED <<session, fault, request, proxies, asked, careful>>
  BY <1>1 DEF Answer
<1> HIDE DEF id
<1>8. TableInv'
  <2>1. id # 1
    BY <1>5 DEF IInv, TableInv
  <2>2. /\ memory'[o] = "live" /\ objId'[o] = id /\ refs'[o] = 1
        /\ \A q \in Objs \ {o} : memory'[q] = memory[q] /\ objId'[q] = objId[q] /\ refs'[q] = refs[q]
    BY <1>1, <1>6
  <2>3. 1 \in InUse(table') /\ Ptr(table', 1) = Self
    BY <1>5 DEF IInv, TableInv
  <2>4. ASSUME NEW i \in InUse(table'), i # 1
        PROVE  /\ Ptr(table', i) \in Objs
               /\ memory'[Ptr(table', i)] = "live"
               /\ objId'[Ptr(table', i)] = i
    <3>1. CASE i = id
      BY <3>1, <1>5, <2>2
    <3>2. CASE i # id
      <4>1. i \in InUse(table) /\ Ptr(table', i) = Ptr(table, i)
        BY <3>2, <2>4, <1>5
      <4>2. /\ Ptr(table, i) \in Objs /\ memory[Ptr(table, i)] = "live"
            /\ objId[Ptr(table, i)] = i
        BY <4>1, <2>4 DEF IInv, TableInv
      <4> QED
        BY <4>1, <4>2, <2>2, <1>1
    <3> QED
      BY <3>1, <3>2
  <2>5. ASSUME NEW q \in Objs, memory'[q] = "live"
        PROVE  objId'[q] \in InUse(table') /\ Ptr(table', objId'[q]) = q /\ refs'[q] = 1
    <3>1. CASE q = o
      BY <3>1, <2>2, <1>5
    <3>2. CASE q # o
      <4>1. objId[q] \in InUse(table) /\ Ptr(table, objId[q]) = q /\ refs[q] = 1
        BY <3>2, <2>2, <2>5 DEF IInv, TableInv
      <4> QED
        BY <3>2, <4>1, <2>2, <1>5
    <3> QED
      BY <3>1, <3>2
  <2> QED
    BY <1>5, <2>3, <2>4, <2>5 DEF TableInv, TableOK, InUse, Ptr
<1>9. Room' /\ table'.ids.size \in Nat /\ table'.ids.size <= 2 * asked + 4
  <2>1. /\ IsFiniteSet(InUse(table)) /\ Cardinality(InUse(table)) \in Nat
        /\ Cardinality(InUse(table)) <= asked
    <3>1. Creating = 1
      BY <1>2 DEF Creating
    <3> QED
      BY <3>1, <1>6, FS_CardinalityType DEF IInv, Room
  <2>2. /\ IsFiniteSet(InUse(table')) /\ Cardinality(InUse(table')) = Cardinality(InUse(table)) + 1
    BY <1>5, <2>1, FS_AddElement
  <2>3. table.ids.size \in Nat \ {0} /\ table.ids.size <= 2 * asked + 4
    BY SlotsInRange DEF IInv, Room
  <2>4. table'.ids.size \in Nat /\ table'.ids.size <= 2 * asked + 4
    <3>1. CASE table'.ids.size = table.ids.size
      BY <3>1, <2>3
    <3>2. CASE table'.ids.size # table.ids.size
      <4> DEFINE S == 1..(table.ids.size - 1)
      <4>1. S \in SUBSET InUse(table) /\ table'.ids.size = 2 * table.ids.size
        BY <3>2, <1>5
      <4>2. Cardinality(S) <= Cardinality(InUse(table))
        BY <4>1, <2>1, FS_Subset
      <4>4. Cardinality(S) = table.ids.size - 1
        <5>1. \A n \in Nat : Cardinality(1..n) = IF 1 > n THEN 0 ELSE n - 1 + 1
          BY FS_Interval
        <5>2. table.ids.size - 1 \in Nat
          BY <2>3
        <5> QED
          BY <5>1, <5>2
      <4> HIDE DEF S
      <4> QED
        BY <4>1, <4>2, <4>4, <2>1, <2>3, <1>6
    <3> QED
      BY <3>1, <3>2
  <2>5. Creating' = 0
    <3>1. id \in Ids
      <4>1. MaxRequests \in Nat
        BY BoundAssumption
      <4> QED
        BY <4>1, <1>5, <1>6, <2>4 DEF Ids
    <3>2. reply' # NoReply
      BY <1>1, <1>3, <3>1, ReplyGiven DEF id
    <3> QED
      BY <3>2 DEF Creating
  <2> QED
    BY <1>6, <1>7, <2>1, <2>2, <2>4, <2>5 DEF Room, InUse
<1>10. id \in Ids
  <2>1. MaxRequests \in Nat
    BY BoundAssumption
  <2> QED
    BY <2>1, <1>5, <1>6, <1>9 DEF Ids
<1>11. /\ reply' \in Reply /\ reply' # NoReply
       /\ reply'.ret = 0 /\ reply'.id = id /\ reply'.cls = request.cls /\ reply'.obj = o
  BY <1>1, <1>3, <1>10, ReplyGiven DEF id
\* The names: nothing has happened to those there were.
<1>12. /\ DOMAIN table'.names \subseteq Names
       /\ \A n \in DOMAIN table'.names : table'.names[n] \in Objs
       /\ \A n \in DOMAIN table.names :
             n \in DOMAIN table'.names /\ table'.names[n] = table.names[n] /\ table.names[n] # o
       /\ \A n \in DOMAIN table'.names \ DOMAIN table.names :
             n = request.name /\ n # NoName /\ table'.names[n] = o
       /\ request.name # NoName =>
             request.name \in DOMAIN table'.names /\ table'.names[request.name] = o
  <2>1. /\ DOMAIN table.names \subseteq Names
        /\ \A n \in DOMAIN table.names : table.names[n] \in Objs /\ memory[table.names[n]] # "unused"
    BY DEF IInv, Types
  <2>2. \A n \in DOMAIN table.names : table.names[n] # o
    BY <2>1, <1>1
  <2>3. CASE request.name = NoName
    BY <2>1, <2>2, <2>3, <1>4
  <2>4. CASE request.name # NoName
    BY <2>1, <2>2, <2>4, <1>2, <1>3, <1>4 DEF WithName, Found, HasName
  <2> QED
    BY <2>3, <2>4
<1>13. Types'
  <2>1. memory' \in [Objs -> {"unused", "live", "freed"}]
    BY <1>1, <1>6
  <2>2. refs' \in [Objs -> Nat]
    BY <1>1, <1>6
  <2>3. class' \in [Objs -> Classes]
    BY <1>1, <1>3, <1>6
  <2>4. objId' \in [Objs -> Ids]
    BY <1>1, <1>6, <1>10
  <2>5. \A n \in DOMAIN table'.names : memory'[table'.names[n]] # "unused"
    <3>1. \A n \in DOMAIN table.names : memory[table.names[n]] # "unused"
      BY DEF IInv, Types
    <3> QED
      BY <3>1, <1>1, <1>6, <1>12
  <2> QED
    BY <1>2, <1>7, <1>11, <1>12, <2>1, <2>2, <2>3, <2>4, <2>5 DEF IInv, Types
<1>14. ASSUME careful' PROVE Reliable'
  <2>1. Reliable
    BY <1>7, <1>14 DEF IInv
  <2>2. ASSUME NEW p, Known(p)
        PROVE  Known(p)' /\ p.obj # o
    <3>1. p.obj # o
      BY <1>1, <2>2 DEF Known
    <3>2. memory'[p.obj] = "live" /\ objId'[p.obj] = p.id
      BY <1>1, <1>6, <2>2, <3>1 DEF Known
    <3> QED
      BY <1>12, <2>2, <3>1, <3>2 DEF Known
  <2>3. \A n \in DOMAIN table'.names : memory'[table'.names[n]] = "live"
    BY <1>1, <1>6, <1>12, <2>1 DEF Reliable
  <2>4. Offered' => /\ Known(Coming)'
                    /\ request'.name = NoName => \A p \in proxies' : p.obj # reply'.obj
    <3>1. Coming'.id = id /\ Coming'.name = request.name /\ Coming'.obj = o
      BY <1>7, <1>11 DEF Coming
    <3>2. memory'[o] = "live" /\ objId'[o] = id
      BY <1>1, <1>6
    <3>3. request.name = NoName => \A n \in DOMAIN table'.names : table'.names[n] # o
      BY <1>12
    <3>4. Known(Coming)'
      BY <1>12, <3>1, <3>2, <3>3 DEF Known
    <3> QED
      BY <3>4, <1>7, <1>11, <2>1, <2>2 DEF Reliable
  <2>5. ~Uses({"call", "remove"})' /\ ~Uses({"remove"})'
    BY <1>2, <1>7 DEF Uses
  <2> QED
    BY <1>7, <2>1, <2>2, <2>3, <2>4, <2>5 DEF Reliable
<1> QED
  BY <1>8, <1>9, <1>13, <1>14 DEF IInv
\* A handler that only answers.
LEMMA AnswerTypes ==
    ASSUME IInv, request # NoRequest, reply' \in Reply, reply' # NoReply,
           UNCHANGED <<table, heap, session, fault, request, proxies, asked, careful>>
    PROVE  Types' /\ TableInv' /\ Room'
<1>1. Types'
  BY DEF IInv, Types, heap
<1>2. TableInv'
  BY TableStays DEF IInv
<1>3. Room'
  <2>1. /\ IsFiniteSet(InUse(table)) /\ Cardinality(InUse(table)) \in Nat
        /\ Cardinality(InUse(table)) <= asked + 1 /\ table.ids.size <= 2 * asked + 4
    <3>1. IsFiniteSet(InUse(table)) /\ Cardinality(InUse(table)) \in Nat
      BY FS_CardinalityType DEF IInv, Room
    <3>2. Creating \in {0, 1} /\ asked \in 0..MaxRequests
      BY DEF Creating, IInv, Types
    <3> QED
      BY <3>1, <3>2, BoundAssumption DEF IInv, Room
  <2>2. Creating' = 0
    BY DEF Creating
  <2>3. InUse(table)' = InUse(table) /\ asked \in Nat
    <3>1. asked \in 0..MaxRequests
      BY DEF IInv, Types
    <3> QED
      BY <3>1, BoundAssumption DEF InUse
  <2> QED
    BY <2>1, <2>2, <2>3 DEF Room
<1> QED
  BY <1>1, <1>2, <1>3

\* The name leads to an object that is alive, which is answered with.
LEMMA AnswerByName ==
    ASSUME IInv, request # NoRequest, request.op \in {"create", "retrieve"},
           Found(request.name), NEW ret \in {0, -1}, NEW cls \in Classes,
           memory[table.names[request.name]] = "live",
           Answer(ret, IdOf(table.names[request.name]), cls, table.names[request.name]),
           UNCHANGED <<table, heap>>
    PROVE  IInv'
<1> DEFINE o == table.names[request.name]
<1>1. o \in Objs /\ request.name \in Names /\ request.name # NoName
  BY NamesAssumption DEF IInv, Types, Found, HasName
<1>2. objId[o] \in Ids
  BY <1>1 DEF IInv, Types
<1>3. /\ reply' \in Reply /\ reply' # NoReply /\ reply'.id = objId[o] /\ reply'.obj = o
      /\ UNCHANGED <<session, fault, request, proxies, asked, careful>>
  BY <1>1, <1>2, ReplyGiven DEF Answer, IdOf
<1>4. Types' /\ TableInv' /\ Room'
  BY <1>3, AnswerTypes
<1>5. ASSUME careful' PROVE Reliable'
  <2>1. Reliable
    BY <1>3, <1>5 DEF IInv
  <2>2. Known(Coming)'
    <3>1. Coming'.id = objId[o] /\ Coming'.obj = o /\ Coming'.name = request.name
      BY <1>3 DEF Coming
    <3> QED
      BY <3>1, <1>1 DEF Known, heap, Found, HasName
  <2>3. \A p \in proxies' : Known(p)'
    BY <1>3, <2>1, KnownStays DEF Reliable
  <2>4. ~Uses({"call", "remove"})' /\ ~Uses({"remove"})'
    BY <1>3 DEF Uses
  <2> QED
    BY <1>1, <1>3, <2>1, <2>2, <2>3, <2>4 DEF Reliable, heap
<1> QED
  BY <1>4, <1>5 DEF IInv

\* The reply offers no object.
LEMMA AnswerOther ==
    ASSUME IInv, request # NoRequest, reply' \in Reply, reply' # NoReply,
           UNCHANGED <<table, heap, session, fault, request, proxies, asked, careful>>,
           ~Offered'
    PROVE  IInv'
<1>1. Types' /\ TableInv' /\ Room'
  BY AnswerTypes
<1>2. ASSUME careful' PROVE Reliable'
  <2>1. Reliable
    BY <1>2 DEF IInv
  <2>2. \A p \in proxies' : Known(p)'
    BY <2>1, KnownStays DEF Reliable
  <2>3. Uses({"remove"})' = Uses({"remove"})
    BY DEF Uses
  <2> QED
    BY <2>1, <2>2, <2>3 DEF Reliable, heap
<1> QED
  BY <1>1, <1>2 DEF IInv

LEMMA AnswerIInv ==
    ASSUME IInv, CreateExisting \/ RetrieveSessionObject \/ RetrieveNothing \/ CallObject
    PROVE  IInv'
<1>1. CASE CreateExisting
  <2>1. class[table.names[request.name]] \in Classes
    BY <1>1 DEF CreateExisting, IInv, Types, Found, HasName
  <2> QED
    BY <1>1, <2>1, AnswerByName DEF CreateExisting, Asked
<1>2. CASE RetrieveSessionObject
  <2>1. request.cls \in Classes
    BY <1>2, RequestFields DEF RetrieveSessionObject, Asked, IInv
  <2> QED
    BY <1>2, <2>1, AnswerByName DEF RetrieveSessionObject, Asked
<1>3. CASE RetrieveNothing
  <2>1. request # NoRequest /\ request.op = "retrieve" /\ request.cls \in Classes
    BY <1>3, RequestFields DEF RetrieveNothing, Asked, IInv
  <2>2. 0 \in Ids
    BY BoundAssumption DEF Ids
  <2>3. /\ reply' \in Reply /\ reply' # NoReply /\ reply'.ret = -1
        /\ UNCHANGED <<table, heap, session, fault, request, proxies, asked, careful>>
    BY <1>3, <2>1, <2>2, ReplyGiven DEF RetrieveNothing, Answer
  <2>4. ~Offered'
    BY <2>1, <2>3 DEF Offered, Adopts
  <2> QED
    BY <2>1, <2>3, <2>4, AnswerOther
<1>4. CASE CallObject
  <2> DEFINE o == Lookup(request.proxy.id)
  <2>1. request # NoRequest /\ request.op = "call" /\ request.proxy \in Proxy
    BY <1>4, RequestFields DEF CallObject, Asked, IInv
  <2>2. request.proxy.id \in Ids /\ request.proxy.cls \in Classes /\ o \in Objs
    BY <1>4, <2>1 DEF Proxy, CallObject, Holds
  <2>3. /\ reply' \in Reply /\ reply' # NoReply
        /\ UNCHANGED <<table, heap, session, fault, request, proxies, asked, careful>>
    BY <1>4, <2>1, <2>2, ReplyGiven DEF CallObject, Answer
  <2>4. ~Offered'
    BY <2>1, <2>3 DEF Offered
  <2> QED
    BY <2>1, <2>3, <2>4, AnswerOther
<1> QED
  BY <1>1, <1>2, <1>3, <1>4
\* Only the session or the fault changes, and no careful client sees a fault.
LEMMA StopIInv ==
    ASSUME IInv,
           UNCHANGED <<table, heap, request, reply, proxies, asked>>,
           session' \in {"running", "ended"},
           fault' \in {"no", "freed", "null creator", "access_byid.cpp:105", "access_byid.cpp:215"},
           careful' \in BOOLEAN, careful' => careful /\ fault' = "no"
    PROVE  IInv'
<1>1. Types'
  BY DEF IInv, Types, heap
<1>2. TableInv'
  BY TableStays DEF IInv
<1>3. Room'
  BY DEF IInv, Room, Creating, InUse
<1>4. ASSUME careful' PROVE Reliable'
  <2>1. Reliable
    BY <1>4 DEF IInv
  <2>2. \A p : Known(p)' <=> Known(p)
    BY DEF Known, heap
  <2>3. Offered' = Offered /\ Uses({"call", "remove"})' = Uses({"call", "remove"})
        /\ Uses({"remove"})' = Uses({"remove"}) /\ Coming' = Coming
    BY DEF Offered, Adopts, Uses, Coming
  <2>4. Known(Coming)' = Known(Coming)
    BY <2>3 DEF Known, heap
  <2> QED
    BY <1>4, <2>1, <2>2, <2>3, <2>4 DEF Reliable, heap
<1> QED
  BY <1>1, <1>2, <1>3, <1>4 DEF IInv

LEMMA ThrowIInv ==
    ASSUME IInv, ConstructThrows \/ RemoveZero \/ CallWrongClass
    PROVE  IInv'
<1>1. Throw
  BY DEF ConstructThrows, RemoveZero, CallWrongClass
<1>2. fault' = fault /\ (careful => fault = "no") /\ careful \in BOOLEAN
  BY <1>1 DEF Throw, IInv, Types, Reliable
<1> QED
  BY <1>1, <1>2, StopIInv DEF Throw, IInv, Types

\* With a proxy that denotes its object the id is in range and the slot holds it.
LEMMA KnownFound ==
    ASSUME Types, TableInv, Room, NEW p, Known(p)
    PROVE  /\ p.id \in InUse(table) /\ Ptr(table, p.id) = p.obj /\ p.obj \in Objs
           /\ IsValid(table.ids, p.id)
BY SlotsInRange DEF Known, TableInv, IsValid

LEMMA FaultIInv ==
    ASSUME IInv, ConstructNull \/ TouchFreed \/ CallZero \/ FreeSlot
    PROVE  IInv' /\ ~careful'
<1>1. CASE ConstructNull
  <2>1. /\ UNCHANGED <<table, heap, request, reply, proxies, asked, session>>
        /\ fault' = "null creator" /\ careful' = FALSE
    BY <1>1 DEF ConstructNull
  <2>2. session' \in {"running", "ended"}
    BY <2>1 DEF IInv, Types
  <2> QED
    BY <2>1, <2>2, StopIInv
<1>2. CASE TouchFreed \/ CallZero \/ FreeSlot
  <2>1. \E where \in {"freed", "access_byid.cpp:105", "access_byid.cpp:215"} : Fail(where)
    BY <1>2 DEF TouchFreed, CallZero, FreeSlot
  <2>2. ~careful
    <3> SUFFICES ASSUME careful PROVE FALSE
      OBVIOUS
    <3>1. Reliable
      BY DEF IInv
    <3>2. CASE TouchFreed
      <4>1. request.name \in DOMAIN table.names /\ memory[table.names[request.name]] = "freed"
        BY <3>2 DEF TouchFreed, Found, HasName
      <4> QED
        BY <4>1, <3>1 DEF Reliable
    <3>3. CASE CallZero \/ FreeSlot
      <4>1. request # NoRequest /\ request.op \in {"call", "remove"} /\ reply = NoReply
        BY <3>3 DEF CallZero, FreeSlot, Asked
      <4>2. Known(request.proxy)
        BY <3>1, <4>1 DEF Reliable, Uses
      <4>3. InRange /\ Holds
        BY <4>2, KnownFound DEF IInv, InRange, Holds, Lookup
      <4> QED
        BY <3>3, <4>3 DEF CallZero, FreeSlot
    <3> QED
      BY <1>2, <3>2, <3>3
  <2>3. session' \in {"running", "ended"} /\ careful' = careful /\ careful \in BOOLEAN
    BY <2>1 DEF Fail, IInv, Types
  <2> QED
    BY <2>1, <2>2, <2>3, StopIInv DEF Fail
<1> QED
  BY <1>1, <1>2

LEMMA RemoveIInv ==
    ASSUME IInv, RemoveSessionObject
    PROVE  IInv'
<1> DEFINE id == request.proxy.id
           o == Lookup(id)
<1>1. /\ request # NoRequest /\ request.op = "remove" /\ reply = NoReply
      /\ IsValid(table.ids, id) /\ o \in Objs
  BY DEF RemoveSessionObject, Asked, InRange, Holds
<1>2. request.proxy \in Proxy /\ request.proxy.cls \in Classes
  BY <1>1, RequestFields DEF IInv, Proxy
<1>3. /\ id \in InUse(table) /\ id # 1 /\ memory[o] = "live" /\ objId[o] = id
      /\ o = Ptr(table, id)
  BY <1>1, LookupLive DEF IInv, Lookup
<1>4. refs[o] = 1
  BY <1>1, <1>3 DEF IInv, TableInv
<1> HIDE DEF o, id
<1>5. /\ table' = RemoveId(table, id)
      /\ refs' = [refs EXCEPT ![o] = refs[o] - 1]
      /\ memory' = [memory EXCEPT ![o] = IF refs[o] - 1 = 0 THEN "freed" ELSE @]
      /\ UNCHANGED <<class, objId>>
      /\ Answer(0, 0, request.proxy.cls, o)
  BY DEF RemoveSessionObject, HeldAfterRemove, o, id
<1>6. Removed(table, table', id)
  BY <1>3, <1>5, RemoveIdTable DEF IInv, TableInv
<1>7. /\ TableOK(table') /\ table'.names = table.names /\ table'.ids.size = table.ids.size
      /\ InUse(table') = InUse(table) \ {id}
      /\ \A i \in InUse(table') : Ptr(table', i) = Ptr(table, i)
  BY <1>6 DEF Removed
<1>8. /\ memory \in [Objs -> {"unused", "live", "freed"}] /\ refs \in [Objs -> Nat]
      /\ asked \in 0..MaxRequests
  BY DEF IInv, Types
<1>9. /\ memory'[o] = "freed" /\ refs'[o] = 0
      /\ \A q \in Objs \ {o} : memory'[q] = memory[q] /\ refs'[q] = refs[q]
      /\ memory' \in [Objs -> {"unused", "live", "freed"}] /\ refs' \in [Objs -> Nat]
  BY <1>1, <1>4, <1>5, <1>8
<1>10. /\ reply' \in Reply /\ reply' # NoReply
       /\ UNCHANGED <<session, fault, request, proxies, asked, careful>>
  <2>1. 0 \in Ids
    BY BoundAssumption DEF Ids
  <2> QED
    BY <1>1, <1>2, <1>5, <2>1, ReplyGiven DEF Answer
<1>11. TableInv'
  <2>1. 1 \in InUse(table') /\ Ptr(table', 1) = Self
    BY <1>3, <1>7 DEF IInv, TableInv
  <2>2. ASSUME NEW i \in InUse(table'), i # 1
        PROVE  /\ Ptr(table', i) \in Objs
               /\ memory'[Ptr(table', i)] = "live"
               /\ objId'[Ptr(table', i)] = i
    <3>1. i \in InUse(table) /\ i # id /\ Ptr(table', i) = Ptr(table, i)
      BY <2>2, <1>7
    <3>2. /\ Ptr(table, i) \in Objs /\ memory[Ptr(table, i)] = "live"
          /\ objId[Ptr(table, i)] = i
      BY <3>1, <2>2 DEF IInv, TableInv
    <3>3. Ptr(table, i) # o
      BY <3>1, <3>2, <1>3
    <3> QED
      BY <3>1, <3>2, <3>3, <1>5, <1>9
  <2>3. ASSUME NEW q \in Objs, memory'[q] = "live"
        PROVE  objId'[q] \in InUse(table') /\ Ptr(table', objId'[q]) = q /\ refs'[q] = 1
    <3>1. q # o /\ memory[q] = "live" /\ refs'[q] = refs[q] /\ objId'[q] = objId[q]
      BY <2>3, <1>5, <1>9
    <3>2. objId[q] \in InUse(table) /\ Ptr(table, objId[q]) = q /\ refs[q] = 1
      BY <3>1 DEF IInv, TableInv
    <3>3. objId[q] # id
      BY <3>1, <3>2, <1>3
    <3> QED
      BY <3>1, <3>2, <3>3, <1>7
  <2> QED
    BY <1>7, <2>1, <2>2, <2>3 DEF TableInv, TableOK, InUse, Ptr
<1>12. Room'
  <2>1. /\ IsFiniteSet(InUse(table)) /\ Cardinality(InUse(table)) \in Nat
        /\ Cardinality(InUse(table)) + Creating <= asked + 1 /\ table.ids.size <= 2 * asked + 4
    BY FS_CardinalityType DEF IInv, Room
  <2>2. /\ IsFiniteSet(InUse(table')) /\ Cardinality(InUse(table')) = Cardinality(InUse(table)) - 1
    BY <1>3, <1>7, <2>1, FS_RemoveElement
  <2>3. Creating = 0 /\ Creating' = 0
    BY <1>1, <1>10 DEF Creating
  <2> QED
    BY <1>7, <1>8, <1>10, <2>1, <2>2, <2>3 DEF Room, InUse
<1>13. Types'
  <2>1. /\ DOMAIN table'.names \subseteq Names
        /\ \A n \in DOMAIN table'.names : table'.names[n] \in Objs /\ memory'[table'.names[n]] # "unused"
    <3>1. /\ DOMAIN table.names \subseteq Names
          /\ \A n \in DOMAIN table.names : table.names[n] \in Objs /\ memory[table.names[n]] # "unused"
      BY DEF IInv, Types
    <3> QED
      BY <3>1, <1>7, <1>9
  <2> QED
    BY <1>1, <1>5, <1>9, <1>10, <2>1 DEF IInv, Types
<1>14. ASSUME careful' PROVE Reliable'
  <2>1. Reliable
    BY <1>10, <1>14 DEF IInv
  <2>2. Known(request.proxy) /\ request.proxy.name = NoName
        /\ \A p \in proxies : p.obj # request.proxy.obj
    BY <1>1, <2>1 DEF Reliable, Uses
  <2>3. request.proxy.obj = o
    BY <2>2, <1>3, KnownFound DEF IInv, id
  <2>4. \A n \in DOMAIN table.names : table.names[n] # o /\ table.names[n] \in Objs
    BY <2>2, <2>3 DEF Known, IInv, Types
  <2>5. ASSUME NEW p \in proxies PROVE Known(p)'
    <3>1. Known(p) /\ p.obj # o
      BY <2>1, <2>2, <2>3 DEF Reliable
    <3> QED
      BY <3>1, <1>5, <1>7, <1>9 DEF Known
  <2>6. \A n \in DOMAIN table'.names : memory'[table'.names[n]] = "live"
    BY <1>7, <1>9, <2>1, <2>4 DEF Reliable
  <2>7. ~Offered' /\ Uses({"remove"})' = Uses({"remove"})
    BY <1>1, <1>10 DEF Offered, Uses
  <2> QED
    BY <1>10, <2>1, <2>5, <2>6, <2>7 DEF Reliable
<1> QED
  BY <1>11, <1>12, <1>13, <1>14 DEF IInv
-----------------------------------------------------------------------------
(* The client takes the reply                                                *)

LEMMA ReturnIInv ==
    ASSUME IInv, ClientDone, reply # NoReply,
           proxies' \subseteq Proxy, careful' \in BOOLEAN, careful' => careful,
           careful' => proxies' = proxies \/ (Offered /\ proxies' = proxies \cup {Coming})
    PROVE  IInv'
<1>1. /\ request' = NoRequest /\ reply' = NoReply
      /\ UNCHANGED <<table, heap, session, fault, asked>>
  BY DEF ClientDone
<1>2. Types'
  BY <1>1 DEF IInv, Types, heap
<1>3. TableInv'
  BY <1>1, TableStays DEF IInv
<1>4. Room'
  <2>1. Creating = 0 /\ Creating' = 0
    BY <1>1 DEF Creating
  <2> QED
    BY <1>1, <2>1 DEF IInv, Room, InUse
<1>5. ASSUME careful' PROVE Reliable'
  <2>1. Reliable
    BY <1>5 DEF IInv
  <2>2. \A p : Known(p) => Known(p)'
    BY <1>1, KnownStays
  <2>3. \A p \in proxies' : Known(p)'
    BY <1>5, <2>1, <2>2 DEF Reliable
  <2>4. \A p, q \in proxies' : p.name = NoName /\ p.obj = q.obj => p = q
    <3>1. CASE proxies' = proxies
      BY <3>1, <2>1 DEF Reliable
    <3>2. CASE Offered /\ proxies' = proxies \cup {Coming}
      <4>1. /\ Known(Coming)
            /\ Coming.name = NoName => \A p \in proxies : p.obj # Coming.obj
            /\ Coming.name = request.name
        BY <3>2, <2>1 DEF Reliable, Coming
      <4>2. ASSUME NEW p \in proxies, p.name = NoName, p.obj = Coming.obj PROVE FALSE
        <5>1. Known(p)
          BY <4>2, <2>1 DEF Reliable
        <5>2. CASE Coming.name = NoName
          BY <5>2, <4>1, <4>2
        <5>3. CASE Coming.name # NoName
          BY <5>1, <5>3, <4>1, <4>2 DEF Known
        <5> QED
          BY <5>2, <5>3
      <4> HIDE DEF Coming
      <4> QED
        BY <3>2, <4>1, <4>2, <2>1 DEF Reliable
    <3> QED
      BY <1>5, <3>1, <3>2
  <2>5. ~Offered' /\ ~Uses({"call", "remove"})' /\ ~Uses({"remove"})'
    BY <1>1 DEF Offered, Uses
  <2> QED
    BY <1>1, <2>1, <2>3, <2>4, <2>5 DEF Reliable, heap
<1> QED
  BY <1>2, <1>3, <1>4, <1>5 DEF IInv

LEMMA DoneIInv ==
    ASSUME IInv, Adopt \/ Return \/ AdoptFailed
    PROVE  IInv'
<1>1. reply # NoReply /\ request # NoRequest /\ ClientDone
  BY DEF Adopt, Return, AdoptFailed, Keep, IInv, Types
<1>2. proxies \subseteq Proxy /\ careful \in BOOLEAN /\ reply \in Reply
  BY <1>1 DEF IInv, Types
<1>3. request.op \in {"create", "retrieve"} => Coming \in Proxy
  <2>1. request.op \in {"create", "retrieve"} =>
           request.name \in Names \cup {NoName} /\ request.cls \in Classes
    BY <1>1, RequestFields DEF IInv
  <2> QED
    BY <1>2, <2>1 DEF Coming, Proxy, Reply
<1>4. CASE Adopt
  <2>1. proxies' = proxies \cup {Coming} /\ careful' = careful /\ Offered
    BY <1>4 DEF Adopt, Keep, Coming, Offered
  <2> QED
    BY <1>1, <1>2, <1>3, <2>1, ReturnIInv DEF Offered
<1>5. CASE Return
  <2>1. proxies' = proxies /\ careful' = careful
    BY <1>5 DEF Return
  <2> QED
    BY <1>1, <1>2, <2>1, ReturnIInv
<1>6. CASE AdoptFailed
  <2>1. proxies' = proxies \cup {Coming} /\ careful' = FALSE /\ request.op = "retrieve"
    BY <1>6 DEF AdoptFailed, Keep, Coming
  <2> QED
    BY <1>1, <1>2, <1>3, <2>1, ReturnIInv
<1> QED
  BY <1>4, <1>5, <1>6

LEMMA StepIInv == IInv /\ [Next]_vars => IInv'
<1> SUFFICES ASSUME IInv, [Next]_vars PROVE IInv'
  OBVIOUS
<1>1. CASE Choose
  BY <1>1, ChooseIInv
<1>2. CASE Handle
  BY <1>2, ConstructIInv, ThrowIInv, FaultIInv, AnswerIInv, RemoveIInv DEF Handle
<1>3. CASE Adopt \/ Return \/ AdoptFailed
  BY <1>3, DoneIInv
<1>4. CASE UNCHANGED vars
  <2>1. UNCHANGED <<table, heap, request, reply, proxies, asked, session, fault, careful>>
    BY <1>4 DEF vars
  <2> QED
    BY <2>1, StopIInv DEF IInv, Types, Reliable
<1> QED
  BY <1>1, <1>2, <1>3, <1>4 DEF Next

LEMMA Invariance == Spec => []IInv
BY InitIInv, StepIInv, PTL DEF Spec
-----------------------------------------------------------------------------
\* The variables have their types, whatever the client asks for: no id and no
\* slot is beyond what the vector can reach.
THEOREM TypeCorrect == Spec => []TypeOK
<1>1. IInv => TypeOK
  <2> SUFFICES ASSUME IInv PROVE TypeOK
    OBVIOUS
  <2>1. /\ table.ids.size \in Nat \ {0} /\ table.ids.size \in Ids
        /\ 0..(table.ids.size - 1) \subseteq Ids
        /\ InUse(table) \subseteq 1..(table.ids.size - 1)
        /\ IdsUsed(table.ids, InUse(table))
    BY SlotsInRange DEF IInv
  <2>2. ASSUME NEW i \in 0..(table.ids.size - 1)
        PROVE  table.ids.at[i] \in Objs \cup {Self} \cup Ids
    <3>1. CASE i \in InUse(table)
      BY <3>1 DEF IInv, TableInv, Ptr
    <3>2. CASE i \notin InUse(table)
      BY <3>2, <2>1, FreeSlots
    <3> QED
      BY <3>1, <3>2
  <2>3. table.ids.at \in [0..(table.ids.size - 1) -> Objs \cup {Self} \cup Ids]
    <3>1. DOMAIN table.ids.at = 0..(table.ids.size - 1) /\ table.ids.at = [i \in DOMAIN table.ids.at |-> table.ids.at[i]]
      BY <2>1 DEF IdsUsed, Wellformed
    <3> QED
      BY <2>2, <3>1
  <2> QED
    BY <2>1, <2>3 DEF IInv, Types, TypeOK
<1> QED
  BY <1>1, Invariance, PTL

\* Whatever the client does, the table holds the session and the objects that
\* are alive, each under one id: nothing leaks and nothing dangles.
THEOREM PoolSafe == Spec => []PoolExact
<1>1. IInv => PoolExact
  <2> SUFFICES ASSUME IInv PROVE PoolExact
    OBVIOUS
  <2> DEFINE live == {o \in Objs : memory[o] = "live"}
             f == [i \in InUse(table) |-> Ptr(table, i)]
  <2>1. \A i \in InUse(table) : Ptr(table, i) \in Pointers(table)
    BY DEF Pointers, Ptr
  <2>2. \A x \in Pointers(table) : \E i \in InUse(table) : x = Ptr(table, i)
    BY DEF Pointers, Ptr
  <2>3. Pointers(table) = {Self} \cup live
    <3>1. ASSUME NEW x \in Pointers(table) PROVE x \in {Self} \cup live
      BY <2>2, <3>1 DEF IInv, TableInv
    <3>2. ASSUME NEW x \in {Self} \cup live PROVE x \in Pointers(table)
      BY <2>1, <3>2 DEF IInv, TableInv
    <3> QED
      BY <3>1, <3>2
  <2>4. \A i, j \in InUse(table) : Ptr(table, i) = Ptr(table, j) => i = j
    BY ObjectsAssumption DEF IInv, TableInv
  <2>5. f \in Bijection(InUse(table), Pointers(table))
    BY <2>1, <2>2, <2>4 DEF Bijection, Injection, Surjection, IsInjective
  <2>6. Cardinality(InUse(table)) = Cardinality(Pointers(table))
    BY <2>5, FS_Bijection DEF ExistsBijection, IInv, Room
  <2> QED
    BY <2>3, <2>6 DEF PoolExact, IInv, TableInv
<1> QED
  BY <1>1, Invariance, PTL

\* To a careful client an object known by name is known by id: what destroy
\* asserts.
THEOREM NamesSafe == Spec => []NamesAccounted
<1>1. IInv => NamesAccounted
  <2> SUFFICES ASSUME IInv, careful, NEW n \in DOMAIN table.names
               PROVE  table.names[n] \in Pointers(table)
    BY DEF NamesAccounted, Accounted
  <2>1. table.names[n] \in Objs /\ memory[table.names[n]] = "live"
    BY DEF IInv, Types, Reliable
  <2> QED
    BY <2>1 DEF IInv, TableInv, Pointers, Ptr
<1> QED
  BY <1>1, Invariance, PTL

\* To a careful client a proxy denotes the object it was got for.
THEOREM ProxySafe == Spec => []ProxyDenotes
<1>1. IInv => ProxyDenotes
  BY KnownFound DEF IInv, Reliable, ProxyDenotes
<1> QED
  BY <1>1, Invariance, PTL

\* A careful client meets no assert of the object table, no null creator and no
\* freed object.
THEOREM FaultFree == Spec => []NoFault
<1>1. IInv => NoFault
  BY DEF IInv, Reliable, NoFault
<1> QED
  BY <1>1, Invariance, PTL
-----------------------------------------------------------------------------
(* The handlers implement the object service                                 *)

Objects == Pointers(table) \ {Self}
Holding == {p.obj : p \in proxies} \cup Promised

LEMMA ObjectsLive == IInv => Objects = {o \in Objs : memory[o] = "live"}
<1> SUFFICES ASSUME IInv PROVE Objects = {o \in Objs : memory[o] = "live"}
  OBVIOUS
<1>1. ASSUME NEW x \in Objects PROVE x \in Objs /\ memory[x] = "live"
  BY <1>1 DEF Objects, Pointers, IInv, TableInv, Ptr
<1>2. ASSUME NEW o \in Objs, memory[o] = "live" PROVE o \in Objects
  BY <1>2, ObjectsAssumption DEF Objects, Pointers, IInv, TableInv, Ptr
<1> QED
  BY <1>1, <1>2

LEMMA ObjectsLiveNext == IInv' => Objects' = {o \in Objs : memory'[o] = "live"}
<1>1. (IInv => Objects = {o \in Objs : memory[o] = "live"})'
  BY ObjectsLive, PTL
<1> QED
  BY <1>1

LEMMA ServiceStutters ==
    ASSUME UNCHANGED <<table, proxies, careful, Promised, Meant, Running>>
    PROVE  UNCHANGED Service!vars
BY DEF Service!vars, Pointers

LEMMA ServiceCreates ==
    ASSUME NEW o \in Objs, o \notin Objects, Objects' = Objects \cup {o},
           Holding' = Holding \cup {o}, UNCHANGED <<Meant, Running, careful>>,
           NEW n \in Names \cup {NoName},
           IF n = NoName THEN table'.names = table.names
           ELSE n \notin DOMAIN table.names /\ table'.names = WithName(table, n, o)
    PROVE  Service!Next
<1>1. CASE n = NoName
  <2>1. Service!Create(Self, o)
    BY <1>1 DEF Service!Create, Service!Exists, Service!Gets, Objects, Holding
  <2> QED
    BY <2>1 DEF Service!Next
<1>2. CASE n # NoName
  <2>1. Service!CreateNamed(Self, n, o)
    BY <1>2 DEF Service!CreateNamed, Service!Exists, Service!Named, Service!Gets, Objects,
                Holding, WithName
  <2> QED
    BY <1>2, <2>1 DEF Service!Next
<1> QED
  BY <1>1, <1>2

LEMMA ServiceFinds ==
    ASSUME NEW n \in DOMAIN table.names, n \in Names, UNCHANGED <<table, Meant, Running, careful>>,
           Holding' = Holding \cup {table.names[n]}
    PROVE  Service!Next
<1>1. Service!Find(Self, n)
  BY DEF Service!Find, Service!Gets, Holding, Pointers
<1> QED
  BY <1>1 DEF Service!Next

LEMMA ServiceAsks ==
    ASSUME Meant = NoObject, NEW o \in Holding, Meant' = o,
           Holding' = Holding \/ Holding' = Holding \ {o},
           UNCHANGED <<table, Running, careful>>
    PROVE  Service!Next
<1>1. Service!Ask(Self)
  BY DEF Service!Ask, Holding, Pointers
<1> QED
  BY <1>1 DEF Service!Next

LEMMA ServiceRuns ==
    ASSUME Meant \in Objects, Running = NoObject, Running' = Meant,
           UNCHANGED <<table, Holding, Meant, careful>>
    PROVE  Service!Next
<1>1. Service!Run(Self)
  BY DEF Service!Run, Holding, Objects, Pointers
<1> QED
  BY <1>1 DEF Service!Next

LEMMA ServiceRemoves ==
    ASSUME Meant \in Objects, Objects' = Objects \ {Meant}, table'.names = table.names,
           UNCHANGED <<Holding, Meant, Running, careful>>
    PROVE  Service!Next
<1>1. Service!Remove(Self)
  BY DEF Service!Remove, Holding, Objects
<1> QED
  BY <1>1 DEF Service!Next

LEMMA ServiceReturns ==
    ASSUME Meant' = NoObject, Running' = NoObject, UNCHANGED <<table, Holding, careful>>
    PROVE  Service!Next
<1>1. Service!Return(Self)
  BY DEF Service!Return, Holding, Pointers
<1> QED
  BY <1>1 DEF Service!Next

\* Without a reply nothing is promised and nothing runs.
LEMMA NoReplyYet ==
    ASSUME reply = NoReply
    PROVE  Promised = {} /\ Running = NoObject
BY DEF Promised, Running

LEMMA ChooseImplements ==
    ASSUME IInv, Choose, careful'
    PROVE  Service!Next \/ UNCHANGED Service!vars
<1>1. /\ request = NoRequest /\ reply = NoReply /\ reply' = NoReply
      /\ UNCHANGED <<table, heap>>
  BY DEF Choose, Ask
<1>2. /\ Promised = {} /\ Promised' = {} /\ Running = NoObject /\ Running' = NoObject
      /\ Meant = NoObject
  BY <1>1 DEF Promised, Running, Meant
<1>3. ASSUME NEW op \in {"create", "retrieve"}, NEW n \in Names \cup {NoName}, NEW c \in Classes,
             Ask([op |-> op, name |-> n, cls |-> c]), UNCHANGED <<proxies, careful>>
      PROVE  UNCHANGED Service!vars
  <2>1. request'.op = op
    BY <1>3 DEF Ask
  <2>2. Meant' = NoObject
    BY <2>1, <1>3 DEF Meant
  <2> QED
    BY <1>1, <1>2, <1>3, <2>2, ServiceStutters
<1>4. ASSUME NEW p \in proxies, NEW op \in {"call", "remove"}, Ask([op |-> op, proxy |-> p]),
             IF op = "call" THEN UNCHANGED <<proxies, careful>>
             ELSE Forget(p) /\ careful' = (careful /\ p.name = NoName)
      PROVE  Service!Next
  <2>1. request' = [op |-> op, proxy |-> p] /\ request' \in Request
    BY <1>4 DEF Ask, Request, IInv, Types
  <2>2. Meant' = p.obj
    BY <2>1, NullsAssumption DEF Meant
  <2>3. careful' = careful /\ careful
    BY <1>4 DEF IInv, Types
  <2>4. Holding = {q.obj : q \in proxies} /\ Holding' = {q.obj : q \in proxies'}
    BY <1>2 DEF Holding
  <2>5. Holding' = Holding \/ Holding' = Holding \ {p.obj}
    <3>1. CASE op = "call"
      BY <3>1, <1>4, <2>4
    <3>2. CASE op = "remove"
      <4>1. proxies' = proxies \ {p} /\ p.name = NoName
        BY <3>2, <1>4 DEF Forget
      <4>2. \A q \in proxies : p.obj = q.obj => q = p
        BY <2>3, <4>1 DEF IInv, Reliable
      <4> QED
        BY <2>4, <4>1, <4>2
    <3> QED
      BY <1>4, <3>1, <3>2
  <2>6. p.obj \in Holding
    BY <2>4
  <2> QED
    BY <1>1, <1>2, <2>2, <2>3, <2>5, <2>6, ServiceAsks
<1> QED
  BY <1>3, <1>4 DEF Choose

LEMMA ConstructImplements ==
    ASSUME IInv, IInv', Construct
    PROVE  Service!Next
<1> DEFINE id == NextId(table.ids)
<1>1. PICK o \in Objs :
          /\ memory[o] = "unused"
          /\ table' = IF request.name = NoName THEN AddPtr(table, o)
                                               ELSE AddNamed(table, o, request.name)
          /\ memory' = [memory EXCEPT ![o] = "live"]
          /\ Answer(0, id, request.cls, o)
  BY DEF Construct
<1>2. /\ request # NoRequest /\ request.op = "create" /\ reply = NoReply
      /\ request.name \notin DOMAIN table.names
  BY DEF Construct, Asked, Found, HasName
<1>3. request.name \in Names \cup {NoName} /\ request.cls \in Classes
  BY <1>2, RequestFields DEF IInv
<1>4. IF request.name = NoName THEN table'.names = table.names
      ELSE table'.names = WithName(table, request.name, o)
  BY <1>1, AddPtrTable, AddNamedTable DEF IInv, TableInv
<1>5. /\ reply' # NoReply /\ reply'.ret = 0 /\ reply'.obj = o
      /\ UNCHANGED <<request, proxies, careful>>
  <2>1. id \in Ids
    <3>1. Added(table, table', id, o)
      BY <1>1, AddPtrTable, AddNamedTable DEF IInv, TableInv
    <3>2. id \in 1..(table'.ids.size - 1)
      BY <3>1 DEF Added
    <3>3. (0..(table.ids.size - 1) \subseteq Ids)'
      BY SlotsInRange, PTL DEF IInv
    <3> QED
      BY <3>2, <3>3
  <2> QED
    BY <1>1, <1>3, <2>1, ReplyGiven DEF Answer
<1>6. Objects' = Objects \cup {o} /\ o \notin Objects
  <2>1. Objects = {q \in Objs : memory[q] = "live"}
    BY ObjectsLive
  <2>2. Objects' = {q \in Objs : memory'[q] = "live"}
    BY ObjectsLiveNext
  <2>3. memory \in [Objs -> {"unused", "live", "freed"}]
    BY DEF IInv, Types
  <2> QED
    BY <1>1, <2>1, <2>2, <2>3
<1>7. Promised = {} /\ Promised' = {o} /\ UNCHANGED <<Meant, Running>>
  BY <1>2, <1>5 DEF Promised, Meant, Running, Adopts
<1>8. Holding' = Holding \cup {o}
  BY <1>5, <1>7 DEF Holding
<1> QED
  BY <1>2, <1>3, <1>4, <1>5, <1>6, <1>7, <1>8, ServiceCreates

LEMMA AnswerImplements ==
    ASSUME IInv, IInv', careful', CreateExisting \/ RetrieveSessionObject \/ RetrieveNothing
    PROVE  Service!Next \/ UNCHANGED Service!vars
<1>1. /\ request # NoRequest /\ request.op \in {"create", "retrieve"} /\ reply = NoReply
      /\ UNCHANGED <<table, heap, request, proxies, careful>>
  BY DEF CreateExisting, RetrieveSessionObject, RetrieveNothing, Asked, Answer
<1>2. /\ UNCHANGED <<Meant, Running>> /\ Promised = {}
      /\ Holding = {p.obj : p \in proxies} /\ Holding' = Holding \cup Promised'
  BY <1>1 DEF Meant, Running, Promised, Holding
<1>3. CASE Promised' = {}
  BY <1>1, <1>2, <1>3, ServiceStutters
<1>4. CASE Promised' # {}
  <2>1. ~RetrieveNothing
    <3>1. 0 \in Ids
      BY BoundAssumption DEF Ids
    <3>2. request.cls \in Classes
      BY <1>1, RequestFields DEF IInv
    <3>3. RetrieveNothing => reply'.ret = -1 /\ request'.op = "retrieve"
      BY <3>1, <3>2, <1>1, ReplyGiven DEF RetrieveNothing, Asked
    <3> QED
      BY <3>3, <1>4 DEF Promised, Adopts
  <2> DEFINE o == table.names[request.name]
  <2>2. request.name \in DOMAIN table.names /\ request.name \in Names /\ o \in Objs
    BY <2>1 DEF CreateExisting, RetrieveSessionObject, Found, HasName, IInv, Types
  <2>3. reply'.obj = o
    <3>1. Answer(-1, IdOf(o), class[o], o) \/ Answer(0, IdOf(o), request.cls, o)
      BY <2>1 DEF CreateExisting, RetrieveSessionObject
    <3> HIDE DEF o
    <3>2. PICK ret, id, cls : Answer(ret, id, cls, o)
      BY <3>1
    <3>3. reply' = [ret |-> ret, id |-> id, cls |-> cls, obj |-> o]
      BY <3>2 DEF Answer
    <3> QED
      BY <3>3
  <2>4. Promised' = {o}
    BY <1>4, <2>3 DEF Promised
  <2> HIDE DEF o
  <2>5. Holding' = Holding \cup {o}
    BY <1>2, <2>4
  <2> QED
    BY <1>1, <1>2, <2>2, <2>5, ServiceFinds DEF o
<1> QED
  BY <1>3, <1>4

\* The proxy of a careful client's request leads to the object it means.
LEMMA MeantFound ==
    ASSUME IInv, careful, Asked("call") \/ Asked("remove")
    PROVE  Meant \in Objects /\ Lookup(request.proxy.id) = Meant
<1>1. request # NoRequest /\ request.op \in {"call", "remove"} /\ reply = NoReply
  BY DEF Asked
<1>2. Known(request.proxy) /\ Meant = request.proxy.obj
  BY <1>1 DEF IInv, Reliable, Uses, Meant
<1> QED
  BY <1>2, KnownFound, ObjectsLive DEF IInv, Lookup, Known

LEMMA CallImplements ==
    ASSUME IInv, careful, CallObject
    PROVE  Service!Next
<1>1. /\ request # NoRequest /\ request.op = "call" /\ reply = NoReply /\ Asked("call")
      /\ UNCHANGED <<table, heap, request, proxies, careful>>
      /\ reply' = [ret |-> 0, id |-> request.proxy.id, cls |-> request.proxy.cls,
                    obj |-> Lookup(request.proxy.id)]
  BY DEF CallObject, Asked, Answer
<1>2. Meant \in Objects /\ Lookup(request.proxy.id) = Meant
  BY <1>1, MeantFound
<1>3. reply' # NoReply /\ reply'.obj = Meant
  <2>1. request.proxy \in Proxy
    BY <1>1, RequestFields DEF IInv
  <2>2. Meant \in Objs
    BY <1>2, ObjectsLive
  <2>3. reply' \in Reply
    BY <1>1, <1>2, <2>1, <2>2 DEF Reply, Proxy
  <2> QED
    BY <1>1, <1>2, <2>3, NullsAssumption
<1>4. Running = NoObject /\ Running' = Meant /\ UNCHANGED <<Meant, Holding>>
  BY <1>1, <1>3 DEF Running, Meant, Holding, Promised
<1> QED
  BY <1>1, <1>2, <1>4, ServiceRuns

LEMMA RemoveImplements ==
    ASSUME IInv, IInv', careful, RemoveSessionObject
    PROVE  Service!Next
<1> DEFINE o == Lookup(request.proxy.id)
<1>1. /\ request # NoRequest /\ request.op = "remove" /\ reply = NoReply /\ Asked("remove")
      /\ IsValid(table.ids, request.proxy.id) /\ o \in Objs
      /\ table' = RemoveId(table, request.proxy.id)
      /\ memory' = [memory EXCEPT ![o] = IF refs[o] - 1 = 0 THEN "freed" ELSE @]
      /\ UNCHANGED <<request, proxies, careful>>
  BY DEF RemoveSessionObject, Asked, Answer, InRange, Holds, HeldAfterRemove
<1>2. Meant \in Objects /\ o = Meant
  BY <1>1, MeantFound
<1>3. refs[o] = 1 /\ request.proxy.id \in InUse(table)
  BY <1>1, LookupLive DEF IInv, TableInv
<1> HIDE DEF o
<1>4. Objects' = Objects \ {o}
  <2>1. Objects = {q \in Objs : memory[q] = "live"}
    BY ObjectsLive
  <2>2. Objects' = {q \in Objs : memory'[q] = "live"}
    BY ObjectsLiveNext
  <2>3. memory \in [Objs -> {"unused", "live", "freed"}]
    BY DEF IInv, Types
  <2> QED
    BY <1>1, <1>3, <2>1, <2>2, <2>3
<1>5. table'.names = table.names
  <2>1. Removed(table, table', request.proxy.id)
    BY <1>1, <1>3, RemoveIdTable DEF IInv, TableInv
  <2> QED
    BY <2>1 DEF Removed
<1>6. UNCHANGED <<Meant, Running, Holding>>
  BY <1>1 DEF Meant, Running, Holding, Promised
<1> QED
  BY <1>1, <1>2, <1>4, <1>5, <1>6, ServiceRemoves

LEMMA DoneImplements ==
    ASSUME IInv, careful', Adopt \/ Return \/ AdoptFailed
    PROVE  Service!Next \/ UNCHANGED Service!vars
<1>1. /\ reply # NoReply /\ request # NoRequest
      /\ request' = NoRequest /\ reply' = NoReply /\ UNCHANGED table
  BY DEF Adopt, Return, AdoptFailed, Keep, ClientDone, IInv, Types
<1>2. Meant' = NoObject /\ Running' = NoObject /\ Promised' = {}
  BY <1>1 DEF Meant, Running, Promised
<1>3. CASE Adopt
  <2>1. /\ request.op \in {"create", "retrieve"} /\ Adopts /\ UNCHANGED careful
        /\ proxies' = proxies \cup {Coming}
    BY <1>3 DEF Adopt, Keep, Coming
  <2>2. Promised = {reply.obj} /\ Coming.obj = reply.obj
    BY <1>1, <2>1 DEF Promised, Coming
  <2>3. Holding' = Holding
    BY <1>2, <2>1, <2>2 DEF Holding
  <2> QED
    BY <1>1, <1>2, <2>1, <2>3, ServiceReturns
<1>4. CASE Return
  <2>1. Promised = {} /\ UNCHANGED <<proxies, careful>>
    BY <1>4 DEF Return, Promised
  <2>2. Holding' = Holding
    BY <1>2, <2>1 DEF Holding
  <2> QED
    BY <1>1, <1>2, <2>1, <2>2, ServiceReturns
<1> QED
  BY <1>3, <1>4 DEF AdoptFailed

\* The handlers of a session implement the object service, to a client that is
\* careful.
THEOREM Implements == Spec => ImplementsService
<1>1. Init => Service!Init
  <2> SUFFICES ASSUME Init PROVE Service!Init
    OBVIOUS
  <2>1. IInv /\ Objects = {o \in Objs : memory[o] = "live"}
    BY InitIInv, ObjectsLive
  <2>2. Objects = {}
    BY <2>1 DEF Init
  <2>3. Holding = {} /\ Meant = NoObject /\ Running = NoObject
    BY DEF Init, Holding, Promised, Meant, Running
  <2>4. table.names = [n \in {} |-> NoObject]
    <3>1. table.names = NewTable.names
      BY NewTableEmpty, AddPtrTable DEF Init
    <3> QED
      BY <3>1 DEF NewTable
  <2> QED
    BY <2>2, <2>3, <2>4 DEF Init, Service!Init, Objects, Holding
<1>2. IInv /\ IInv' /\ [Next]_vars => [Service!Next]_(Service!vars)
  <2> SUFFICES ASSUME IInv, IInv', [Next]_vars
               PROVE  Service!Next \/ UNCHANGED Service!vars
    OBVIOUS
  <2>1. CASE ~careful'
    BY <2>1 DEF Service!Next, Service!Anything
  <2> SUFFICES ASSUME careful' PROVE Service!Next \/ UNCHANGED Service!vars
    BY <2>1
  <2>2. CASE Choose
    BY <2>2, ChooseImplements
  <2>3. CASE Handle
    <3>1. CASE ConstructThrows \/ RemoveZero \/ CallWrongClass
      <4>1. UNCHANGED <<table, heap, request, reply, proxies, careful>>
        BY <3>1 DEF ConstructThrows, RemoveZero, CallWrongClass, Throw
      <4>2. UNCHANGED <<Promised, Meant, Running>>
        BY <4>1 DEF Promised, Adopts, Meant, Running
      <4> QED
        BY <4>1, <4>2, ServiceStutters
    <3>2. CASE ConstructNull \/ TouchFreed \/ CallZero \/ FreeSlot
      BY <3>2, FaultIInv
    <3>3. CASE CallObject \/ RemoveSessionObject
      <4>1. careful
        BY <3>3 DEF CallObject, RemoveSessionObject, Answer
      <4> QED
        BY <3>3, <4>1, CallImplements, RemoveImplements
    <3> QED
      BY <2>3, <3>1, <3>2, <3>3, ConstructImplements, AnswerImplements DEF Handle
  <2>4. CASE Adopt \/ Return \/ AdoptFailed
    BY <2>4, DoneImplements
  <2>5. CASE UNCHANGED vars
    <3>1. UNCHANGED <<table, request, reply, proxies, careful, Promised, Meant, Running>>
      BY <2>5 DEF vars, Promised, Adopts, Meant, Running
    <3> QED
      BY <3>1, ServiceStutters
  <2> QED
    BY <2>2, <2>3, <2>4, <2>5 DEF Next
<1> QED
  BY <1>1, <1>2, Invariance, PTL DEF ImplementsService, Service!Spec, Spec
=============================================================================
