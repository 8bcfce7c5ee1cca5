--------------------------- MODULE SessionObjects ---------------------------
(***************************************************************************)
(* The session-scope objects of one client: the handlers by which its      *)
(* session creates, finds, calls and removes them, and what the client     *)
(* makes of the replies (create_0, create_1, retrieve_1).                  *)
(*                                                                         *)
(* Requests of a client are handled one at a time by the thread of its     *)
(* session, the only one to touch these objects: a handler is one step.    *)
(* The session itself is object 1 of its table; it receives the calls that *)
(* create, find and remove.                                                *)
(***************************************************************************)
EXTENDS ObjectTable, FiniteSets

CONSTANTS
    Objs,           \* addresses of objects the session may create
    Self,           \* the session
    Names, Classes,
    Creatable,      \* the classes in m_sessionScopeFactory
    NullCreators,   \* those without a creator: the session's own class is one
    MaxRequests,    \* bound: requests in one behaviour
    NoName, NoObject, NoRequest, NoReply

\* An address is none of the numbers that free slots hold: get_ptr_imp asserts
\* that what it finds is above 1024.
ASSUME ObjectsAssumption ==
    /\ IsFiniteSet(Objs) /\ Self \notin Objs /\ NoObject \notin Objs
    /\ \A o \in Objs \cup {Self} : o \notin Nat
ASSUME NamesAssumption ==
    /\ Classes # {} /\ Creatable \subseteq Classes /\ NullCreators \subseteq Creatable
    /\ NoName \notin Names
ASSUME BoundAssumption == MaxRequests \in Nat

Ids == 0..(2 * MaxRequests + 8)     \* every id the vector can reach

\* What the client holds: an id, the class it takes the object for and the
\* name it was asked by.  `obj` is the object that was meant (history).
Proxy == [id : Ids, cls : Classes, name : Names \cup {NoName},
          obj : Objs \cup {NoObject}]

Request ==
    [op : {"create", "retrieve"}, name : Names \cup {NoName}, cls : Classes]
    \cup [op : {"call", "remove"}, proxy : Proxy]

\* `obj` is the object the handler answered for (history).
Reply == [ret : {0, -1}, id : Ids, cls : Classes, obj : Objs \cup {NoObject}]

ASSUME NullsAssumption == NoRequest \notin Request /\ NoReply \notin Reply

VARIABLES
    table,          \* m_sessionScopeObjects
    memory,         \* of every object: "unused", "live", "freed"
    refs,           \* its RefCounter
    class,          \* getClassName()
    objId,          \* m_id
    session,        \* "running" until run() leaves its loop
    fault,          \* "no", or the assert or the access that stops the server
    request,        \* the client's call in flight
    reply,          \* what it is answered
    proxies,        \* what the client holds
    asked,          \* requests so far
    careful         \* history: no object removed that has a name, no proxy used
                    \* that a failed retrieve left, and none asked for of a class
                    \* without a creator

heap == <<memory, refs, class, objId>>
vars == <<table, heap, session, fault, request, reply, proxies, asked,
          careful>>

Init ==
    /\ table = AddPtr(NewTable, Self)
    /\ memory = [o \in Objs |-> "unused"]
    /\ refs = [o \in Objs |-> 0]
    /\ class = [o \in Objs |-> CHOOSE c \in Classes : TRUE]
    /\ objId = [o \in Objs |-> 0]
    /\ session = "running"
    /\ fault = "no"
    /\ request = NoRequest
    /\ reply = NoReply
    /\ proxies = {}
    /\ asked = 0
    /\ careful = TRUE
-----------------------------------------------------------------------------
(* Slips, for the mutation runs: the reference of the table is not given     *)
(* back, or never taken; the reply gives the next id.                        *)
HeldAfterRemoveKept(o) == refs[o]
HeldByTableNot == 0
IdOfNext(o) == NextId(table.ids)

\* get_rawptr_byname finds something.
Found(name) == HasName(table, name)

\* remove releases the reference of the table; its caller's own comes and goes.
HeldAfterRemove(o) == refs[o] - 1

\* add_ptr takes a reference; that of the creating handler comes and goes.
HeldByTable == 1

\* getID()
IdOf(o) == objId[o]
-----------------------------------------------------------------------------
(* The client asks                                                           *)

Ask(r) ==
    /\ session = "running"
    /\ fault = "no"
    /\ request = NoRequest
    /\ reply = NoReply
    /\ asked < MaxRequests
    /\ request' = r
    /\ asked' = asked + 1
    /\ UNCHANGED <<table, heap, session, fault, reply>>

\* A removed object's proxy is not used any more.
Forget(p) == proxies' = proxies \ {p}

Choose ==
    \/ \E op \in {"create", "retrieve"}, n \in Names \cup {NoName}, c \in Classes :
          /\ op = "retrieve" => n # NoName
          /\ Ask([op |-> op, name |-> n, cls |-> c])
          /\ UNCHANGED <<proxies, careful>>
    \/ \E p \in proxies :
          Ask([op |-> "call", proxy |-> p]) /\ UNCHANGED <<proxies, careful>>
    \/ \E p \in proxies :
          /\ Ask([op |-> "remove", proxy |-> p])
          /\ Forget(p)
          /\ careful' = (careful /\ p.name = NoName)
-----------------------------------------------------------------------------
(* The session handles the request                                           *)

Asked(op) ==
    /\ session = "running"
    /\ fault = "no"
    /\ request # NoRequest
    /\ request.op = op
    /\ reply = NoReply

Answer(ret, id, cls, obj) ==
    /\ reply' = [ret |-> ret, id |-> id, cls |-> cls, obj |-> obj]
    /\ UNCHANGED <<session, fault, request, proxies, asked, careful>>

\* A handler throws: run() ends, the client is not told.
Throw ==
    /\ session' = "ended"
    /\ UNCHANGED <<table, heap, fault, request, reply, proxies, asked, careful>>

\* An assert fails, or freed memory is touched.
Fail(where) ==
    /\ fault' = where
    /\ UNCHANGED <<table, heap, session, request, reply, proxies, asked, careful>>

\* createSessionObject and the second half of createNamedSessionObject.
Construct ==
    /\ Asked("create")
    /\ ~Found(request.name)
    /\ request.cls \in Creatable \ NullCreators
    /\ \E o \in Objs :
          /\ memory[o] = "unused"
          /\ table' = IF request.name = NoName THEN AddPtr(table, o)
                                               ELSE AddNamed(table, o, request.name)
          /\ memory' = [memory EXCEPT ![o] = "live"]
          /\ refs' = [refs EXCEPT ![o] = HeldByTable]
          /\ class' = [class EXCEPT ![o] = request.cls]
          /\ objId' = [objId EXCEPT ![o] = NextId(table.ids)]
          /\ Answer(0, NextId(table.ids), request.cls, o)

\* ObjectFactory::create does not know the class.
ConstructThrows ==
    /\ Asked("create")
    /\ ~Found(request.name)
    /\ request.cls \notin Creatable
    /\ Throw

\* The creator is a null pointer, and is called.
ConstructNull ==
    /\ Asked("create")
    /\ ~Found(request.name)
    /\ request.cls \in NullCreators
    /\ fault' = "null creator"
    /\ careful' = FALSE
    /\ UNCHANGED <<table, heap, session, request, reply, proxies, asked>>

\* The name is taken: createNamedSessionObject answers with that object.
CreateExisting ==
    /\ Asked("create")
    /\ Found(request.name)
    /\ LET o == table.names[request.name] IN
          /\ memory[o] = "live"
          /\ Answer(-1, IdOf(o), class[o], o)
    /\ UNCHANGED <<table, heap>>

\* retrieveSessionObject.
RetrieveSessionObject ==
    /\ Asked("retrieve")
    /\ Found(request.name)
    /\ LET o == table.names[request.name] IN
          /\ memory[o] = "live"
          /\ Answer(0, IdOf(o), request.cls, o)
    /\ UNCHANGED <<table, heap>>

RetrieveNothing ==
    /\ Asked("retrieve")
    /\ ~Found(request.name)
    /\ Answer(-1, 0, request.cls, NoObject)
    /\ UNCHANGED <<table, heap>>

\* Both read the object of the name, which may be gone.
TouchFreed ==
    /\ Asked("create") \/ Asked("retrieve")
    /\ Found(request.name)
    /\ memory[table.names[request.name]] = "freed"
    /\ Fail("freed")

\* get_byid looks at the range of an id only. The vector never shrinks, so an
\* id of the server's is in range for good; a free slot holds a number, which
\* an assert of get_ptr_imp finds.
Lookup(id) == Ptr(table, id)
InRange == IsValid(table.ids, request.proxy.id)
Holds == Lookup(request.proxy.id) \in Objs

\* check_id asserts that id 0 is not asked for; removeSessionObject does not
\* call it, and get_ptr_imp throws.
CallZero == Asked("call") /\ ~InRange /\ Fail("access_byid.cpp:215")
RemoveZero == Asked("remove") /\ ~InRange /\ Throw

FreeSlot ==
    /\ Asked("call") \/ Asked("remove")
    /\ InRange /\ ~Holds
    /\ Fail("access_byid.cpp:105")

\* The argument is loaded as a T*, held, and called.
CallObject ==
    /\ Asked("call")
    /\ InRange /\ Holds
    /\ LET o == Lookup(request.proxy.id) IN
          /\ class[o] = request.proxy.cls
          /\ Answer(0, request.proxy.id, request.proxy.cls, o)
    /\ UNCHANGED <<table, heap>>

\* incompitible_class_cast
CallWrongClass ==
    /\ Asked("call")
    /\ InRange /\ Holds
    /\ class[Lookup(request.proxy.id)] # request.proxy.cls
    /\ Throw

\* removeSessionObject.
RemoveSessionObject ==
    /\ Asked("remove")
    /\ InRange /\ Holds
    /\ LET o == Lookup(request.proxy.id) IN
          /\ table' = RemoveId(table, request.proxy.id)
          /\ refs' = [refs EXCEPT ![o] = HeldAfterRemove(o)]
          /\ memory' = [memory EXCEPT ![o] = IF HeldAfterRemove(o) = 0 THEN "freed" ELSE @]
    /\ UNCHANGED <<class, objId>>
    /\ Answer(0, 0, request.proxy.cls, Lookup(request.proxy.id))
-----------------------------------------------------------------------------
(* The client takes the reply                                                *)

ClientDone ==
    /\ request' = NoRequest
    /\ reply' = NoReply
    /\ UNCHANGED <<table, heap, session, fault, asked>>

\* create_0, create_1 and retrieve_1 set the id of the proxy.  create_1 throws
\* when the name belongs to an object of another class.
Adopts ==
    \/ reply.ret = 0
    \/ request.op = "create" /\ reply.cls = request.cls

Keep ==
    /\ proxies' = proxies \cup {[id |-> reply.id, cls |-> request.cls,
                                 name |-> request.name, obj |-> reply.obj]}
    /\ ClientDone

Adopt ==
    /\ fault = "no"
    /\ reply # NoReply
    /\ request.op \in {"create", "retrieve"}
    /\ Adopts
    /\ UNCHANGED careful
    /\ Keep

Return ==
    /\ fault = "no"
    /\ reply # NoReply
    /\ request.op \in {"create", "retrieve"} => ~Adopts
    /\ UNCHANGED <<proxies, careful>>
    /\ ClientDone

\* retrieve_1 has set the id, 0, before it returns false; a careless caller
\* does not look and keeps the proxy.
AdoptFailed ==
    /\ fault = "no"
    /\ reply # NoReply
    /\ request.op = "retrieve" /\ ~Adopts
    /\ careful' = FALSE
    /\ Keep

Handle ==
    \/ Construct \/ ConstructThrows \/ ConstructNull \/ CreateExisting
    \/ RetrieveSessionObject \/ RetrieveNothing \/ TouchFreed
    \/ CallZero \/ RemoveZero \/ FreeSlot
    \/ CallObject \/ CallWrongClass \/ RemoveSessionObject

Next == Choose \/ Handle \/ Adopt \/ Return \/ AdoptFailed

Spec == Init /\ [][Next]_vars
-----------------------------------------------------------------------------
\* Every variable has its type.
TypeOK ==
    /\ table.ids.size \in Ids
    /\ table.ids.at \in [0..(table.ids.size - 1) -> Objs \cup {Self} \cup Ids]
    /\ DOMAIN table.names \subseteq Names
    /\ \A n \in DOMAIN table.names : table.names[n] \in Objs
    /\ memory \in [Objs -> {"unused", "live", "freed"}]
    /\ refs \in [Objs -> Nat]
    /\ class \in [Objs -> Classes]
    /\ objId \in [Objs -> Ids]
    /\ session \in {"running", "ended"}
    /\ fault \in {"no", "freed", "null creator", "access_byid.cpp:105", "access_byid.cpp:215"}
    /\ request \in Request \cup {NoRequest}
    /\ reply \in Reply \cup {NoReply}
    /\ proxies \subseteq Proxy
    /\ asked \in 0..MaxRequests
    /\ careful \in BOOLEAN

\* Between two requests the table and the heap agree: the ids in use hold the
\* session and the objects that are alive, each of which is held by the table
\* alone and knows its id.  Nothing leaks and nothing dangles.
PoolExact ==
    /\ Pointers(table) = {Self} \cup {o \in Objs : memory[o] = "live"}
    /\ Cardinality(InUse(table)) = Cardinality(Pointers(table))
    /\ \A o \in Objs : memory[o] = "live" => refs[o] = 1 /\ Ptr(table, objId[o]) = o

\* What destroy asserts of its table (access_byid.cpp:185) is true at all times,
\* as long as the client has been careful: an object known by name is known by
\* id.
NamesAccounted == careful => Accounted(table)

\* A proxy denotes the object it was got for, as long as the client holds it:
\* the id that the server gave in a reply still leads to that object when it
\* comes back in a later request.  This too wants a careful client.
ProxyDenotes ==
    careful => \A p \in proxies : p.id \in InUse(table) /\ Ptr(table, p.id) = p.obj

\* No assert of the object table fails, no null pointer is called and no freed
\* object touched, unless the client has been careless.
NoFault == careful => fault = "no"

\* The object of a reply that the client is going to adopt is as good as held.
Promised == IF reply # NoReply /\ request.op \in {"create", "retrieve"} /\ Adopts
            THEN {reply.obj} ELSE {}

Meant == IF request # NoRequest /\ request.op \in {"call", "remove"}
         THEN request.proxy.obj ELSE NoObject

Running == IF reply # NoReply /\ request.op = "call" THEN reply.obj ELSE NoObject

Service == INSTANCE ObjectService WITH
    Clients <- {Self},
    names <- table.names,
    objects <- Pointers(table) \ {Self},
    holds <- [c \in {Self} |-> {p.obj : p \in proxies} \cup Promised],
    meant <- [c \in {Self} |-> Meant],
    running <- [c \in {Self} |-> Running],
    reliable <- careful

\* To a careful client the handlers of its session are the object service:
\* creating by a name that is taken finds, a call runs on the object it means,
\* and nothing else is removed with an object.
ImplementsService == Service!Spec
=============================================================================
