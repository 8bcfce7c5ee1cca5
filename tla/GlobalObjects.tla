---------------------------- MODULE GlobalObjects ----------------------------
(***************************************************************************)
(* The objects of a server that all its clients share.  The threads of the *)
(* sessions create, find and call them, and the application adds and       *)
(* removes servants of its own.                                            *)
(*                                                                         *)
(* m_mutex->globaleScopeObjects is held for single look-ups, for           *)
(* retrieveGlobaleObject and for add_servant and remove_servant, each one  *)
(* step here; creation and the loading of an argument use the table        *)
(* without it, and their steps are apart.  A client takes a reply in the   *)
(* step that sends it.                                                     *)
(***************************************************************************)
EXTENDS ObjectTable, FiniteSets

CONSTANTS
    Objs,           \* addresses of objects
    Servants,       \* those of the application, by add_servant
    Sessions, Names, Classes,
    Creatable,      \* the classes in m_globaleScopeFactory
    NullCreators,   \* those of them that were added with the creator 0
    Usage,          \* what each client asks for
    MaxRequests,    \* bound: requests in one behaviour ...
    MaxMisused,     \* ... and in one with misuse
    NoName, NoObject

Ops == {"create", "createNamed", "retrieve", "call"}

ASSUME ObjectsAssumption ==
    /\ IsFiniteSet(Objs) /\ Servants \subseteq Objs /\ NoObject \notin Objs
    /\ \A o \in Objs : o \notin Nat
ASSUME UsageAssumption ==
    /\ IsFiniteSet(Sessions)
    /\ Usage \in [Sessions -> SUBSET Ops]
    /\ Classes # {} /\ Creatable \subseteq Classes /\ NullCreators \subseteq Creatable
    /\ NoName \notin Names
    /\ MaxRequests \in Nat /\ MaxMisused \in Nat

\* `obj` is the object the server answered for (history).
Proxy == [id : Nat, cls : Classes, obj : Objs \cup {NoObject}]

NoProxy == [id |-> 0, cls |-> CHOOSE c \in Classes : TRUE, obj |-> NoObject]

Request == [op : Ops, name : Names \cup {NoName}, cls : Classes, proxy : Proxy]

NoRequest == [op |-> "call", name |-> NoName, cls |-> NoProxy.cls, proxy |-> NoProxy]

VARIABLES
    table,          \* m_globaleScopeObjects
    memory,         \* of every object: "unused", "live", "freed"
    refs,           \* its RefCounter
    class,          \* getClassName()
    objId,          \* m_id
    app,            \* the application's servants: "new", "added", "removed", "dropped"
    fault,          \* "no", or the assert or the access that stops the server
    \* each session
    at,             \* where its thread is
    req,            \* the request it handles
    x,              \* the local variable x, y or self of the handler
    newId,          \* the local variable id
    proxies,        \* what its client holds
    asked,          \* requests so far
    misuse          \* history: what has been done that the handlers do not bear

heap == <<memory, refs, class, objId>>
local == <<req, x, newId>>
history == <<asked, misuse>>
vars == <<table, heap, app, fault, at, local, proxies, history>>

\* "overlap": somebody looked for a name, added or removed an object while a
\* session created one; "overtaken": took an id or gave one back while a session
\* had read the head of the free list and not unlinked it; "sameName": began to
\* create by the name that a session was creating by.  "unknown": a class was
\* asked for that nobody added.  "noCreator": one added without a creator.
Misuses == {"overlap", "overtaken", "sameName", "unknown", "noCreator"}

Init ==
    /\ table = NewTable
    /\ memory = [o \in Objs |-> "unused"]
    /\ refs = [o \in Objs |-> 0]
    /\ class = [o \in Objs |-> NoProxy.cls]
    /\ objId = [o \in Objs |-> 0]
    /\ app = [o \in Servants |-> "new"]
    /\ fault = "no"
    /\ at = [s \in Sessions |-> "idle"]
    /\ req = [s \in Sessions |-> NoRequest]
    /\ x = [s \in Sessions |-> NoObject]
    /\ newId = [s \in Sessions |-> 0]
    /\ proxies = [s \in Sessions |-> {}]
    /\ asked = 0
    /\ misuse = {}
-----------------------------------------------------------------------------
(* Slips, for the mutation runs: the reply does not give the id of the       *)
(* object found; the name is taken by the object that comes last; the thread *)
(* of a call does not hold its object; a release counts twice.               *)
IdOfNext(o) == NextId(table.ids)
FoundNever(name) == FALSE
HeldByCallNot == 0
RefsAfterTwice(o, n) == refs[o] - 2 * n

\* add_ptr takes a reference.
HeldByTable == 1

\* argvals.self, an intrusive_ptr, takes another while the call lasts.
HeldByCall == 1

\* get_rawptr_byname finds something.
Found(name) == HasName(table, name)

\* getID()
IdOf(o) == objId[o]

Goto(s, where) == at' = [at EXCEPT ![s] = where]
At(s, where) == fault = "no" /\ at[s] = where

\* A session is looking for a name or creating an object.
Creation == \E s \in Sessions : at[s] \notin {"idle", "load", "cast", "invoke", "ended"}

\* History of a step that looks for a name, adds or removes; of one that takes an
\* id or gives one back; and of one that begins to create by the name n.
Overlap == IF Creation THEN {"overlap"} ELSE {}

Overtaking == IF \E s \in Sessions : at[s] = "link" THEN {"overlap", "overtaken"} ELSE {}

SameName(n) ==
    IF \E s \in Sessions : /\ req[s].op = "createNamed" /\ req[s].name = n
                           /\ at[s] \in {"lookUp", "findCreator", "construct", "insert", "store"}
      THEN {"overlap", "sameName"} ELSE {}

Misused(kinds) == misuse' = misuse \cup kinds

\* An assert fails, or memory is touched that is freed or not the vector's.
Fail(where) ==
    /\ fault' = where
    /\ UNCHANGED <<table, heap, app, at, local, proxies, history>>

\* n references of o go, and o with the last one.
RefsAfter(o, n) == refs[o] - n

Release(o, n) ==
    /\ refs' = [refs EXCEPT ![o] = RefsAfter(o, n)]
    /\ memory' = [memory EXCEPT ![o] = IF RefsAfter(o, n) = 0 THEN "freed" ELSE @]

\* The handler returns and the client has its answer.
Idle(s) ==
    /\ Goto(s, "idle")
    /\ req' = [req EXCEPT ![s] = NoRequest]
    /\ x' = [x EXCEPT ![s] = NoObject]
    /\ newId' = [newId EXCEPT ![s] = 0]

\* create_0, create_1, retrieve_1: the proxy that the caller gets.
Adopt(s, id, o) ==
    proxies' = [proxies EXCEPT ![s] =
                   @ \cup {[id |-> id, cls |-> req[s].cls, obj |-> o]}]
-----------------------------------------------------------------------------
(* The clients                                                               *)

Ask(s, r, handler) ==
    /\ At(s, "idle")
    /\ r.op \in Usage[s]
    /\ asked < IF misuse = {} THEN MaxRequests ELSE MaxMisused
    /\ asked' = asked + 1
    /\ req' = [req EXCEPT ![s] = r]
    /\ Goto(s, handler)
    /\ UNCHANGED <<table, heap, app, fault, x, newId, proxies>>

AskByName(s) ==
    \E n \in Names, c \in Classes :
        \/ /\ Ask(s, [NoRequest EXCEPT !.op = "createNamed", !.name = n, !.cls = c], "lookUp")
           /\ Misused(Overlap \cup SameName(n))
        \/ /\ Ask(s, [NoRequest EXCEPT !.op = "retrieve", !.name = n, !.cls = c], "retrieve")
           /\ Misused(Overlap)

AskCreate(s) ==
    /\ \E c \in Classes : Ask(s, [NoRequest EXCEPT !.op = "create", !.cls = c], "findCreator")
    /\ Misused(Overlap)

AskCall(s) ==
    /\ \E p \in proxies[s] : Ask(s, [NoRequest EXCEPT !.proxy = p], "load")
    /\ UNCHANGED misuse
-----------------------------------------------------------------------------
(* createNamedGlobaleObject, createGlobaleObject                             *)

\* Under the lock: is the name taken?
LookUp(s) ==
    /\ At(s, "lookUp")
    /\ IF Found(req[s].name)
         THEN /\ x' = [x EXCEPT ![s] = table.names[req[s].name]]
              /\ Goto(s, "existing")
         ELSE /\ Goto(s, "findCreator")
              /\ UNCHANGED x
    /\ UNCHANGED <<table, heap, app, fault, req, newId, proxies, history>>

\* It is: the answer is read from that object, not under the lock any more.
\* create_1 throws when its class is another.
Existing(s) ==
    /\ At(s, "existing")
    /\ memory[x[s]] # "freed"
    /\ IF class[x[s]] = req[s].cls THEN Adopt(s, IdOf(x[s]), x[s]) ELSE UNCHANGED proxies
    /\ Idle(s)
    /\ UNCHANGED <<table, heap, app, fault, history>>

\* Under the lock: the class has a creator.
FindCreator(s) ==
    /\ At(s, "findCreator")
    /\ req[s].cls \in Creatable
    /\ Goto(s, "construct")
    /\ UNCHANGED <<table, heap, app, fault, local, proxies, history>>

\* It has none, and the id in the reply was never written; create_0 ignores
\* the -1, and create_1 too, for the class in the reply is the one it sent.
NoCreator(s) ==
    /\ At(s, "findCreator")
    /\ req[s].cls \notin Creatable
    /\ \E id \in 0..3 : Adopt(s, id, NoObject)
    /\ Idle(s)
    /\ Misused({"unknown"})
    /\ UNCHANGED <<table, heap, app, fault, asked>>

\* creator->create(); add_ptr takes its reference at once when there is no
\* name, and as its last step when there is one.
Construct(s) ==
    /\ At(s, "construct")
    /\ req[s].cls \notin NullCreators
    /\ \E o \in Objs \ Servants :
          /\ memory[o] = "unused"
          /\ memory' = [memory EXCEPT ![o] = "live"]
          /\ class' = [class EXCEPT ![o] = req[s].cls]
          /\ refs' = [refs EXCEPT ![o] = IF req[s].op = "create" THEN HeldByTable ELSE 0]
          /\ x' = [x EXCEPT ![s] = o]
    /\ Goto(s, IF req[s].op = "create" THEN "alloc" ELSE "insert")
    /\ UNCHANGED <<table, objId, app, fault, req, newId, proxies, history>>

\* The creator is a null pointer, and is called.
ConstructNull(s) ==
    /\ At(s, "construct")
    /\ req[s].cls \in NullCreators
    /\ fault' = "null creator"
    /\ Misused({"noCreator"})
    /\ UNCHANGED <<table, heap, app, at, local, proxies, asked>>

\* add_ptr: the map first, which has no pointer under the name ...
NameFree(s) ==
    /\ At(s, "insert")
    /\ ~Found(req[s].name)
    /\ Goto(s, "store")
    /\ UNCHANGED <<table, heap, app, fault, local, proxies, history>>

NameExists(s) == At(s, "insert") /\ Found(req[s].name) /\ Fail("server.cpp:214")

\* ... and is given this one, over any that another thread has stored since;
StoreName(s) ==
    /\ At(s, "store")
    /\ table' = [table EXCEPT !.names = WithName(table, req[s].name, x[s])]
    /\ Goto(s, "alloc")
    /\ UNCHANGED <<heap, app, fault, local, proxies, history>>

\* ... then alloc_id, which reads the head of the free list ...
Alloc(s) ==
    /\ At(s, "alloc")
    /\ newId' = [newId EXCEPT ![s] = NextId(table.ids)]
    /\ table' = [table EXCEPT !.ids = WithRoom(@)]
    /\ Goto(s, "link")
    /\ Misused(Overtaking)
    /\ UNCHANGED <<heap, app, fault, req, x, proxies, asked>>

\* ... and unlinks it, and the pointer is stored, whatever the slot holds by now.
\* Who comes between these two stores has overtaken the session as well.
Link(s) ==
    /\ At(s, "link")
    /\ newId[s] \in Nat
    /\ table' = [table EXCEPT !.ids.at =
                    [[@ EXCEPT ![0] = table.ids.at[newId[s]]] EXCEPT ![newId[s]] = x[s]]]
    /\ Goto(s, IF req[s].op = "create" THEN "setId" ELSE "hold")
    /\ UNCHANGED <<heap, app, fault, local, proxies, history>>

\* The head was a pointer: a session had stored it in a slot taken before, and
\* unlinked what that slot held.
LinkOutside(s) == At(s, "link") /\ newId[s] \notin Nat /\ Fail("access_byid.cpp:55")

Hold(s) ==
    /\ At(s, "hold")
    /\ memory[x[s]] # "freed"
    /\ refs' = [refs EXCEPT ![x[s]] = @ + HeldByTable]
    /\ Goto(s, "setId")
    /\ UNCHANGED <<table, memory, class, objId, app, fault, local, proxies, history>>

SetId(s) ==
    /\ At(s, "setId")
    /\ memory[x[s]] # "freed"
    /\ objId' = [objId EXCEPT ![x[s]] = newId[s]]
    /\ Adopt(s, newId[s], x[s])
    /\ Idle(s)
    /\ UNCHANGED <<table, memory, refs, class, app, fault, history>>
-----------------------------------------------------------------------------
(* retrieveGlobaleObject, and a call                                         *)

\* Under the lock.  The reference of the local pointer goes when it returns,
\* and the object with it when there is no other.
Retrieve(s) ==
    /\ At(s, "retrieve")
    /\ Found(req[s].name)
    /\ LET o == table.names[req[s].name] IN
          /\ memory[o] # "freed"
          /\ memory' = [memory EXCEPT ![o] = IF refs[o] = 0 THEN "freed" ELSE @]
          /\ Adopt(s, IdOf(o), o)
    /\ Idle(s)
    /\ UNCHANGED <<table, refs, class, objId, app, fault, history>>

RetrieveNothing(s) ==
    /\ At(s, "retrieve")
    /\ ~Found(req[s].name)
    /\ Idle(s)
    /\ UNCHANGED <<table, heap, app, fault, proxies, history>>

RetrieveFreed(s) ==
    /\ At(s, "retrieve")
    /\ Found(req[s].name)
    /\ memory[table.names[req[s].name]] = "freed"
    /\ Fail("freed")

InRange(s) == IsValid(table.ids, req[s].proxy.id)

\* get_ptr_imp asserts that the slot holds a pointer.
Free(id) == table.ids.at[id] \in Nat

\* check_id and get_rawptr_byid, not under the lock; then the class is looked
\* at, and the object held: incompitible_class_cast throws.
Load(s) ==
    /\ At(s, "load")
    /\ InRange(s) /\ ~Free(req[s].proxy.id)
    /\ x' = [x EXCEPT ![s] = Ptr(table, req[s].proxy.id)]
    /\ Goto(s, "cast")
    /\ UNCHANGED <<table, heap, app, fault, req, newId, proxies, history>>

LoadZero(s) == At(s, "load") /\ ~InRange(s) /\ Fail("access_byid.cpp:215")

LoadFree(s) ==
    At(s, "load") /\ InRange(s) /\ Free(req[s].proxy.id) /\ Fail("access_byid.cpp:105")

Cast(s) ==
    /\ At(s, "cast")
    /\ memory[x[s]] # "freed"
    /\ class[x[s]] = req[s].proxy.cls
    /\ refs' = [refs EXCEPT ![x[s]] = @ + HeldByCall]
    /\ Goto(s, "invoke")
    /\ UNCHANGED <<table, memory, class, objId, app, fault, local, proxies, history>>

WrongClass(s) ==
    /\ At(s, "cast")
    /\ memory[x[s]] # "freed"
    /\ class[x[s]] # req[s].proxy.cls
    /\ Goto(s, "ended")
    /\ UNCHANGED <<table, heap, app, fault, local, proxies, history>>

\* The member function runs, and the packet with its reference goes.
Invoke(s) ==
    /\ At(s, "invoke")
    /\ memory[x[s]] # "freed"
    /\ Release(x[s], HeldByCall)
    /\ Idle(s)
    /\ UNCHANGED <<table, class, objId, app, fault, proxies, history>>

TouchFreed(s) ==
    /\ fault = "no" /\ at[s] \in {"existing", "hold", "setId", "cast", "invoke"}
    /\ memory[x[s]] = "freed"
    /\ Fail("freed")
-----------------------------------------------------------------------------
(* The application                                                           *)

\* A name that is taken is passed over in silence, and the servant has id 0.
AddServant(o, n) ==
    /\ fault = "no"
    /\ app[o] = "new"
    /\ Found(n) \/ table.ids.at[0] \in Nat
    /\ app' = [app EXCEPT ![o] = "added"]
    /\ memory' = [memory EXCEPT ![o] = "live"]
    /\ \E c \in Creatable : class' = [class EXCEPT ![o] = c]
    /\ IF Found(n)
         THEN /\ refs' = [refs EXCEPT ![o] = 1]
              /\ Misused(Overlap)
              /\ UNCHANGED <<table, objId>>
         ELSE /\ refs' = [refs EXCEPT ![o] = 1 + HeldByTable]
              /\ objId' = [objId EXCEPT ![o] = NextId(table.ids)]
              /\ table' = AddNamed(table, o, n)
              /\ Misused(Overlap \cup Overtaking \cup SameName(n))
    /\ UNCHANGED <<fault, at, local, proxies, asked>>

\* The head is a pointer, as for LinkOutside.
AddOutside ==
    /\ fault = "no"
    /\ \E o \in Servants : app[o] = "new"
    /\ \E n \in Names : ~Found(n)
    /\ table.ids.at[0] \notin Nat
    /\ Fail("access_byid.cpp:55")

\* remove_servant frees the id of the servant, and releases what is there; it
\* throws when the servant was passed over.
RemoveServant(o) ==
    /\ fault = "no"
    /\ app[o] = "added" /\ memory[o] # "freed"
    /\ objId[o] # 0
    /\ ~Free(objId[o])
    /\ memory[Ptr(table, objId[o])] # "freed"
    /\ app' = [app EXCEPT ![o] = "removed"]
    /\ table' = RemoveId(table, objId[o])
    /\ Release(Ptr(table, objId[o]), HeldByTable)
    /\ Misused(Overlap \cup Overtaking)
    /\ UNCHANGED <<class, objId, fault, at, local, proxies, asked>>

RemovePassedOver(o) ==
    /\ fault = "no"
    /\ app[o] = "added"
    /\ objId[o] = 0
    /\ app' = [app EXCEPT ![o] = "removed"]
    /\ UNCHANGED <<table, heap, fault, at, local, proxies, history>>

\* The application's own reference goes.
Drop(o) ==
    /\ fault = "no"
    /\ app[o] = "removed" /\ memory[o] # "freed"
    /\ app' = [app EXCEPT ![o] = "dropped"]
    /\ Release(o, 1)
    /\ UNCHANGED <<table, class, objId, fault, at, local, proxies, history>>

\* The servant is freed, or what is under its id; or no pointer is.
ServantLost(o) ==
    /\ fault = "no"
    /\ app[o] \in {"added", "removed"}
    /\ \/ memory[o] = "freed"
       \/ /\ app[o] = "added" /\ objId[o] # 0
          /\ Ptr(table, objId[o]) \notin {p \in Objs : memory[p] # "freed"}
    /\ Fail(IF memory[o] # "freed" /\ Free(objId[o]) THEN "access_byid.cpp:105" ELSE "freed")
-----------------------------------------------------------------------------
Create(s) ==
    \/ LookUp(s) \/ Existing(s) \/ FindCreator(s) \/ NoCreator(s) \/ Construct(s) \/ ConstructNull(s)
    \/ NameFree(s) \/ NameExists(s) \/ StoreName(s) \/ Alloc(s) \/ Link(s) \/ LinkOutside(s)
    \/ Hold(s) \/ SetId(s)

Find(s) == Retrieve(s) \/ RetrieveNothing(s) \/ RetrieveFreed(s)

Call(s) ==
    \/ Load(s) \/ LoadZero(s) \/ LoadFree(s)
    \/ Cast(s) \/ WrongClass(s) \/ Invoke(s) \/ TouchFreed(s)

Client(s) == AskByName(s) \/ AskCreate(s) \/ AskCall(s)

Application ==
    \E o \in Servants :
        \/ \E n \in Names : AddServant(o, n)
        \/ RemoveServant(o)
        \/ RemovePassedOver(o)
        \/ Drop(o)
        \/ ServantLost(o)

Next ==
    \/ \E s \in Sessions : Client(s) \/ Create(s) \/ Find(s) \/ Call(s)
    \/ Application
    \/ AddOutside

Spec == Init /\ [][Next]_vars
-----------------------------------------------------------------------------
\* Every variable has its type, and the references a natural number as long as
\* nobody has been overtaken: an id given twice makes remove_servant release an
\* object that the table does not hold.
TypeOK ==
    /\ table.ids.size \in Nat \ {0}
    /\ table.ids.at \in [0..(table.ids.size - 1) -> Objs \cup 0..(table.ids.size - 1)]
    /\ DOMAIN table.names \subseteq Names
    /\ \A n \in DOMAIN table.names : table.names[n] \in Objs
    /\ memory \in [Objs -> {"unused", "live", "freed"}]
    /\ refs \in [Objs -> Int]
    /\ "overtaken" \notin misuse => refs \in [Objs -> Nat]
    /\ class \in [Objs -> Classes]
    /\ objId \in [Objs -> Nat]
    /\ app \in [Servants -> {"new", "added", "removed", "dropped"}]
    /\ fault \in {"no", "freed", "null creator", "server.cpp:214", "access_byid.cpp:55",
                  "access_byid.cpp:105", "access_byid.cpp:215"}
    /\ at \in [Sessions -> {"idle", "lookUp", "existing", "findCreator", "construct",
                            "insert", "store", "alloc", "link", "hold", "setId",
                            "retrieve", "load", "cast", "invoke", "ended"}]
    /\ req \in [Sessions -> Request]
    /\ x \in [Sessions -> Objs \cup {NoObject}]
    /\ newId \in [Sessions -> Nat \cup Objs]
    /\ proxies \in [Sessions -> SUBSET Proxy]
    /\ asked \in 0..(MaxRequests + MaxMisused)
    /\ misuse \subseteq Misuses

Creating(o) == {s \in Sessions : x[s] = o /\ at[s] \in {"insert", "store", "alloc", "link", "hold"}}
Calling(o) == {s \in Sessions : x[s] = o /\ at[s] = "invoke"}

\* An object counts its holders: the table, the application, the calls that run
\* on it, and the anonymous creation that has not stored it yet.  It lives as
\* long as there is one, or a creation that is to add the first.  Clients that
\* do not create at the same time are enough for that.
RefsExact ==
    "overlap" \notin misuse => \A o \in Objs :
        /\ memory[o] = "live" =>
              refs[o] = Cardinality({i \in InUse(table) : table.ids.at[i] = o})
                        + Cardinality({s \in Creating(o) : req[s].op = "create"})
                        - Cardinality({s \in Creating(o) : at[s] = "hold"})
                        + Cardinality(Calling(o))
                        + (IF o \in Servants /\ app[o] \in {"added", "removed"} THEN 1 ELSE 0)
        /\ memory[o] = "live" => refs[o] > 0 \/ Creating(o) # {}

\* The table gives an id to one object at a time ("a new allocated id for `x`",
\* access_byid.hpp:85): what a thread has read from the head of the free list
\* is still free when it unlinks it, and no other thread holds it.
FreshForAll ==
    \A s \in Sessions : at[s] = "link" =>
        /\ newId[s] \in Nat /\ Free(newId[s])
        /\ \A t \in Sessions \ {s} : at[t] = "link" => newId[t] # newId[s]

\* No misuse, and the application has not removed a servant.
Untouched == misuse = {} /\ \A o \in Servants : app[o] \in {"new", "added"}

\* What destroy asserts of its table (access_byid.cpp:185) holds whenever nobody
\* is adding to it, until a servant is removed: an object known by name is known
\* by id.
NamesAccounted ==
    Untouched /\ (\A o \in Objs : Creating(o) = {}) => Accounted(table)

\* A proxy that a client was given denotes the object that the server meant,
\* for as long as the client keeps it, whatever the other clients do short of
\* misuse, until the application removes a servant.
ProxyDenotes ==
    Untouched => \A s \in Sessions : \A p \in proxies[s] :
        p.obj # NoObject /\ IsValid(table.ids, p.id) /\ Ptr(table, p.id) = p.obj

\* Every proxy was given for an object.
ProxiesGiven == \A s \in Sessions : \A p \in proxies[s] : p.obj # NoObject

\* A name, once given, means one object, although the map is read, tested and
\* written without the lock: as long as nobody has begun to create by a name that
\* another was creating by.
NamesKept ==
    [][ "sameName" \notin misuse' => \A n \in DOMAIN table.names :
          n \in DOMAIN table'.names /\ table'.names[n] = table.names[n] ]_vars

\* A call runs on an object that stays alive until it returns, whatever the
\* application and the other clients do meanwhile, as long as no session has been
\* overtaken between reading the head of the free list and unlinking it.
CallsLand ==
    "overtaken" \notin misuse => \A s \in Sessions : at[s] = "invoke" => memory[x[s]] = "live"

\* A servant that has an id is found under it until the application removes it,
\* although the sessions take ids without the lock, creations may overlap in any
\* other way, calls may be made with ids made up and the vector may double.
ServantsServed ==
    "overtaken" \notin misuse => \A o \in Servants : app[o] = "added" /\ objId[o] # 0 =>
        IsValid(table.ids, objId[o]) /\ Ptr(table, objId[o]) = o

\* No assert fails in a handler, no null pointer is called and no freed object
\* touched, short of misuse and until the application removes a servant.
NoFault == Untouched => fault = "no"

\* The session has created this object and has not told its client yet.
Unfinished(o) ==
    \E s \in Sessions :
        x[s] = o /\ at[s] \in {"insert", "store", "alloc", "link", "hold", "setId"}

Finished == {n \in DOMAIN table.names : ~Unfinished(table.names[n])}

Service == INSTANCE ObjectService WITH
    Clients <- Sessions,
    names <- [n \in Finished |-> table.names[n]],
    objects <- {o \in Pointers(table) : ~Unfinished(o)},
    holds <- [s \in Sessions |-> {p.obj : p \in proxies[s]}],
    meant <- [s \in Sessions |-> req[s].proxy.obj],
    running <- [s \in Sessions |-> IF at[s] = "invoke" THEN x[s] ELSE NoObject],
    reliable <- Untouched

\* Creation in its many steps, look-ups and calls are the object service, to all
\* the clients together: what the steps of a creation leave half done is never
\* seen, short of misuse and until the application removes a servant.
ImplementsService == Service!Spec

\* "assert(0 == y)" (server.cpp:214): the name that a handler found free is
\* still free when the handler inserts it.
NameStillFree == fault # "server.cpp:214"

\* "0 will not auto create GlobaleScope Object"
\* (samples/echo_server/echo_server.cpp:41): a class added without a creator is
\* one that clients cannot have created, and asking for it harms nobody.
CreatorPresent == fault # "null creator"

\* A client is never given an id that check_id then asserts not to exist
\* ("assert(0)", access_byid.cpp:215).
NoZeroId == fault # "access_byid.cpp:215"
=============================================================================
