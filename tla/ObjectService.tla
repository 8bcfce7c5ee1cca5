---------------------------- MODULE ObjectService ----------------------------
(***************************************************************************)
(* What a server promises to the clients of its objects: creation and      *)
(* look-up are atomic, a name means one object, and a call runs on the     *)
(* object that the caller means.  There are no ids here and no tables, and *)
(* once somebody has been careless there is no promise either.             *)
(***************************************************************************)
CONSTANTS Clients, Objs, Names, NoObject

VARIABLES
    names,      \* the objects that have one, by name
    objects,    \* the objects there are
    holds,      \* of every client: the objects it has proxies of
    meant,      \* ... the object it has asked to call or remove
    running,    \* ... the object its call runs on
    reliable

vars == <<names, objects, holds, meant, running, reliable>>

Init ==
    /\ names = [n \in {} |-> NoObject]
    /\ objects = {}
    /\ holds = [c \in Clients |-> {}]
    /\ meant = [c \in Clients |-> NoObject]
    /\ running = [c \in Clients |-> NoObject]
    /\ reliable = TRUE

Gets(c, o) == holds' = [holds EXCEPT ![c] = @ \cup {o}]

Exists(o) == o \notin objects /\ objects' = objects \cup {o}

Named(n, o) ==
    /\ n \notin DOMAIN names
    /\ names' = [m \in DOMAIN names \cup {n} |-> IF m = n THEN o ELSE names[m]]

Create(c, o) ==
    /\ Exists(o)
    /\ Gets(c, o)
    /\ UNCHANGED <<names, meant, running, reliable>>

CreateNamed(c, n, o) ==
    /\ Exists(o) /\ Named(n, o)
    /\ Gets(c, o)
    /\ UNCHANGED <<meant, running, reliable>>

\* The application adds an object of its own.
Publish(n, o) ==
    /\ Exists(o) /\ Named(n, o)
    /\ UNCHANGED <<holds, meant, running, reliable>>

\* To create by a name that is taken is to find.
Find(c, n) ==
    /\ n \in DOMAIN names
    /\ Gets(c, names[n])
    /\ UNCHANGED <<names, objects, meant, running, reliable>>

\* Who asks for removal gives up the proxy.
Ask(c) ==
    /\ meant[c] = NoObject
    /\ \E o \in holds[c] :
          /\ meant' = [meant EXCEPT ![c] = o]
          /\ \E kept \in {holds[c], holds[c] \ {o}} : holds' = [holds EXCEPT ![c] = kept]
    /\ UNCHANGED <<names, objects, running, reliable>>

Run(c) ==
    /\ meant[c] \in objects
    /\ running[c] = NoObject
    /\ running' = [running EXCEPT ![c] = meant[c]]
    /\ UNCHANGED <<names, objects, holds, meant, reliable>>

Remove(c) ==
    /\ meant[c] \in objects
    /\ objects' = objects \ {meant[c]}
    /\ UNCHANGED <<names, holds, meant, running, reliable>>

Return(c) ==
    /\ meant' = [meant EXCEPT ![c] = NoObject]
    /\ running' = [running EXCEPT ![c] = NoObject]
    /\ UNCHANGED <<names, objects, holds, reliable>>

\* Somebody is careless, now or some time ago.
Anything == ~reliable'

Next ==
    \/ \E c \in Clients :
          \/ \E o \in Objs : Create(c, o) \/ \E n \in Names : CreateNamed(c, n, o)
          \/ \E n \in Names : Find(c, n)
          \/ Ask(c) \/ Run(c) \/ Remove(c) \/ Return(c)
    \/ \E o \in Objs, n \in Names : Publish(n, o)
    \/ Anything

Spec == Init /\ [][Next]_vars
=============================================================================
