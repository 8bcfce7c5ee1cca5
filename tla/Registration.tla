---------------------------- MODULE Registration ----------------------------
(***************************************************************************)
(* What a server program does before it serves: it registers classes, with *)
(* auto_create or with its first servant of a class in add_servant.  This  *)
(* fills the two factories and the table of the functions clients may      *)
(* call, all of them AccessByNameID.  The constructor has registered the   *)
(* class of the sessions.                                                  *)
(*                                                                         *)
(* Every registration makes a ClassMeta and its stubs anew; a class is     *)
(* registered once, so they are named by the class.  What its creator is   *)
(* matters to GlobalObjects and SessionObjects (NullCreators).             *)
(***************************************************************************)
EXTENDS ObjectTable, Sequences

CONSTANTS
    Classes,        \* the C++ classes of the remote objects
    Main,           \* that of the sessions
    ClassName,      \* of each
    Scope,          \* what it derives from: "globale" or "session"
    Stubs,          \* the server_stub objects
    StubsOf,        \* those that get_meta of a class makes
    FullName        \* of each stub: m_name, the class name and the function's

Scopes == {"globale", "session"}

\* Within a scope a name is that of one class.
ASSUME ClassesAssumption ==
    /\ Main \in Classes
    /\ DOMAIN ClassName = Classes
    /\ Scope \in [Classes -> Scopes] /\ Scope[Main] = "session"
    /\ \A c, d \in Classes : ClassName[c] = ClassName[d] /\ Scope[c] = Scope[d] => c = d
ASSUME StubsAssumption ==
    /\ StubsOf \in [Classes -> Seq(Stubs)]
    /\ DOMAIN FullName = Stubs
    /\ \A c, d \in Classes : \A i \in DOMAIN StubsOf[c], j \in DOMAIN StubsOf[d] :
          StubsOf[c][i] = StubsOf[d][j] => c = d /\ i = j

VARIABLES
    factory,        \* m_globaleScopeFactory and m_sessionScopeFactory
    stubTable,      \* m_stubTable
    stubId,         \* m_id of every stub
    server          \* "registering", then "serving"; or the exception or the
                    \* failed assert that ends the program before

registration == <<factory, stubTable, stubId, server>>

\* ObjectFactoryBase::add, and FindMetaByName before it.
Add(factories, c) == [factories EXCEPT ![Scope[c]] = AddNamed(@, c, ClassName[c])]
Known(c) == HasName(factory[Scope[c]], ClassName[c])

\* One round of the loop in gen_stubs; the assert ends it when the name is
\* there already.
GenStub(r, s) ==
    IF r.clash \/ HasName(r.table, FullName[s]) THEN [r EXCEPT !.clash = TRUE]
    ELSE [table |-> AddNamed(r.table, s, FullName[s]),
          id |-> [r.id EXCEPT ![s] = NextId(r.table.ids)],
          clash |-> FALSE]

GenStubs(table, id, c) ==
    LET after[k \in 0..Len(StubsOf[c])] ==
            IF k = 0 THEN [table |-> table, id |-> id, clash |-> FALSE]
                     ELSE GenStub(after[k-1], StubsOf[c][k])
    IN  after[Len(StubsOf[c])]

Empty == [scope \in Scopes |-> NewTable]
OfMain == GenStubs(NewTable, [s \in Stubs |-> 0], Main)

\* The constructor of rpc_server is through, or ended by the assert in gen_stubs.
InitRegistration ==
    /\ factory = Add(Empty, Main)
    /\ stubTable = OfMain.table
    /\ stubId = OfMain.id
    /\ server = IF OfMain.clash THEN "aborted" ELSE "registering"

\* The stubs of c enter the table; an assert may find a name taken.
Stubbed(c, clash) ==
    LET r == GenStubs(stubTable, stubId, c) IN
    /\ r.clash = clash
    /\ stubTable' = r.table
    /\ stubId' = r.id
    /\ server' = IF clash THEN "aborted" ELSE server

AutoCreate(c) ==
    /\ server = "registering"
    /\ ~Known(c)
    /\ factory' = Add(factory, c)
    /\ Stubbed(c, FALSE)

\* The class is in its factory when an assert finds the stub's name taken.
AutoCreateClash(c) ==
    /\ server = "registering"
    /\ ~Known(c)
    /\ factory' = Add(factory, c)
    /\ Stubbed(c, TRUE)

\* "class existed"
AutoCreateExisting(c) ==
    /\ server = "registering"
    /\ Known(c)
    /\ server' = "thrown"
    /\ UNCHANGED <<factory, stubTable, stubId>>

\* add_servant, of a class that is not known; otherwise it registers nothing.
\* The stubs come first here.  The servant itself is up to GlobalObjects.
AddServant(c) ==
    /\ server = "registering"
    /\ Scope[c] = "globale"
    /\ ~Known(c)
    /\ Stubbed(c, FALSE)
    /\ factory' = Add(factory, c)

AddServantClash(c) ==
    /\ server = "registering"
    /\ Scope[c] = "globale"
    /\ ~Known(c)
    /\ Stubbed(c, TRUE)
    /\ UNCHANGED factory

Start ==
    /\ server = "registering"
    /\ server' = "serving"
    /\ UNCHANGED <<factory, stubTable, stubId>>

Register ==
    \/ \E c \in Classes :
          \/ AutoCreate(c) \/ AutoCreateClash(c) \/ AutoCreateExisting(c)
          \/ AddServant(c) \/ AddServantClash(c)
    \/ Start
=============================================================================
