-------------------------- MODULE SessionLifecycle --------------------------
(***************************************************************************)
(* The server's accept loop and the life of its sessions: a session is     *)
(* constructed around the accepted socket, listed, and given a thread that *)
(* serves its client until something is thrown; it is an intrusive_ptr     *)
(* object, and its destructor is what closes the socket.                   *)
(*                                                                         *)
(* Sessions are named by the connection they serve.  What a session does   *)
(* with a request is in CallProtocol and SessionObjects; here it is one    *)
(* step that may throw.  m_mutex->sessionList guards single operations on  *)
(* m_sessionList, which are single steps.                                  *)
(***************************************************************************)
EXTENDS Integers, FiniteSets

CONSTANTS
    Sessions,       \* one for each connection a client makes
    FdLimit,        \* file descriptors for accepted sockets
    MaxRetry,       \* 100 in ~rpc_server_base
    MayStop,        \* may the listening socket fail?
    NoSession

ASSUME SessionsAssumption == IsFiniteSet(Sessions) /\ NoSession \notin Sessions
ASSUME LimitsAssumption ==
    FdLimit \in Nat \ {0} /\ MaxRetry \in Nat \ {0} /\ MayStop \in BOOLEAN

VARIABLES
    \* the accept loop and the server object
    server,         \* where rpc_server_base::start and the destructor are
    current,        \* `session` in start()
    retry,          \* `nRetry` of the destructor
    sessionList,    \* m_sessionList
    \* each session
    memory,         \* "none", "live", "freed"
    refs,           \* its RefCounter
    inPool,         \* is it in its own m_sessionScopeObjects?
    thread,         \* where its thread is
    threadPtr,      \* has m_thread been assigned?
    \* each connection
    peer,           \* "none", "open", "closed": the client's end
    socket,         \* "none", "open", "closed": the server's end
    \* the process
    fault           \* "none", or what has been used after its deletion

serverVars == <<server, current, retry, sessionList>>
sessionVars == <<memory, refs, inPool, thread, threadPtr>>
wireVars == <<peer, socket>>
vars == <<serverVars, sessionVars, wireVars, fault>>

Init ==
    /\ server = "accept"
    /\ current = NoSession
    /\ retry = 0
    /\ sessionList = {}
    /\ memory = [s \in Sessions |-> "none"]
    /\ refs = [s \in Sessions |-> 0]
    /\ inPool = [s \in Sessions |-> FALSE]
    /\ thread = [s \in Sessions |-> "none"]
    /\ threadPtr = [s \in Sessions |-> FALSE]
    /\ peer = [s \in Sessions |-> "none"]
    /\ socket = [s \in Sessions |-> "none"]
    /\ fault = "none"

OpenSockets == {s \in Sessions : socket[s] = "open"}
-----------------------------------------------------------------------------
(* Slips, for the mutation runs: the session does not hold itself; it stays  *)
(* in the list; a reference too many is released; the loop of run catches    *)
(* what is thrown in it.                                                     *)
HoldSelfForgotten == 0
RemovedFromListNever(s) == sessionList
RefsAfterTwice(s, n) == refs[s] - 2 * n
AfterThrowAgain == "reading"

\* add_ptr(this) takes a reference.
HoldSelf == 1

\* m_sessionList.erase(session).
RemovedFromList(s) == sessionList \ {s}

\* How many references a holder counts.
Counted(holds) == IF holds THEN 1 ELSE 0

\* n references are released.
RefsAfter(s, n) == refs[s] - n

\* Where a thread goes when something is thrown in the loop of run.
AfterThrow == "exiting"

\* Each session of S loses n references.  The last one to go deletes it;
\* ~RpcSession deletes the stream, whose destructor closes the socket.
Release(S, n) ==
    LET deleted == {s \in S : RefsAfter(s, n) = 0}
    IN  /\ refs' = [s \in Sessions |-> IF s \in S THEN RefsAfter(s, n) ELSE refs[s]]
        /\ memory' = [s \in Sessions |-> IF s \in deleted THEN "freed" ELSE memory[s]]
        /\ socket' = [s \in Sessions |-> IF s \in deleted THEN "closed" ELSE socket[s]]
-----------------------------------------------------------------------------
(* The clients                                                               *)

Connect(s) ==
    /\ peer[s] = "none"
    /\ server \in {"accept", "start", "assign"}
    /\ peer' = [peer EXCEPT ![s] = "open"]
    /\ UNCHANGED <<serverVars, sessionVars, socket, fault>>

Hangup(s) ==
    /\ peer[s] = "open"
    /\ peer' = [peer EXCEPT ![s] = "closed"]
    /\ UNCHANGED <<serverVars, sessionVars, socket, fault>>
-----------------------------------------------------------------------------
(* rpc_server_base::start                                                    *)

\* accept, createSession, and the insertion into m_sessionList.
Accept(s) ==
    /\ server = "accept"
    /\ peer[s] # "none"
    /\ socket[s] = "none"
    /\ Cardinality(OpenSockets) < FdLimit
    /\ socket' = [socket EXCEPT ![s] = "open"]
    /\ memory' = [memory EXCEPT ![s] = "live"]
    /\ sessionList' = sessionList \cup {s}
    /\ refs' = [refs EXCEPT ![s] = 1]
    /\ current' = s
    /\ server' = "start"
    /\ UNCHANGED <<retry, inPool, thread, threadPtr, peer, fault>>

\* session->start(): the thread runs before m_thread is assigned.
StartThread ==
    /\ server = "start"
    /\ thread' = [thread EXCEPT ![current] = "new"]
    /\ server' = "assign"
    /\ UNCHANGED <<current, retry, sessionList, memory, refs, inPool, threadPtr, wireVars,
                   fault>>

AssignThread ==
    /\ server = "assign"
    /\ threadPtr' = [threadPtr EXCEPT ![current] = TRUE]
    /\ server' = "accept"
    /\ current' = NoSession
    /\ UNCHANGED <<retry, sessionList, memory, refs, inPool, thread, wireVars, fault>>

\* accept returns -1: the listening socket failed, or a connection waits and
\* there is no descriptor for it.  createSession returns 0 and start() ends.
AcceptFails ==
    /\ server = "accept"
    /\ \/ MayStop
       \/ Cardinality(OpenSockets) = FdLimit
          /\ \E s \in Sessions : peer[s] # "none" /\ socket[s] = "none"
    /\ server' = "closing"
    /\ UNCHANGED <<current, retry, sessionList, sessionVars, wireVars, fault>>

\* ~rpc_server_base looks at the list MaxRetry times, without waiting between.
Retry ==
    /\ server = "closing"
    /\ sessionList # {}
    /\ retry < MaxRetry
    /\ retry' = retry + 1
    /\ UNCHANGED <<server, current, sessionList, sessionVars, wireVars, fault>>

\* The object pools, the stub table and the mutexes are destroyed; then the
\* members of the server are, m_sessionList with the references it holds.
Destroy ==
    /\ server = "closing"
    /\ sessionList = {} \/ retry = MaxRetry
    /\ server' = "destroyed"
    /\ sessionList' = {}
    /\ Release(sessionList, 1)
    /\ UNCHANGED <<current, retry, inPool, thread, threadPtr, peer, fault>>
-----------------------------------------------------------------------------
(* session_base::run, in the session's thread                                *)

\* at_thread_exit is told of removeSession, and the session adds itself to its
\* own objects.
Run(s) ==
    /\ thread[s] = "new"
    /\ memory[s] = "live"
    /\ inPool' = [inPool EXCEPT ![s] = TRUE]
    /\ refs' = [refs EXCEPT ![s] = @ + HoldSelf]
    /\ thread' = [thread EXCEPT ![s] = "reading"]
    /\ UNCHANGED <<serverVars, memory, threadPtr, wireVars, fault>>

\* A thread that the accept loop has started begins after m_sessionList let its
\* session go.
RunFreed(s) ==
    /\ thread[s] = "new"
    /\ memory[s] = "freed"
    /\ fault' = "freedSession"
    /\ UNCHANGED <<serverVars, sessionVars, wireVars>>

\* A request arrives, for another object or for the session itself, which its
\* packet then holds.
ReadRequest(s) ==
    /\ thread[s] = "reading"
    /\ peer[s] = "open"
    /\ server # "destroyed"
    /\ \/ /\ thread' = [thread EXCEPT ![s] = "serving"]
          /\ UNCHANGED refs
       \/ /\ thread' = [thread EXCEPT ![s] = "servingSelf"]
          /\ refs' = [refs EXCEPT ![s] = @ + 1]
    /\ UNCHANGED <<serverVars, memory, inPool, threadPtr, wireVars, fault>>

\* The call is answered, or throws; its packet goes.
FinishRequest(s) ==
    /\ thread[s] \in {"serving", "servingSelf"}
    /\ Release({s}, IF thread[s] = "servingSelf" THEN 1 ELSE 0)
    /\ \E next \in {"reading", AfterThrow} : thread' = [thread EXCEPT ![s] = next]
    /\ UNCHANGED <<serverVars, inPool, threadPtr, peer, fault>>

\* read_header throws at the end of the stream.
ReadThrows(s) ==
    /\ thread[s] = "reading"
    /\ peer[s] = "closed"
    /\ thread' = [thread EXCEPT ![s] = AfterThrow]
    /\ UNCHANGED <<serverVars, memory, refs, inPool, threadPtr, wireVars, fault>>

\* removeSession: the reference of the list and that of the argument go.
RemoveSession(s) ==
    /\ thread[s] = "exiting"
    /\ server # "destroyed"
    /\ sessionList' = RemovedFromList(s)
    /\ Release({s}, Counted(s \in sessionList) - Counted(s \in RemovedFromList(s)))
    /\ thread' = [thread EXCEPT ![s] = "done"]
    /\ UNCHANGED <<server, current, retry, inPool, threadPtr, peer, fault>>

\* A thread for which the destructor has not waited looks a request up in the
\* stub table, which is gone.
ReadDestroyed(s) ==
    /\ thread[s] = "reading"
    /\ peer[s] = "open"
    /\ server = "destroyed"
    /\ fault' = "destroyedServer"
    /\ UNCHANGED <<serverVars, sessionVars, wireVars>>

\* Such a thread goes on with the deleted stub of the call it serves (one that
\* needs its stub no more may still finish), or locks the deleted mutex of
\* m_sessionList.
UseDestroyed(s) ==
    /\ thread[s] \in {"serving", "servingSelf", "exiting"}
    /\ server = "destroyed"
    /\ fault' = "destroyedServer"
    /\ UNCHANGED <<serverVars, sessionVars, wireVars>>
-----------------------------------------------------------------------------
\* What happens after something deleted has been used is anybody's guess: the
\* model stops at the fault.
SessionStep(s) ==
    /\ fault = "none"
    /\ \/ Run(s) \/ FinishRequest(s) \/ ReadThrows(s) \/ RemoveSession(s)
       \/ RunFreed(s) \/ UseDestroyed(s)

ServerStep ==
    /\ fault = "none"
    /\ \/ \E s \in Sessions : Accept(s)
       \/ StartThread \/ AssignThread \/ Retry \/ Destroy

ClientStep(s) ==
    /\ fault = "none"
    /\ Connect(s) \/ Hangup(s) \/ ReadRequest(s) \/ ReadDestroyed(s)

Next ==
    \/ \E s \in Sessions : ClientStep(s) \/ SessionStep(s)
    \/ ServerStep
    \/ fault = "none" /\ AcceptFails

\* Threads are scheduled and the server's functions return; clients do as they
\* please.
Fairness == WF_vars(ServerStep) /\ \A s \in Sessions : WF_vars(SessionStep(s))

Spec == Init /\ [][Next]_vars
FairSpec == Spec /\ Fairness
-----------------------------------------------------------------------------
Ended(s) == thread[s] = "done"

\* Every variable has its type.
TypeOK ==
    /\ server \in {"accept", "start", "assign", "closing", "destroyed"}
    /\ current \in Sessions \cup {NoSession}
    /\ retry \in 0..MaxRetry
    /\ sessionList \subseteq Sessions
    /\ memory \in [Sessions -> {"none", "live", "freed"}]
    /\ refs \in [Sessions -> Nat]
    /\ inPool \in [Sessions -> BOOLEAN]
    /\ thread \in [Sessions -> {"none", "new", "reading", "serving", "servingSelf",
                                "exiting", "done"}]
    /\ threadPtr \in [Sessions -> BOOLEAN]
    /\ peer \in [Sessions -> {"none", "open", "closed"}]
    /\ socket \in [Sessions -> {"none", "open", "closed"}]
    /\ fault \in {"none", "freedSession", "destroyedServer"}

\* A session counts one reference for each of its holders: m_sessionList, its
\* own object pool, and the call it is serving.
RefsExact ==
    \A s \in Sessions : memory[s] = "live" =>
        refs[s] = Counted(s \in sessionList) + Counted(inPool[s])
                  + Counted(thread[s] = "servingSelf")

\* A session that is not in memory is in nobody's hands: not in those of its
\* own thread, nor in those of the accept loop, which assigns m_thread after
\* the thread may have ended.  The one exception is the thread that has not
\* begun when the server is destroyed.  Nothing deleted is used before that.
NoUseAfterFree ==
    /\ \A s \in Sessions : memory[s] # "live" =>
          /\ s # current
          /\ s \notin sessionList
          /\ \/ thread[s] \in {"none", "done"}
             \/ server = "destroyed" /\ thread[s] = "new"
    /\ server # "destroyed" => fault = "none"

\* While there is a server, m_sessionList, by which its destructor judges
\* whether it may go on, holds the accepted sessions whose threads have not
\* ended.
ListExact ==
    server # "destroyed" =>
        \A s \in Sessions : s \in sessionList <=> memory[s] # "none" /\ ~Ended(s)

\* A client that hangs up is noticed while there is a server: the thread of its
\* session ends, whatever the accept loop and the other sessions do.
HangupEnds ==
    \A s \in Sessions :
        peer[s] = "closed" /\ socket[s] = "open" ~> Ended(s) \/ server = "destroyed"

\* "close the session" (run, lines 94, 97, 100): when a session has ended, its
\* socket is closed and the client told.
SessionCloses == \A s \in Sessions : Ended(s) ~> socket[s] = "closed"

\* The destructor destroys the object pools and the stub table only when no
\* session is left to use them.
ServerOutlivesSessions ==
    server = "destroyed" => \A s \in Sessions : thread[s] \in {"none", "done"}
=============================================================================
