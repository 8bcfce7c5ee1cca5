----------------------- MODULE SessionLifecycleProofs -----------------------
(***************************************************************************)
(* What holds of the sessions of a server for any number of clients, any   *)
(* limit on descriptors and however the accept loop ends.                  *)
(***************************************************************************)
EXTENDS SessionLifecycle, TLAPS

\* A session is in memory from accept on, and its socket is open as long; it is
\* deleted with the server if its thread has not begun by then.
Existing ==
    \A s \in Sessions :
        /\ memory[s] = "none" <=> socket[s] = "none"
        /\ memory[s] = "live" <=> socket[s] = "open"
        /\ memory[s] = "none" => thread[s] = "none" /\ s \notin sessionList
        /\ memory[s] = "freed" => thread[s] = "new" /\ server = "destroyed"

\* The thread of a session adds it to its own objects before anything else,
\* and never takes it out.
HoldsItself == \A s \in Sessions : inPool[s] <=> thread[s] \notin {"none", "new"}

\* The accept loop has a session in its hands, listed and without a thread,
\* then with one, however far that has got.
InHands ==
    /\ server \in {"start", "assign"} <=> current # NoSession
    /\ current # NoSession => memory[current] = "live"
    /\ \A s \in Sessions : memory[s] = "live" =>
          (thread[s] = "none" <=> server = "start" /\ current = s)

\* The list goes with the server, and what is deleted is used only then.
Destroyed ==
    /\ server = "destroyed" =>
          \A s \in Sessions :
              s \notin sessionList /\ (memory[s] = "live" => thread[s] # "new")
    /\ server # "destroyed" => fault = "none"

IInv ==
    /\ TypeOK /\ RefsExact /\ ListExact
    /\ Existing /\ HoldsItself /\ InHands /\ Destroyed
-----------------------------------------------------------------------------
LEMMA InvInit == Init => IInv
BY SessionsAssumption, LimitsAssumption
DEF Init, IInv, TypeOK, RefsExact, ListExact, Existing, HoldsItself, InHands, Destroyed, Ended

\* A release that leaves a reference leaves the session where it is.
LEMMA ReleaseKeeps ==
    ASSUME TypeOK, NEW s \in Sessions, NEW n \in {0, 1}, refs[s] > n, Release({s}, n)
    PROVE  /\ refs' = [refs EXCEPT ![s] = refs[s] - n]
           /\ UNCHANGED <<memory, socket>>
<1>1. RefsAfter(s, n) = refs[s] - n /\ RefsAfter(s, n) # 0
  BY DEF TypeOK, RefsAfter
<1>2. refs' = [refs EXCEPT ![s] = refs[s] - n]
  BY <1>1 DEF Release, TypeOK
<1>3. memory' = memory /\ socket' = socket
  BY <1>1 DEF Release, TypeOK
<1> QED
  BY <1>2, <1>3

LEMMA InvStep == IInv /\ [Next]_vars => IInv'
<1> SUFFICES ASSUME IInv, [Next]_vars PROVE IInv'
  OBVIOUS
<1> USE SessionsAssumption, LimitsAssumption
    DEF IInv, TypeOK, RefsExact, ListExact, Existing, HoldsItself, InHands, Destroyed, Ended, Counted
<1>1. ASSUME NEW s \in Sessions, Connect(s) PROVE IInv'
  BY <1>1 DEF Connect, serverVars, sessionVars
<1>2. ASSUME NEW s \in Sessions, Hangup(s) PROVE IInv'
  BY <1>2 DEF Hangup, serverVars, sessionVars
<1>3. ASSUME NEW s \in Sessions, ReadRequest(s) PROVE IInv'
  BY <1>3 DEF ReadRequest, serverVars, wireVars
<1>4. ASSUME NEW s \in Sessions, Run(s) PROVE IInv'
  BY <1>4 DEF Run, HoldSelf, serverVars, wireVars
<1>5. ASSUME NEW s \in Sessions, FinishRequest(s) PROVE IInv'
  <2> DEFINE n == IF thread[s] = "servingSelf" THEN 1 ELSE 0
  <2>1. memory[s] = "live" /\ refs[s] > n /\ n \in {0, 1}
    BY <1>5 DEF FinishRequest
  <2>2. refs' = [refs EXCEPT ![s] = refs[s] - n] /\ UNCHANGED <<memory, socket>>
    BY <1>5, <2>1, ReleaseKeeps DEF FinishRequest
  <2> QED
    BY <1>5, <2>1, <2>2 DEF FinishRequest, AfterThrow, serverVars
<1>6. ASSUME NEW s \in Sessions, ReadThrows(s) PROVE IInv'
  BY <1>6 DEF ReadThrows, AfterThrow, serverVars, wireVars
<1>7. ASSUME NEW s \in Sessions, RemoveSession(s) PROVE IInv'
  <2>1. memory[s] = "live" /\ s \in sessionList /\ refs[s] = 2
    BY <1>7 DEF RemoveSession
  <2>2. Counted(s \in sessionList) - Counted(s \in RemovedFromList(s)) = 1
    BY <2>1 DEF RemovedFromList
  <2>3. Release({s}, 1)
    BY <1>7, <2>2 DEF RemoveSession
  <2>4. refs' = [refs EXCEPT ![s] = refs[s] - 1] /\ UNCHANGED <<memory, socket>>
    BY <2>1, <2>3, 1 \in {0, 1}, 2 > 1, ReleaseKeeps
  <2> QED
    BY <1>7, <2>1, <2>4 DEF RemoveSession, RemovedFromList, serverVars
<1>8. ASSUME NEW s \in Sessions, Accept(s) PROVE IInv'
  BY <1>8 DEF Accept
<1>9. CASE StartThread
  BY <1>9 DEF StartThread, wireVars
<1>10. CASE AssignThread
  BY <1>10 DEF AssignThread, wireVars
<1>11. CASE Retry
  BY <1>11 DEF Retry, sessionVars, wireVars
<1>12. CASE Destroy
  <2>1. /\ server = "closing" /\ server' = "destroyed" /\ sessionList' = {}
        /\ UNCHANGED <<current, retry, inPool, thread, threadPtr, peer, fault>>
    BY <1>12 DEF Destroy
  <2>2. \A s \in Sessions :
          /\ s \in sessionList <=> memory[s] = "live" /\ ~Ended(s)
          /\ s \notin sessionList =>
                refs'[s] = refs[s] /\ memory'[s] = memory[s] /\ socket'[s] = socket[s]
          /\ s \in sessionList =>
                /\ refs'[s] = Counted(inPool[s]) + Counted(thread[s] = "servingSelf")
                /\ memory'[s] = IF thread[s] = "new" THEN "freed" ELSE memory[s]
                /\ socket'[s] = IF thread[s] = "new" THEN "closed" ELSE socket[s]
    BY <1>12, <2>1 DEF Destroy, Release, RefsAfter
  <2>3. TypeOK'
    <3>1. \A s \in Sessions : refs'[s] \in Nat
      BY <2>2
    <3>2. /\ refs' = [s \in Sessions |-> refs'[s]]
          /\ memory' = [s \in Sessions |-> memory'[s]]
          /\ socket' = [s \in Sessions |-> socket'[s]]
      BY <1>12 DEF Destroy, Release
    <3> QED
      BY <2>1, <2>2, <3>1, <3>2
  <2>4. RefsExact' /\ ListExact'
    BY <2>1, <2>2
  <2>5. Existing' /\ HoldsItself'
    BY <2>1, <2>2
  <2>6. InHands' /\ Destroyed'
    BY <2>1, <2>2
  <2> QED
    BY <2>3, <2>4, <2>5, <2>6
<1>13. CASE AcceptFails
  BY <1>13 DEF AcceptFails, sessionVars, wireVars
<1>14. ASSUME NEW s \in Sessions, RunFreed(s) PROVE IInv'
  BY <1>14 DEF RunFreed, serverVars, sessionVars, wireVars
<1>15. ASSUME NEW s \in Sessions, ReadDestroyed(s) \/ UseDestroyed(s) PROVE IInv'
  BY <1>15 DEF ReadDestroyed, UseDestroyed, serverVars, sessionVars, wireVars
<1>16. CASE UNCHANGED vars
  BY <1>16 DEF vars, serverVars, sessionVars, wireVars
<1> QED
  BY <1>1, <1>2, <1>3, <1>4, <1>5, <1>6, <1>7, <1>8, <1>9, <1>10, <1>11, <1>12,
     <1>13, <1>14, <1>15, <1>16 DEF Next, ClientStep, SessionStep, ServerStep

LEMMA Invariance == Spec => []IInv
BY InvInit, InvStep, PTL DEF Spec
-----------------------------------------------------------------------------
\* Every variable has its type.
THEOREM TypeCorrect == Spec => []TypeOK
<1>1. IInv => TypeOK
  BY DEF IInv
<1> QED
  BY <1>1, Invariance, PTL

\* The reference count of a session is the number of its holders, at every
\* step of any number of sessions.
THEOREM ReferencesCounted == Spec => []RefsExact
<1>1. IInv => RefsExact
  BY DEF IInv
<1> QED
  BY <1>1, Invariance, PTL

\* While there is a server, m_sessionList holds the accepted sessions whose
\* threads have not ended.
THEOREM ListCorrect == Spec => []ListExact
<1>1. IInv => ListExact
  BY DEF IInv
<1> QED
  BY <1>1, Invariance, PTL

\* A session that is not, or no longer, in memory has no thread at work and is
\* not in the hands of the accept loop, but for one whose thread has not begun
\* when the server is destroyed; before that nothing deleted is used.
THEOREM NoneTouchedAfterDeletion == Spec => []NoUseAfterFree
<1>1. IInv => NoUseAfterFree
  BY SessionsAssumption
  DEF IInv, TypeOK, ListExact, Existing, InHands, Destroyed, NoUseAfterFree, Ended
<1> QED
  BY <1>1, Invariance, PTL

\* The server never deletes a session whose thread has begun, nor closes its
\* socket, not even with its own destruction: the session holds itself
\* (server.cpp:84).  SessionCloses fails of one client; this says that it fails
\* of all.
SocketsStayOpen ==
    \A s \in Sessions : memory[s] = "freed" \/ socket[s] = "closed" =>
        server = "destroyed" /\ ~inPool[s]

THEOREM NoneCloses == Spec => []SocketsStayOpen
<1>1. IInv => SocketsStayOpen
  BY DEF IInv, TypeOK, Existing, HoldsItself, SocketsStayOpen
<1> QED
  BY <1>1, Invariance, PTL
=============================================================================
