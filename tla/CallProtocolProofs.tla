------------------------- MODULE CallProtocolProofs -------------------------
(***************************************************************************)
(* What holds of CallProtocol for every number of threads, functions and   *)
(* calls, every buffer size, every use of the client and every failure.    *)
(***************************************************************************)
EXTENDS CallProtocol, FiniteSetTheorems, SequenceTheorems, TLAPS

\* A thread that is about to send, or has sent and not yet registered, has its
\* packet; while it holds m_mutex_write the packet carries the last number drawn.
Sending ==
    \A t \in Threads :
        /\ pc[t] \in {"lockWrite", "flush", "register"} => out[t] \in Packet
        /\ pc[t] = "flush" => out[t].seqid = sequenceId /\ sequenceId # 0

Waiting == {t \in Threads : pc[t] = "lockWrite"}

\* The calls that wait for m_mutex_write have their numbers reserved.
Bounded == sequenceId + Cardinality(Waiting) <= MaxCalls

\* While both ends are there, every number drawn has been executed, is on its
\* way, or is in the hands of the thread that holds m_mutex_write.
Numbering ==
    connected /\ session = "running" =>
        sequenceId = Len(executed) + Len(up)
                     + IF writeMutex = NoThread THEN 0 ELSE 1

TypeInv == TypeOK /\ Sending /\ Bounded
-----------------------------------------------------------------------------
LEMMA WaitingFinite == IsFiniteSet(Waiting) /\ Cardinality(Waiting) \in Nat
<1>1. Waiting \in SUBSET Threads BY DEF Waiting
<1> QED BY <1>1, FS_Subset, FS_CardinalityType, ThreadsAssumption

LEMMA ReadLabels ==
    DOMAIN Expected = {"readSeqid", "take", "syncArgs", "asyncArgs", "syncCallid", "asyncCallid"}
BY DEF Expected

\* The next part of the input, when there is one.
LEMMA NextPart ==
    ASSUME TypeOK, down # <<>>
    PROVE  Head(down).val \in Nat /\ Tail(down) \in Seq(Part)
<1>1. Head(down) \in Part /\ Tail(down) \in Seq(Part)
  BY HeadTailProperties DEF TypeOK
<1> QED
  BY <1>1 DEF Part

\* The next request, when there is one.
LEMMA NextRequest ==
    ASSUME TypeOK, up # <<>>
    PROVE  Head(up) \in Request /\ Tail(up) \in Seq(Request)
BY HeadTailProperties DEF TypeOK

LEMMA NewPacketType ==
    ASSUME NEW s \in Stubs, NEW how \in Kinds, NEW via \in {"prefer_id", "by_name"}
    PROVE  NewPacket(s, how, via) \in Packet
<1> DEFINE byid == via = "prefer_id" /\ callId[s] # 0
<1>1. byid \in BOOLEAN
  OBVIOUS
<1>2. how \in {"synch", "asynch"} /\ 0 \in 0..MaxCalls
  BY UsageAssumption, BoundsAssumption
<1>3. NewPacket(s, how, via) =
        [stub |-> s, how |-> how, via |-> via, isbyid |-> byid, seqid |-> 0]
  BY DEF NewPacket
<1> HIDE DEF byid
<1> QED
  BY <1>1, <1>2, <1>3 DEF Packet

\* What the end of a read does to the types.
LEMMA EndReadTypes ==
    ASSUME TypeOK, NEW t \in Threads, EndRead(t)
    PROVE  /\ pc' \in [Threads -> Labels]
           /\ readMutex' \in Threads \cup {NoThread}
           /\ out' \in [Threads -> Packet \cup {NoPacket}]
           /\ vseqid' \in [Threads -> Nat]
           /\ halted' = halted \/ halted' \in {"no", "client.hpp:188"}
<1> USE ReadLabels DEF TypeOK, EndRead, Goto, Caller, UnlockRead, Labels
<1>1. CASE pc[t] \in {"syncArgs", "syncCallid"}
  <2>1. Caller(t) \in Labels
    OBVIOUS
  <2>2. pc' \in [Threads -> Labels]
    BY <1>1, <2>1
  <2>3. halted' \in {"no", "client.hpp:188"}
    BY <1>1
  <2>4. out' \in [Threads -> Packet \cup {NoPacket}]
    BY <1>1
  <2>5. vseqid' = [vseqid EXCEPT ![t] = 0] /\ vseqid \in [Threads -> Nat]
    BY <1>1
  <2>6. vseqid' \in [Threads -> Nat]
    BY <2>5
  <2> QED
    BY <1>1, <2>2, <2>3, <2>4, <2>6
<1>2. CASE pc[t] \notin {"syncArgs", "syncCallid"}
  BY <1>2
<1> QED
  BY <1>1, <1>2

LEMMA TypeStep == TypeInv /\ [Next]_vars => TypeOK'
<1> SUFFICES ASSUME TypeInv, [Next]_vars PROVE TypeOK'
  OBVIOUS
<1> USE ReadLabels DEF TypeInv, TypeOK, Labels, Goto
<1>1. ASSUME NEW t \in Threads, NEW s \in Stubs, NEW how \in Kinds,
             NEW via \in {"prefer_id", "by_name"}, Issue(t, s, how, via)
      PROVE TypeOK'
  <2>1. NewPacket(s, how, via) \in Packet
    BY NewPacketType
  <2> QED
    BY <1>1, <2>1 DEF Issue, clientVars, wireVars, sessionVars, historyVars
<1>2. ASSUME NEW t \in Threads, BeginSend(t) PROVE TypeOK'
  <2>1. out[t] \in Packet /\ pc[t] = "lockWrite"
    BY <1>2 DEF BeginSend, Sending
  <2>2. sequenceId + 1 \in 0..MaxCalls
    <3>1. t \in Waiting
      BY <2>1 DEF Waiting
    <3>2. Cardinality(Waiting) \in Nat /\ Cardinality(Waiting) # 0
      BY <3>1, WaitingFinite, FS_EmptySet
    <3> QED
      BY <3>2, BoundsAssumption DEF Bounded
  <2>3. [out[t] EXCEPT !.seqid = sequenceId + 1] \in Packet
    BY <2>1, <2>2 DEF Packet
  <2>4. out' \in [Threads -> Packet \cup {NoPacket}]
    BY <1>2, <2>3 DEF BeginSend, NextSequenceId
  <2> QED
    BY <1>2, <2>2, <2>4 DEF BeginSend, NextSequenceId, vars, clientVars, threadVars, wireVars, sessionVars, historyVars
<1>3. ASSUME NEW t \in Threads, Flush(t) PROVE TypeOK'
  <2>1. out[t] \in Packet /\ out[t].seqid \in 1..MaxCalls
    BY <1>3, BoundsAssumption DEF Flush, Sending, Packet
  <2>2. RequestOf(out[t]) \in Request
    BY <2>1 DEF RequestOf, Packet, Request
  <2>3. up' \in Seq(Request)
    BY <1>3, <2>2 DEF Flush
  <2>4. AfterSend(out[t]) \in Labels
    BY DEF AfterSend
  <2> QED
    BY <1>3, <2>3, <2>4 DEF Flush, UnlockWrite, vars, clientVars, threadVars, wireVars, sessionVars, historyVars
<1>4. ASSUME NEW t \in Threads, Register(t) PROVE TypeOK'
  <2>1. out[t] \in Packet
    BY <1>4 DEF Register, Sending
  <2> QED
    BY <1>4, <2>1 DEF Register, Caller, vars, clientVars, threadVars, wireVars, sessionVars, historyVars
<1>5. ASSUME NEW t \in Threads, SendFails(t) PROVE TypeOK'
  BY <1>5 DEF SendFails, UnlockWrite, Unwind, vars, clientVars, threadVars, wireVars, sessionVars, historyVars
<1>6. ASSUME NEW t \in Threads, SyncLockRead(t) PROVE TypeOK'
  BY <1>6 DEF SyncLockRead, vars, clientVars, threadVars, wireVars, sessionVars, historyVars
<1>7. ASSUME NEW t \in Threads, SyncReadSeqid(t) PROVE TypeOK'
  <2>1. Head(down).val \in Nat /\ Tail(down) \in Seq(Part)
    BY <1>7, NextPart DEF SyncReadSeqid, Reads
  <2> QED
    BY <1>7, <2>1 DEF SyncReadSeqid, Reads, vars, clientVars, threadVars, wireVars, sessionVars, historyVars
<1>8. ASSUME NEW t \in Threads, ReadBody(t) PROVE TypeOK'
  <2>1. Head(down).val \in Nat /\ Tail(down) \in Seq(Part)
    BY <1>8, NextPart DEF ReadBody, Reads
  <2>2. answers' \in [1..MaxCalls -> Seq(Nat)]
    <3> DEFINE k == Reading(t).seqid
               more == Append(answers[k], Head(down).val)
    <3>1. answers' = [answers EXCEPT ![k] = more]
      BY <1>8 DEF ReadBody
    <3>2. k \in 1..MaxCalls => more \in Seq(Nat)
      BY <2>1, AppendProperties
    <3> HIDE DEF k, more
    <3> QED
      BY <3>1, <3>2
  <2>3. CASE Reading(t).isbyid
    BY <1>8, <2>1, <2>2, <2>3, EndReadTypes DEF ReadBody, Reads, vars, clientVars, threadVars, wireVars, sessionVars, historyVars
  <2>4. CASE ~Reading(t).isbyid
    BY <1>8, <2>1, <2>2, <2>4 DEF ReadBody, Reads, vars, clientVars, threadVars, wireVars, sessionVars, historyVars
  <2> QED
    BY <2>3, <2>4
<1>9. ASSUME NEW t \in Threads, ReadCallid(t) PROVE TypeOK'
  <2>1. Head(down).val \in Nat /\ Tail(down) \in Seq(Part)
    BY <1>9, NextPart DEF ReadCallid, Reads
  <2>2. callId' \in [Stubs -> Nat]
    BY <1>9, <2>1 DEF ReadCallid
  <2> QED
    BY <1>9, <2>1, <2>2, EndReadTypes DEF ReadCallid, Reads, vars, clientVars, threadVars, wireVars, sessionVars, historyVars
<1>10. ASSUME NEW t \in Threads, TakeLock(t) PROVE TypeOK'
  BY <1>10 DEF TakeLock, vars, clientVars, threadVars, wireVars, sessionVars, historyVars
<1>11. ASSUME NEW t \in Threads, TakeRegistered(t) PROVE TypeOK'
  <2>1. Tail(down) \in Seq(Part)
    BY <1>11, NextPart DEF TakeRegistered, Reads
  <2> QED
    BY <1>11, <2>1 DEF TakeRegistered, Reads, FindPending, Erase, NoneLeft, UnlockRead, vars, clientVars, threadVars, wireVars, sessionVars, historyVars
<1>12. ASSUME NEW t \in Threads, TakeUnregistered(t) PROVE TypeOK'
  <2>1. Tail(down) \in Seq(Part)
    BY <1>12, NextPart DEF TakeUnregistered, Reads
  <2> QED
    BY <1>12, <2>1 DEF TakeUnregistered, Reads, UnlockRead, vars, clientVars, threadVars, wireVars, sessionVars, historyVars
<1>13. ASSUME NEW t \in Threads, CallbackDone(t) PROVE TypeOK'
  BY <1>13 DEF CallbackDone, vars, clientVars, threadVars, wireVars, sessionVars, historyVars
<1>14. ASSUME NEW t \in Threads, WaiterStart(t) PROVE TypeOK'
  BY <1>14 DEF WaiterStart, vars, clientVars, threadVars, wireVars, sessionVars, historyVars
<1>15. ASSUME NEW t \in Threads, WaiterLoop(t) PROVE TypeOK'
  BY <1>15 DEF WaiterLoop, vars, clientVars, threadVars, wireVars, sessionVars, historyVars
<1>16. ASSUME NEW t \in Threads, ReadFails(t) PROVE TypeOK'
  BY <1>16 DEF ReadFails, UnlockRead, Unwind, vars, clientVars, threadVars, wireVars, sessionVars, historyVars
<1>17. ASSUME NEW t \in Threads, Desync(t) PROVE TypeOK'
  BY <1>17 DEF Desync, vars, clientVars, threadVars, wireVars, sessionVars, historyVars
<1>18. ASSUME NEW t \in Threads, WaitPendingBegin(t) PROVE TypeOK'
  <2>1. {p.seqid : p \in pendings} \subseteq 0..MaxCalls
    BY DEF Packet
  <2>2. CASE pendings = {}
    BY <1>18, <2>2 DEF WaitPendingBegin, vars, clientVars, threadVars, wireVars, sessionVars, historyVars
  <2>3. CASE pendings # {}
    <3>1. owed' \in [Threads -> SUBSET (0..MaxCalls)]
      <4> DEFINE seqids == {p.seqid : p \in pendings}
      <4>1. owed' = [owed EXCEPT ![t] = seqids]
        BY <1>18, <2>3 DEF WaitPendingBegin
      <4> HIDE DEF seqids
      <4> QED
        BY <2>1, <4>1 DEF seqids
    <3>2. isEmpty' \in [Threads -> BOOLEAN] /\ pc' \in [Threads -> Labels]
      BY <1>18, <2>3 DEF WaitPendingBegin
    <3> QED
      BY <1>18, <3>1, <3>2 DEF WaitPendingBegin, vars, clientVars, threadVars, wireVars, sessionVars, historyVars
  <2> QED
    BY <2>2, <2>3
<1>19. ASSUME NEW t \in Threads, StartAsync(t) PROVE TypeOK'
  BY <1>19 DEF StartAsync, vars, clientVars, threadVars, wireVars, sessionVars, historyVars
<1>20. ASSUME NEW t \in Threads, StopAsync(t) PROVE TypeOK'
  BY <1>20 DEF StopAsync, vars, clientVars, threadVars, wireVars, sessionVars, historyVars
<1>21. CASE Execute
  <2>1. Head(up) \in Request /\ Tail(up) \in Seq(Request)
    BY <1>21, NextRequest DEF Execute, ReadRequest
  <2>2. executed' \in Seq(1..MaxCalls)
    <3>1. Head(up).seqid \in 1..MaxCalls /\ executed \in Seq(1..MaxCalls)
      BY <2>1 DEF Request
    <3>2. executed' = Append(executed, Head(up).seqid)
      BY <1>21 DEF Execute
    <3> QED
      BY <3>1, <3>2, AppendProperties
  <2> QED
    BY <1>21, <2>1, <2>2 DEF Execute, ReadRequest, vars, clientVars, threadVars, wireVars, sessionVars, historyVars
<1>22. CASE UnknownFunction
  <2>1. Tail(up) \in Seq(Request)
    BY <1>22, NextRequest DEF UnknownFunction, ReadRequest
  <2> QED
    BY <1>22, <2>1 DEF UnknownFunction, ReadRequest, vars, clientVars, threadVars, wireVars, sessionVars, historyVars
<1>23. CASE SendReply
  <2>1. serving \in Request
    BY <1>23 DEF SendReply
  <2>2. ReplyTo(serving) \in Seq(Part)
    <3>1. serving.seqid \in Nat /\ StubId[serving.name] \in Nat
      BY <2>1, StubsAssumption DEF Request
    <3>2. [field |-> "callid", val |-> StubId[serving.name]] \in Part
      BY <3>1 DEF Part
    <3>3. /\ [field |-> "seqid", val |-> serving.seqid] \in Part
          /\ [field |-> "body", val |-> serving.seqid] \in Part
      BY <3>1 DEF Part
    <3> QED
      BY <3>2, <3>3 DEF ReplyTo
  <2>3. down' \in Seq(Part)
    BY <1>23, <2>2, ConcatProperties DEF SendReply
  <2> QED
    BY <1>23, <2>3 DEF SendReply, vars, clientVars, threadVars, wireVars, sessionVars, historyVars
<1>24. CASE ReplyFails
  BY <1>24 DEF ReplyFails, EndSession, vars, clientVars, threadVars, wireVars, sessionVars, historyVars
<1>25. CASE SessionEof
  BY <1>25 DEF SessionEof, EndSession, vars, clientVars, threadVars, wireVars, sessionVars, historyVars
<1>26. CASE ServantThrows
  BY <1>26 DEF ServantThrows, EndSession, vars, clientVars, threadVars, wireVars, sessionVars, historyVars
<1>27. CASE ConnectionLost
  <2>1. PICK n \in 0..Len(up), m \in 0..Len(down) :
            up' = SubSeq(up, 1, n) /\ down' = SubSeq(down, 1, m)
    BY <1>27 DEF ConnectionLost
  <2>2. up' \in Seq(Request)
    BY <2>1, SubSeqProperties, ElementOfSeq
  <2>3. down' \in Seq(Part)
    BY <2>1, SubSeqProperties, ElementOfSeq
  <2> QED
    BY <1>27, <2>2, <2>3 DEF ConnectionLost, vars, clientVars, threadVars, wireVars, sessionVars, historyVars
<1>28. CASE UNCHANGED vars
  BY <1>28 DEF vars, clientVars, threadVars, wireVars, sessionVars, historyVars
<1> HIDE DEF TypeInv, TypeOK
<1> QED
  BY <1>1, <1>2, <1>3, <1>4, <1>5, <1>6, <1>7, <1>8, <1>9, <1>10,
     <1>11, <1>12, <1>13, <1>14, <1>15, <1>16, <1>17, <1>18, <1>19, <1>20,
     <1>21, <1>22, <1>23, <1>24, <1>25, <1>26, <1>27, <1>28
  DEF Next, Step, Choose, SessionStep

\* The end of a read unlocks m_mutex_read if the thread holds it.
LEMMA EndReadLocks ==
    ASSUME TypeOK, LocksHeld, NEW t \in Threads, EndRead(t), writeMutex' = writeMutex,
           pc[t] \in {"syncArgs", "syncCallid", "asyncArgs", "asyncCallid"}
    PROVE  LocksHeld'
<1> USE ThreadsAssumption, ReadLabels DEF TypeOK, LocksHeld, EndRead, Goto, UnlockRead
<1>1. CASE pc[t] \in {"syncArgs", "syncCallid"}
  <2>1. Caller(t) \in {"idle", "callback"}
    BY DEF Caller
  <2>2. readMutex = t /\ readMutex' = NoThread
    BY <1>1
  <2>3. pc' = [pc EXCEPT ![t] = Caller(t)]
    BY <1>1
  <2> QED
    BY <1>1, <2>1, <2>2, <2>3
<1>2. CASE pc[t] \in {"asyncArgs", "asyncCallid"}
  BY <1>2
<1> QED
  BY <1>1, <1>2

LEMMA LocksStep == TypeOK /\ LocksHeld /\ [Next]_vars => LocksHeld'
<1> SUFFICES ASSUME TypeOK /\ LocksHeld, [Next]_vars PROVE LocksHeld'
  OBVIOUS
<1> USE ThreadsAssumption, ReadLabels DEF TypeOK, LocksHeld, Goto
<1>1. ASSUME NEW t \in Threads, NEW s \in Stubs, NEW how \in Kinds,
             NEW via \in {"prefer_id", "by_name"}, Issue(t, s, how, via)
      PROVE LocksHeld'
  BY <1>1 DEF Issue, clientVars
<1>2. ASSUME NEW t \in Threads, BeginSend(t) PROVE LocksHeld'
  BY <1>2 DEF BeginSend, MayWrite, clientVars, threadVars
<1>3. ASSUME NEW t \in Threads, Flush(t) PROVE LocksHeld'
  BY <1>3 DEF Flush, UnlockWrite, AfterSend, clientVars, threadVars
<1>4. ASSUME NEW t \in Threads, Register(t) PROVE LocksHeld'
  BY <1>4 DEF Register, Caller, clientVars, threadVars
<1>5. ASSUME NEW t \in Threads, SendFails(t) PROVE LocksHeld'
  BY <1>5 DEF SendFails, UnlockWrite, Unwind, clientVars, threadVars
<1>6. ASSUME NEW t \in Threads, SyncLockRead(t) PROVE LocksHeld'
  BY <1>6 DEF SyncLockRead, MayRead, clientVars, threadVars
<1>7. ASSUME NEW t \in Threads, SyncReadSeqid(t) PROVE LocksHeld'
  BY <1>7 DEF SyncReadSeqid, Reads, clientVars, threadVars
<1>8. ASSUME NEW t \in Threads, ReadBody(t) PROVE LocksHeld'
  <2>1. pc[t] \in {"syncArgs", "asyncArgs"}
    BY <1>8 DEF ReadBody, Reads, Expected
  <2>2. CASE Reading(t).isbyid
    BY <1>8, <2>1, <2>2, EndReadLocks DEF ReadBody
  <2>3. CASE ~Reading(t).isbyid
    BY <1>8, <2>1, <2>3 DEF ReadBody
  <2> QED
    BY <2>2, <2>3
<1>9. ASSUME NEW t \in Threads, ReadCallid(t) PROVE LocksHeld'
  <2>1. pc[t] \in {"syncCallid", "asyncCallid"}
    BY <1>9 DEF ReadCallid, Reads, Expected
  <2> QED
    BY <1>9, <2>1, EndReadLocks DEF ReadCallid
<1>10. ASSUME NEW t \in Threads, TakeLock(t) PROVE LocksHeld'
  BY <1>10 DEF TakeLock, MayRead, clientVars, threadVars
<1>11. ASSUME NEW t \in Threads, TakeRegistered(t) PROVE LocksHeld'
  BY <1>11 DEF TakeRegistered, Reads, UnlockRead, clientVars, threadVars
<1>12. ASSUME NEW t \in Threads, TakeUnregistered(t) PROVE LocksHeld'
  BY <1>12 DEF TakeUnregistered, Reads, UnlockRead, clientVars, threadVars
<1>13. ASSUME NEW t \in Threads, CallbackDone(t) PROVE LocksHeld'
  BY <1>13 DEF CallbackDone, clientVars, threadVars
<1>14. ASSUME NEW t \in Threads, WaiterStart(t) PROVE LocksHeld'
  BY <1>14 DEF WaiterStart, clientVars, threadVars
<1>15. ASSUME NEW t \in Threads, WaiterLoop(t) PROVE LocksHeld'
  BY <1>15 DEF WaiterLoop, clientVars, threadVars
<1>16. ASSUME NEW t \in Threads, ReadFails(t) PROVE LocksHeld'
  BY <1>16 DEF ReadFails, UnlockRead, Unwind, clientVars, threadVars
<1>17. ASSUME NEW t \in Threads, Desync(t) PROVE LocksHeld'
  BY <1>17 DEF Desync, clientVars, threadVars
<1>18. ASSUME NEW t \in Threads, WaitPendingBegin(t) PROVE LocksHeld'
  BY <1>18 DEF WaitPendingBegin, clientVars, threadVars
<1>19. ASSUME NEW t \in Threads, StartAsync(t) PROVE LocksHeld'
  BY <1>19 DEF StartAsync, WaitersOff
<1>20. ASSUME NEW t \in Threads, StopAsync(t) PROVE LocksHeld'
  BY <1>20 DEF StopAsync, clientVars, threadVars
<1>21. CASE Execute
  BY <1>21 DEF Execute, ReadRequest, clientVars, threadVars
<1>22. CASE UnknownFunction
  BY <1>22 DEF UnknownFunction, ReadRequest, clientVars, threadVars
<1>23. CASE SendReply
  BY <1>23 DEF SendReply, clientVars, threadVars
<1>24. CASE ReplyFails
  BY <1>24 DEF ReplyFails, EndSession, clientVars, threadVars
<1>25. CASE SessionEof
  BY <1>25 DEF SessionEof, EndSession, clientVars, threadVars
<1>26. CASE ServantThrows
  BY <1>26 DEF ServantThrows, EndSession, clientVars, threadVars
<1>27. CASE ConnectionLost
  BY <1>27 DEF ConnectionLost, clientVars, threadVars
<1>28. CASE UNCHANGED vars
  BY <1>28 DEF vars, clientVars, threadVars
<1> HIDE DEF TypeOK, LocksHeld
<1> QED
  BY <1>1, <1>2, <1>3, <1>4, <1>5, <1>6, <1>7, <1>8, <1>9, <1>10,
     <1>11, <1>12, <1>13, <1>14, <1>15, <1>16, <1>17, <1>18, <1>19, <1>20,
     <1>21, <1>22, <1>23, <1>24, <1>25, <1>26, <1>27, <1>28
  DEF Next, Step, Choose, SessionStep

LEMMA BoundedStep == TypeOK /\ Bounded /\ [Next]_vars => Bounded'
<1> SUFFICES ASSUME TypeOK /\ Bounded, [Next]_vars PROVE Bounded'
  OBVIOUS
<1> USE ReadLabels DEF TypeOK, Goto, Waiting
<1>1. ASSUME NEW t \in Threads, NEW s \in Stubs, NEW how \in Kinds,
             NEW via \in {"prefer_id", "by_name"}, Issue(t, s, how, via)
      PROVE Bounded'
  <2>1. Waiting' = Waiting \cup {t} /\ sequenceId' = sequenceId
    BY <1>1 DEF Issue, clientVars
  <2> HIDE DEF Waiting
  <2>2. Cardinality(Waiting') = IF t \in Waiting THEN Cardinality(Waiting)
                                                ELSE Cardinality(Waiting) + 1
    BY <2>1, WaitingFinite, FS_AddElement
  <2>3. sequenceId + Cardinality(Waiting) < MaxCalls
    BY <1>1 DEF Issue, Issued, Waiting
  <2> QED
    BY <2>1, <2>2, <2>3, WaitingFinite, BoundsAssumption DEF Bounded
<1>2. ASSUME NEW t \in Threads, BeginSend(t) PROVE Bounded'
  <2>1. t \in Waiting /\ Waiting' = Waiting \ {t} /\ sequenceId' = sequenceId + 1
    BY <1>2 DEF BeginSend, NextSequenceId
  <2> HIDE DEF Waiting
  <2>2. Cardinality(Waiting') = Cardinality(Waiting) - 1
    BY <2>1, WaitingFinite, FS_RemoveElement
  <2> QED
    BY <2>1, <2>2, WaitingFinite, BoundsAssumption DEF Bounded
<1>3. ASSUME NEW t \in Threads, Flush(t) PROVE Bounded'
  <2> Waiting' = Waiting /\ sequenceId' = sequenceId
    BY <1>3 DEF Flush, UnlockWrite, AfterSend, clientVars, threadVars
  <2> QED
    BY DEF Bounded
<1>4. ASSUME NEW t \in Threads, Register(t) PROVE Bounded'
  <2> Waiting' = Waiting /\ sequenceId' = sequenceId
    BY <1>4 DEF Register, Caller, clientVars, threadVars
  <2> QED
    BY DEF Bounded
<1>5. ASSUME NEW t \in Threads, SendFails(t) PROVE Bounded'
  <2> Waiting' = Waiting /\ sequenceId' = sequenceId
    BY <1>5 DEF SendFails, UnlockWrite, Unwind, clientVars, threadVars
  <2> QED
    BY DEF Bounded
<1>6. ASSUME NEW t \in Threads, SyncLockRead(t) PROVE Bounded'
  <2> Waiting' = Waiting /\ sequenceId' = sequenceId
    BY <1>6 DEF SyncLockRead, MayRead, clientVars, threadVars
  <2> QED
    BY DEF Bounded
<1>7. ASSUME NEW t \in Threads, SyncReadSeqid(t) PROVE Bounded'
  <2> Waiting' = Waiting /\ sequenceId' = sequenceId
    BY <1>7 DEF SyncReadSeqid, Reads, clientVars, threadVars
  <2> QED
    BY DEF Bounded
<1>8. ASSUME NEW t \in Threads, ReadBody(t) PROVE Bounded'
  <2>1. pc[t] # "lockWrite" /\ sequenceId' = sequenceId
    BY <1>8 DEF ReadBody, Reads
  <2>2. Waiting' = Waiting
    BY <1>8, <2>1 DEF ReadBody, EndRead, Caller
  <2> QED
    BY <2>1, <2>2 DEF Bounded
<1>9. ASSUME NEW t \in Threads, ReadCallid(t) PROVE Bounded'
  <2>1. pc[t] # "lockWrite" /\ sequenceId' = sequenceId
    BY <1>9 DEF ReadCallid, Reads
  <2>2. Waiting' = Waiting
    BY <1>9, <2>1 DEF ReadCallid, EndRead, Caller
  <2> QED
    BY <2>1, <2>2 DEF Bounded
<1>10. ASSUME NEW t \in Threads, TakeLock(t) PROVE Bounded'
  <2> Waiting' = Waiting /\ sequenceId' = sequenceId
    BY <1>10 DEF TakeLock, MayRead, clientVars, threadVars
  <2> QED
    BY DEF Bounded
<1>11. ASSUME NEW t \in Threads, TakeRegistered(t) PROVE Bounded'
  <2> Waiting' = Waiting /\ sequenceId' = sequenceId
    BY <1>11 DEF TakeRegistered, Reads, UnlockRead, clientVars, threadVars
  <2> QED
    BY DEF Bounded
<1>12. ASSUME NEW t \in Threads, TakeUnregistered(t) PROVE Bounded'
  <2> Waiting' = Waiting /\ sequenceId' = sequenceId
    BY <1>12 DEF TakeUnregistered, Reads, UnlockRead, clientVars, threadVars
  <2> QED
    BY DEF Bounded
<1>13. ASSUME NEW t \in Threads, CallbackDone(t) PROVE Bounded'
  <2> Waiting' = Waiting /\ sequenceId' = sequenceId
    BY <1>13 DEF CallbackDone, clientVars, threadVars
  <2> QED
    BY DEF Bounded
<1>14. ASSUME NEW t \in Threads, WaiterStart(t) PROVE Bounded'
  <2> Waiting' = Waiting /\ sequenceId' = sequenceId
    BY <1>14 DEF WaiterStart, clientVars, threadVars
  <2> QED
    BY DEF Bounded
<1>15. ASSUME NEW t \in Threads, WaiterLoop(t) PROVE Bounded'
  <2> Waiting' = Waiting /\ sequenceId' = sequenceId
    BY <1>15 DEF WaiterLoop, clientVars, threadVars
  <2> QED
    BY DEF Bounded
<1>16. ASSUME NEW t \in Threads, ReadFails(t) PROVE Bounded'
  <2> Waiting' = Waiting /\ sequenceId' = sequenceId
    BY <1>16 DEF ReadFails, UnlockRead, Unwind, clientVars, threadVars
  <2> QED
    BY DEF Bounded
<1>17. ASSUME NEW t \in Threads, Desync(t) PROVE Bounded'
  <2> Waiting' = Waiting /\ sequenceId' = sequenceId
    BY <1>17 DEF Desync, clientVars, threadVars
  <2> QED
    BY DEF Bounded
<1>18. ASSUME NEW t \in Threads, WaitPendingBegin(t) PROVE Bounded'
  <2> Waiting' = Waiting /\ sequenceId' = sequenceId
    BY <1>18 DEF WaitPendingBegin, clientVars, threadVars
  <2> QED
    BY DEF Bounded
<1>19. ASSUME NEW t \in Threads, StartAsync(t) PROVE Bounded'
  <2> Waiting' = Waiting /\ sequenceId' = sequenceId
    BY <1>19 DEF StartAsync, WaitersOff, clientVars, threadVars
  <2> QED
    BY DEF Bounded
<1>20. ASSUME NEW t \in Threads, StopAsync(t) PROVE Bounded'
  <2> Waiting' = Waiting /\ sequenceId' = sequenceId
    BY <1>20 DEF StopAsync, clientVars, threadVars
  <2> QED
    BY DEF Bounded
<1>21. CASE Execute
  <2> Waiting' = Waiting /\ sequenceId' = sequenceId
    BY <1>21 DEF Execute, ReadRequest, clientVars, threadVars
  <2> QED
    BY DEF Bounded
<1>22. CASE UnknownFunction
  <2> Waiting' = Waiting /\ sequenceId' = sequenceId
    BY <1>22 DEF UnknownFunction, ReadRequest, clientVars, threadVars
  <2> QED
    BY DEF Bounded
<1>23. CASE SendReply
  <2> Waiting' = Waiting /\ sequenceId' = sequenceId
    BY <1>23 DEF SendReply, clientVars, threadVars
  <2> QED
    BY DEF Bounded
<1>24. CASE ReplyFails
  <2> Waiting' = Waiting /\ sequenceId' = sequenceId
    BY <1>24 DEF ReplyFails, EndSession, clientVars, threadVars
  <2> QED
    BY DEF Bounded
<1>25. CASE SessionEof
  <2> Waiting' = Waiting /\ sequenceId' = sequenceId
    BY <1>25 DEF SessionEof, EndSession, clientVars, threadVars
  <2> QED
    BY DEF Bounded
<1>26. CASE ServantThrows
  <2> Waiting' = Waiting /\ sequenceId' = sequenceId
    BY <1>26 DEF ServantThrows, EndSession, clientVars, threadVars
  <2> QED
    BY DEF Bounded
<1>27. CASE ConnectionLost
  <2> Waiting' = Waiting /\ sequenceId' = sequenceId
    BY <1>27 DEF ConnectionLost, clientVars, threadVars
  <2> QED
    BY DEF Bounded
<1>28. CASE UNCHANGED vars
  BY <1>28 DEF vars, clientVars, threadVars, Bounded
<1> HIDE DEF TypeOK, Waiting
<1> QED
  BY <1>1, <1>2, <1>3, <1>4, <1>5, <1>6, <1>7, <1>8, <1>9, <1>10,
     <1>11, <1>12, <1>13, <1>14, <1>15, <1>16, <1>17, <1>18, <1>19, <1>20,
     <1>21, <1>22, <1>23, <1>24, <1>25, <1>26, <1>27, <1>28
  DEF Next, Step, Choose, SessionStep

\* The end of a read leaves the other threads and their packets alone.
LEMMA EndReadFrame ==
    ASSUME TypeOK, NEW t \in Threads, EndRead(t)
    PROVE  /\ pc'[t] \in {"idle", "callback"}
           /\ \A u \in Threads \ {t} : pc'[u] = pc[u] /\ out'[u] = out[u]
<1> USE DEF TypeOK, EndRead, Goto
<1>1. Caller(t) \in {"idle", "callback"}
  BY DEF Caller
<1>2. CASE pc[t] \in {"syncArgs", "syncCallid"}
  BY <1>1, <1>2
<1>3. CASE pc[t] \notin {"syncArgs", "syncCallid"}
  BY <1>3
<1> QED
  BY <1>2, <1>3

LEMMA SendingStep == TypeInv /\ LocksHeld /\ [Next]_vars => Sending'
<1> SUFFICES ASSUME TypeInv /\ LocksHeld, [Next]_vars PROVE Sending'
  OBVIOUS
<1> USE ThreadsAssumption, ReadLabels DEF TypeInv, TypeOK, LocksHeld, Sending, Goto
<1>1. ASSUME NEW t \in Threads, NEW s \in Stubs, NEW how \in Kinds,
             NEW via \in {"prefer_id", "by_name"}, Issue(t, s, how, via)
      PROVE Sending'
  <2>1. NewPacket(s, how, via) \in Packet
    BY NewPacketType
  <2> QED
    BY <1>1, <2>1 DEF Issue, clientVars
<1>2. ASSUME NEW t \in Threads, BeginSend(t) PROVE Sending'
  <2>1. writeMutex = NoThread /\ out[t] \in Packet /\ sequenceId \in Nat
    BY <1>2 DEF BeginSend, MayWrite
  <2>2. \A u \in Threads : pc[u] # "flush"
    BY <2>1
  <2>3. sequenceId' = sequenceId + 1 /\ out' = [out EXCEPT ![t].seqid = sequenceId + 1]
    BY <1>2 DEF BeginSend, NextSequenceId
  <2>4. out'[t] \in Packet
    BY <1>2, <2>1, <2>3, TypeStep DEF Next, Step, Packet
  <2>5. out'[t].seqid = sequenceId' /\ sequenceId' # 0
    BY <2>1, <2>3 DEF Packet
  <2>6. \A u \in Threads \ {t} : pc'[u] = pc[u] /\ out'[u] = out[u]
    BY <1>2, <2>3 DEF BeginSend
  <2> QED
    BY <2>2, <2>4, <2>5, <2>6
<1>3. ASSUME NEW t \in Threads, Flush(t) PROVE Sending'
  BY <1>3 DEF Flush, UnlockWrite, AfterSend, clientVars, threadVars
<1>4. ASSUME NEW t \in Threads, Register(t) PROVE Sending'
  BY <1>4 DEF Register, Caller, clientVars, threadVars
<1>5. ASSUME NEW t \in Threads, SendFails(t) PROVE Sending'
  BY <1>5 DEF SendFails, UnlockWrite, Unwind, clientVars, threadVars
<1>6. ASSUME NEW t \in Threads, SyncLockRead(t) PROVE Sending'
  BY <1>6 DEF SyncLockRead, MayRead, clientVars, threadVars
<1>7. ASSUME NEW t \in Threads, SyncReadSeqid(t) PROVE Sending'
  BY <1>7 DEF SyncReadSeqid, Reads, clientVars, threadVars
<1>8. ASSUME NEW t \in Threads, ReadBody(t) PROVE Sending'
  <2>1. pc[t] \in {"syncArgs", "asyncArgs", "syncCallid", "asyncCallid"} /\ sequenceId' = sequenceId
    BY <1>8 DEF ReadBody, Reads, Expected
  <2>2. CASE Reading(t).isbyid
    <3>1. EndRead(t)
      BY <1>8, <2>2 DEF ReadBody
    <3> QED
      BY <2>1, <3>1, EndReadFrame
  <2>3. CASE ~Reading(t).isbyid
    BY <1>8, <2>1, <2>3 DEF ReadBody
  <2> QED
    BY <2>2, <2>3
<1>9. ASSUME NEW t \in Threads, ReadCallid(t) PROVE Sending'
  <2>1. EndRead(t) /\ sequenceId' = sequenceId
    BY <1>9 DEF ReadCallid
  <2> QED
    BY <2>1, EndReadFrame
<1>10. ASSUME NEW t \in Threads, TakeLock(t) PROVE Sending'
  BY <1>10 DEF TakeLock, MayRead, clientVars, threadVars
<1>11. ASSUME NEW t \in Threads, TakeRegistered(t) PROVE Sending'
  BY <1>11 DEF TakeRegistered, Reads, UnlockRead, clientVars, threadVars
<1>12. ASSUME NEW t \in Threads, TakeUnregistered(t) PROVE Sending'
  BY <1>12 DEF TakeUnregistered, Reads, UnlockRead, clientVars, threadVars
<1>13. ASSUME NEW t \in Threads, CallbackDone(t) PROVE Sending'
  BY <1>13 DEF CallbackDone, clientVars, threadVars
<1>14. ASSUME NEW t \in Threads, WaiterStart(t) PROVE Sending'
  BY <1>14 DEF WaiterStart, clientVars, threadVars
<1>15. ASSUME NEW t \in Threads, WaiterLoop(t) PROVE Sending'
  BY <1>15 DEF WaiterLoop, clientVars, threadVars
<1>16. ASSUME NEW t \in Threads, ReadFails(t) PROVE Sending'
  BY <1>16 DEF ReadFails, UnlockRead, Unwind, clientVars, threadVars
<1>17. ASSUME NEW t \in Threads, Desync(t) PROVE Sending'
  BY <1>17 DEF Desync, clientVars, threadVars
<1>18. ASSUME NEW t \in Threads, WaitPendingBegin(t) PROVE Sending'
  BY <1>18 DEF WaitPendingBegin, clientVars, threadVars
<1>19. ASSUME NEW t \in Threads, StartAsync(t) PROVE Sending'
  BY <1>19 DEF StartAsync, WaitersOff
<1>20. ASSUME NEW t \in Threads, StopAsync(t) PROVE Sending'
  BY <1>20 DEF StopAsync, clientVars, threadVars
<1>21. CASE Execute
  BY <1>21 DEF Execute, ReadRequest, clientVars, threadVars
<1>22. CASE UnknownFunction
  BY <1>22 DEF UnknownFunction, ReadRequest, clientVars, threadVars
<1>23. CASE SendReply
  BY <1>23 DEF SendReply, clientVars, threadVars
<1>24. CASE ReplyFails
  BY <1>24 DEF ReplyFails, EndSession, clientVars, threadVars
<1>25. CASE SessionEof
  BY <1>25 DEF SessionEof, EndSession, clientVars, threadVars
<1>26. CASE ServantThrows
  BY <1>26 DEF ServantThrows, EndSession, clientVars, threadVars
<1>27. CASE ConnectionLost
  BY <1>27 DEF ConnectionLost, clientVars, threadVars
<1>28. CASE UNCHANGED vars
  BY <1>28 DEF vars, clientVars, threadVars
<1> HIDE DEF TypeInv, TypeOK, LocksHeld, Sending
<1> QED
  BY <1>1, <1>2, <1>3, <1>4, <1>5, <1>6, <1>7, <1>8, <1>9, <1>10,
     <1>11, <1>12, <1>13, <1>14, <1>15, <1>16, <1>17, <1>18, <1>19, <1>20,
     <1>21, <1>22, <1>23, <1>24, <1>25, <1>26, <1>27, <1>28
  DEF Next, Step, Choose, SessionStep

IInv == TypeInv /\ LocksHeld /\ InOrderOnce /\ Numbering

\* Steps that touch neither requests nor numbers.
LEMMA Frame ==
    ASSUME InOrderOnce, Numbering,
           UNCHANGED <<sequenceId, writeMutex, up, connected, session, executed>>
    PROVE  InOrderOnce' /\ Numbering'
BY DEF InOrderOnce, Numbering

LEMMA OrderStep == IInv /\ [Next]_vars => (InOrderOnce /\ Numbering)'
<1> SUFFICES ASSUME IInv, [Next]_vars PROVE (InOrderOnce /\ Numbering)'
  OBVIOUS
<1> USE DEF IInv, TypeInv
<1>1. ASSUME NEW t \in Threads, NEW s \in Stubs, NEW how \in Kinds,
             NEW via \in {"prefer_id", "by_name"}, Issue(t, s, how, via)
      PROVE (InOrderOnce /\ Numbering)'
  BY <1>1, Frame DEF Issue, clientVars, wireVars, sessionVars, historyVars
<1>2. ASSUME NEW t \in Threads, BeginSend(t) PROVE (InOrderOnce /\ Numbering)'
  <2>1. sequenceId' = sequenceId + 1 /\ writeMutex = NoThread /\ writeMutex' # NoThread
    BY <1>2, ThreadsAssumption DEF BeginSend, MayWrite, NextSequenceId
  <2>2. UNCHANGED <<up, executed, session, connected>>
    BY <1>2 DEF BeginSend, wireVars, sessionVars, historyVars
  <2> QED
    BY <2>1, <2>2 DEF InOrderOnce, Numbering, TypeOK
<1>3. ASSUME NEW t \in Threads, Flush(t) PROVE (InOrderOnce /\ Numbering)'
  <2>1. /\ connected /\ writeMutex = t /\ writeMutex # NoThread /\ writeMutex' = NoThread
        /\ out[t] \in Packet /\ out[t].seqid = sequenceId
    BY <1>3, ThreadsAssumption DEF Flush, LocksHeld, Sending, UnlockWrite
  <2>2. UNCHANGED <<sequenceId, executed, session, connected>>
    BY <1>3 DEF Flush, sessionVars, historyVars
  <2>3. /\ Len(up') = Len(up) + 1
        /\ \A i \in 1..Len(up) : up'[i] = up[i]
        /\ up'[Len(up) + 1].seqid = sequenceId
    <3>1. RequestOf(out[t]).seqid = sequenceId
      BY <2>1 DEF RequestOf
    <3>2. up' = Append(up, RequestOf(out[t])) /\ up \in Seq(Request)
      BY <1>3 DEF Flush, TypeOK
    <3> HIDE DEF RequestOf
    <3> QED
      BY <3>1, <3>2
  <2>4. Len(up) \in Nat /\ Len(executed) \in Nat
    BY DEF TypeOK
  <2>5. session = "running" => sequenceId = Len(executed) + Len(up) + 1
    BY <2>1 DEF Numbering
  <2>6. InOrderOnce'
    <3>1. ASSUME session = "running", NEW i \in 1..Len(up')
          PROVE  up'[i].seqid = Len(executed) + i
      <4>1. CASE i \in 1..Len(up)
        BY <3>1, <4>1, <2>3 DEF InOrderOnce
      <4>2. CASE i = Len(up) + 1
        BY <3>1, <4>2, <2>3, <2>4, <2>5
      <4> QED
        BY <2>3, <2>4, <4>1, <4>2
    <3> QED
      BY <2>2, <3>1 DEF InOrderOnce
  <2>7. Numbering'
    BY <2>1, <2>2, <2>3, <2>4, <2>5 DEF Numbering
  <2> QED
    BY <2>6, <2>7
<1>4. ASSUME NEW t \in Threads, Register(t) PROVE (InOrderOnce /\ Numbering)'
  BY <1>4, Frame DEF Register, clientVars, wireVars, sessionVars, historyVars
<1>5. ASSUME NEW t \in Threads, SendFails(t) PROVE (InOrderOnce /\ Numbering)'
  <2>1. ~connected /\ UNCHANGED <<up, executed, session, connected>>
    BY <1>5 DEF SendFails, wireVars, sessionVars
  <2> QED
    BY <2>1 DEF InOrderOnce, Numbering
<1>6. ASSUME NEW t \in Threads, SyncLockRead(t) PROVE (InOrderOnce /\ Numbering)'
  BY <1>6, Frame DEF SyncLockRead, clientVars, wireVars, sessionVars, historyVars
<1>7. ASSUME NEW t \in Threads, SyncReadSeqid(t) PROVE (InOrderOnce /\ Numbering)'
  BY <1>7, Frame DEF SyncReadSeqid, Reads, clientVars, wireVars, sessionVars, historyVars
<1>8. ASSUME NEW t \in Threads, ReadBody(t) PROVE (InOrderOnce /\ Numbering)'
  BY <1>8, Frame DEF ReadBody, Reads, clientVars, wireVars, sessionVars, historyVars
<1>9. ASSUME NEW t \in Threads, ReadCallid(t) PROVE (InOrderOnce /\ Numbering)'
  BY <1>9, Frame DEF ReadCallid, Reads, clientVars, wireVars, sessionVars, historyVars
<1>10. ASSUME NEW t \in Threads, TakeLock(t) PROVE (InOrderOnce /\ Numbering)'
  BY <1>10, Frame DEF TakeLock, clientVars, wireVars, sessionVars, historyVars
<1>11. ASSUME NEW t \in Threads, TakeRegistered(t) PROVE (InOrderOnce /\ Numbering)'
  BY <1>11, Frame DEF TakeRegistered, Reads, clientVars, wireVars, sessionVars, historyVars
<1>12. ASSUME NEW t \in Threads, TakeUnregistered(t) PROVE (InOrderOnce /\ Numbering)'
  BY <1>12, Frame DEF TakeUnregistered, Reads, clientVars, wireVars, sessionVars, historyVars
<1>13. ASSUME NEW t \in Threads, CallbackDone(t) PROVE (InOrderOnce /\ Numbering)'
  BY <1>13, Frame DEF CallbackDone, clientVars, wireVars, sessionVars, historyVars
<1>14. ASSUME NEW t \in Threads, WaiterStart(t) PROVE (InOrderOnce /\ Numbering)'
  BY <1>14, Frame DEF WaiterStart, clientVars, wireVars, sessionVars, historyVars
<1>15. ASSUME NEW t \in Threads, WaiterLoop(t) PROVE (InOrderOnce /\ Numbering)'
  BY <1>15, Frame DEF WaiterLoop, clientVars, wireVars, sessionVars, historyVars
<1>16. ASSUME NEW t \in Threads, ReadFails(t) PROVE (InOrderOnce /\ Numbering)'
  BY <1>16, Frame DEF ReadFails, clientVars, wireVars, sessionVars, historyVars
<1>17. ASSUME NEW t \in Threads, Desync(t) PROVE (InOrderOnce /\ Numbering)'
  BY <1>17, Frame DEF Desync, clientVars, wireVars, sessionVars, historyVars
<1>18. ASSUME NEW t \in Threads, WaitPendingBegin(t) PROVE (InOrderOnce /\ Numbering)'
  BY <1>18, Frame DEF WaitPendingBegin, clientVars, wireVars, sessionVars, historyVars
<1>19. ASSUME NEW t \in Threads, StartAsync(t) PROVE (InOrderOnce /\ Numbering)'
  BY <1>19, Frame DEF StartAsync, clientVars, wireVars, sessionVars, historyVars
<1>20. ASSUME NEW t \in Threads, StopAsync(t) PROVE (InOrderOnce /\ Numbering)'
  BY <1>20, Frame DEF StopAsync, clientVars, wireVars, sessionVars, historyVars
<1>21. CASE Execute
  <2>1. session = "running" /\ up # <<>> /\ up' = Tail(up)
        /\ executed' = Append(executed, Head(up).seqid)
        /\ UNCHANGED <<sequenceId, session, connected, writeMutex>>
    BY <1>21 DEF Execute, ReadRequest, clientVars
  <2>2. /\ Len(up') = Len(up) - 1
        /\ \A i \in 1..Len(up') : up'[i] = up[i + 1]
        /\ Head(up) = up[1]
    BY <2>1, HeadTailProperties DEF TypeOK
  <2>3. Head(up).seqid \in 1..MaxCalls
    BY <2>1, NextRequest DEF Request
  <2>4. /\ Len(executed') = Len(executed) + 1
        /\ \A i \in 1..Len(executed) : executed'[i] = executed[i]
        /\ executed'[Len(executed) + 1] = Head(up).seqid
    BY <2>1, <2>3 DEF TypeOK
  <2>5. Len(up) \in Nat /\ Len(executed) \in Nat /\ Len(up) # 0
    BY <2>1 DEF TypeOK
  <2>6. Head(up).seqid = Len(executed) + 1
    BY <2>1, <2>2, <2>5 DEF InOrderOnce
  <2>7. InOrderOnce'
    BY <2>1, <2>2, <2>4, <2>5, <2>6 DEF InOrderOnce
  <2>8. Numbering'
    BY <2>1, <2>2, <2>4, <2>5 DEF Numbering, TypeOK
  <2> QED
    BY <2>7, <2>8
<1>22. CASE UnknownFunction
  BY <1>22 DEF UnknownFunction, historyVars, InOrderOnce, Numbering
<1>23. CASE SendReply
  BY <1>23, Frame DEF SendReply, clientVars, historyVars
<1>24. CASE ReplyFails
  BY <1>24 DEF ReplyFails, EndSession, wireVars, historyVars, InOrderOnce, Numbering
<1>25. CASE SessionEof
  BY <1>25 DEF SessionEof, EndSession, wireVars, historyVars, InOrderOnce, Numbering
<1>26. CASE ServantThrows
  BY <1>26 DEF ServantThrows, EndSession, wireVars, historyVars, InOrderOnce, Numbering
<1>27. CASE ConnectionLost
  <2>1. PICK n \in 0..Len(up) : up' = SubSeq(up, 1, n)
    BY <1>27 DEF ConnectionLost
  <2>2. Len(up') = n /\ \A i \in 1..n : up'[i] = up[i]
    BY <2>1, SubSeqProperties, ElementOfSeq DEF TypeOK
  <2>3. connected' = FALSE /\ UNCHANGED <<executed, session>>
    BY <1>27 DEF ConnectionLost, sessionVars, historyVars
  <2> QED
    BY <2>2, <2>3 DEF InOrderOnce, Numbering, TypeOK
<1>28. CASE UNCHANGED vars
  BY <1>28, Frame DEF vars, clientVars, wireVars, sessionVars, historyVars
<1> HIDE DEF IInv, TypeInv
<1> QED
  BY <1>1, <1>2, <1>3, <1>4, <1>5, <1>6, <1>7, <1>8, <1>9, <1>10,
     <1>11, <1>12, <1>13, <1>14, <1>15, <1>16, <1>17, <1>18, <1>19, <1>20,
     <1>21, <1>22, <1>23, <1>24, <1>25, <1>26, <1>27, <1>28
  DEF Next, Step, Choose, SessionStep

-----------------------------------------------------------------------------
LEMMA InitIInv == Init => IInv
<1> SUFFICES ASSUME Init PROVE IInv
  OBVIOUS
<1>1. TypeOK
  <2>1. \A S : <<>> \in Seq(S)
    OBVIOUS
  <2>2. /\ callId \in [Stubs -> Nat] /\ answers \in [1..MaxCalls -> Seq(Nat)]
        /\ pc \in [Threads -> Labels] /\ vseqid \in [Threads -> Nat]
        /\ out \in [Threads -> Packet \cup {NoPacket}]
        /\ got \in [Threads -> Packet \cup {NoPacket}]
        /\ isEmpty \in [Threads -> BOOLEAN]
        /\ owed \in [Threads -> SUBSET (0..MaxCalls)]
    BY <2>1 DEF Init, Labels
  <2>3. up \in Seq(Request) /\ down \in Seq(Part) /\ executed \in Seq(1..MaxCalls)
    BY <2>1 DEF Init
  <2>4. sequenceId \in 0..MaxCalls /\ pendings \subseteq Packet
    BY BoundsAssumption DEF Init
  <2> QED
    BY <2>2, <2>3, <2>4 DEF Init, TypeOK
<1>2. Sending /\ Waiting = {}
  BY DEF Init, Sending, Waiting
<1>3. Bounded
  BY <1>2, FS_EmptySet, BoundsAssumption DEF Init, Bounded
<1>4. LocksHeld
  BY ThreadsAssumption DEF Init, LocksHeld
<1>5. InOrderOnce /\ Numbering
  BY DEF Init, InOrderOnce, Numbering
<1> QED
  BY <1>1, <1>2, <1>3, <1>4, <1>5 DEF IInv, TypeInv

LEMMA StepIInv == IInv /\ [Next]_vars => IInv'
BY TypeStep, SendingStep, BoundedStep, LocksStep, OrderStep DEF IInv, TypeInv

LEMMA Invariance == Spec => []IInv
BY InitIInv, StepIInv, PTL DEF Spec

\* Every variable keeps its type, and the numbers their bound.
THEOREM TypeCorrect == Spec => []TypeOK
<1>1. IInv => TypeOK
  BY DEF IInv, TypeInv
<1> QED
  BY <1>1, Invariance, PTL

\* Each mutex is held exactly where the code holds it: two threads never write
\* at once, nor read a sequence number at once, and whatever fails, a thread
\* that is back in the program, or in a callback, holds none.
THEOREM LockDiscipline == Spec => []LocksHeld
<1>1. IInv => LocksHeld
  BY DEF IInv
<1> QED
  BY <1>1, Invariance, PTL

\* The server executes the calls of a connection in the order of their numbers
\* and each at most once, for any number of calling threads and any failure.
THEOREM ExecutionOrder == Spec => []InOrderOnce
<1>1. IInv => InOrderOnce
  BY DEF IInv
<1> QED
  BY <1>1, Invariance, PTL
=============================================================================
