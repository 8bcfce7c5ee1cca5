------------------------ MODULE CallDisciplineProofs ------------------------
(***************************************************************************)
(* What holds of CallProtocol when the client is used as it can be: one    *)
(* thread of the program, one waiter thread at most, and a synchronous     *)
(* call, or wait_pending_async, with the connection for itself.  It is     *)
(* proved for any number of functions and calls, every buffer size,        *)
(* callbacks that call again, and every failure.                           *)
(***************************************************************************)
EXTENDS CallProtocolProofs

\* The usage of the client under which no thread reads what another one waits
\* for: one thread of the program, one waiter thread at most, and no call that
\* starts while another reader is at work.
Disciplined ==
    /\ ~Mixing
    /\ \A t, u \in AppThreads : t = u
    /\ \A t, u \in Waiters : t = u

\* Where a thread has a packet to send or to read the reply of.
Sends == {"lockWrite", "flush", "register"}
ReadsReply == {"lockRead", "readSeqid", "syncArgs", "syncCallid"}

\* The calls whose request has left and whose reply nobody has begun to read.
SentOut(t) == pc[t] \in {"register", "lockRead", "readSeqid"}
Open == pendings \cup {out[t] : t \in {u \in Threads : SentOut(u)}}

\* The calls whose reply is being read: up to its body, or up to its last part.
AtBody(t) == pc[t] \in {"syncArgs", "asyncArgs"}
AtCallid(t) == pc[t] \in {"syncCallid", "asyncCallid"}
BodyDue == {Reading(t) : t \in {u \in Threads : AtBody(u)}}
CallidDue == {Reading(t) : t \in {u \in Threads : AtCallid(u)}}

\* The last number whose request has left, or never will.
Drawn == IF writeMutex = NoThread THEN sequenceId ELSE sequenceId - 1

\* What each thread is at.  A synchronous call, and wait_pending_async, have
\* the connection for themselves.
Role(t) ==
    /\ pc[t] \in Sends \cup ReadsReply => out[t] \in Packet
    /\ pc[t] = "register" => out[t].how = "asynch"
    /\ pc[t] \in ReadsReply => out[t].how = "synch"
    /\ pc[t] \in Sends \cup ReadsReply /\ out[t].how = "synch"
          => t \in AppThreads /\ pendings = {} /\ WaitersOff
    /\ pc[t] \in {"asyncArgs", "asyncCallid", "callback"} => got[t] \in Packet
    /\ pc[t] \in {"idle", "off", "start", "loop"} => got[t] = NoPacket
    /\ t \in AppThreads /\ (got[t] # NoPacket \/ pc[t] \in {"lockTake", "take"}) => WaitersOff
    /\ t \in AppThreads => pc[t] \notin {"off", "start", "loop"}
    /\ t \in Waiters => pc[t] # "idle"
    /\ t \in Waiters /\ pc[t] \in {"lockTake", "take"} => got[t] = NoPacket
    /\ t \in Waiters /\ pc[t] \in Sends => got[t] # NoPacket
    /\ pc[t] \in {"lockWrite", "flush"} /\ out[t].isbyid => callId[out[t].stub] # 0
    /\ pc[t] \in {"syncArgs", "syncCallid"} => vseqid[t] = out[t].seqid
    /\ SentOut(t) => out[t] \notin pendings

Roles ==
    /\ \A t \in Threads : Role(t)
    /\ \A t, u \in Threads : SentOut(t) /\ SentOut(u) /\ out[t] = out[u] => t = u

\* A request carries the call of a packet.
Carries(r, p) == r.name = p.stub /\ (r.callid = 0 <=> ~p.isbyid)

\* What follows the body of the reply to p: the id of the function, if p was
\* sent by name, or the next reply.  Only a broken connection cuts a reply off.
Follows(k, p) ==
    /\ ~p.isbyid /\ connected => k < Len(down)
    /\ k < Len(down) => IF p.isbyid THEN down[k + 1].field = "seqid"
                        ELSE down[k + 1] = [field |-> "callid", val |-> StubId[p.stub]]

\* The open calls: numbered, each with a number of its own, not answered.
Calls ==
    /\ Len(executed) <= Drawn
    /\ \A p \in Open : p \in Packet /\ p.seqid \in 1..Drawn /\ answers[p.seqid] = <<>>
    /\ \A p, q \in Open : p.seqid = q.seqid => p = q
    /\ \A p \in BodyDue :
          /\ p \in Packet /\ p.seqid \in 1..Len(executed) /\ answers[p.seqid] = <<>>
          /\ \A q \in Open : q.seqid # p.seqid
    /\ \A i \in 1..MaxCalls : i > Drawn => answers[i] = <<>>

\* Requests on their way, or executed and not answered: those of open calls.
Requests ==
    /\ session = "running" => \A k \in 1..Len(up) :
          /\ up[k].seqid <= Drawn
          /\ \A p \in Open : p.seqid = up[k].seqid => Carries(up[k], p)
          /\ connected => \E p \in Open : p.seqid = up[k].seqid
    /\ serving # NoRequest =>
          /\ session = "running" /\ serving.seqid = Len(executed)
          /\ \A p \in Open : p.seqid = serving.seqid => Carries(serving, p)
          /\ connected => \E p \in Open : p.seqid = serving.seqid
    /\ connected /\ session = "running" => \A p \in Open : ReplyToCome(p.seqid)

\* Replies on their way: whole ones, of open calls, in the order of execution.
Replies ==
    \A k \in 1..Len(down) :
        /\ down[k].field = "seqid" =>
              /\ connected => k < Len(down)
              /\ k < Len(down) => down[k + 1] = [field |-> "body", val |-> down[k].val]
              /\ \E p \in Open : p.seqid = down[k].val
              /\ serving # NoRequest => down[k].val # serving.seqid
              /\ \A l \in 1..Len(down) : k < l /\ down[l].field = "seqid" => down[k].val # down[l].val
        /\ down[k].field = "callid" /\ k < Len(down) => down[k + 1].field = "seqid"
        /\ down[k].field \in {"seqid", "body"} => down[k].val <= Len(executed)
        /\ down[k].field = "body" => \A p \in Open : p.seqid = down[k].val => Follows(k, p)

\* The next part of the input is the one that is due.
Due ==
    /\ \A p \in BodyDue : IF down = <<>> THEN ~connected
                          ELSE down[1] = [field |-> "body", val |-> p.seqid] /\ Follows(1, p)
    /\ \A p \in CallidDue : IF down = <<>> THEN ~connected
                            ELSE down[1] = [field |-> "callid", val |-> StubId[p.stub]]
    /\ BodyDue = {} /\ CallidDue = {} /\ down # <<>> => down[1].field = "seqid"

\* wait_pending_async has answered what it owes, or it is still pending.
Owing ==
    \A t \in AppThreads :
        /\ owed[t] \subseteq 1..MaxCalls
        /\ owed[t] # {} => got[t] # NoPacket \/ pc[t] \in {"lockTake", "take"}
        /\ \A i \in owed[t] : \/ answers[i] # <<>>
                              \/ \E p \in pendings : p.seqid = i
                              \/ pc[t] = "asyncArgs" /\ got[t].seqid = i
        /\ got[t] # NoPacket /\ isEmpty[t] => \A p \in pendings : p.seqid \notin owed[t]

Sound == CallIdSound /\ OwnAnswer /\ halted \in {"no", "terminate", "client.cpp:104"}

DInv == Sound /\ (halted = "no" => Roles /\ Calls /\ Requests /\ Replies /\ Due /\ Owing)
-----------------------------------------------------------------------------
(* Threads                                                                   *)

ReadLabelsOf == ReadsReply \cup {"lockTake", "take", "asyncArgs", "asyncCallid"}

LEMMA ReadingDefined ==
    \A t : Reading(t) = IF pc[t] \in {"syncArgs", "syncCallid"} THEN out[t] ELSE got[t]
BY DEF Reading

\* One thread at a time is at a reply.
LEMMA OneReader ==
    ASSUME Disciplined, Roles, NEW t \in Threads, NEW u \in Threads,
           pc[t] \in ReadLabelsOf, pc[u] \in ReadLabelsOf
    PROVE  t = u
<1>1. ASSUME NEW v \in AppThreads, pc[v] \in ReadLabelsOf PROVE WaitersOff
  <2>1. Role(v) /\ v \in Threads
    BY DEF Roles, Threads
  <2>2. CASE pc[v] \in ReadsReply
    BY <2>1, <2>2 DEF Role
  <2>3. CASE pc[v] \in {"lockTake", "take"}
    BY <1>1, <2>1, <2>3 DEF Role
  <2>4. CASE pc[v] \in {"asyncArgs", "asyncCallid"}
    <3>1. got[v] # NoPacket
      BY <2>1, <2>4, NullsAssumption DEF Role
    <3> QED
      BY <1>1, <2>1, <3>1 DEF Role
  <2> QED
    BY <1>1, <2>2, <2>3, <2>4 DEF ReadLabelsOf
<1>2. ASSUME NEW w \in Waiters, pc[w] \in ReadLabelsOf PROVE ~WaitersOff
  BY <1>2 DEF WaitersOff, ReadLabelsOf, ReadsReply
<1> QED
  BY <1>1, <1>2 DEF Threads, Disciplined

\* The other threads are left alone.
Others(t) ==
    \A u \in Threads \ {t} : pc'[u] = pc[u] /\ out'[u] = out[u] /\ got'[u] = got[u]

LEMMA OpenStays ==
    ASSUME pendings' = pendings,
           \A u \in Threads : /\ SentOut(u)' <=> SentOut(u)
                              /\ SentOut(u) => out'[u] = out[u]
    PROVE  Open' = Open
BY DEF Open

LEMMA DueStays ==
    ASSUME \A u \in Threads : /\ AtBody(u)' <=> AtBody(u)
                              /\ AtCallid(u)' <=> AtCallid(u)
                              /\ AtBody(u) \/ AtCallid(u) => Reading(u)' = Reading(u)
    PROVE  BodyDue' = BodyDue /\ CallidDue' = CallidDue
BY DEF BodyDue, CallidDue

\* A step of a thread that is not at a reply, and has none to come.
LEMMA Elsewhere ==
    ASSUME NEW t \in Threads, Others(t), pendings' = pendings,
           pc[t] \notin {"register", "lockRead", "readSeqid", "syncArgs", "asyncArgs",
                         "syncCallid", "asyncCallid"},
           pc'[t] \notin {"register", "lockRead", "readSeqid", "syncArgs", "asyncArgs",
                          "syncCallid", "asyncCallid"}
    PROVE  UNCHANGED <<Open, BodyDue, CallidDue>>
<1>1. \A u \in Threads : /\ SentOut(u)' <=> SentOut(u)
                         /\ SentOut(u) => out'[u] = out[u]
  BY DEF Others, SentOut
<1>2. \A u \in Threads : /\ AtBody(u)' <=> AtBody(u)
                         /\ AtCallid(u)' <=> AtCallid(u)
                         /\ AtBody(u) \/ AtCallid(u) => Reading(u)' = Reading(u)
  BY DEF Others, AtBody, AtCallid, Reading
<1> QED
  BY <1>1, <1>2, OpenStays, DueStays

\* Nobody else is at a reply: what is due is due to the thread that is.
LEMMA DueToReader ==
    ASSUME Disciplined, Roles, NEW t \in Threads, pc[t] \in ReadLabelsOf
    PROVE  /\ BodyDue = IF AtBody(t) THEN {Reading(t)} ELSE {}
           /\ CallidDue = IF AtCallid(t) THEN {Reading(t)} ELSE {}
<1>1. \A u \in Threads : AtBody(u) \/ AtCallid(u) => u = t
  BY OneReader DEF AtBody, AtCallid, ReadLabelsOf, ReadsReply
<1> QED
  BY <1>1 DEF BodyDue, CallidDue

\* The same, of the thread that reads and of those that are not reading.
LEMMA DueAfter ==
    ASSUME Disciplined, Roles, NEW t \in Threads, pc[t] \in ReadLabelsOf, Others(t)
    PROVE  /\ BodyDue' = IF AtBody(t)' THEN {Reading(t)'} ELSE {}
           /\ CallidDue' = IF AtCallid(t)' THEN {Reading(t)'} ELSE {}
<1>1. \A u \in Threads : AtBody(u) \/ AtCallid(u) => u = t
  BY OneReader DEF AtBody, AtCallid, ReadLabelsOf, ReadsReply
<1>2. \A u \in Threads : AtBody(u)' \/ AtCallid(u)' => u = t
  BY <1>1 DEF AtBody, AtCallid, Others
<1> QED
  BY <1>2 DEF BodyDue, CallidDue
-----------------------------------------------------------------------------
(* Every step leaves the threads in their roles                              *)

\* A step of one thread leaves the others in theirs, when it takes nothing
\* from them: no id of a function, and no connection that they have alone.
LEMMA OthersKept ==
    ASSUME Roles, NEW t \in Threads, Others(t), pc[t] # "off",
           \A u \in Threads \ {t} : vseqid'[u] = vseqid[u],
           \A s \in Stubs : callId[s] # 0 => callId'[s] # 0,
           pendings' \subseteq pendings
    PROVE  /\ WaitersOff => WaitersOff'
           /\ \A u \in Threads \ {t} : Role(u)'
<1>1. WaitersOff => WaitersOff' /\ t \notin Waiters
  BY DEF WaitersOff, Others, Threads
<1>2. ASSUME NEW u \in Threads \ {t} PROVE Role(u)'
  <2>1. /\ pc'[u] = pc[u] /\ out'[u] = out[u] /\ got'[u] = got[u] /\ vseqid'[u] = vseqid[u]
        /\ Role(u)
    BY DEF Others, Roles
  <2>2. out[u] \in Packet => out[u].stub \in Stubs
    BY DEF Packet
  <2>3. pc[u] \in {"lockWrite", "flush"} /\ out[u].isbyid => callId'[out[u].stub] # 0
    BY <2>1, <2>2 DEF Role, Sends
  <2>4. pendings = {} => pendings' = {}
    OBVIOUS
  <2>5. SentOut(u)' => out[u] \notin pendings'
    BY <2>1 DEF Role, SentOut
  <2> QED
    BY <1>1, <2>1, <2>3, <2>4, <2>5 DEF Role
<1> QED
  BY <1>1, <1>2

LEMMA RolesFrom ==
    ASSUME Roles, NEW t \in Threads, Others(t), \A u \in Threads : Role(u)',
           SentOut(t)' => \A u \in Threads \ {t} : SentOut(u) => out[u] # out'[t]
    PROVE  Roles'
BY DEF Roles, SentOut, Others

LEMMA IssueRoles ==
    ASSUME Disciplined, TypeOK, Roles, NEW t \in Threads, NEW s \in Stubs, NEW how \in Kinds,
           NEW via \in {"prefer_id", "by_name"}, Issue(t, s, how, via)
    PROVE  Roles'
<1> DEFINE p == NewPacket(s, how, via)
<1>1. p \in Packet
  BY NewPacketType
<1>2. /\ p.stub = s /\ p.how = how /\ (p.isbyid => callId[s] # 0)
  BY DEF NewPacket
<1>3. /\ pc[t] \in {"idle", "callback"} /\ (t \in AppThreads \/ pc[t] = "callback")
      /\ out' = [out EXCEPT ![t] = p] /\ pc' = [pc EXCEPT ![t] = "lockWrite"]
      /\ UNCHANGED <<got, vseqid, pendings, callId>>
      /\ how = "synch" => pendings = {} /\ WaitersOff
  BY DEF Issue, Goto, clientVars, Undisturbed, Disciplined
<1> HIDE DEF p
<1>4. Others(t) /\ pc'[t] = "lockWrite" /\ out'[t] = p
  BY <1>3 DEF Others, TypeOK
<1>5. (WaitersOff => WaitersOff') /\ \A u \in Threads \ {t} : Role(u)'
  BY <1>3, <1>4, OthersKept
<1>6. how = "synch" => t \in AppThreads
  BY <1>3 DEF WaitersOff, Threads
<1>7. Role(t)'
  <2>1. Role(t)
    BY DEF Roles
  <2>2. t \in Waiters => got[t] # NoPacket
    BY <1>3, <2>1, ThreadsAssumption, NullsAssumption DEF Role
  <2> QED
    BY <1>1, <1>2, <1>3, <1>4, <1>5, <1>6, <2>1, <2>2 DEF Role, Sends, ReadsReply, SentOut
<1> QED
  BY <1>4, <1>5, <1>7, RolesFrom DEF SentOut

\* The steps of a thread that only take it from one label to the next.
LEMMA GotoRoles ==
    ASSUME TypeOK, Roles, NEW t \in Threads, NEW label, Goto(t, label), pc[t] # "off",
           UNCHANGED <<out, got, vseqid, callId, pendings>>, Role(t)',
           label \in {"register", "lockRead", "readSeqid"} => SentOut(t)
    PROVE  Roles'
<1>1. Others(t) /\ pc'[t] = label
  BY DEF Others, Goto, TypeOK
<1>2. \A u \in Threads \ {t} : Role(u)'
  BY <1>1, OthersKept
<1>3. SentOut(t)' => \A u \in Threads \ {t} : SentOut(u) => out[u] # out'[t]
  BY <1>1 DEF SentOut, Roles
<1> QED
  BY <1>1, <1>2, <1>3, RolesFrom

LEMMA BeginSendRoles ==
    ASSUME TypeOK, Sending', Roles, NEW t \in Threads, BeginSend(t)
    PROVE  Roles'
<1>1. /\ pc[t] = "lockWrite" /\ pc' = [pc EXCEPT ![t] = "flush"]
      /\ out' = [out EXCEPT ![t].seqid = NextSequenceId]
      /\ UNCHANGED <<got, vseqid, pendings, callId>>
  BY DEF BeginSend, Goto
<1>2. Others(t) /\ pc'[t] = "flush"
  BY <1>1 DEF Others, TypeOK
<1>3. (WaitersOff => WaitersOff') /\ \A u \in Threads \ {t} : Role(u)'
  BY <1>1, <1>2, OthersKept
<1>4. Role(t) /\ out[t] \in Packet
  BY <1>1 DEF Roles, Role, Sends
<1>5. /\ out'[t] \in Packet /\ out'[t].how = out[t].how /\ out'[t].isbyid = out[t].isbyid
      /\ out'[t].stub = out[t].stub
  <2>1. out'[t] \in Packet
    BY <1>2 DEF Sending
  <2>2. out'[t] = [out[t] EXCEPT !.seqid = NextSequenceId]
    BY <1>1 DEF TypeOK
  <2> QED
    BY <1>4, <2>1, <2>2 DEF Packet
<1>6. Role(t)'
  BY <1>1, <1>2, <1>3, <1>4, <1>5 DEF Role, Sends, ReadsReply, SentOut
<1> QED
  BY <1>2, <1>3, <1>6, RolesFrom DEF SentOut

\* The number of the call that leaves is new.
LEMMA FlushRoles ==
    ASSUME TypeOK, Sending, LocksHeld, Roles, Calls, NEW t \in Threads, Flush(t)
    PROVE  Roles' /\ out[t] \notin Open
<1>1. /\ pc[t] = "flush" /\ Goto(t, AfterSend(out[t]))
      /\ UNCHANGED <<out, got, vseqid, pendings, callId>>
  BY DEF Flush
<1>2. out[t] \notin Open
  <2>1. Drawn = sequenceId - 1
    BY <1>1, ThreadsAssumption DEF LocksHeld, Drawn
  <2>2. out[t].seqid = sequenceId /\ sequenceId \in Nat
    BY <1>1 DEF Sending, TypeOK
  <2>3. \A p \in Open : p.seqid \in 1..(sequenceId - 1)
    BY <2>1 DEF Calls
  <2> QED
    BY <2>2, <2>3
<1>3. AfterSend(out[t]) = IF out[t].how = "synch" THEN "lockRead" ELSE "register"
  BY DEF AfterSend
<1>4. Others(t) /\ pc'[t] = AfterSend(out[t])
  BY <1>1 DEF Others, Goto, TypeOK
<1>5. (WaitersOff => WaitersOff') /\ \A u \in Threads \ {t} : Role(u)'
  BY <1>1, <1>4, OthersKept
<1>6. Role(t) /\ out[t] \in Packet /\ out[t].how \in {"synch", "asynch"}
  BY <1>1 DEF Roles, Role, Sends, Packet
<1>7. out[t] \notin pendings
  BY <1>2 DEF Open
<1>8. Role(t)'
  <2>1. CASE out[t].how = "synch"
    BY <2>1, <1>1, <1>3, <1>4, <1>5, <1>6, <1>7 DEF Role, Sends, ReadsReply, SentOut
  <2>2. CASE out[t].how = "asynch"
    BY <2>2, <1>1, <1>3, <1>4, <1>5, <1>6, <1>7 DEF Role, Sends, ReadsReply, SentOut
  <2> QED
    BY <1>6, <2>1, <2>2
<1>9. \A u \in Threads \ {t} : SentOut(u) => out[u] # out'[t]
  BY <1>1, <1>2 DEF Open
<1> QED
  BY <1>2, <1>4, <1>5, <1>8, <1>9, RolesFrom

\* A packet becomes pending: nobody waits for a synchronous call then.
LEMMA RegisterRoles ==
    ASSUME Disciplined, TypeOK, Roles, NEW t \in Threads, Register(t)
    PROVE  Roles'
<1>1. /\ pc[t] = "register" /\ pc' = [pc EXCEPT ![t] = Caller(t)]
      /\ out' = [out EXCEPT ![t] = NoPacket] /\ pendings' = pendings \cup {out[t]}
      /\ UNCHANGED <<got, vseqid, callId>>
  BY DEF Register, Goto
<1>2. Others(t) /\ pc'[t] = Caller(t) /\ out'[t] = NoPacket
  BY <1>1 DEF Others, TypeOK
<1>3. Role(t) /\ out[t].how = "asynch" /\ SentOut(t) /\ got[t] \in Packet \cup {NoPacket}
  BY <1>1 DEF Roles, Role, SentOut, TypeOK
<1>4. Caller(t) = IF got[t] = NoPacket THEN "idle" ELSE "callback"
  BY DEF Caller
<1>5. WaitersOff => WaitersOff' /\ t \notin Waiters
  BY <1>1, <1>2 DEF WaitersOff, Others, Threads
<1>6. ASSUME NEW u \in Threads \ {t} PROVE Role(u)'
  <2>1. /\ pc'[u] = pc[u] /\ out'[u] = out[u] /\ got'[u] = got[u] /\ vseqid'[u] = vseqid[u]
        /\ Role(u)
    BY <1>1, <1>2 DEF Others, Roles
  <2>2. ~(pc[u] \in Sends \cup ReadsReply /\ out[u].how = "synch")
    <3> SUFFICES ASSUME pc[u] \in Sends \cup ReadsReply /\ out[u].how = "synch" PROVE FALSE
      OBVIOUS
    <3>1. u \in AppThreads /\ WaitersOff
      BY <2>1 DEF Role
    <3>2. t \in AppThreads
      BY <3>1, <1>5 DEF Threads
    <3> QED
      BY <3>1, <3>2 DEF Disciplined
  <2>3. SentOut(u)' => out[u] \notin pendings'
    BY <1>1, <1>3, <2>1 DEF Roles, Role, SentOut
  <2> QED
    BY <1>1, <1>5, <2>1, <2>2, <2>3 DEF Role
<1>7. Role(t)'
  BY <1>1, <1>2, <1>3, <1>4, <1>5, NullsAssumption, ThreadsAssumption
     DEF Role, Sends, ReadsReply, SentOut
<1> QED
  BY <1>2, <1>4, <1>6, <1>7, RolesFrom DEF SentOut

LEMMA SyncLockReadRoles ==
    ASSUME TypeOK, Roles, NEW t \in Threads, SyncLockRead(t)
    PROVE  Roles'
<1>1. /\ pc[t] = "lockRead" /\ Goto(t, "readSeqid")
      /\ UNCHANGED <<out, got, vseqid, pendings, callId>>
  BY DEF SyncLockRead
<1>2. Others(t) /\ pc'[t] = "readSeqid" /\ Role(t)
  BY <1>1 DEF Others, Goto, TypeOK, Roles
<1>3. WaitersOff => WaitersOff'
  BY <1>1, <1>2 DEF WaitersOff, Others, Threads
<1>4. Role(t)'
  BY <1>1, <1>2, <1>3 DEF Role, Sends, ReadsReply, SentOut
<1> QED
  BY <1>1, <1>4, GotoRoles DEF SentOut

LEMMA TakeLockRoles ==
    ASSUME TypeOK, Roles, NEW t \in Threads, TakeLock(t)
    PROVE  Roles'
<1>1. /\ pc[t] = "lockTake" /\ Goto(t, "take")
      /\ UNCHANGED <<out, got, vseqid, pendings, callId>>
  BY DEF TakeLock
<1>2. Others(t) /\ pc'[t] = "take" /\ Role(t)
  BY <1>1 DEF Others, Goto, TypeOK, Roles
<1>3. WaitersOff => WaitersOff'
  BY <1>1, <1>2 DEF WaitersOff, Others, Threads
<1>4. Role(t)'
  BY <1>1, <1>2, <1>3 DEF Role, Sends, ReadsReply, SentOut
<1> QED
  BY <1>1, <1>4, GotoRoles
-----------------------------------------------------------------------------
(* A thread that reads finds what it reads for                               *)

LEMMA HeadIsFirst ==
    ASSUME TypeOK, down # <<>>
    PROVE  /\ Head(down) = down[1] /\ 1 \in 1..Len(down) /\ Len(down) \in Nat
           /\ Len(Tail(down)) = Len(down) - 1
           /\ \A k \in 1..Len(Tail(down)) : Tail(down)[k] = down[k + 1]
           /\ Tail(down) = <<>> <=> Len(down) = 1
<1>1. down \in Seq(Part)
  BY DEF TypeOK
<1>2. /\ Head(down) = down[1] /\ Len(down) \in Nat \ {0}
      /\ Tail(down) \in Seq(Part) /\ Len(Tail(down)) = Len(down) - 1
      /\ \A k \in 1..Len(Tail(down)) : Tail(down)[k] = down[k + 1]
  BY <1>1, HeadTailProperties
<1>3. Tail(down) = <<>> <=> Len(Tail(down)) = 0
  BY <1>2, EmptySeq
<1> QED
  BY <1>2, <1>3

\* The calls still open while a thread has the connection for itself.
LEMMA OpenOfReader ==
    ASSUME Disciplined, Roles, NEW t \in AppThreads, WaitersOff, NEW p \in Open
    PROVE  p \in pendings \/ (SentOut(t) /\ p = out[t])
<1>1. ASSUME NEW u \in Threads, SentOut(u) PROVE u = t
  BY <1>1 DEF WaitersOff, SentOut, Threads, Disciplined
<1> QED
  BY <1>1 DEF Open

LEMMA HeadDue ==
    ASSUME Disciplined, TypeOK, Roles, Replies, Due, NEW t \in Threads,
           pc[t] \in DOMAIN Expected, down # <<>>
    PROVE  /\ Head(down).field = Expected[pc[t]]
           /\ pc[t] = "readSeqid" => Head(down).val = out[t].seqid
           /\ pc[t] = "take" /\ t \in AppThreads => FindPending(Head(down).val) # {}
           /\ AtBody(t) => Head(down).val = Reading(t).seqid /\ Follows(1, Reading(t))
           /\ AtCallid(t) => Head(down).val = StubId[Reading(t).stub]
<1>1. Head(down) = down[1] /\ 1 \in 1..Len(down)
  BY HeadIsFirst
<1>2. /\ pc[t] \in {"readSeqid", "take", "syncArgs", "asyncArgs", "syncCallid", "asyncCallid"}
      /\ pc[t] \in ReadLabelsOf
  BY ReadLabels DEF ReadLabelsOf, ReadsReply
<1>3. /\ BodyDue = IF AtBody(t) THEN {Reading(t)} ELSE {}
      /\ CallidDue = IF AtCallid(t) THEN {Reading(t)} ELSE {}
  BY <1>2, DueToReader
<1>4. CASE AtBody(t)
  <2>1. Reading(t) \in BodyDue
    BY <1>3, <1>4
  <2>2. down[1] = [field |-> "body", val |-> Reading(t).seqid] /\ Follows(1, Reading(t))
    BY <2>1 DEF Due
  <2> QED
    BY <1>1, <1>4, <2>2 DEF AtBody, AtCallid, Expected
<1>5. CASE AtCallid(t)
  <2>1. Reading(t) \in CallidDue
    BY <1>3, <1>5
  <2>2. down[1] = [field |-> "callid", val |-> StubId[Reading(t).stub]]
    BY <2>1 DEF Due
  <2> QED
    BY <1>1, <1>5, <2>2 DEF AtBody, AtCallid, Expected
<1>6. CASE pc[t] \in {"readSeqid", "take"}
  <2>1. ~AtBody(t) /\ ~AtCallid(t) /\ Role(t)
    BY <1>6 DEF AtBody, AtCallid, Roles
  <2>2. down[1].field = "seqid"
    BY <1>3, <2>1 DEF Due
  <2>3. PICK p \in Open : p.seqid = down[1].val
    BY <1>1, <2>2 DEF Replies
  <2>4. CASE pc[t] = "readSeqid"
    <3>1. t \in AppThreads /\ WaitersOff /\ pendings = {}
      BY <2>1, <2>4 DEF Role, ReadsReply
    <3>2. p = out[t]
      BY <3>1, OpenOfReader
    <3> QED
      BY <1>1, <2>1, <2>2, <2>3, <2>4, <3>2 DEF Expected
  <2>5. CASE pc[t] = "take"
    <3>1. ASSUME t \in AppThreads PROVE p \in pendings
      <4>1. WaitersOff /\ ~SentOut(t)
        BY <2>1, <2>5, <3>1 DEF Role, SentOut
      <4> QED
        BY <4>1, <3>1, OpenOfReader
    <3>2. t \in AppThreads => FindPending(down[1].val) # {}
      BY <3>1, <2>3 DEF FindPending
    <3> QED
      BY <1>1, <2>1, <2>2, <2>5, <3>2 DEF Expected
  <2> QED
    BY <1>6, <2>4, <2>5
<1> QED
  BY <1>2, <1>4, <1>5, <1>6 DEF AtBody, AtCallid
-----------------------------------------------------------------------------
(* The steps of a reader leave the threads in their roles                    *)

LEMMA SyncReadSeqidRoles ==
    ASSUME Disciplined, TypeOK, Roles, Replies, Due, NEW t \in Threads, SyncReadSeqid(t)
    PROVE  Roles' /\ halted' = "no" /\ Head(down).val = out[t].seqid /\ Goto(t, "syncArgs")
<1>1. /\ pc[t] = "readSeqid" /\ halted = "no" /\ down # <<>>
      /\ vseqid' = [vseqid EXCEPT ![t] = Head(down).val]
      /\ UNCHANGED <<out, got, callId, pendings>>
  BY DEF SyncReadSeqid, Reads, clientVars
<1>2. Head(down).val = out[t].seqid
  BY <1>1, ReadLabels, HeadDue
<1>3. Goto(t, "syncArgs") /\ halted' = "no"
  BY <1>1, <1>2 DEF SyncReadSeqid
<1>4. Others(t) /\ pc'[t] = "syncArgs" /\ vseqid'[t] = out[t].seqid
      /\ \A u \in Threads \ {t} : vseqid'[u] = vseqid[u]
  BY <1>1, <1>2, <1>3 DEF Others, Goto, TypeOK
<1>5. (WaitersOff => WaitersOff') /\ \A u \in Threads \ {t} : Role(u)'
  BY <1>1, <1>4, OthersKept
<1>6. Role(t)
  BY DEF Roles
<1>7. Role(t)'
  BY <1>1, <1>4, <1>5, <1>6 DEF Role, Sends, ReadsReply, SentOut
<1> QED
  BY <1>2, <1>3, <1>4, <1>5, <1>7, RolesFrom DEF SentOut

\* What the end of a read leaves behind.
LEMMA EndReadRoles ==
    ASSUME TypeOK, Roles, NEW t \in Threads, EndRead(t), AtBody(t) \/ AtCallid(t),
           \A s \in Stubs : callId[s] # 0 => callId'[s] # 0,
           UNCHANGED <<got, pendings>>, halted = "no"
    PROVE  Roles' /\ halted' = "no" /\ Others(t) /\ pc'[t] \in {"idle", "callback"}
<1>1. Role(t) /\ pc[t] \in {"syncArgs", "syncCallid", "asyncArgs", "asyncCallid"}
  BY DEF Roles, AtBody, AtCallid
<1>2. CASE pc[t] \in {"syncArgs", "syncCallid"}
  <2>1. /\ pc' = [pc EXCEPT ![t] = Caller(t)] /\ out' = [out EXCEPT ![t] = NoPacket]
        /\ vseqid' = [vseqid EXCEPT ![t] = 0]
        /\ halted' = IF vseqid[t] = out[t].seqid THEN "no" ELSE "client.hpp:188"
    BY <1>2 DEF EndRead, Goto
  <2>2. /\ Others(t) /\ pc'[t] = Caller(t) /\ out'[t] = NoPacket /\ halted' = "no"
        /\ \A u \in Threads \ {t} : vseqid'[u] = vseqid[u]
    BY <1>1, <1>2, <2>1 DEF Others, TypeOK, Role
  <2>3. (WaitersOff => WaitersOff') /\ \A u \in Threads \ {t} : Role(u)'
    BY <1>1, <2>2, OthersKept
  <2>4. Caller(t) = (IF got[t] = NoPacket THEN "idle" ELSE "callback")
        /\ got[t] \in Packet \cup {NoPacket}
    BY DEF Caller, TypeOK
  <2>5. t \in AppThreads
    BY <1>1, <1>2 DEF Role, ReadsReply
  <2>6. Role(t)'
    BY <1>1, <1>2, <2>2, <2>3, <2>4, <2>5, ThreadsAssumption DEF Role, Sends, ReadsReply, SentOut
  <2> QED
    BY <2>2, <2>3, <2>4, <2>6, RolesFrom DEF SentOut
<1>3. CASE pc[t] \in {"asyncArgs", "asyncCallid"}
  <2>1. /\ pc' = [pc EXCEPT ![t] = "callback"] /\ UNCHANGED <<halted, out, vseqid>>
    BY <1>3 DEF EndRead, Goto
  <2>2. Others(t) /\ pc'[t] = "callback"
    BY <2>1 DEF Others, TypeOK
  <2>3. (WaitersOff => WaitersOff') /\ \A u \in Threads \ {t} : Role(u)'
    BY <1>1, <2>1, <2>2, OthersKept
  <2>4. Role(t)'
    BY <1>1, <1>3, <2>1, <2>2, <2>3, NullsAssumption, ThreadsAssumption
       DEF Role, Sends, ReadsReply, SentOut
  <2> QED
    BY <2>1, <2>2, <2>3, <2>4, RolesFrom DEF SentOut
<1> QED
  BY <1>1, <1>2, <1>3

LEMMA ReadBodyRoles ==
    ASSUME TypeOK, Roles, NEW t \in Threads, ReadBody(t)
    PROVE  /\ Roles' /\ halted' = "no" /\ Others(t) /\ AtBody(t)
           /\ IF Reading(t).isbyid THEN pc'[t] \in {"idle", "callback"}
              ELSE /\ pc'[t] = IF pc[t] = "syncArgs" THEN "syncCallid" ELSE "asyncCallid"
                   /\ Reading(t)' = Reading(t)
<1>1. /\ pc[t] \in {"syncArgs", "asyncArgs"} /\ halted = "no" /\ AtBody(t)
      /\ UNCHANGED <<got, callId, pendings>> /\ Role(t)
  BY DEF ReadBody, Reads, Expected, AtBody, Roles
<1>2. CASE Reading(t).isbyid
  <2>1. EndRead(t)
    BY <1>2 DEF ReadBody
  <2> QED
    BY <1>1, <1>2, <2>1, EndReadRoles
<1>3. CASE ~Reading(t).isbyid
  <2> DEFINE label == IF pc[t] = "syncArgs" THEN "syncCallid" ELSE "asyncCallid"
  <2>1. Goto(t, label) /\ UNCHANGED <<halted, out, vseqid>>
    BY <1>3 DEF ReadBody
  <2>2. Others(t) /\ pc'[t] = label
    BY <1>1, <2>1 DEF Others, Goto, TypeOK
  <2>3. WaitersOff => WaitersOff'
    BY <1>1, <2>2 DEF WaitersOff, Others, Threads
  <2>4. Role(t)'
    BY <1>1, <2>1, <2>2, <2>3 DEF Role, Sends, ReadsReply, SentOut
  <2>5. Roles'
    BY <1>1, <2>1, <2>4, GotoRoles
  <2>6. Reading(t)' = Reading(t)
    BY <1>1, <2>1, <2>2 DEF Reading
  <2> QED
    BY <1>1, <1>3, <2>1, <2>2, <2>5, <2>6
<1> QED
  BY <1>2, <1>3

LEMMA ReadCallidRoles ==
    ASSUME Disciplined, TypeOK, Roles, Replies, Due, NEW t \in Threads, ReadCallid(t)
    PROVE  /\ Roles' /\ halted' = "no" /\ Others(t) /\ pc'[t] \in {"idle", "callback"}
           /\ AtCallid(t)
           /\ callId' = [callId EXCEPT ![Reading(t).stub] = StubId[Reading(t).stub]]
<1>1. /\ pc[t] \in DOMAIN Expected /\ halted = "no" /\ down # <<>> /\ AtCallid(t) /\ EndRead(t)
      /\ callId' = [callId EXCEPT ![Reading(t).stub] = Head(down).val]
      /\ UNCHANGED <<got, pendings>>
  BY DEF ReadCallid, Reads, Expected, AtCallid
<1>2. Head(down).val = StubId[Reading(t).stub]
  BY <1>1, HeadDue
<1>3. Reading(t).stub \in Stubs
  <2>1. Role(t) /\ pc[t] \in {"syncCallid", "asyncCallid"}
    BY <1>1 DEF Roles, AtCallid
  <2>2. Reading(t) \in Packet
    BY <2>1 DEF Role, Reading, ReadsReply
  <2> QED
    BY <2>2 DEF Packet
<1>4. \A s \in Stubs : callId[s] # 0 => callId'[s] # 0
  <2>1. StubId[Reading(t).stub] \in Nat \ {0}
    BY <1>3, StubsAssumption
  <2>2. \A s \in Stubs : callId'[s] = IF s = Reading(t).stub THEN Head(down).val ELSE callId[s]
    BY <1>1, <1>3 DEF TypeOK
  <2> QED
    BY <1>2, <2>1, <2>2
<1> QED
  BY <1>1, <1>2, <1>4, EndReadRoles

LEMMA TakeRegisteredRoles ==
    ASSUME TypeOK, Roles, NEW t \in Threads, NEW p \in FindPending(Head(down).val),
           pc[t] = "take", got' = [got EXCEPT ![t] = p], pendings' = Erase(p),
           Goto(t, "asyncArgs"), UNCHANGED <<out, vseqid, callId>>
    PROVE  Roles'
<1>1. p \in pendings /\ p \in Packet /\ pendings' = pendings \ {p}
  BY DEF FindPending, Erase, TypeOK
<1>2. Others(t) /\ pc'[t] = "asyncArgs" /\ got'[t] = p
  BY DEF Others, Goto, TypeOK
<1>3. (WaitersOff => WaitersOff') /\ \A u \in Threads \ {t} : Role(u)'
  BY <1>1, <1>2, OthersKept
<1>4. Role(t)
  BY DEF Roles
<1>5. Role(t)'
  BY <1>1, <1>2, <1>3, <1>4 DEF Role, Sends, ReadsReply, SentOut
<1> QED
  BY <1>2, <1>3, <1>5, RolesFrom DEF SentOut

\* A reader whose packet is the one of the last round is not met with: an
\* unexpected reply stops the process.
LEMMA TakeUnregisteredHalts ==
    ASSUME Disciplined, TypeOK, Roles, Replies, Due, NEW t \in Threads, TakeUnregistered(t)
    PROVE  halted' = "client.cpp:104"
<1>1. /\ pc[t] = "take" /\ down # <<>> /\ FindPending(Head(down).val) = {} /\ Role(t)
  BY DEF TakeUnregistered, Reads, Roles
<1>2. t \in Waiters /\ t \notin AppThreads
  BY <1>1, ReadLabels, HeadDue, ThreadsAssumption DEF Threads
<1>3. got[t] = NoPacket
  BY <1>1, <1>2 DEF Role
<1> QED
  BY <1>2, <1>3 DEF TakeUnregistered

LEMMA CallbackDoneRoles ==
    ASSUME TypeOK, Roles, NEW t \in Threads, CallbackDone(t)
    PROVE  Roles' /\ Others(t) /\ pc[t] = "callback" /\ pc'[t] \in {"loop", "idle", "lockTake"}
<1>1. /\ pc[t] = "callback" /\ UNCHANGED <<out, vseqid, callId, pendings>> /\ Role(t)
  BY DEF CallbackDone, clientVars, Roles
<1>2. \/ /\ t \in Waiters /\ t \notin AppThreads
         /\ Goto(t, "loop") /\ got' = [got EXCEPT ![t] = NoPacket]
      \/ /\ t \in AppThreads /\ t \notin Waiters
         /\ Goto(t, "idle") /\ got' = [got EXCEPT ![t] = NoPacket]
      \/ /\ t \in AppThreads /\ t \notin Waiters
         /\ Goto(t, "lockTake") /\ got' = got
  BY ThreadsAssumption DEF CallbackDone, Threads
<1>3. Others(t) /\ pc'[t] \in {"loop", "idle", "lockTake"}
  <2>1. PICK label \in {"loop", "idle", "lockTake"} : pc' = [pc EXCEPT ![t] = label]
    BY <1>2 DEF Goto
  <2>2. got' = got \/ got' = [got EXCEPT ![t] = NoPacket]
    BY <1>2
  <2>3. \A u \in Threads \ {t} : got'[u] = got[u]
    BY <2>2 DEF TypeOK
  <2>4. pc'[t] = label /\ \A u \in Threads \ {t} : pc'[u] = pc[u]
    BY <2>1 DEF TypeOK
  <2> QED
    BY <1>1, <2>3, <2>4 DEF Others
<1>4. (WaitersOff => WaitersOff') /\ \A u \in Threads \ {t} : Role(u)'
  BY <1>1, <1>3, OthersKept
<1>5. Role(t)'
  <2>1. \/ t \in Waiters /\ t \notin AppThreads /\ pc'[t] = "loop" /\ got'[t] = NoPacket
        \/ t \in AppThreads /\ t \notin Waiters /\ pc'[t] = "idle" /\ got'[t] = NoPacket
        \/ t \in AppThreads /\ t \notin Waiters /\ pc'[t] = "lockTake" /\ got'[t] = got[t]
    BY <1>2 DEF Goto, TypeOK
  <2>2. got[t] # NoPacket
    BY <1>1, NullsAssumption DEF Role
  <2> QED
    BY <1>1, <1>4, <2>1, <2>2 DEF Role, Sends, ReadsReply, SentOut
<1> QED
  BY <1>1, <1>3, <1>4, <1>5, RolesFrom DEF SentOut

LEMMA WaiterRoles ==
    ASSUME TypeOK, Roles, NEW t \in Threads, WaiterStart(t) \/ WaiterLoop(t)
    PROVE  /\ Roles' /\ Others(t) /\ pc[t] \in {"start", "loop"}
           /\ pc'[t] \in {"loop", "lockTake", "off"}
<1>1. /\ pc[t] \in {"start", "loop"} /\ UNCHANGED <<out, got, vseqid, callId, pendings>>
      /\ \E label \in {"loop", "lockTake", "off"} : Goto(t, label)
  BY DEF WaiterStart, WaiterLoop, clientVars
<1>2. PICK label \in {"loop", "lockTake", "off"} : Goto(t, label)
  BY <1>1
<1>3. Others(t) /\ pc'[t] = label /\ Role(t)
  BY <1>1, <1>2 DEF Others, Goto, TypeOK, Roles
<1>4. t \notin AppThreads
  BY <1>1, <1>3 DEF Role
<1>5. WaitersOff => WaitersOff'
  BY <1>1, <1>3, <1>4 DEF WaitersOff, Others, Threads
<1>6. Role(t)'
  BY <1>1, <1>2, <1>3, <1>4, <1>5 DEF Role, Sends, ReadsReply, SentOut
<1> QED
  BY <1>1, <1>2, <1>3, <1>6, GotoRoles

LEMMA WaitPendingBeginRoles ==
    ASSUME Disciplined, TypeOK, Roles, NEW t \in Threads, WaitPendingBegin(t)
    PROVE  /\ Roles' /\ Others(t) /\ pc[t] = "idle" /\ pc'[t] \in {"idle", "lockTake"}
           /\ UNCHANGED <<out, got, vseqid>>
<1>1. /\ pc[t] = "idle" /\ t \in AppThreads /\ WaitersOff
      /\ UNCHANGED <<out, got, vseqid, callId, pendings>>
      /\ pc' = pc \/ Goto(t, "lockTake")
  BY DEF WaitPendingBegin, clientVars, Disciplined
<1>2. Goto(t, "idle") \/ Goto(t, "lockTake")
  BY <1>1 DEF Goto, TypeOK
<1>3. PICK label \in {"idle", "lockTake"} : Goto(t, label)
  BY <1>2
<1>4. Others(t) /\ pc'[t] = label /\ Role(t)
  BY <1>1, <1>3 DEF Others, Goto, TypeOK, Roles
<1>5. WaitersOff'
  BY <1>1, <1>4 DEF WaitersOff, Others, Threads
<1>6. Role(t)'
  BY <1>1, <1>3, <1>4, <1>5, ThreadsAssumption DEF Role, Sends, ReadsReply, SentOut
<1> QED
  BY <1>1, <1>3, <1>4, <1>6, GotoRoles

\* The waiter threads start while the only thread of the program is idle.
LEMMA StartAsyncRoles ==
    ASSUME Disciplined, TypeOK, Roles, NEW t \in Threads, StartAsync(t)
    PROVE  /\ Roles' /\ UNCHANGED <<out, got, vseqid>>
           /\ \A u \in Threads : pc'[u] = pc[u] \/ (pc[u] = "off" /\ pc'[u] = "start")
<1>1. /\ pc[t] = "idle" /\ t \in AppThreads /\ WaitersOff
      /\ pc' = [u \in Threads |-> IF u \in Waiters THEN "start" ELSE pc[u]]
      /\ UNCHANGED <<out, got, vseqid, callId, pendings>>
  BY DEF StartAsync
<1>2. \A u \in Threads : IF u \in Waiters THEN pc[u] = "off" /\ pc'[u] = "start"
                         ELSE u = t /\ pc'[u] = pc[u]
  BY <1>1 DEF Threads, WaitersOff, Disciplined
<1>3. ASSUME NEW u \in Threads PROVE Role(u)'
  <2>1. Role(u)
    BY DEF Roles
  <2>2. CASE u \in Waiters
    BY <1>1, <1>2, <2>1, <2>2, ThreadsAssumption DEF Role, Sends, ReadsReply, SentOut
  <2>3. CASE u \notin Waiters
    BY <1>1, <1>2, <2>1, <2>3, ThreadsAssumption DEF Role, Sends, ReadsReply, SentOut
  <2> QED
    BY <2>2, <2>3
<1>4. \A u \in Threads : ~SentOut(u)'
  BY <1>1, <1>2 DEF SentOut
<1> QED
  BY <1>1, <1>2, <1>3, <1>4 DEF Roles

LEMMA UnwindRoles ==
    ASSUME TypeOK, Roles, NEW t \in Threads, Unwind(t), halted' = "no", pc[t] # "off",
           UNCHANGED <<callId, pendings>>
    PROVE  Roles' /\ Others(t) /\ t \in AppThreads /\ pc'[t] = "idle"
<1>1. t \in AppThreads /\ Goto(t, "idle")
      /\ out' = [out EXCEPT ![t] = NoPacket] /\ got' = [got EXCEPT ![t] = NoPacket]
      /\ vseqid' = [vseqid EXCEPT ![t] = 0]
  BY DEF Unwind
<1>2. /\ Others(t) /\ pc'[t] = "idle" /\ out'[t] = NoPacket /\ got'[t] = NoPacket
      /\ \A u \in Threads \ {t} : vseqid'[u] = vseqid[u]
  BY <1>1 DEF Others, Goto, TypeOK
<1>3. (WaitersOff => WaitersOff') /\ \A u \in Threads \ {t} : Role(u)'
  BY <1>1, <1>2, OthersKept
<1>4. Role(t)'
  BY <1>1, <1>2, <1>3, ThreadsAssumption DEF Role, Sends, ReadsReply, SentOut
<1> QED
  BY <1>1, <1>2, <1>3, <1>4, RolesFrom DEF SentOut
-----------------------------------------------------------------------------
(* The calls, the requests and the replies on their way                      *)

Wire == Calls /\ Requests /\ Replies /\ Due

LEMMA PartsOf ==
    ASSUME TypeOK
    PROVE  /\ \A k \in 1..Len(down) : down[k] \in Part /\ down[k].val \in Nat
           /\ \A k \in 1..Len(up) : up[k] \in Request /\ up[k].seqid \in 1..MaxCalls
           /\ Len(down) \in Nat /\ Len(up) \in Nat /\ Len(executed) \in Nat
<1>1. \A k \in 1..Len(down) : down[k] \in Part
  BY ElementOfSeq DEF TypeOK
<1>2. \A k \in 1..Len(up) : up[k] \in Request
  BY ElementOfSeq DEF TypeOK
<1>3. Len(down) \in Nat /\ Len(up) \in Nat /\ Len(executed) \in Nat
  BY DEF TypeOK
<1> QED
  BY <1>1, <1>2, <1>3 DEF Part, Request

LEMMA WireStays ==
    ASSUME Wire, UNCHANGED <<Open, BodyDue, CallidDue, Drawn, up, down, connected, session,
                             serving, executed, answers>>
    PROVE  Wire'
<1>1. Calls'
  BY DEF Wire, Calls
<1>2. Requests'
  BY DEF Wire, Requests, ReplyToCome
<1>3. Replies'
  BY DEF Wire, Replies, Follows
<1>4. Due'
  BY DEF Wire, Due, Follows
<1> QED
  BY <1>1, <1>2, <1>3, <1>4 DEF Wire

\* A request leaves: one more call is open.
LEMMA FlushWire ==
    ASSUME TypeOK, InOrderOnce, Wire, NEW p \in Packet, p \notin Open,
           p.seqid = Drawn + 1, p.isbyid => callId[p.stub] # 0,
           up' = Append(up, RequestOf(p)), Drawn' = Drawn + 1, Open' = Open \cup {p},
           UNCHANGED <<BodyDue, CallidDue, down, connected, session, serving, executed, answers>>
    PROVE  Wire'
<1>1. /\ Drawn \in Int /\ Len(executed) \in Nat /\ Len(executed) <= Drawn
      /\ \A q \in Open : q \in Packet /\ q.seqid \in 1..Drawn
      /\ p.seqid \in 0..MaxCalls
  <2>1. Drawn \in Int
    BY DEF TypeOK, Drawn
  <2> QED
    BY <2>1 DEF Wire, Calls, TypeOK, Packet
<1>2. Calls'
  <2>1. answers[p.seqid] = <<>>
    BY <1>1 DEF Wire, Calls
  <2>2. \A q \in Open' : q \in Packet /\ q.seqid \in 1..(Drawn + 1) /\ answers[q.seqid] = <<>>
    BY <1>1, <2>1 DEF Wire, Calls
  <2>3. \A q, r \in Open' : q.seqid = r.seqid => q = r
    BY <1>1 DEF Wire, Calls
  <2>4. \A q \in BodyDue : q.seqid # p.seqid
    BY <1>1 DEF Wire, Calls
  <2> QED
    BY <1>1, <2>2, <2>3, <2>4 DEF Wire, Calls
<1>3. /\ RequestOf(p).seqid = p.seqid /\ RequestOf(p).name = p.stub
      /\ Carries(RequestOf(p), p)
  BY DEF RequestOf, Carries
<1>4. /\ Len(up') = Len(up) + 1 /\ Len(up) \in Nat
      /\ \A k \in 1..Len(up) : up'[k] = up[k]
      /\ up'[Len(up) + 1] = RequestOf(p)
  <2> HIDE DEF RequestOf
  <2> QED
    BY DEF TypeOK
<1>5. Requests'
  <2>1. ASSUME session = "running", NEW k \in 1..Len(up')
        PROVE  /\ up'[k].seqid <= Drawn + 1
               /\ \A q \in Open' : q.seqid = up'[k].seqid => Carries(up'[k], q)
               /\ connected => \E q \in Open' : q.seqid = up'[k].seqid
    <3>1. CASE k \in 1..Len(up)
      <4>1. /\ up[k].seqid <= Drawn /\ up'[k] = up[k]
            /\ \A q \in Open : q.seqid = up[k].seqid => Carries(up[k], q)
            /\ connected => \E q \in Open : q.seqid = up[k].seqid
        BY <2>1, <3>1, <1>4 DEF Wire, Requests
      <4>2. up[k].seqid \in Nat
        BY <3>1, PartsOf, BoundsAssumption
      <4> QED
        BY <4>1, <4>2, <1>1
    <3>2. CASE k = Len(up) + 1
      BY <3>2, <1>1, <1>3, <1>4
    <3> QED
      BY <2>1, <3>1, <3>2, <1>4
  <2>2. serving # NoRequest =>
          /\ session = "running" /\ serving.seqid = Len(executed)
          /\ \A q \in Open' : q.seqid = serving.seqid => Carries(serving, q)
          /\ connected => \E q \in Open' : q.seqid = serving.seqid
    BY <1>1 DEF Wire, Requests
  <2>3. ASSUME connected, session = "running", NEW q \in Open' PROVE ReplyToCome(q.seqid)'
    <3>1. CASE q = p
      <4>1. Len(up) + 1 \in 1..Len(up') /\ up'[Len(up) + 1].seqid = q.seqid
        BY <3>1, <1>3, <1>4
      <4> QED
        BY <4>1 DEF ReplyToCome
    <3>2. CASE q \in Open
      <4>1. ReplyToCome(q.seqid)
        BY <2>3, <3>2 DEF Wire, Requests
      <4>2. \A k \in 1..Len(up) : k \in 1..Len(up') /\ up'[k] = up[k]
        BY <1>4
      <4> QED
        BY <4>1, <4>2 DEF ReplyToCome
    <3> QED
      BY <2>3, <3>1, <3>2
  <2> QED
    BY <2>1, <2>2, <2>3 DEF Requests
<1>6. Replies'
  <2>1. \A k \in 1..Len(down) : down[k].val \in Nat
    BY PartsOf
  <2>2. \A k \in 1..Len(down) : down[k].field = "body" => down[k].val <= Len(executed)
    BY DEF Wire, Replies
  <2>3. \A k \in 1..Len(down) : down[k].field = "body" => down[k].val # p.seqid
    BY <1>1, <2>1, <2>2
  <2> QED
    BY <2>3 DEF Wire, Replies, Follows
<1>7. Due'
  BY DEF Wire, Due, Follows
<1> QED
  BY <1>2, <1>5, <1>6, <1>7 DEF Wire

\* The first part of the input is read.
LEMMA RepliesTail ==
    ASSUME TypeOK, Replies, down # <<>>, down' = Tail(down),
           UNCHANGED <<connected, executed, serving>>, Open' \subseteq Open,
           \A p \in Open \ Open' : p.seqid = down[1].val /\ down[1].field = "seqid"
    PROVE  /\ Replies'
           /\ \A k \in 1..Len(down) \ {1} : k - 1 \in 1..Len(down') /\ down'[k - 1] = down[k]
           /\ \A k \in 1..Len(down) \ {1} : \A p : Follows(k, p) => Follows(k - 1, p)'
           /\ (1 < Len(down) => down' # <<>> /\ down'[1] = down[2])
           /\ (Len(down) = 1 => down' = <<>>)
<1>1. /\ 1 \in 1..Len(down) /\ Len(down) \in Nat /\ Len(down') = Len(down) - 1
      /\ \A k \in 1..Len(down') : down'[k] = down[k + 1] /\ k + 1 \in 1..Len(down)
      /\ down' = <<>> <=> Len(down) = 1
  BY HeadIsFirst
<1>2. \A k \in 1..Len(down) \ {1} : k - 1 \in 1..Len(down') /\ down'[k - 1] = down[k]
  BY <1>1
<1>3. ASSUME NEW k \in 1..Len(down) \ {1}, NEW p, Follows(k, p) PROVE Follows(k - 1, p)'
  <2>1. k - 1 \in 1..Len(down') /\ k \in Nat
    BY <1>1
  <2>2. k < Len(down) => k - 1 < Len(down') /\ down'[(k - 1) + 1] = down[k + 1]
    BY <1>1, <2>1
  <2>3. k - 1 < Len(down') => k < Len(down)
    BY <1>1, <2>1
  <2> QED
    BY <1>3, <2>2, <2>3 DEF Follows
<1>4. ASSUME NEW k \in 1..Len(down')
      PROVE  /\ down'[k].field = "seqid" =>
                   /\ connected => k < Len(down')
                   /\ k < Len(down') => down'[k + 1] = [field |-> "body", val |-> down'[k].val]
                   /\ \E p \in Open' : p.seqid = down'[k].val
                   /\ serving # NoRequest => down'[k].val # serving.seqid
                   /\ \A l \in 1..Len(down') : k < l /\ down'[l].field = "seqid"
                         => down'[k].val # down'[l].val
             /\ down'[k].field = "callid" /\ k < Len(down') => down'[k + 1].field = "seqid"
             /\ down'[k].field \in {"seqid", "body"} => down'[k].val <= Len(executed)
             /\ down'[k].field = "body" => \A p \in Open' : p.seqid = down'[k].val => Follows(k, p)'
  <2> DEFINE j == k + 1
  <2>1. /\ j \in 1..Len(down) \ {1} /\ down'[k] = down[j] /\ k = j - 1
        /\ k < Len(down') <=> j < Len(down)
        /\ k < Len(down') => down'[k + 1] = down[j + 1]
    BY <1>1
  <2> HIDE DEF j
  <2>2. ASSUME down[j].field = "seqid"
        PROVE  /\ connected => k < Len(down')
               /\ k < Len(down') => down'[k + 1] = [field |-> "body", val |-> down'[k].val]
               /\ \E p \in Open' : p.seqid = down'[k].val
               /\ serving # NoRequest => down'[k].val # serving.seqid
               /\ \A l \in 1..Len(down') : k < l /\ down'[l].field = "seqid"
                     => down'[k].val # down'[l].val
    <3>1. /\ connected => j < Len(down)
          /\ j < Len(down) => down[j + 1] = [field |-> "body", val |-> down[j].val]
          /\ \E p \in Open : p.seqid = down[j].val
          /\ serving # NoRequest => down[j].val # serving.seqid
          /\ \A l \in 1..Len(down) : j < l /\ down[l].field = "seqid" => down[j].val # down[l].val
      BY <2>1, <2>2 DEF Replies
    <3>2. down[1].field = "seqid" => down[1].val # down[j].val
      <4>1. 1 \in 1..Len(down) /\ j \in 1..Len(down) /\ 1 < j
        BY <1>1, <2>1
      <4> QED
        BY <4>1, <2>2 DEF Replies
    <3>3. \E p \in Open' : p.seqid = down'[k].val
      BY <2>1, <3>1, <3>2
    <3>4. ASSUME NEW l \in 1..Len(down'), k < l, down'[l].field = "seqid"
          PROVE  down'[k].val # down'[l].val
      <4>1. l + 1 \in 1..Len(down) /\ down'[l] = down[l + 1] /\ j < l + 1
        BY <1>1, <2>1, <3>4
      <4> QED
        BY <2>1, <3>1, <3>4, <4>1
    <3> QED
      BY <2>1, <3>1, <3>3, <3>4
  <2>3. /\ down[j].field = "callid" /\ j < Len(down) => down[j + 1].field = "seqid"
        /\ down[j].field \in {"seqid", "body"} => down[j].val <= Len(executed)
    BY <2>1 DEF Replies
  <2>4. down[j].field = "body" => \A p \in Open' : p.seqid = down[j].val => Follows(k, p)'
    <3>1. down[j].field = "body" => \A p \in Open : p.seqid = down[j].val => Follows(j, p)
      BY <2>1 DEF Replies
    <3>2. \A p : Follows(j, p) => Follows(k, p)'
      BY <1>3, <2>1
    <3> QED
      BY <3>1, <3>2
  <2> QED
    BY <2>1, <2>2, <2>3, <2>4
<1>5. Replies'
  BY <1>4 DEF Replies
<1>6. 1 < Len(down) => down' # <<>> /\ down'[1] = down[2]
  BY <1>1
<1> QED
  BY <1>1, <1>2, <1>3, <1>5, <1>6

\* A number is read: the call is not open any more, its body is due.
LEMMA SeqidWire ==
    ASSUME TypeOK, InOrderOnce, Wire, down # <<>>, down[1].field = "seqid",
           NEW p \in Open, p.seqid = down[1].val,
           down' = Tail(down), Open' = Open \ {p},
           BodyDue = {}, CallidDue = {}, BodyDue' = {p}, CallidDue' = {}, Drawn' = Drawn,
           UNCHANGED <<up, connected, session, serving, executed, answers>>
    PROVE  Wire'
<1>1. /\ 1 \in 1..Len(down) /\ Len(down) \in Nat /\ Len(executed) \in Nat
      /\ \A k \in 1..Len(down) : down[k].val \in Nat
      /\ \A k \in 1..Len(up) : up[k].seqid \in Nat
  BY HeadIsFirst, PartsOf, BoundsAssumption
<1>2. /\ p \in Packet /\ p.seqid \in 1..Len(executed) /\ answers[p.seqid] = <<>>
      /\ \A q \in Open : q.seqid = p.seqid => q = p
  <2>1. p \in Packet /\ p.seqid \in 1..Drawn /\ answers[p.seqid] = <<>>
        /\ \A q \in Open : q.seqid = p.seqid => q = p
    BY DEF Wire, Calls
  <2>2. down[1].val <= Len(executed)
    BY <1>1 DEF Wire, Replies
  <2> QED
    BY <1>1, <2>1, <2>2
<1>3. Calls'
  BY <1>2 DEF Wire, Calls
<1>4. /\ Replies'
      /\ \A k \in 1..Len(down) \ {1} : k - 1 \in 1..Len(down') /\ down'[k - 1] = down[k]
      /\ \A k \in 1..Len(down) \ {1} : \A q : Follows(k, q) => Follows(k - 1, q)'
      /\ (1 < Len(down) => down' # <<>> /\ down'[1] = down[2])
      /\ (Len(down) = 1 => down' = <<>>)
  BY RepliesTail DEF Wire
<1>5. Requests'
  <2>1. ASSUME session = "running", NEW k \in 1..Len(up)
        PROVE  /\ up[k].seqid <= Drawn
               /\ \A q \in Open' : q.seqid = up[k].seqid => Carries(up[k], q)
               /\ connected => \E q \in Open' : q.seqid = up[k].seqid
    <3>1. /\ up[k].seqid <= Drawn
          /\ \A q \in Open : q.seqid = up[k].seqid => Carries(up[k], q)
          /\ connected => \E q \in Open : q.seqid = up[k].seqid
      BY <2>1 DEF Wire, Requests
    <3>2. up[k].seqid = Len(executed) + k
      BY <2>1 DEF InOrderOnce
    <3>3. up[k].seqid # p.seqid
      BY <1>1, <1>2, <3>2
    <3> QED
      BY <3>1, <3>3
  <2>2. serving # NoRequest =>
          /\ session = "running" /\ serving.seqid = Len(executed)
          /\ \A q \in Open' : q.seqid = serving.seqid => Carries(serving, q)
          /\ connected => \E q \in Open' : q.seqid = serving.seqid
    <3>1. serving # NoRequest => down[1].val # serving.seqid
      BY <1>1 DEF Wire, Replies
    <3> QED
      BY <3>1 DEF Wire, Requests
  <2>3. ASSUME connected, session = "running", NEW q \in Open' PROVE ReplyToCome(q.seqid)'
    <3>1. ReplyToCome(q.seqid) /\ q.seqid # p.seqid
      BY <1>2, <2>3 DEF Wire, Requests
    <3>2. ASSUME NEW k \in 1..Len(down), down[k].field = "seqid", down[k].val = q.seqid
          PROVE  \E j \in 1..Len(down') : down'[j].field = "seqid" /\ down'[j].val = q.seqid
      <4>1. k \in 1..Len(down) \ {1}
        BY <3>1, <3>2
      <4> QED
        BY <4>1, <3>2, <1>4
    <3> QED
      BY <3>1, <3>2 DEF ReplyToCome
  <2> QED
    BY <2>1, <2>2, <2>3 DEF Requests
<1>6. Due'
  <2>1. /\ connected => 1 < Len(down)
        /\ 1 < Len(down) => down[2] = [field |-> "body", val |-> p.seqid]
    <3>1. /\ connected => 1 < Len(down)
          /\ 1 < Len(down) => down[1 + 1] = [field |-> "body", val |-> down[1].val]
      BY <1>1 DEF Wire, Replies
    <3> QED
      BY <3>1
  <2>2. ASSUME 1 < Len(down) PROVE Follows(1, p)'
    <3>1. 2 \in 1..Len(down) /\ 2 \in 1..Len(down) \ {1}
      BY <1>1, <2>2
    <3>2. Follows(2, p)
      BY <2>1, <2>2, <3>1 DEF Wire, Replies
    <3>3. Follows(2 - 1, p)'
      BY <1>4, <3>1, <3>2
    <3> QED
      BY <3>3
  <2>3. CASE 1 < Len(down)
    BY <2>1, <2>2, <2>3, <1>4 DEF Due
  <2>4. CASE ~(1 < Len(down))
    <3>1. down' = <<>> /\ ~connected'
      BY <1>1, <1>4, <2>1, <2>4
    <3> QED
      BY <3>1 DEF Due
  <2> QED
    BY <2>3, <2>4
<1> QED
  BY <1>3, <1>4, <1>5, <1>6 DEF Wire

\* Requests do not mind what is read after a number.
LEMMA RequestsTail ==
    ASSUME TypeOK, Requests, down # <<>>, down' = Tail(down), down[1].field # "seqid",
           UNCHANGED <<Open, Drawn, up, connected, session, serving, executed>>
    PROVE  Requests'
<1>1. /\ Len(down') = Len(down) - 1 /\ Len(down) \in Nat
      /\ \A k \in 1..Len(down') : down'[k] = down[k + 1]
  BY HeadIsFirst
<1>2. ASSUME NEW i, ReplyToCome(i) PROVE ReplyToCome(i)'
  <2>1. ASSUME NEW k \in 1..Len(down), down[k].field = "seqid", down[k].val = i
        PROVE  \E j \in 1..Len(down') : down'[j].field = "seqid" /\ down'[j].val = i
    <3>1. k # 1
      BY <2>1
    <3>2. k - 1 \in 1..Len(down') /\ down'[k - 1] = down[k]
      BY <1>1, <2>1, <3>1
    <3> QED
      BY <2>1, <3>2
  <2> QED
    BY <1>2, <2>1 DEF ReplyToCome
<1> QED
  BY <1>2 DEF Requests

\* The body is read: the call is answered, and the id of its function is due if
\* it was sent by name.
LEMMA BodyWire ==
    ASSUME TypeOK, Wire, down # <<>>, NEW p, BodyDue = {p}, CallidDue = {},
           down' = Tail(down),
           answers' = [answers EXCEPT ![p.seqid] = Append(@, Head(down).val)],
           BodyDue' = {}, CallidDue' = IF p.isbyid THEN {} ELSE {p},
           UNCHANGED <<Open, Drawn, up, connected, session, serving, executed>>
    PROVE  /\ Wire' /\ p.seqid \in 1..Len(executed) /\ answers[p.seqid] = <<>>
           /\ p.seqid \in 1..MaxCalls
           /\ answers' = [answers EXCEPT ![p.seqid] = <<p.seqid>>]
<1>1. /\ p \in Packet /\ p.seqid \in 1..Len(executed) /\ answers[p.seqid] = <<>>
      /\ \A q \in Open : q.seqid # p.seqid
  BY DEF Wire, Calls
<1>2. /\ down[1] = [field |-> "body", val |-> p.seqid] /\ Follows(1, p)
      /\ Head(down) = down[1] /\ Len(down) \in Nat /\ 1 \in 1..Len(down)
  BY HeadIsFirst DEF Wire, Due
<1>3. /\ p.seqid \in 1..MaxCalls
      /\ answers' = [answers EXCEPT ![p.seqid] = <<p.seqid>>]
  <2>1. p.seqid \in 0..MaxCalls /\ MaxCalls \in Nat
    BY <1>1, BoundsAssumption DEF Packet
  <2>2. p.seqid \in 1..MaxCalls
    BY <1>1, <2>1
  <2>3. Append(answers[p.seqid], Head(down).val) = <<p.seqid>>
    BY <1>1, <1>2
  <2> QED
    BY <2>2, <2>3
<1>4. Calls'
  <2>1. \A i \in 1..MaxCalls : i # p.seqid => answers'[i] = answers[i]
    BY <1>3 DEF TypeOK
  <2>2. \A q \in Open : q.seqid \in 1..MaxCalls
    <3>1. \A q \in Open : q.seqid \in 0..MaxCalls /\ q.seqid \in 1..Drawn
      BY DEF Wire, Calls, Packet
    <3>2. MaxCalls \in Nat
      BY BoundsAssumption
    <3> QED
      BY <3>1, <3>2
  <2>3. Len(executed) <= Drawn /\ Drawn \in Int /\ Len(executed) \in Nat
    BY DEF Wire, Calls, TypeOK, Drawn
  <2>4. ASSUME NEW i \in 1..MaxCalls, i > Drawn PROVE answers'[i] = <<>>
    <3>1. i # p.seqid
      BY <1>1, <2>3, <2>4
    <3> QED
      BY <2>1, <2>4, <3>1 DEF Wire, Calls
  <2> QED
    BY <1>1, <2>1, <2>2, <2>4 DEF Wire, Calls
<1>5. /\ Replies'
      /\ (1 < Len(down) => down' # <<>> /\ down'[1] = down[2])
      /\ (Len(down) = 1 => down' = <<>>)
  BY RepliesTail DEF Wire
<1>6. Requests'
  BY <1>2, RequestsTail DEF Wire
<1>7. Due'
  <2>1. /\ ~p.isbyid /\ connected => 1 < Len(down)
        /\ 1 < Len(down) => IF p.isbyid THEN down[2].field = "seqid"
                            ELSE down[2] = [field |-> "callid", val |-> StubId[p.stub]]
    BY <1>2 DEF Follows
  <2>2. CASE 1 < Len(down)
    BY <2>1, <2>2, <1>5 DEF Due
  <2>3. CASE ~(1 < Len(down))
    BY <2>1, <2>3, <1>2, <1>5 DEF Due
  <2> QED
    BY <2>2, <2>3
<1> QED
  BY <1>1, <1>3, <1>4, <1>5, <1>6, <1>7 DEF Wire

\* The id of the function is read: the next reply is due.
LEMMA CallidWire ==
    ASSUME TypeOK, Wire, down # <<>>, NEW p, BodyDue = {}, CallidDue = {p},
           down' = Tail(down), BodyDue' = {}, CallidDue' = {},
           UNCHANGED <<Open, Drawn, up, connected, session, serving, executed, answers>>
    PROVE  Wire'
<1>1. /\ down[1].field = "callid" /\ Len(down) \in Nat /\ 1 \in 1..Len(down)
  BY HeadIsFirst DEF Wire, Due
<1>2. Calls'
  BY DEF Wire, Calls
<1>3. /\ Replies'
      /\ (1 < Len(down) => down' # <<>> /\ down'[1] = down[2])
      /\ (Len(down) = 1 => down' = <<>>)
  BY RepliesTail DEF Wire
<1>4. Requests'
  BY <1>1, RequestsTail DEF Wire
<1>5. 1 < Len(down) => down[1 + 1].field = "seqid"
  BY <1>1 DEF Wire, Replies
<1>6. Due'
  BY <1>1, <1>3, <1>5 DEF Due
<1> QED
  BY <1>2, <1>3, <1>4, <1>6 DEF Wire

\* A read or a send fails: nothing is left to read, or the number is lost.
LEMMA FailWire ==
    ASSUME TypeOK, Wire, ~connected,
           \/ down = <<>> /\ Open' \subseteq Open /\ BodyDue' = {} /\ CallidDue' = {}
           \/ UNCHANGED <<Open, BodyDue, CallidDue>>,
           Drawn' \in {Drawn, Drawn + 1},
           UNCHANGED <<up, down, connected, session, serving, executed, answers>>
    PROVE  Wire'
<1>1. Open' \subseteq Open /\ BodyDue' \subseteq BodyDue /\ Drawn \in Int /\ Drawn <= Drawn'
      /\ Drawn' \in Int
  BY DEF TypeOK, Drawn
<1>2. Calls'
  <2>1. Len(executed) <= Drawn /\ Len(executed) \in Nat
    BY DEF Wire, Calls, TypeOK
  <2>2. \A p \in Open' : p \in Packet /\ p.seqid \in 1..Drawn' /\ answers[p.seqid] = <<>>
    BY <1>1 DEF Wire, Calls
  <2>3. \A i \in 1..MaxCalls : i > Drawn' => answers[i] = <<>>
    BY <1>1 DEF Wire, Calls
  <2> QED
    BY <1>1, <2>1, <2>2, <2>3 DEF Wire, Calls
<1>3. Requests'
  <2>1. \A k \in 1..Len(up) : up[k].seqid \in Nat
    BY PartsOf, BoundsAssumption
  <2>2. session = "running" => \A k \in 1..Len(up) :
          /\ up[k].seqid <= Drawn'
          /\ \A p \in Open' : p.seqid = up[k].seqid => Carries(up[k], p)
    BY <1>1, <2>1 DEF Wire, Requests
  <2> QED
    BY <1>1, <2>2 DEF Wire, Requests
<1>4. Replies' /\ Due'
  <2>1. CASE down = <<>> /\ BodyDue' = {} /\ CallidDue' = {}
    BY <2>1 DEF Replies, Due
  <2>2. CASE UNCHANGED <<Open, BodyDue, CallidDue>>
    BY <2>2 DEF Wire, Replies, Due, Follows
  <2> QED
    BY <2>1, <2>2
<1> QED
  BY <1>2, <1>3, <1>4 DEF Wire
-----------------------------------------------------------------------------
(* The steps of the session and of the connection                            *)

LEMMA ExecuteWire ==
    ASSUME TypeOK, InOrderOnce, Wire, Execute,
           UNCHANGED <<Open, BodyDue, CallidDue, Drawn>>
    PROVE  Wire' /\ Len(executed) < Drawn /\ Len(executed') = Len(executed) + 1
<1>1. /\ session = "running" /\ serving = NoRequest /\ up # <<>> /\ up' = Tail(up)
      /\ serving' = Head(up) /\ executed' = Append(executed, Head(up).seqid)
      /\ UNCHANGED <<down, connected, session, answers>>
  BY DEF Execute, ReadRequest
<1>2. up \in Seq(Request) /\ executed \in Seq(1..MaxCalls) /\ Head(up) \in Request
  BY <1>1, NextRequest DEF TypeOK
<1>3. /\ Len(executed') = Len(executed) + 1 /\ Len(executed) \in Nat
      /\ Len(up) \in Nat \ {0} /\ Len(up') = Len(up) - 1 /\ Head(up) = up[1]
      /\ \A k \in 1..Len(up') : up'[k] = up[k + 1] /\ k + 1 \in 1..Len(up)
      /\ 1 \in 1..Len(up)
  <2>1. Head(up).seqid \in 1..MaxCalls
    BY <1>2 DEF Request
  <2>2. Len(executed') = Len(executed) + 1 /\ Len(executed) \in Nat
    BY <1>1, <1>2, <2>1
  <2>3. /\ Len(up) \in Nat \ {0} /\ Len(up') = Len(up) - 1 /\ Head(up) = up[1]
        /\ \A k \in 1..Len(up') : up'[k] = up[k + 1]
    BY <1>1, <1>2, HeadTailProperties
  <2> QED
    BY <2>2, <2>3
<1>4. /\ up[1].seqid = Len(executed) + 1 /\ up[1].seqid <= Drawn
      /\ \A p \in Open : p.seqid = up[1].seqid => Carries(up[1], p)
      /\ connected => \E p \in Open : p.seqid = up[1].seqid
  BY <1>1, <1>3 DEF InOrderOnce, Wire, Requests
<1>5. Drawn \in Int /\ Len(executed) + 1 <= Drawn
  BY <1>4 DEF TypeOK, Drawn
<1>6. Calls'
  <2>1. \A p \in BodyDue : p.seqid \in 1..(Len(executed) + 1)
    BY <1>3 DEF Wire, Calls
  <2> QED
    BY <1>1, <1>3, <1>5, <2>1 DEF Wire, Calls
<1>7. Requests'
  <2>1. ASSUME NEW k \in 1..Len(up')
        PROVE  /\ up'[k].seqid <= Drawn
               /\ \A p \in Open : p.seqid = up'[k].seqid => Carries(up'[k], p)
               /\ connected => \E p \in Open : p.seqid = up'[k].seqid
    BY <1>1, <1>3 DEF Wire, Requests
  <2>2. \A p \in Open : p.seqid = serving'.seqid => Carries(serving', p)
    BY <1>1, <1>3, <1>4
  <2>3. connected => \E p \in Open : p.seqid = serving'.seqid
    BY <1>1, <1>3, <1>4
  <2>4. serving'.seqid = Len(executed')
    BY <1>1, <1>3, <1>4
  <2>5. ASSUME connected, NEW p \in Open PROVE ReplyToCome(p.seqid)'
    <3>1. ReplyToCome(p.seqid)
      BY <1>1, <2>5 DEF Wire, Requests
    <3>2. CASE p.seqid = up[1].seqid
      BY <3>2, <1>1, <1>2, <1>3, NullsAssumption DEF ReplyToCome
    <3>3. CASE p.seqid # up[1].seqid
      <4>1. ASSUME NEW k \in 1..Len(up), up[k].seqid = p.seqid
            PROVE  \E j \in 1..Len(up') : up'[j].seqid = p.seqid
        <5>1. k - 1 \in 1..Len(up') /\ up'[k - 1] = up[k]
          BY <1>3, <3>3, <4>1
        <5> QED
          BY <4>1, <5>1
      <4> QED
        BY <1>1, <3>1, <4>1 DEF ReplyToCome
    <3> QED
      BY <3>2, <3>3
  <2> QED
    BY <1>1, <2>1, <2>2, <2>3, <2>4, <2>5 DEF Requests
<1>8. Replies'
  <2>1. ASSUME NEW k \in 1..Len(down)
        PROVE  /\ down[k].field = "seqid" => down[k].val # serving'.seqid
               /\ down[k].field \in {"seqid", "body"} => down[k].val <= Len(executed')
    <3>1. down[k].val \in Nat
      BY PartsOf
    <3>2. down[k].field \in {"seqid", "body"} => down[k].val <= Len(executed)
      BY DEF Wire, Replies
    <3> QED
      BY <1>1, <1>3, <1>4, <3>1, <3>2
  <2> QED
    BY <1>1, <2>1 DEF Wire, Replies, Follows
<1>9. Due'
  BY <1>1 DEF Wire, Due, Follows
<1> QED
  BY <1>3, <1>5, <1>6, <1>7, <1>8, <1>9 DEF Wire

\* The session ends, with a request that it does not know, or with an answer
\* that it does not send.
LEMMA SessionEndsWire ==
    ASSUME Wire, session' = "ended", serving' = NoRequest,
           UNCHANGED <<Open, BodyDue, CallidDue, Drawn, down, connected, executed, answers>>
    PROVE  Wire'
<1>1. Calls'
  BY DEF Wire, Calls
<1>2. Requests'
  BY DEF Requests
<1>3. Replies'
  BY DEF Wire, Replies, Follows
<1>4. Due'
  BY DEF Wire, Due, Follows
<1> QED
  BY <1>1, <1>2, <1>3, <1>4 DEF Wire

\* The connection breaks: what is left is a prefix of the requests, and one of
\* the replies.
LEMMA ConnectionLostWire ==
    ASSUME TypeOK, Wire, ConnectionLost, UNCHANGED <<Open, BodyDue, CallidDue, Drawn>>
    PROVE  Wire'
<1>1. PICK n \in 0..Len(up), m \in 0..Len(down) :
          up' = SubSeq(up, 1, n) /\ down' = SubSeq(down, 1, m)
  BY DEF ConnectionLost
<1>2. ~connected' /\ UNCHANGED <<session, serving, executed, answers>>
  BY DEF ConnectionLost, sessionVars, historyVars
<1>3. /\ Len(up') = n /\ n \in Nat /\ n <= Len(up) /\ Len(up) \in Nat
      /\ \A k \in 1..n : up'[k] = up[k] /\ k \in 1..Len(up)
  BY <1>1, SubSeqProperties, ElementOfSeq DEF TypeOK
<1>4. /\ Len(down') = m /\ m \in Nat /\ m <= Len(down) /\ Len(down) \in Nat
      /\ \A k \in 1..m : down'[k] = down[k] /\ k \in 1..Len(down)
      /\ down' \in Seq(Part)
  BY <1>1, SubSeqProperties, ElementOfSeq DEF TypeOK
<1>5. Calls'
  BY <1>2 DEF Wire, Calls
<1>6. Requests'
  BY <1>2, <1>3 DEF Wire, Requests
<1>7. \A k \in 1..m : \A p : Follows(k, p) => Follows(k, p)'
  BY <1>2, <1>4 DEF Follows
<1>8. Replies'
  <2>1. ASSUME NEW k \in 1..Len(down')
        PROVE  /\ down'[k].field = "seqid" =>
                     /\ k < Len(down') => down'[k + 1] = [field |-> "body", val |-> down'[k].val]
                     /\ \E p \in Open : p.seqid = down'[k].val
                     /\ serving # NoRequest => down'[k].val # serving.seqid
                     /\ \A l \in 1..Len(down') : k < l /\ down'[l].field = "seqid"
                           => down'[k].val # down'[l].val
               /\ down'[k].field = "callid" /\ k < Len(down') => down'[k + 1].field = "seqid"
               /\ down'[k].field \in {"seqid", "body"} => down'[k].val <= Len(executed)
               /\ down'[k].field = "body" =>
                     \A p \in Open : p.seqid = down'[k].val => Follows(k, p)'
    <3>1. /\ k \in 1..Len(down) /\ down'[k] = down[k]
          /\ k < Len(down') => k < Len(down) /\ down'[k + 1] = down[k + 1]
          /\ \A l \in 1..Len(down') : l \in 1..Len(down) /\ down'[l] = down[l]
      BY <1>4, <2>1
    <3>2. down[k].field = "body" => \A p \in Open : p.seqid = down[k].val => Follows(k, p)
      BY <3>1 DEF Wire, Replies
    <3>3. down[k].field = "body" => \A p \in Open : p.seqid = down[k].val => Follows(k, p)'
      BY <1>4, <1>7, <2>1, <3>2
    <3> QED
      BY <3>1, <3>3 DEF Wire, Replies
  <2> QED
    BY <1>2, <2>1 DEF Replies
<1>9. Due'
  <2>1. CASE m = 0
    <3>1. down' = <<>>
      BY <2>1, <1>4, EmptySeq
    <3> QED
      BY <1>2, <3>1 DEF Due
  <2>2. CASE m # 0
    <3>1. 1 \in 1..m /\ down'[1] = down[1] /\ down # <<>> /\ down' # <<>>
      BY <2>2, <1>4
    <3>2. \A p : Follows(1, p) => Follows(1, p)'
      BY <1>7, <3>1
    <3> QED
      BY <1>2, <3>1, <3>2 DEF Wire, Due
  <2> QED
    BY <2>1, <2>2
<1> QED
  BY <1>5, <1>6, <1>8, <1>9 DEF Wire

\* The parts of a reply: the number, the body, and the id of the function if the
\* call did not carry it.
LEMMA ReplyParts ==
    ASSUME NEW r \in Request
    PROVE  /\ ReplyTo(r) \in Seq(Part)
           /\ Len(ReplyTo(r)) = IF r.callid = 0 THEN 3 ELSE 2
           /\ ReplyTo(r)[1] = [field |-> "seqid", val |-> r.seqid]
           /\ ReplyTo(r)[2] = [field |-> "body", val |-> r.seqid]
           /\ r.callid = 0 => ReplyTo(r)[3] = [field |-> "callid", val |-> StubId[r.name]]
<1> DEFINE x == [field |-> "seqid", val |-> r.seqid]
           y == [field |-> "body", val |-> r.seqid]
           z == [field |-> "callid", val |-> StubId[r.name]]
           a == <<x, y>>
           b == IF r.callid = 0 THEN <<z>> ELSE <<>>
<1>1. x \in Part /\ y \in Part /\ z \in Part
  <2>1. r.seqid \in Nat /\ StubId[r.name] \in Nat
    BY StubsAssumption, BoundsAssumption DEF Request
  <2> QED
    BY <2>1 DEF Part
<1>2. ReplyTo(r) = a \o b
  BY DEF ReplyTo
<1> HIDE DEF x, y, z
<1>3. a \in Seq(Part) /\ Len(a) = 2 /\ a[1] = x /\ a[2] = y
  BY <1>1
<1>4. b \in Seq(Part) /\ Len(b) = (IF r.callid = 0 THEN 1 ELSE 0) /\ (r.callid = 0 => b[1] = z)
  BY <1>1
<1> HIDE DEF a, b
<1>5. /\ a \o b \in Seq(Part) /\ Len(a \o b) = Len(a) + Len(b)
      /\ \A i \in 1..(Len(a) + Len(b)) : (a \o b)[i] = IF i <= Len(a) THEN a[i] ELSE b[i - Len(a)]
  BY <1>3, <1>4, ConcatProperties
<1>6. /\ Len(a \o b) = IF r.callid = 0 THEN 3 ELSE 2
      /\ (a \o b)[1] = x /\ (a \o b)[2] = y
      /\ r.callid = 0 => (a \o b)[3] = z
  BY <1>3, <1>4, <1>5
<1> QED
  BY <1>2, <1>5, <1>6 DEF x, y, z

\* A reply is written.
LEMMA SendReplyWire ==
    ASSUME TypeOK, Wire, SendReply, UNCHANGED <<Open, BodyDue, CallidDue, Drawn>>
    PROVE  Wire'
<1> DEFINE r == serving
           n == Len(down)
<1>1. /\ connected /\ serving # NoRequest /\ down' = down \o ReplyTo(r) /\ serving' = NoRequest
      /\ UNCHANGED <<up, connected, session, executed, answers>>
  BY DEF SendReply, historyVars
<1>2. /\ session = "running" /\ r.seqid = Len(executed)
      /\ \A p \in Open : p.seqid = r.seqid => Carries(r, p)
      /\ \E p \in Open : p.seqid = r.seqid
      /\ r \in Request
  BY <1>1 DEF Wire, Requests, TypeOK
<1>3. down \in Seq(Part) /\ n \in Nat /\ (n = 0 <=> down = <<>>)
  <2>1. down \in Seq(Part)
    BY DEF TypeOK
  <2> QED
    BY <2>1, EmptySeq
<1>4. /\ Len(down') = n + (IF r.callid = 0 THEN 3 ELSE 2)
      /\ \A k \in 1..n : down'[k] = down[k]
      /\ down'[n + 1] = [field |-> "seqid", val |-> r.seqid]
      /\ down'[n + 2] = [field |-> "body", val |-> r.seqid]
      /\ r.callid = 0 => down'[n + 3] = [field |-> "callid", val |-> StubId[r.name]]
  <2> DEFINE a == ReplyTo(r)
  <2>1. /\ a \in Seq(Part) /\ Len(a) = (IF r.callid = 0 THEN 3 ELSE 2)
        /\ a[1] = [field |-> "seqid", val |-> r.seqid]
        /\ a[2] = [field |-> "body", val |-> r.seqid]
        /\ r.callid = 0 => a[3] = [field |-> "callid", val |-> StubId[r.name]]
    BY <1>2, ReplyParts
  <2> HIDE DEF a
  <2>2. down' = down \o a
    BY <1>1 DEF a
  <2> HIDE DEF r
  <2>3. a \in Seq(Part) /\ down \in Seq(Part)
    BY <1>3, <2>1
  <2>4. /\ Len(down \o a) = Len(down) + Len(a)
        /\ \A i \in 1..(Len(down) + Len(a)) :
              (down \o a)[i] = IF i <= Len(down) THEN down[i] ELSE a[i - Len(down)]
    BY <2>3, ConcatProperties
  <2> QED
    BY <1>3, <2>1, <2>2, <2>4
<1> HIDE DEF r, n
<1>5. \A k \in 1..Len(down') : k \in 1..n \/ k = n + 1 \/ k = n + 2 \/ (k = n + 3 /\ r.callid = 0)
  BY <1>3, <1>4
<1>6. Calls'
  BY <1>1 DEF Wire, Calls
<1>7. Requests'
  <2>1. ASSUME session = "running", NEW p \in Open PROVE ReplyToCome(p.seqid)'
    <3>1. ReplyToCome(p.seqid)
      BY <1>1, <2>1 DEF Wire, Requests
    <3>2. ASSUME NEW k \in 1..n, down[k].field = "seqid", down[k].val = p.seqid
          PROVE  k \in 1..Len(down') /\ down'[k].field = "seqid" /\ down'[k].val = p.seqid
      BY <3>2, <1>3, <1>4
    <3>3. n + 1 \in 1..Len(down') /\ down'[n + 1].field = "seqid" /\ down'[n + 1].val = r.seqid
      BY <1>3, <1>4
    <3> QED
      BY <1>1, <3>1, <3>2, <3>3 DEF ReplyToCome, r, n
  <2> QED
    BY <1>1, <2>1 DEF Wire, Requests
\* What followed follows still, or the new reply does.
<1>8. ASSUME NEW k \in 1..n, NEW p, Follows(k, p) PROVE Follows(k, p)'
  <2>1. ~p.isbyid => k < n
    BY <1>1, <1>8 DEF Follows, n
  <2>2. CASE k < n
    BY <2>2, <1>1, <1>3, <1>4, <1>8 DEF Follows, n
  <2>3. CASE k = n
    BY <2>1, <2>3, <1>3, <1>4 DEF Follows
  <2> QED
    BY <1>3, <2>2, <2>3
<1>9. Replies'
  <2>1. ASSUME NEW k \in 1..n
        PROVE  /\ down'[k].field = "seqid" =>
                     /\ k < Len(down')
                     /\ down'[k + 1] = [field |-> "body", val |-> down'[k].val]
                     /\ \E p \in Open : p.seqid = down'[k].val
                     /\ \A l \in 1..Len(down') : k < l /\ down'[l].field = "seqid"
                           => down'[k].val # down'[l].val
               /\ down'[k].field = "callid" => down'[k + 1].field = "seqid"
               /\ down'[k].field \in {"seqid", "body"} => down'[k].val <= Len(executed)
               /\ down'[k].field = "body" =>
                     \A p \in Open : p.seqid = down'[k].val => Follows(k, p)'
    <3>1. down'[k] = down[k] /\ k \in 1..Len(down) /\ (k < n => down'[k + 1] = down[k + 1])
      <4>1. down'[k] = down[k] /\ k \in 1..Len(down)
        BY <1>4 DEF n
      <4>2. k < n => k + 1 \in 1..n
        BY <1>3
      <4> QED
        BY <1>4, <4>1, <4>2
    <3>2. ASSUME down[k].field = "seqid"
          PROVE  /\ k < Len(down')
                 /\ down'[k + 1] = [field |-> "body", val |-> down[k].val]
                 /\ \E p \in Open : p.seqid = down[k].val
                 /\ \A l \in 1..Len(down') : k < l /\ down'[l].field = "seqid"
                       => down[k].val # down'[l].val
      <4>1. /\ k < Len(down)
            /\ down[k + 1] = [field |-> "body", val |-> down[k].val]
            /\ \E p \in Open : p.seqid = down[k].val
            /\ down[k].val # serving.seqid
            /\ \A l \in 1..Len(down) : k < l /\ down[l].field = "seqid" => down[k].val # down[l].val
        BY <1>1, <3>1, <3>2 DEF Wire, Replies
      <4>2. k < n /\ k < Len(down')
        BY <4>1, <1>3, <1>4 DEF n
      <4>3. ASSUME NEW l \in 1..Len(down'), k < l, down'[l].field = "seqid"
            PROVE  down[k].val # down'[l].val
        <5>1. l \in 1..n \/ l = n + 1
          BY <1>4, <1>5, <4>3
        <5> QED
          BY <5>1, <4>1, <4>3, <1>4 DEF r, n
      <4> QED
        BY <3>1, <4>1, <4>2, <4>3
    <3>3. down[k].field = "callid" => down'[k + 1].field = "seqid"
      <4>1. CASE k < n
        BY <4>1, <3>1 DEF Wire, Replies, n
      <4>2. CASE k = n
        BY <4>2, <1>4
      <4> QED
        BY <4>1, <4>2, <1>3
    <3>4. /\ down[k].field \in {"seqid", "body"} => down[k].val <= Len(executed)
          /\ down[k].field = "body" => \A p \in Open : p.seqid = down[k].val => Follows(k, p)
      BY <3>1 DEF Wire, Replies
    <3>5. down[k].field = "body" => \A p \in Open : p.seqid = down[k].val => Follows(k, p)'
      BY <1>8, <3>4
    <3> QED
      BY <3>1, <3>2, <3>3, <3>4, <3>5
  <2>2. ASSUME NEW k, k = n + 2, NEW p \in Open, p.seqid = r.seqid PROVE Follows(k, p)'
    <3>1. p.stub = r.name /\ (r.callid = 0 <=> ~p.isbyid)
      BY <1>2, <2>2 DEF Carries
    <3>2. CASE r.callid = 0
      <4>1. k < Len(down') /\ k + 1 = n + 3
        BY <2>2, <3>2, <1>3, <1>4
      <4>2. down'[k + 1] = [field |-> "callid", val |-> StubId[p.stub]]
        BY <3>1, <3>2, <4>1, <1>4
      <4>3. ~p.isbyid
        BY <3>1, <3>2
      <4> QED
        BY <4>1, <4>2, <4>3 DEF Follows
    <3>3. CASE r.callid # 0
      <4>1. ~(k < Len(down'))
        BY <2>2, <3>3, <1>3, <1>4
      <4>2. p.isbyid
        BY <3>1, <3>3
      <4> QED
        BY <4>1, <4>2 DEF Follows
    <3> QED
      BY <3>2, <3>3
  <2>3. r.seqid <= Len(executed)
    BY <1>2 DEF TypeOK
  <2>4. /\ n + 1 < Len(down')
        /\ \A l \in 1..Len(down') : n + 1 < l => down'[l].field # "seqid"
    BY <1>3, <1>4, <1>5
  <2>5. r.callid = 0 => Len(down') = n + 3
    BY <1>4
  <2>6. ASSUME NEW k \in 1..Len(down')
        PROVE  /\ down'[k].field = "seqid" =>
                     /\ k < Len(down')
                     /\ down'[k + 1] = [field |-> "body", val |-> down'[k].val]
                     /\ \E p \in Open : p.seqid = down'[k].val
                     /\ \A l \in 1..Len(down') : k < l /\ down'[l].field = "seqid"
                           => down'[k].val # down'[l].val
               /\ down'[k].field = "callid" /\ k < Len(down') => down'[k + 1].field = "seqid"
               /\ down'[k].field \in {"seqid", "body"} => down'[k].val <= Len(executed)
               /\ down'[k].field = "body" =>
                     \A p \in Open : p.seqid = down'[k].val => Follows(k, p)'
    <3>1. CASE k \in 1..n
      BY <2>1, <3>1
    <3>2. CASE k = n + 1
      <4>1. down'[k] = [field |-> "seqid", val |-> r.seqid]
            /\ down'[k + 1] = [field |-> "body", val |-> r.seqid]
        BY <3>2, <1>3, <1>4
      <4> QED
        BY <4>1, <3>2, <1>2, <2>3, <2>4
    <3>3. CASE k = n + 2
      <4>1. down'[k] = [field |-> "body", val |-> r.seqid]
        <5>1. down'[n + 2] = [field |-> "body", val |-> r.seqid]
          BY <1>4
        <5> QED
          BY <3>3, <5>1
      <4>2. \A p \in Open : p.seqid = r.seqid => Follows(k, p)'
        BY <3>3, <2>2
      <4> QED
        BY <4>1, <4>2, <2>3
    <3>4. CASE k = n + 3 /\ r.callid = 0
      BY <3>4, <1>3, <1>4, <2>5
    <3> QED
      BY <1>5, <3>1, <3>2, <3>3, <3>4
  <2> QED
    BY <1>1, <2>6 DEF Replies
<1>10. Due'
  <2>1. CASE n = 0
    <3>1. down = <<>> /\ BodyDue = {} /\ CallidDue = {}
      BY <2>1, <1>1, <1>3 DEF Wire, Due
    <3>2. down'[1].field = "seqid"
      BY <2>1, <1>4
    <3> QED
      BY <3>1, <3>2 DEF Due
  <2>2. CASE n # 0
    <3>1. 1 \in 1..n /\ down'[1] = down[1] /\ down # <<>> /\ down' # <<>>
      BY <2>2, <1>3, <1>4
    <3>2. \A p : Follows(1, p) => Follows(1, p)'
      BY <1>8, <3>1
    <3> QED
      BY <1>1, <3>1, <3>2 DEF Wire, Due
  <2> QED
    BY <2>1, <2>2
<1> QED
  BY <1>6, <1>7, <1>9, <1>10 DEF Wire
-----------------------------------------------------------------------------
(* Every step keeps the wire in order                                        *)

\* What a step of a thread leaves alone is left to no other thread either.
LEMMA IssueWire ==
    ASSUME Disciplined, TypeOK, Wire, NEW t \in Threads, NEW s \in Stubs, NEW how \in Kinds,
           NEW via \in {"prefer_id", "by_name"}, Issue(t, s, how, via)
    PROVE  Wire'
<1>1. /\ pc[t] \in {"idle", "callback"} /\ pc' = [pc EXCEPT ![t] = "lockWrite"]
      /\ out' = [out EXCEPT ![t] = NewPacket(s, how, via)]
      /\ UNCHANGED <<got, pendings, sequenceId, writeMutex>>
      /\ UNCHANGED <<up, down, connected, session, serving, executed, answers>>
  BY DEF Issue, Goto, clientVars, wireVars, sessionVars, historyVars
<1>2. Others(t) /\ pc'[t] = "lockWrite"
  BY <1>1 DEF Others, TypeOK
<1>3. UNCHANGED <<Open, BodyDue, CallidDue>>
  BY <1>1, <1>2, Elsewhere
<1>4. Drawn' = Drawn
  BY <1>1 DEF Drawn
<1> QED
  BY <1>1, <1>3, <1>4, WireStays

LEMMA BeginSendWire ==
    ASSUME TypeOK, Wire, NEW t \in Threads, BeginSend(t)
    PROVE  Wire'
<1>1. /\ pc[t] = "lockWrite" /\ pc' = [pc EXCEPT ![t] = "flush"]
      /\ out' = [out EXCEPT ![t].seqid = NextSequenceId]
      /\ UNCHANGED <<got, pendings>>
      /\ writeMutex = NoThread /\ writeMutex' = t /\ sequenceId' = sequenceId + 1
      /\ UNCHANGED <<up, down, connected, session, serving, executed, answers>>
  BY DEF BeginSend, Goto, wireVars, sessionVars, historyVars, MayWrite, NextSequenceId
<1>2. Others(t) /\ pc'[t] = "flush"
  BY <1>1 DEF Others, TypeOK
<1>3. UNCHANGED <<Open, BodyDue, CallidDue>>
  BY <1>1, <1>2, Elsewhere
<1>4. Drawn' = Drawn
  <2>1. t # NoThread /\ sequenceId \in Int
    BY ThreadsAssumption DEF TypeOK
  <2> QED
    BY <1>1, <2>1 DEF Drawn
<1> QED
  BY <1>1, <1>3, <1>4, WireStays

LEMMA FlushStep ==
    ASSUME TypeOK, Sending, LocksHeld, InOrderOnce, Roles, Wire, NEW t \in Threads, Flush(t)
    PROVE  Wire'
<1> DEFINE p == out[t]
<1>1. /\ pc[t] = "flush" /\ Goto(t, AfterSend(p)) /\ UNCHANGED <<out, got, pendings, sequenceId>>
      /\ up' = Append(up, RequestOf(p)) /\ writeMutex' = UnlockWrite(t)
      /\ UNCHANGED <<down, connected, session, serving, executed, answers>>
  BY DEF Flush, sessionVars, historyVars
<1>2. Others(t) /\ pc'[t] \in {"lockRead", "register"}
  BY <1>1 DEF Others, Goto, TypeOK, AfterSend
<1>3. p \in Packet /\ p \notin Open /\ (p.isbyid => callId[p.stub] # 0)
  <2>1. Role(t)
    BY DEF Roles
  <2> QED
    BY <1>1, <2>1, FlushRoles DEF Role, Sends, Wire
<1>4. p.seqid = Drawn + 1 /\ Drawn' = Drawn + 1
  <2>1. writeMutex = t /\ t # NoThread
    BY <1>1, ThreadsAssumption DEF LocksHeld
  <2>2. writeMutex' = NoThread
    BY <1>1, <2>1 DEF UnlockWrite
  <2>3. p.seqid = sequenceId /\ sequenceId \in Int
    BY <1>1 DEF Sending, TypeOK
  <2> QED
    BY <1>1, <2>1, <2>2, <2>3 DEF Drawn
<1>5. Open' = Open \cup {p}
  <2>1. \A u \in Threads : (SentOut(u)' <=> SentOut(u) \/ u = t) /\ out'[u] = out[u]
    BY <1>1, <1>2 DEF Others, SentOut
  <2> QED
    BY <1>1, <2>1 DEF Open
<1>6. BodyDue' = BodyDue /\ CallidDue' = CallidDue
  <2>1. \A u \in Threads : /\ AtBody(u)' <=> AtBody(u)
                           /\ AtCallid(u)' <=> AtCallid(u)
                           /\ AtBody(u) \/ AtCallid(u) => Reading(u)' = Reading(u)
    BY <1>1, <1>2 DEF Others, AtBody, AtCallid, Reading
  <2> QED
    BY <2>1, DueStays
<1> HIDE DEF p
<1> QED
  BY <1>1, <1>3, <1>4, <1>5, <1>6, FlushWire

\* The packet is open before and after it becomes pending.
LEMMA RegisterWire ==
    ASSUME TypeOK, Wire, NEW t \in Threads, Register(t)
    PROVE  Wire'
<1>1. /\ pc[t] = "register" /\ pc' = [pc EXCEPT ![t] = Caller(t)]
      /\ out' = [out EXCEPT ![t] = NoPacket] /\ pendings' = pendings \cup {out[t]}
      /\ UNCHANGED <<got, sequenceId, writeMutex>>
      /\ UNCHANGED <<up, down, connected, session, serving, executed, answers>>
  BY DEF Register, Goto, wireVars, sessionVars, historyVars
<1>2. Others(t) /\ pc'[t] \in {"idle", "callback"}
  BY <1>1 DEF Others, TypeOK, Caller
<1>3. Open' = Open
  <2>1. \A u \in Threads : SentOut(u)' <=> SentOut(u) /\ u # t
    BY <1>1, <1>2 DEF Others, SentOut
  <2>2. SentOut(t) /\ \A u \in Threads \ {t} : out'[u] = out[u]
    BY <1>1, <1>2 DEF Others, SentOut
  <2> QED
    BY <1>1, <2>1, <2>2 DEF Open
<1>4. BodyDue' = BodyDue /\ CallidDue' = CallidDue
  <2>1. \A u \in Threads : /\ AtBody(u)' <=> AtBody(u)
                           /\ AtCallid(u)' <=> AtCallid(u)
                           /\ AtBody(u) \/ AtCallid(u) => Reading(u)' = Reading(u)
    BY <1>1, <1>2 DEF Others, AtBody, AtCallid, Reading
  <2> QED
    BY <2>1, DueStays
<1>5. Drawn' = Drawn
  BY <1>1 DEF Drawn
<1> QED
  BY <1>1, <1>3, <1>4, <1>5, WireStays

LEMMA SyncLockReadWire ==
    ASSUME TypeOK, Wire, NEW t \in Threads, SyncLockRead(t)
    PROVE  Wire'
<1>1. /\ pc[t] = "lockRead" /\ pc' = [pc EXCEPT ![t] = "readSeqid"]
      /\ UNCHANGED <<out, got, pendings, sequenceId, writeMutex>>
      /\ UNCHANGED <<up, down, connected, session, serving, executed, answers>>
  BY DEF SyncLockRead, Goto, wireVars, sessionVars, historyVars
<1>2. Others(t) /\ pc'[t] = "readSeqid"
  BY <1>1 DEF Others, TypeOK
<1>3. Open' = Open
  <2>1. \A u \in Threads : (SentOut(u)' <=> SentOut(u)) /\ (SentOut(u) => out'[u] = out[u])
    BY <1>1, <1>2 DEF Others, SentOut
  <2> QED
    BY <1>1, <2>1, OpenStays
<1>4. BodyDue' = BodyDue /\ CallidDue' = CallidDue
  <2>1. \A u \in Threads : /\ AtBody(u)' <=> AtBody(u)
                           /\ AtCallid(u)' <=> AtCallid(u)
                           /\ AtBody(u) \/ AtCallid(u) => Reading(u)' = Reading(u)
    BY <1>1, <1>2 DEF Others, AtBody, AtCallid, Reading
  <2> QED
    BY <2>1, DueStays
<1>5. Drawn' = Drawn
  BY <1>1 DEF Drawn
<1> QED
  BY <1>1, <1>3, <1>4, <1>5, WireStays

\* The reply of a synchronous call: it is the only call that is open.
LEMMA SyncReadSeqidWire ==
    ASSUME Disciplined, TypeOK, InOrderOnce, Roles, Wire, NEW t \in Threads, SyncReadSeqid(t)
    PROVE  Wire'
<1> DEFINE p == out[t]
<1>1. /\ pc[t] = "readSeqid" /\ down # <<>> /\ down' = Tail(down) /\ Head(down).field = "seqid"
      /\ UNCHANGED <<out, got, pendings, sequenceId, writeMutex>>
      /\ UNCHANGED <<up, connected, session, serving, executed, answers>>
  BY DEF SyncReadSeqid, Reads, clientVars, sessionVars, historyVars
<1>2. Head(down).val = p.seqid /\ pc' = [pc EXCEPT ![t] = "syncArgs"]
  BY SyncReadSeqidRoles DEF Wire, Goto
<1>3. Others(t) /\ pc'[t] = "syncArgs"
  BY <1>1, <1>2 DEF Others, TypeOK
<1>4. t \in AppThreads /\ WaitersOff /\ pendings = {} /\ SentOut(t)
  <2>1. Role(t)
    BY DEF Roles
  <2> QED
    BY <1>1, <2>1 DEF Role, ReadsReply, SentOut
<1>5. p \in Open /\ Open' = Open \ {p}
  <2>1. p \in Open /\ Open \subseteq {p}
    BY <1>4, OpenOfReader DEF Open
  <2>2. \A u \in Threads : ~SentOut(u)'
    <3>1. \A u \in Threads \ {t} : ~SentOut(u)
      BY <1>4 DEF Disciplined, Threads, WaitersOff, SentOut
    <3> QED
      BY <1>3, <3>1 DEF Others, SentOut
  <2>3. Open' = {}
    BY <1>1, <1>4, <2>2 DEF Open
  <2> QED
    BY <2>1, <2>3
<1>6. /\ BodyDue = {} /\ CallidDue = {} /\ BodyDue' = {p} /\ CallidDue' = {}
  <2>1. /\ ~AtBody(t) /\ ~AtCallid(t) /\ AtBody(t)' /\ ~AtCallid(t)' /\ Reading(t)' = p
        /\ pc[t] \in ReadLabelsOf
    BY <1>1, <1>3 DEF AtBody, AtCallid, Reading, ReadLabelsOf, ReadsReply
  <2> QED
    BY <1>3, <2>1, DueToReader, DueAfter
<1>7. Drawn' = Drawn
  BY <1>1 DEF Drawn
<1>8. down[1].field = "seqid" /\ down[1].val = p.seqid
  BY <1>1, <1>2, HeadIsFirst
<1> HIDE DEF p
<1> QED
  BY <1>1, <1>5, <1>6, <1>7, <1>8, SeqidWire

LEMMA TakeLockWire ==
    ASSUME TypeOK, Wire, NEW t \in Threads, TakeLock(t)
    PROVE  Wire'
<1>1. /\ pc[t] = "lockTake" /\ pc' = [pc EXCEPT ![t] = "take"]
      /\ UNCHANGED <<out, got, pendings, sequenceId, writeMutex>>
      /\ UNCHANGED <<up, down, connected, session, serving, executed, answers>>
  BY DEF TakeLock, Goto, wireVars, sessionVars, historyVars
<1>2. Others(t) /\ pc'[t] = "take"
  BY <1>1 DEF Others, TypeOK
<1>3. UNCHANGED <<Open, BodyDue, CallidDue>>
  BY <1>1, <1>2, Elsewhere
<1>4. Drawn' = Drawn
  BY <1>1 DEF Drawn
<1> QED
  BY <1>1, <1>3, <1>4, WireStays

\* The reply of a pending call.
LEMMA TakeRegisteredStep ==
    ASSUME Disciplined, TypeOK, InOrderOnce, Roles, Wire, NEW t \in Threads, TakeRegistered(t)
    PROVE  Roles' /\ Wire'
<1>1. /\ pc[t] = "take" /\ down # <<>> /\ down' = Tail(down) /\ Head(down).field = "seqid"
      /\ pc' = [pc EXCEPT ![t] = "asyncArgs"]
      /\ UNCHANGED <<out, vseqid, callId, sequenceId, writeMutex>>
      /\ UNCHANGED <<up, connected, session, serving, executed, answers>>
  BY DEF TakeRegistered, Reads, Goto, sessionVars, historyVars
<1>2. PICK p \in FindPending(Head(down).val) :
          got' = [got EXCEPT ![t] = p] /\ pendings' = Erase(p)
  BY DEF TakeRegistered
<1>3. Roles'
  BY <1>1, <1>2, TakeRegisteredRoles DEF Goto
<1>4. p \in pendings /\ p.seqid = Head(down).val /\ pendings' = pendings \ {p}
  BY <1>2 DEF FindPending, Erase
<1>5. Others(t) /\ pc'[t] = "asyncArgs" /\ got'[t] = p
  BY <1>1, <1>2 DEF Others, TypeOK
<1>6. p \in Open /\ Open' = Open \ {p}
  <2>1. \A u \in Threads : /\ SentOut(u)' <=> SentOut(u)
                           /\ SentOut(u) => out[u] # p /\ out'[u] = out[u]
    BY <1>1, <1>4, <1>5 DEF SentOut, Others, Roles, Role
  <2> QED
    BY <1>4, <2>1 DEF Open
<1>7. /\ BodyDue = {} /\ CallidDue = {} /\ BodyDue' = {p} /\ CallidDue' = {}
  <2>1. /\ ~AtBody(t) /\ ~AtCallid(t) /\ AtBody(t)' /\ ~AtCallid(t)' /\ Reading(t)' = p
        /\ pc[t] \in ReadLabelsOf
    BY <1>1, <1>5 DEF AtBody, AtCallid, Reading, ReadLabelsOf, ReadsReply
  <2> QED
    BY <1>5, <2>1, DueToReader, DueAfter
<1>8. Drawn' = Drawn
  BY <1>1 DEF Drawn
<1>9. down[1].field = "seqid" /\ down[1].val = p.seqid
  BY <1>1, <1>4, HeadIsFirst
<1> QED
  BY <1>1, <1>3, <1>6, <1>7, <1>8, <1>9, SeqidWire

\* The body of a reply: the call is answered, with its own answer.
LEMMA ReadBodyStep ==
    ASSUME Disciplined, TypeOK, Roles, Wire, NEW t \in Threads, ReadBody(t)
    PROVE  /\ Roles' /\ Wire' /\ halted' = "no" /\ Reading(t).seqid \in 1..MaxCalls
           /\ Reading(t).seqid \in 1..Len(executed) /\ answers[Reading(t).seqid] = <<>>
           /\ answers' = [answers EXCEPT ![Reading(t).seqid] = <<Reading(t).seqid>>]
<1> DEFINE p == Reading(t)
<1>1. /\ down # <<>> /\ down' = Tail(down)
      /\ answers' = [answers EXCEPT ![p.seqid] = Append(@, Head(down).val)]
      /\ UNCHANGED <<got, pendings, sequenceId, writeMutex>>
      /\ UNCHANGED <<up, connected, session, serving, executed>>
  BY DEF ReadBody, Reads, sessionVars
<1>2. /\ Roles' /\ halted' = "no" /\ Others(t) /\ AtBody(t)
      /\ IF p.isbyid THEN pc'[t] \in {"idle", "callback"}
         ELSE /\ pc'[t] = IF pc[t] = "syncArgs" THEN "syncCallid" ELSE "asyncCallid"
              /\ Reading(t)' = p
  BY ReadBodyRoles
<1>3. Open' = Open
  <2>1. \A u \in Threads : (SentOut(u)' <=> SentOut(u)) /\ (SentOut(u) => out'[u] = out[u])
    BY <1>2 DEF Others, SentOut, AtBody
  <2> QED
    BY <1>1, <2>1, OpenStays
<1>4. BodyDue = {p} /\ CallidDue = {} /\ BodyDue' = {} /\ CallidDue' = (IF p.isbyid THEN {} ELSE {p})
  <2>1. ~AtCallid(t) /\ pc[t] \in ReadLabelsOf
    BY <1>2 DEF AtBody, AtCallid, ReadLabelsOf, ReadsReply
  <2>2. ~AtBody(t)' /\ (AtCallid(t)' <=> ~p.isbyid)
    BY <1>2 DEF AtBody, AtCallid
  <2>3. ~p.isbyid => Reading(t)' = p
    BY <1>2
  <2>4. BodyDue = {p} /\ CallidDue = {}
    BY <1>2, <2>1, DueToReader
  <2>5. BodyDue' = {} /\ CallidDue' = IF AtCallid(t)' THEN {Reading(t)'} ELSE {}
    BY <1>2, <2>1, <2>2, DueAfter
  <2> QED
    BY <2>2, <2>3, <2>4, <2>5
<1>5. Drawn' = Drawn
  BY <1>1 DEF Drawn
<1> HIDE DEF p
<1>6. /\ Wire' /\ p.seqid \in 1..Len(executed) /\ answers[p.seqid] = <<>>
      /\ p.seqid \in 1..MaxCalls
      /\ answers' = [answers EXCEPT ![p.seqid] = <<p.seqid>>]
  BY <1>1, <1>3, <1>4, <1>5, BodyWire
<1> QED
  BY <1>2, <1>6 DEF p

LEMMA ReadCallidWire ==
    ASSUME Disciplined, TypeOK, Roles, Wire, NEW t \in Threads, ReadCallid(t)
    PROVE  Wire'
<1> DEFINE p == Reading(t)
<1>1. /\ down # <<>> /\ down' = Tail(down)
      /\ UNCHANGED <<got, pendings, sequenceId, writeMutex>>
      /\ UNCHANGED <<up, connected, session, serving, executed, answers>>
  BY DEF ReadCallid, Reads, sessionVars, historyVars
<1>2. /\ Others(t) /\ AtCallid(t) /\ pc'[t] \in {"idle", "callback"}
  BY ReadCallidRoles DEF Wire
<1>3. Open' = Open
  <2>1. \A u \in Threads : (SentOut(u)' <=> SentOut(u)) /\ (SentOut(u) => out'[u] = out[u])
    BY <1>2 DEF Others, SentOut, AtCallid
  <2> QED
    BY <1>1, <2>1, OpenStays
<1>4. BodyDue = {} /\ CallidDue = {p} /\ BodyDue' = {} /\ CallidDue' = {}
  <2>1. ~AtBody(t) /\ pc[t] \in ReadLabelsOf
    BY <1>2 DEF AtBody, AtCallid, ReadLabelsOf, ReadsReply
  <2>2. ~AtBody(t)' /\ ~AtCallid(t)'
    BY <1>2 DEF AtBody, AtCallid
  <2> QED
    BY <1>2, <2>1, <2>2, DueToReader, DueAfter
<1>5. Drawn' = Drawn
  BY <1>1 DEF Drawn
<1> HIDE DEF p
<1> QED
  BY <1>1, <1>3, <1>4, <1>5, CallidWire

\* A callback returns, a waiter thread goes round, or wait_pending_async begins.
LEMMA ElsewhereWire ==
    ASSUME TypeOK, Wire, NEW t \in Threads, Others(t),
           pc[t] \in {"idle", "start", "loop", "callback"},
           pc'[t] \in {"idle", "loop", "off", "lockTake"},
           UNCHANGED <<clientVars, wireVars, sessionVars, executed, answers>>
           \/ UNCHANGED <<sequenceId, pendings, writeMutex, wireVars, sessionVars, historyVars>>
    PROVE  Wire'
<1>1. UNCHANGED <<pendings, sequenceId, writeMutex, up, down, connected, session, serving,
                  executed, answers>>
  BY DEF clientVars, wireVars, sessionVars, historyVars
<1>2. UNCHANGED <<Open, BodyDue, CallidDue>>
  BY <1>1, Elsewhere
<1>3. Drawn' = Drawn
  BY <1>1 DEF Drawn
<1> QED
  BY <1>1, <1>2, <1>3, WireStays

LEMMA StartAsyncWire ==
    ASSUME Disciplined, TypeOK, Roles, Wire, NEW t \in Threads, StartAsync(t)
    PROVE  Wire'
<1>1. UNCHANGED <<pendings, sequenceId, writeMutex, up, down, connected, session, serving,
                  executed, answers>>
  BY DEF StartAsync, wireVars, sessionVars, historyVars
<1>2. /\ UNCHANGED <<out, got>>
      /\ \A u \in Threads : pc'[u] = pc[u] \/ (pc[u] = "off" /\ pc'[u] = "start")
  BY StartAsyncRoles
<1>3. Open' = Open
  <2>1. \A u \in Threads : (SentOut(u)' <=> SentOut(u)) /\ (SentOut(u) => out'[u] = out[u])
    BY <1>2 DEF SentOut
  <2> QED
    BY <1>1, <2>1, OpenStays
<1>4. BodyDue' = BodyDue /\ CallidDue' = CallidDue
  <2>1. \A u \in Threads : /\ AtBody(u)' <=> AtBody(u)
                           /\ AtCallid(u)' <=> AtCallid(u)
                           /\ AtBody(u) \/ AtCallid(u) => Reading(u)' = Reading(u)
    BY <1>2 DEF AtBody, AtCallid, Reading
  <2> QED
    BY <2>1, DueStays
<1>5. Drawn' = Drawn
  BY <1>1 DEF Drawn
<1> QED
  BY <1>1, <1>3, <1>4, <1>5, WireStays

\* A request cannot be sent: its number is lost.
LEMMA SendFailsStep ==
    ASSUME Disciplined, TypeOK, LocksHeld, Roles, Wire, NEW t \in Threads, SendFails(t),
           halted' = "no"
    PROVE  Roles' /\ Wire'
<1>1. /\ pc[t] = "flush" /\ ~connected /\ writeMutex' = UnlockWrite(t) /\ Unwind(t)
      /\ UNCHANGED <<sequenceId, callId, pendings>>
      /\ UNCHANGED <<up, down, connected, session, serving, executed, answers>>
  BY DEF SendFails, wireVars, sessionVars
<1>2. Roles' /\ Others(t) /\ pc'[t] = "idle"
  BY <1>1, UnwindRoles
<1>3. UNCHANGED <<Open, BodyDue, CallidDue>>
  BY <1>1, <1>2, Elsewhere
<1>4. Drawn' = Drawn + 1
  <2>1. writeMutex = t /\ t # NoThread
    BY <1>1, ThreadsAssumption DEF LocksHeld
  <2>2. writeMutex' = NoThread
    BY <1>1, <2>1 DEF UnlockWrite
  <2>3. sequenceId \in Int
    BY DEF TypeOK
  <2> QED
    BY <1>1, <2>1, <2>2, <2>3 DEF Drawn
<1> QED
  BY <1>1, <1>2, <1>3, <1>4, FailWire

\* A read fails at the end of what the connection still had.
LEMMA ReadFailsStep ==
    ASSUME Disciplined, TypeOK, Roles, Wire, NEW t \in Threads, ReadFails(t), halted' = "no"
    PROVE  Roles' /\ Wire'
<1>1. /\ pc[t] \in ReadLabelsOf /\ ~connected /\ down = <<>> /\ Unwind(t)
      /\ UNCHANGED <<sequenceId, callId, pendings, writeMutex>>
      /\ UNCHANGED <<up, down, connected, session, serving, executed, answers>>
  BY ReadLabels DEF ReadFails, wireVars, sessionVars, ReadLabelsOf, ReadsReply
<1>2. Roles' /\ Others(t) /\ pc'[t] = "idle"
  BY <1>1, UnwindRoles DEF ReadLabelsOf, ReadsReply
<1>3. Open' \subseteq Open
  <2>1. \A u \in Threads : SentOut(u)' => SentOut(u) /\ u # t
    BY <1>2 DEF SentOut, Others
  <2>2. \A u \in Threads \ {t} : out'[u] = out[u]
    BY <1>2 DEF Others
  <2> QED
    BY <1>1, <2>1, <2>2 DEF Open
<1>4. BodyDue' = {} /\ CallidDue' = {}
  <2>1. ~AtBody(t)' /\ ~AtCallid(t)'
    BY <1>2 DEF AtBody, AtCallid
  <2> QED
    BY <1>1, <1>2, <2>1, DueAfter
<1>5. Drawn' = Drawn
  BY <1>1 DEF Drawn
<1> QED
  BY <1>1, <1>2, <1>3, <1>4, <1>5, FailWire

\* The steps of the session and of the connection leave the client alone.
LEMMA ClientStays ==
    ASSUME UNCHANGED <<clientVars, threadVars>>
    PROVE  UNCHANGED <<Open, BodyDue, CallidDue, Drawn>> /\ (Roles => Roles')
<1>1. UNCHANGED <<pc, out, got, vseqid, pendings, callId, sequenceId, writeMutex>>
  BY DEF clientVars, threadVars
<1>2. UNCHANGED <<Open, Drawn>>
  BY <1>1 DEF Open, SentOut, Drawn
<1>3. UNCHANGED <<BodyDue, CallidDue>>
  BY <1>1 DEF BodyDue, CallidDue, AtBody, AtCallid, Reading
<1>4. Roles => Roles'
  BY <1>1 DEF Roles, Role, SentOut, WaitersOff
<1> QED
  BY <1>2, <1>3, <1>4

LEMMA SessionWire ==
    ASSUME TypeOK, InOrderOnce, Wire, SessionStep \/ ServantThrows \/ ConnectionLost
    PROVE  Wire' /\ (Roles => Roles')
<1>1. UNCHANGED <<clientVars, threadVars>>
  BY DEF SessionStep, Execute, UnknownFunction, SendReply, ReplyFails, SessionEof, EndSession,
         ServantThrows, ConnectionLost
<1>2. UNCHANGED <<Open, BodyDue, CallidDue, Drawn>> /\ (Roles => Roles')
  BY <1>1, ClientStays
<1>3. CASE Execute
  BY <1>2, <1>3, ExecuteWire
<1>4. CASE SendReply
  BY <1>2, <1>4, SendReplyWire
<1>5. CASE ConnectionLost
  BY <1>2, <1>5, ConnectionLostWire
<1>6. CASE UnknownFunction
  <2>1. session' = "ended" /\ serving' = NoRequest
        /\ UNCHANGED <<down, connected, executed, answers>>
    BY <1>6 DEF UnknownFunction, ReadRequest, historyVars
  <2> QED
    BY <1>2, <2>1, SessionEndsWire
<1>7. CASE ReplyFails \/ SessionEof \/ ServantThrows
  <2>1. session' = "ended" /\ serving' = NoRequest
        /\ UNCHANGED <<down, connected, executed, answers>>
    BY <1>7 DEF ReplyFails, SessionEof, ServantThrows, EndSession, wireVars, historyVars
  <2> QED
    BY <1>2, <2>1, SessionEndsWire
<1> QED
  BY <1>2, <1>3, <1>4, <1>5, <1>6, <1>7 DEF SessionStep

\* Every step of a client that goes on.
LEMMA WireStep ==
    ASSUME Disciplined, IInv, IInv', Roles, Wire, Next, halted' = "no"
    PROVE  Roles' /\ Wire'
<1>0. TypeOK /\ Sending /\ Sending' /\ LocksHeld /\ InOrderOnce /\ Replies /\ Due /\ Calls
  BY DEF IInv, TypeInv, Wire
<1>1. ASSUME NEW t \in Threads, BeginSend(t) \/ Flush(t) \/ Register(t) PROVE Roles' /\ Wire'
  BY <1>0, <1>1, BeginSendRoles, BeginSendWire, FlushRoles, FlushStep, RegisterRoles, RegisterWire
<1>2. ASSUME NEW t \in Threads, SendFails(t) \/ ReadFails(t) PROVE Roles' /\ Wire'
  BY <1>0, <1>2, SendFailsStep, ReadFailsStep
<1>3. ASSUME NEW t \in Threads, SyncLockRead(t) \/ SyncReadSeqid(t) PROVE Roles' /\ Wire'
  BY <1>0, <1>3, SyncLockReadRoles, SyncLockReadWire, SyncReadSeqidRoles, SyncReadSeqidWire
<1>4. ASSUME NEW t \in Threads, ReadBody(t) \/ ReadCallid(t) PROVE Roles' /\ Wire'
  BY <1>0, <1>4, ReadBodyStep, ReadCallidRoles, ReadCallidWire
<1>5. ASSUME NEW t \in Threads, TakeLock(t) \/ TakeRegistered(t) PROVE Roles' /\ Wire'
  BY <1>0, <1>5, TakeLockRoles, TakeLockWire, TakeRegisteredStep
<1>6. ASSUME NEW t \in Threads, TakeUnregistered(t) \/ Desync(t) PROVE Roles' /\ Wire'
  <2>1. CASE TakeUnregistered(t)
    BY <1>0, <2>1, TakeUnregisteredHalts
  <2>2. CASE Desync(t)
    BY <2>2 DEF Desync
  <2> QED
    BY <1>6, <2>1, <2>2
<1>7. ASSUME NEW t \in Threads, CallbackDone(t) PROVE Roles' /\ Wire'
  <2>1. Roles' /\ Others(t) /\ pc[t] = "callback" /\ pc'[t] \in {"loop", "idle", "lockTake"}
    BY <1>0, <1>7, CallbackDoneRoles
  <2>2. UNCHANGED <<clientVars, wireVars, sessionVars, executed, answers>>
    BY <1>7 DEF CallbackDone
  <2> QED
    BY <1>0, <2>1, <2>2, ElsewhereWire
<1>8. ASSUME NEW t \in Threads, WaiterStart(t) \/ WaiterLoop(t) PROVE Roles' /\ Wire'
  <2>1. Roles' /\ Others(t) /\ pc[t] \in {"start", "loop"} /\ pc'[t] \in {"loop", "lockTake", "off"}
    BY <1>0, <1>8, WaiterRoles
  <2>2. UNCHANGED <<sequenceId, pendings, writeMutex, wireVars, sessionVars, historyVars>>
    BY <1>8 DEF WaiterStart, WaiterLoop, clientVars
  <2> QED
    BY <1>0, <2>1, <2>2, ElsewhereWire
<1>9. ASSUME NEW t \in Threads, WaitPendingBegin(t) PROVE Roles' /\ Wire'
  <2>1. Roles' /\ Others(t) /\ pc[t] = "idle" /\ pc'[t] \in {"idle", "lockTake"}
    BY <1>0, <1>9, WaitPendingBeginRoles
  <2>2. UNCHANGED <<clientVars, wireVars, sessionVars, executed, answers>>
    BY <1>9 DEF WaitPendingBegin
  <2> QED
    BY <1>0, <2>1, <2>2, ElsewhereWire
<1>10. ASSUME NEW t \in Threads, StartAsync(t) PROVE Roles' /\ Wire'
  BY <1>0, <1>10, StartAsyncRoles, StartAsyncWire
<1>11. ASSUME NEW t \in Threads, StopAsync(t) PROVE Roles' /\ Wire'
  <2>1. /\ UNCHANGED <<pc, out, got, vseqid, pendings, callId, sequenceId, writeMutex>>
        /\ UNCHANGED <<up, down, connected, session, serving, executed, answers>>
    BY <1>11 DEF StopAsync, threadVars, wireVars, sessionVars, historyVars
  <2>2. UNCHANGED <<Open, BodyDue, CallidDue, Drawn>>
    BY <2>1 DEF Open, BodyDue, CallidDue, Drawn, SentOut, AtBody, AtCallid, Reading
  <2>3. Roles'
    BY <2>1 DEF Roles, Role, SentOut, WaitersOff
  <2> QED
    BY <2>1, <2>2, <2>3, WireStays
<1>12. ASSUME NEW t \in Threads, NEW s \in Stubs, NEW how \in Kinds,
              NEW via \in {"prefer_id", "by_name"}, Issue(t, s, how, via)
       PROVE  Roles' /\ Wire'
  BY <1>0, <1>12, IssueRoles, IssueWire
<1>13. CASE SessionStep \/ ServantThrows \/ ConnectionLost
  BY <1>0, <1>13, SessionWire
<1> QED
  BY <1>1, <1>2, <1>3, <1>4, <1>5, <1>6, <1>7, <1>8, <1>9, <1>10, <1>11, <1>12, <1>13
  DEF Next, Step, Choose
-----------------------------------------------------------------------------
(* What the client is promised                                               *)

\* Only a failure stops the client, or an answer that arrives before its call is
\* registered, which the only waiter thread takes for an unknown one.
LEMMA HaltStep ==
    ASSUME Disciplined, TypeOK, Roles, Wire, halted = "no", Next
    PROVE  halted' \in {"no", "terminate", "client.cpp:104"}
<1>0. Replies /\ Due
  BY DEF Wire
<1>1. ASSUME NEW t \in Threads, Desync(t) PROVE FALSE
  <2>1. pc[t] \in DOMAIN Expected /\ down # <<>> /\ Head(down).field # Expected[pc[t]]
    BY <1>1 DEF Desync
  <2> QED
    BY <1>0, <2>1, HeadDue
<1>2. ASSUME NEW t \in Threads, SyncReadSeqid(t) \/ ReadBody(t) \/ ReadCallid(t)
      PROVE  halted' = "no"
  BY <1>0, <1>2, SyncReadSeqidRoles, ReadBodyRoles, ReadCallidRoles
<1>3. ASSUME NEW t \in Threads, TakeUnregistered(t) PROVE halted' = "client.cpp:104"
  BY <1>0, <1>3, TakeUnregisteredHalts
<1>4. ASSUME NEW t \in Threads, SendFails(t) \/ ReadFails(t) PROVE halted' \in {"no", "terminate"}
  BY <1>4 DEF SendFails, ReadFails, Unwind
<1>5. ASSUME NEW t \in Threads,
             \/ BeginSend(t) \/ Flush(t) \/ Register(t) \/ SyncLockRead(t) \/ TakeLock(t)
             \/ TakeRegistered(t) \/ CallbackDone(t) \/ WaiterStart(t) \/ WaiterLoop(t)
      PROVE  halted' = halted
  BY <1>5 DEF BeginSend, Flush, Register, SyncLockRead, TakeLock, TakeRegistered, CallbackDone,
              WaiterStart, WaiterLoop
<1>6. ASSUME NEW t \in Threads, Choose(t) PROVE halted' = halted
  BY <1>6 DEF Choose, Issue, WaitPendingBegin, StartAsync, StopAsync, threadVars
<1>7. CASE SessionStep \/ ServantThrows \/ ConnectionLost
  BY <1>7 DEF SessionStep, Execute, UnknownFunction, SendReply, ReplyFails, SessionEof, EndSession,
              ServantThrows, ConnectionLost, threadVars
<1> QED
  BY <1>1, <1>2, <1>3, <1>4, <1>5, <1>6, <1>7 DEF Next, Step

\* A stub learns the id of its own function, and requests carry what it learnt.
LEMMA CallIdStep ==
    ASSUME Disciplined, TypeOK, Roles, Wire, CallIdSound, Next
    PROVE  CallIdSound'
<1>0. Replies /\ Due
  BY DEF Wire
<1>1. ASSUME UNCHANGED <<callId, up>> PROVE CallIdSound'
  BY <1>1 DEF CallIdSound
<1>2. ASSUME NEW t \in Threads, Flush(t) PROVE CallIdSound'
  <2>1. /\ up' = Append(up, RequestOf(out[t])) /\ callId' = callId /\ up \in Seq(Request)
        /\ pc[t] = "flush"
    BY <1>2 DEF Flush, TypeOK
  <2>2. out[t].stub \in Stubs
    BY <2>1 DEF Roles, Role, Sends, Packet
  <2>3. /\ RequestOf(out[t]).name = out[t].stub
        /\ RequestOf(out[t]).callid \in {0, callId[out[t].stub]}
    BY DEF RequestOf
  <2>4. RequestOf(out[t]).callid \in {0, StubId[RequestOf(out[t]).name]}
    BY <2>2, <2>3 DEF CallIdSound
  <2>5. \A i \in 1..Len(up') : up'[i] = IF i \in 1..Len(up) THEN up[i] ELSE RequestOf(out[t])
    <3> DEFINE r == RequestOf(out[t])
    <3> HIDE DEF r
    <3>1. \A i \in 1..Len(up') : up'[i] = IF i \in 1..Len(up) THEN up[i] ELSE r
      <4>1. up' = Append(up, r)
        BY <2>1 DEF r
      <4> QED
        BY <2>1, <4>1
    <3> QED
      BY <3>1 DEF r
  <2> QED
    BY <2>1, <2>4, <2>5 DEF CallIdSound
<1>3. ASSUME NEW t \in Threads, ReadCallid(t) PROVE CallIdSound'
  <2>1. /\ callId' = [callId EXCEPT ![Reading(t).stub] = StubId[Reading(t).stub]]
        /\ up' = up
    BY <1>0, <1>3, ReadCallidRoles DEF ReadCallid
  <2> QED
    BY <2>1 DEF CallIdSound, TypeOK
<1>4. CASE Execute \/ UnknownFunction
  <2>1. up # <<>> /\ up' = Tail(up) /\ callId' = callId /\ up \in Seq(Request)
    BY <1>4 DEF Execute, UnknownFunction, ReadRequest, clientVars, TypeOK
  <2>2. /\ Len(up) \in Nat /\ Len(up') = Len(up) - 1
        /\ \A k \in 1..Len(up') : up'[k] = up[k + 1]
    BY <2>1, HeadTailProperties
  <2> QED
    BY <2>1, <2>2 DEF CallIdSound
<1>5. CASE ConnectionLost
  <2>1. PICK n \in 0..Len(up) : up' = SubSeq(up, 1, n)
    BY <1>5 DEF ConnectionLost
  <2>2. /\ Len(up') = n /\ n <= Len(up)
        /\ \A k \in 1..n : up'[k] = up[k] /\ k \in 1..Len(up)
    BY <2>1, SubSeqProperties, ElementOfSeq DEF TypeOK
  <2>3. callId' = callId
    BY <1>5 DEF ConnectionLost, clientVars
  <2> QED
    BY <2>2, <2>3 DEF CallIdSound
<1>6. ASSUME NEW t \in Threads,
             \/ BeginSend(t) \/ Register(t) \/ SyncLockRead(t) \/ SyncReadSeqid(t) \/ TakeLock(t)
             \/ TakeRegistered(t) \/ TakeUnregistered(t) \/ ReadBody(t)
      PROVE  CallIdSound'
  BY <1>1, <1>6 DEF BeginSend, Register, SyncLockRead, SyncReadSeqid, TakeLock, TakeRegistered,
                    TakeUnregistered, ReadBody, clientVars, wireVars
<1>7. ASSUME NEW t \in Threads,
             \/ CallbackDone(t) \/ WaiterStart(t) \/ WaiterLoop(t) \/ SendFails(t)
             \/ ReadFails(t) \/ Desync(t) \/ Choose(t)
      PROVE  CallIdSound'
  BY <1>1, <1>7 DEF CallbackDone, WaiterStart, WaiterLoop, SendFails, ReadFails, Desync, Choose,
                    Issue, WaitPendingBegin, StartAsync, StopAsync, clientVars, wireVars
<1>8. CASE SendReply \/ ReplyFails \/ SessionEof \/ ServantThrows
  BY <1>1, <1>8 DEF SendReply, ReplyFails, SessionEof, ServantThrows, EndSession, clientVars,
                    wireVars
<1> QED
  BY <1>2, <1>3, <1>4, <1>5, <1>6, <1>7, <1>8 DEF Next, Step, SessionStep

\* The body that is read is that of the call, which had no answer before.
LEMMA AnswerStep ==
    ASSUME Disciplined, TypeOK, Roles, Wire, Next
    PROVE  \/ answers' = answers
           \/ \E i \in 1..MaxCalls : /\ i \in 1..Len(executed) /\ answers[i] = <<>>
                                     /\ answers' = [answers EXCEPT ![i] = <<i>>]
                                     /\ UNCHANGED <<sequenceId, executed, connected, session>>
<1>1. ASSUME NEW t \in Threads, ReadBody(t)
      PROVE  \E i \in 1..MaxCalls : /\ i \in 1..Len(executed) /\ answers[i] = <<>>
                                    /\ answers' = [answers EXCEPT ![i] = <<i>>]
                                    /\ UNCHANGED <<sequenceId, executed, connected, session>>
  <2>1. /\ Reading(t).seqid \in 1..MaxCalls
        /\ Reading(t).seqid \in 1..Len(executed) /\ answers[Reading(t).seqid] = <<>>
        /\ answers' = [answers EXCEPT ![Reading(t).seqid] = <<Reading(t).seqid>>]
    BY <1>1, ReadBodyStep
  <2>2. UNCHANGED <<sequenceId, executed, connected, session>>
    BY <1>1 DEF ReadBody, sessionVars
  <2> QED
    BY <2>1, <2>2
<1>2. ASSUME NEW t \in Threads,
             \/ BeginSend(t) \/ Flush(t) \/ Register(t) \/ SyncLockRead(t) \/ SyncReadSeqid(t)
             \/ TakeLock(t) \/ TakeRegistered(t) \/ TakeUnregistered(t) \/ ReadCallid(t)
      PROVE  answers' = answers
  BY <1>2 DEF BeginSend, Flush, Register, SyncLockRead, SyncReadSeqid, TakeLock, TakeRegistered,
              TakeUnregistered, ReadCallid, historyVars
<1>3. ASSUME NEW t \in Threads,
             \/ CallbackDone(t) \/ WaiterStart(t) \/ WaiterLoop(t) \/ SendFails(t)
             \/ ReadFails(t) \/ Desync(t) \/ Choose(t)
      PROVE  answers' = answers
  BY <1>3 DEF CallbackDone, WaiterStart, WaiterLoop, SendFails, ReadFails, Desync, Choose,
              Issue, WaitPendingBegin, StartAsync, StopAsync, historyVars
<1>4. CASE SessionStep \/ ServantThrows \/ ConnectionLost
  BY <1>4 DEF SessionStep, Execute, UnknownFunction, SendReply, ReplyFails, SessionEof, EndSession,
              ServantThrows, ConnectionLost, historyVars
<1> QED
  BY <1>1, <1>2, <1>3, <1>4 DEF Next, Step

\* What wait_pending_async owes it still owes, unless it was paid.
LEMMA OwingKept ==
    ASSUME Owing, UNCHANGED <<owed, got, isEmpty, pendings>>,
           \A i \in 1..MaxCalls : answers[i] # <<>> => answers'[i] # <<>>,
           \A t \in AppThreads :
               /\ pc[t] \in {"lockTake", "take"} => pc'[t] \in {"lockTake", "take"}
               /\ pc[t] = "asyncArgs"
                     => pc'[t] = "asyncArgs" \/ answers'[got[t].seqid] # <<>>
    PROVE  Owing'
BY DEF Owing

LEMMA RegisterOwing ==
    ASSUME TypeOK, Roles, Wire, Owing, NEW t \in Threads, Register(t)
    PROVE  Owing'
<1> DEFINE p == out[t]
<1>1. /\ pc[t] = "register" /\ pc' = [pc EXCEPT ![t] = Caller(t)] /\ pendings' = pendings \cup {p}
      /\ UNCHANGED <<owed, got, isEmpty, answers>>
  BY DEF Register, Goto, historyVars
<1>2. \A u \in Threads : pc[u] \in {"lockTake", "take", "asyncArgs"} => pc'[u] = pc[u]
  BY <1>1 DEF TypeOK
<1>3. p \in Open /\ p \notin pendings /\ answers[p.seqid] = <<>>
  BY <1>1 DEF Open, SentOut, Roles, Role, Wire, Calls
<1>4. ASSUME NEW u \in AppThreads, p.seqid \in owed[u] PROVE FALSE
  <2>1. \/ \E q \in pendings : q.seqid = p.seqid
        \/ pc[u] = "asyncArgs" /\ got[u].seqid = p.seqid
    BY <1>3, <1>4 DEF Owing
  <2>2. CASE \E q \in pendings : q.seqid = p.seqid
    BY <2>2, <1>3 DEF Wire, Calls, Open
  <2>3. CASE pc[u] = "asyncArgs" /\ got[u].seqid = p.seqid
    <3>1. got[u] \in BodyDue
      BY <2>3 DEF BodyDue, AtBody, Reading, Threads
    <3> QED
      BY <2>3, <3>1, <1>3 DEF Wire, Calls
  <2> QED
    BY <2>1, <2>2, <2>3
<1> HIDE DEF p
<1> QED
  BY <1>1, <1>2, <1>4 DEF Owing, Threads

LEMMA TakeRegisteredOwing ==
    ASSUME Disciplined, TypeOK, Roles, Wire, Owing, NEW t \in Threads, TakeRegistered(t)
    PROVE  Owing'
<1>1. /\ pc[t] = "take" /\ pc' = [pc EXCEPT ![t] = "asyncArgs"] /\ UNCHANGED <<owed, answers>>
  BY DEF TakeRegistered, Goto, historyVars
<1>2. PICK p \in FindPending(Head(down).val) :
          /\ got' = [got EXCEPT ![t] = p] /\ pendings' = Erase(p)
          /\ isEmpty' = IF t \in AppThreads THEN [isEmpty EXCEPT ![t] = NoneLeft(p)] ELSE isEmpty
  BY DEF TakeRegistered
<1>3. p \in pendings /\ p \in Packet /\ pendings' = pendings \ {p}
  BY <1>2 DEF FindPending, Erase, TypeOK
<1>4. CASE t \in AppThreads
  <2>1. /\ pc'[t] = "asyncArgs" /\ got'[t] = p /\ (isEmpty'[t] => pendings' = {})
        /\ \A u \in AppThreads : u = t
    BY <1>1, <1>2, <1>3, <1>4 DEF TypeOK, NoneLeft, Disciplined
  <2>2. p # NoPacket
    BY <1>3, NullsAssumption
  <2> QED
    BY <1>1, <1>3, <2>1, <2>2 DEF Owing
<1>5. CASE t \notin AppThreads
  <2>1. t \in Waiters /\ ~WaitersOff
    BY <1>1, <1>5 DEF Threads, WaitersOff
  <2>2. ASSUME NEW u \in AppThreads
        PROVE  owed'[u] = {} /\ got'[u] = NoPacket
    <3>1. got[u] = NoPacket /\ pc[u] \notin {"lockTake", "take"}
      BY <2>1 DEF Roles, Role, Threads
    <3>2. owed[u] = {}
      BY <3>1 DEF Owing
    <3>3. got'[u] = got[u]
      BY <1>2, <1>5 DEF TypeOK, Threads
    <3> QED
      BY <1>1, <3>1, <3>2, <3>3
  <2> QED
    BY <2>2 DEF Owing
<1> QED
  BY <1>4, <1>5

LEMMA WaitPendingBeginOwing ==
    ASSUME TypeOK, Roles, Wire, Owing, NEW t \in Threads, WaitPendingBegin(t)
    PROVE  Owing'
<1>1. /\ pc[t] = "idle" /\ t \in AppThreads
      /\ UNCHANGED <<pendings, got, answers>>
      /\ \/ UNCHANGED <<pc, isEmpty, owed>>
         \/ /\ isEmpty' = [isEmpty EXCEPT ![t] = FALSE]
            /\ owed' = [owed EXCEPT ![t] = {p.seqid : p \in pendings}]
            /\ pc' = [pc EXCEPT ![t] = "lockTake"]
  BY DEF WaitPendingBegin, Goto, clientVars
<1>2. CASE UNCHANGED <<pc, isEmpty, owed>>
  BY <1>1, <1>2, OwingKept
<1>3. CASE /\ isEmpty' = [isEmpty EXCEPT ![t] = FALSE]
           /\ owed' = [owed EXCEPT ![t] = {p.seqid : p \in pendings}]
           /\ pc' = [pc EXCEPT ![t] = "lockTake"]
  <2>1. \A p \in pendings : p.seqid \in 1..MaxCalls
    <3>1. \A p \in pendings : p.seqid \in 0..MaxCalls /\ p.seqid \in 1..Drawn
      BY DEF Wire, Calls, Open, Packet
    <3> QED
      BY <3>1, BoundsAssumption
  <2>2. /\ owed'[t] = {p.seqid : p \in pendings} /\ pc'[t] = "lockTake" /\ isEmpty'[t] = FALSE
        /\ \A u \in Threads \ {t} : owed'[u] = owed[u] /\ pc'[u] = pc[u] /\ isEmpty'[u] = isEmpty[u]
    BY <1>3 DEF TypeOK
  <2>3. ASSUME NEW u \in AppThreads
        PROVE  /\ owed'[u] \subseteq 1..MaxCalls
               /\ owed'[u] # {} => got[u] # NoPacket \/ pc'[u] \in {"lockTake", "take"}
               /\ \A i \in owed'[u] : \/ answers[i] # <<>>
                                      \/ \E p \in pendings : p.seqid = i
                                      \/ pc'[u] = "asyncArgs" /\ got[u].seqid = i
               /\ got[u] # NoPacket /\ isEmpty'[u] => \A p \in pendings : p.seqid \notin owed'[u]
    <3>1. CASE u = t
      BY <3>1, <2>1, <2>2
    <3>2. CASE u # t
      BY <3>2, <2>2 DEF Owing, Threads
    <3> QED
      BY <3>1, <3>2
  <2> QED
    BY <1>1, <2>3 DEF Owing
<1> QED
  BY <1>1, <1>2, <1>3

\* The wait is over: nothing is owed any more.
LEMMA WaitEndsOwing ==
    ASSUME TypeOK, Owing, NEW t \in AppThreads, UNCHANGED <<pendings, answers>>,
           got' = [got EXCEPT ![t] = NoPacket], owed' = [owed EXCEPT ![t] = {}],
           \A u \in Threads \ {t} : pc'[u] = pc[u] /\ isEmpty'[u] = isEmpty[u]
    PROVE  Owing'
<1>1. /\ got'[t] = NoPacket /\ owed'[t] = {}
      /\ \A u \in Threads \ {t} : got'[u] = got[u] /\ owed'[u] = owed[u]
  BY DEF TypeOK, Threads
<1>2. ASSUME NEW u \in AppThreads
      PROVE  /\ owed'[u] \subseteq 1..MaxCalls
             /\ owed'[u] # {} => got'[u] # NoPacket \/ pc'[u] \in {"lockTake", "take"}
             /\ \A i \in owed'[u] : \/ answers[i] # <<>>
                                    \/ \E p \in pendings : p.seqid = i
                                    \/ pc'[u] = "asyncArgs" /\ got'[u].seqid = i
             /\ got'[u] # NoPacket /\ isEmpty'[u] => \A p \in pendings : p.seqid \notin owed'[u]
  <2>1. CASE u = t
    BY <2>1, <1>1
  <2>2. CASE u # t
    BY <2>2, <1>1 DEF Owing, Threads
  <2> QED
    BY <2>1, <2>2
<1> QED
  BY <1>2 DEF Owing

LEMMA CallbackDoneOwing ==
    ASSUME TypeOK, Owing, NEW t \in Threads, CallbackDone(t)
    PROVE  Owing'
<1>1. pc[t] = "callback" /\ UNCHANGED <<pendings, answers, isEmpty>>
  BY DEF CallbackDone, clientVars
<1>2. CASE t \in Waiters
  <2>1. /\ pc' = [pc EXCEPT ![t] = "loop"] /\ got' = [got EXCEPT ![t] = NoPacket] /\ owed' = owed
    BY <1>2 DEF CallbackDone, Goto
  <2>2. \A u \in AppThreads : got'[u] = got[u] /\ pc'[u] = pc[u]
    BY <1>2, <2>1, ThreadsAssumption DEF TypeOK, Threads
  <2> QED
    BY <1>1, <2>1, <2>2 DEF Owing
<1>3. CASE t \notin Waiters /\ isEmpty[t]
  <2>1. /\ pc' = [pc EXCEPT ![t] = "idle"] /\ got' = [got EXCEPT ![t] = NoPacket]
        /\ owed' = [owed EXCEPT ![t] = {}] /\ t \in AppThreads
    BY <1>3 DEF CallbackDone, Goto, Threads
  <2>2. \A u \in Threads \ {t} : pc'[u] = pc[u] /\ isEmpty'[u] = isEmpty[u]
    BY <1>1, <2>1 DEF TypeOK
  <2> QED
    BY <1>1, <2>1, <2>2, WaitEndsOwing
<1>4. CASE t \notin Waiters /\ ~isEmpty[t]
  <2>1. pc' = [pc EXCEPT ![t] = "lockTake"] /\ UNCHANGED <<got, owed>>
    BY <1>4 DEF CallbackDone, Goto
  <2>2. \A u \in AppThreads : pc[u] \in {"lockTake", "take", "asyncArgs"} => pc'[u] = pc[u]
    BY <1>1, <2>1 DEF TypeOK, Threads
  <2> QED
    BY <1>1, <2>1, <2>2, OwingKept
<1> QED
  BY <1>2, <1>3, <1>4

LEMMA UnwindOwing ==
    ASSUME TypeOK, Owing, NEW t \in Threads, Unwind(t), halted' = "no",
           UNCHANGED <<pendings, answers>>
    PROVE  Owing'
<1>1. /\ t \in AppThreads /\ got' = [got EXCEPT ![t] = NoPacket] /\ owed' = [owed EXCEPT ![t] = {}]
      /\ pc' = [pc EXCEPT ![t] = "idle"] /\ isEmpty' = [isEmpty EXCEPT ![t] = TRUE]
  BY DEF Unwind, Goto
<1>2. \A u \in Threads \ {t} : pc'[u] = pc[u] /\ isEmpty'[u] = isEmpty[u]
  BY <1>1 DEF TypeOK
<1> QED
  BY <1>1, <1>2, WaitEndsOwing

LEMMA OwingStep ==
    ASSUME Disciplined, TypeOK, Roles, Wire, Owing, Next, halted' = "no"
    PROVE  Owing'
<1>1. \A i \in 1..MaxCalls : answers[i] # <<>> => answers'[i] # <<>>
  <2>1. CASE answers' = answers
    BY <2>1
  <2>2. ASSUME NEW j \in 1..MaxCalls, answers' = [answers EXCEPT ![j] = <<j>>]
        PROVE  \A i \in 1..MaxCalls : answers[i] # <<>> => answers'[i] # <<>>
    <3>1. \A i \in 1..MaxCalls : answers'[i] = IF i = j THEN <<j>> ELSE answers[i]
      BY <2>2 DEF TypeOK
    <3> QED
      BY <3>1
  <2> QED
    BY <2>1, <2>2, AnswerStep
<1>2. ASSUME NEW t \in Threads, Others(t), UNCHANGED <<owed, got, isEmpty, pendings>>,
             pc[t] \notin {"lockTake", "take", "asyncArgs"}
      PROVE  Owing'
  <2>1. \A u \in AppThreads : pc[u] \in {"lockTake", "take", "asyncArgs"} => pc'[u] = pc[u]
    BY <1>2 DEF Others, Threads
  <2> QED
    BY <1>1, <1>2, <2>1, OwingKept
<1>3. ASSUME NEW t \in Threads,
             BeginSend(t) \/ Flush(t) \/ SyncLockRead(t) \/ SyncReadSeqid(t)
      PROVE  Owing'
  <2>1. /\ UNCHANGED <<owed, got, isEmpty, pendings>>
        /\ pc[t] \in {"lockWrite", "flush", "lockRead", "readSeqid"}
        /\ \A u \in Threads \ {t} : pc'[u] = pc[u]
    BY <1>3 DEF BeginSend, Flush, SyncLockRead, SyncReadSeqid, Goto, TypeOK, clientVars, historyVars
  <2>2. \A u \in AppThreads : pc[u] \in {"lockTake", "take", "asyncArgs"} => pc'[u] = pc[u]
    BY <2>1 DEF Threads
  <2> QED
    BY <1>1, <2>1, <2>2, OwingKept
<1>4. ASSUME NEW t \in Threads, ReadBody(t) PROVE Owing'
  <2>1. /\ Reading(t).seqid \in 1..MaxCalls /\ Others(t) /\ AtBody(t)
        /\ answers' = [answers EXCEPT ![Reading(t).seqid] = <<Reading(t).seqid>>]
        /\ UNCHANGED <<owed, got, isEmpty, pendings>>
    BY <1>4, ReadBodyStep, ReadBodyRoles DEF ReadBody
  <2>2. answers'[Reading(t).seqid] # <<>>
    BY <2>1 DEF TypeOK
  <2>3. pc[t] = "asyncArgs" => Reading(t) = got[t]
    BY DEF Reading
  <2>4. /\ pc[t] \notin {"lockTake", "take"}
        /\ \A u \in AppThreads \ {t} : pc'[u] = pc[u]
    BY <2>1 DEF AtBody, Others, Threads
  <2> QED
    BY <1>1, <2>1, <2>2, <2>3, <2>4, OwingKept
<1>5. ASSUME NEW t \in Threads, ReadCallid(t) PROVE Owing'
  <2>1. Others(t) /\ AtCallid(t) /\ UNCHANGED <<owed, got, isEmpty, pendings>>
    BY <1>5, ReadCallidRoles DEF ReadCallid, historyVars, Wire
  <2> QED
    BY <2>1, <1>2 DEF AtCallid
<1>6. ASSUME NEW t \in Threads, TakeLock(t) PROVE Owing'
  <2>1. /\ UNCHANGED <<owed, got, isEmpty, pendings>>
        /\ pc[t] = "lockTake" /\ pc' = [pc EXCEPT ![t] = "take"]
    BY <1>6 DEF TakeLock, Goto, historyVars
  <2>2. \A u \in AppThreads : /\ pc[u] \in {"lockTake", "take"} => pc'[u] \in {"lockTake", "take"}
                              /\ pc[u] = "asyncArgs" => pc'[u] = pc[u]
    BY <2>1 DEF TypeOK, Threads
  <2> QED
    BY <1>1, <2>1, <2>2, OwingKept
<1>7. ASSUME NEW t \in Threads, TakeUnregistered(t) \/ Desync(t) PROVE FALSE
  <2>1. CASE TakeUnregistered(t)
    BY <2>1, TakeUnregisteredHalts DEF Wire
  <2>2. CASE Desync(t)
    BY <2>2 DEF Desync
  <2> QED
    BY <1>7, <2>1, <2>2
<1>8. ASSUME NEW t \in Threads, WaiterStart(t) \/ WaiterLoop(t) PROVE Owing'
  <2>1. Others(t) /\ pc[t] \in {"start", "loop"} /\ UNCHANGED <<owed, got, isEmpty, pendings>>
    BY <1>8, WaiterRoles DEF WaiterStart, WaiterLoop, clientVars, historyVars
  <2> QED
    BY <2>1, <1>2
<1>9. ASSUME NEW t \in Threads, SendFails(t) \/ ReadFails(t) PROVE Owing'
  BY <1>9, UnwindOwing DEF SendFails, ReadFails
<1>10. ASSUME NEW t \in Threads, StartAsync(t) PROVE Owing'
  <2>1. UNCHANGED <<owed, got, isEmpty, pendings>>
    BY <1>10 DEF StartAsync, historyVars
  <2>2. \A u \in Threads : pc'[u] = pc[u] \/ (pc[u] = "off" /\ pc'[u] = "start")
    BY <1>10, StartAsyncRoles
  <2> QED
    BY <1>1, <2>1, <2>2, OwingKept DEF Threads
<1>11. ASSUME NEW t \in Threads, NEW s \in Stubs, NEW how \in Kinds,
              NEW via \in {"prefer_id", "by_name"}, Issue(t, s, how, via)
       PROVE  Owing'
  <2>1. /\ pc[t] \in {"idle", "callback"} /\ pc' = [pc EXCEPT ![t] = "lockWrite"]
        /\ UNCHANGED <<owed, got, isEmpty, pendings>>
    BY <1>11 DEF Issue, Goto, clientVars, historyVars
  <2>2. \A u \in AppThreads : pc[u] \in {"lockTake", "take", "asyncArgs"} => pc'[u] = pc[u]
    BY <2>1 DEF Threads, TypeOK
  <2> QED
    BY <1>1, <2>1, <2>2, OwingKept
<1>12. ASSUME UNCHANGED <<pc, owed, got, isEmpty, pendings>> PROVE Owing'
  BY <1>1, <1>12, OwingKept
<1>13. ASSUME NEW t \in Threads, StopAsync(t) PROVE Owing'
  BY <1>12, <1>13 DEF StopAsync, threadVars, historyVars
<1>14. CASE SessionStep \/ ServantThrows \/ ConnectionLost
  <2>1. UNCHANGED <<clientVars, threadVars, owed>>
    BY <1>14 DEF SessionStep, Execute, UnknownFunction, SendReply, ReplyFails, SessionEof,
                 EndSession, ServantThrows, ConnectionLost, historyVars
  <2> QED
    BY <1>12, <2>1 DEF clientVars, threadVars
<1> QED
  BY <1>3, <1>4, <1>5, <1>6, <1>7, <1>8, <1>9, <1>10, <1>11, <1>13, <1>14, RegisterOwing,
     TakeRegisteredOwing, WaitPendingBeginOwing, CallbackDoneOwing
  DEF Next, Step, Choose
-----------------------------------------------------------------------------
(* The invariant                                                             *)

LEMMA DInvParts == DInv <=> Sound /\ (halted = "no" => Roles /\ Wire /\ Owing)
BY DEF DInv, Wire

\* Nothing happens any more once the client has stopped.
LEMMA StoppedStays == Next => halted = "no"
BY DEF Next, Step, Choose, BeginSend, Flush, Register, SendFails, SyncLockRead, SyncReadSeqid,
       ReadBody, ReadCallid, Reads, TakeLock, TakeRegistered, TakeUnregistered, CallbackDone,
       WaiterStart, WaiterLoop, ReadFails, Desync, Issue, WaitPendingBegin, StartAsync, StopAsync,
       SessionStep, Execute, UnknownFunction, ReadRequest, SendReply, ReplyFails, SessionEof,
       ServantThrows, ConnectionLost

LEMMA DInit == Init => DInv
<1> SUFFICES ASSUME Init PROVE DInv
  OBVIOUS
<1>1. Len(up) = 0 /\ Len(down) = 0 /\ Len(executed) = 0 /\ down = <<>>
  BY DEF Init
<1>2. Open = {} /\ BodyDue = {} /\ CallidDue = {} /\ Drawn = 0
  BY DEF Init, Open, BodyDue, CallidDue, Drawn, SentOut, AtBody, AtCallid, Threads
<1>3. Sound
  BY <1>1 DEF Init, Sound, CallIdSound, OwnAnswer
<1>4. Roles
  BY ThreadsAssumption DEF Init, Roles, Role, Sends, ReadsReply, SentOut, Threads
<1>5. Calls /\ Requests /\ Replies /\ Due
  BY <1>1, <1>2 DEF Init, Calls, Requests, Replies, Due
<1>6. Owing
  BY DEF Init, Owing, Threads
<1> QED
  BY <1>3, <1>4, <1>5, <1>6 DEF DInv

LEMMA DStutter == DInv /\ UNCHANGED vars => DInv'
<1> SUFFICES ASSUME DInv, UNCHANGED vars PROVE DInv'
  OBVIOUS
<1>1. /\ UNCHANGED <<clientVars, threadVars>>
      /\ UNCHANGED <<callId, pendings, pc, got, isEmpty, halted, up, down, connected, session,
                     serving, executed, answers, owed>>
  BY DEF vars, clientVars, threadVars, wireVars, sessionVars, historyVars
<1>2. UNCHANGED <<Open, BodyDue, CallidDue, Drawn>> /\ (Roles => Roles')
  BY <1>1, ClientStays
<1>3. Wire => Wire'
  BY <1>1, <1>2, WireStays
<1>4. Owing => Owing'
  BY <1>1 DEF Owing
<1>5. Sound => Sound'
  BY <1>1 DEF Sound, CallIdSound, OwnAnswer
<1> QED
  BY <1>1, <1>2, <1>3, <1>4, <1>5, DInvParts DEF DInv, Wire

LEMMA DStep == Disciplined /\ IInv /\ IInv' /\ DInv /\ [Next]_vars => DInv'
<1> SUFFICES ASSUME Disciplined, IInv, IInv', DInv, Next PROVE DInv'
  BY DStutter
<1>1. halted = "no" /\ TypeOK /\ Roles /\ Wire /\ Owing /\ CallIdSound /\ OwnAnswer
  BY StoppedStays, DInvParts DEF IInv, TypeInv, Sound
<1>2. halted' \in {"no", "terminate", "client.cpp:104"}
  BY <1>1, HaltStep
<1>3. CallIdSound'
  BY <1>1, CallIdStep
<1>4. OwnAnswer'
  <2>1. CASE answers' = answers
    BY <1>1, <2>1 DEF OwnAnswer
  <2>2. ASSUME NEW j \in 1..MaxCalls, answers' = [answers EXCEPT ![j] = <<j>>]
        PROVE  OwnAnswer'
    <3>1. \A i \in 1..MaxCalls : answers'[i] = IF i = j THEN <<j>> ELSE answers[i]
      BY <1>1, <2>2 DEF TypeOK
    <3> QED
      BY <1>1, <3>1 DEF OwnAnswer
  <2> QED
    BY <1>1, <2>1, <2>2, AnswerStep
<1>5. halted' = "no" => Roles' /\ Wire' /\ Owing'
  BY <1>1, WireStep, OwingStep
<1> QED
  BY <1>2, <1>3, <1>4, <1>5 DEF DInv, Sound, Wire

LEMMA DisciplineHolds == Disciplined => (Spec => [](IInv /\ DInv))
<1> SUFFICES ASSUME Disciplined PROVE Spec => [](IInv /\ DInv)
  OBVIOUS
<1>1. Init => IInv /\ DInv
  BY InitIInv, DInit
<1>2. IInv /\ DInv /\ [Next]_vars => (IInv /\ DInv)'
  BY StepIInv, DStep
<1> QED
  BY <1>1, <1>2, PTL DEF Spec

\* A cached m_callid is the id of its function, and so is every id on its way:
\* no call by id reaches another function, for any number of functions, calls
\* and failures, and whatever the callbacks call.
THEOREM LearntIds == Disciplined => (Spec => []CallIdSound)
<1>1. DInv => CallIdSound
  BY DEF DInv, Sound
<1> QED
  BY <1>1, DisciplineHolds, PTL

\* No call is answered twice, or with the answer of another call.
THEOREM AnswersFit == Disciplined => (Spec => []OwnAnswer)
<1>1. DInv => OwnAnswer
  BY DEF DInv, Sound
<1> QED
  BY <1>1, DisciplineHolds, PTL

\* The reply of every pending call is still to come, as long as both ends are
\* there: a call that is registered is never registered too late to be answered.
THEOREM NoneForgotten == Disciplined => (Spec => []NoOrphan)
<1>1. DInv => NoOrphan
  BY DEF DInv, NoOrphan, Requests, Open
<1> QED
  BY <1>1, DisciplineHolds, PTL

\* The assert of a synchronous call, client.hpp:176, does not fail, and no part of
\* a reply is read as another one.
THEOREM RepliesFit == Disciplined => (Spec => [](ReplyIsOwn /\ RepliesStayWhole))
<1>1. DInv => ReplyIsOwn /\ RepliesStayWhole
  BY DEF DInv, Sound, ReplyIsOwn, RepliesStayWhole
<1> QED
  BY <1>1, DisciplineHolds, PTL

\* Only the end of a callback takes a thread of the program out of it and back.
LEMMA ReturnsOnce ==
    ASSUME TypeOK, NEW t \in AppThreads, pc[t] = "callback", pc'[t] = "idle", Next
    PROVE  CallbackDone(t)
<1>0. t \in Threads /\ pc \in [Threads -> Labels]
  BY DEF Threads, TypeOK
<1>1. ASSUME NEW u \in Threads, NEW label, Goto(u, label)
      PROVE  u = t /\ label = "idle"
  BY <1>0, <1>1 DEF Goto
<1>2. ASSUME UNCHANGED pc PROVE FALSE
  BY <1>2
<1>3. ASSUME NEW u \in Threads, BeginSend(u) \/ Flush(u) \/ Register(u) \/ SendFails(u)
      PROVE  FALSE
  BY <1>1, <1>3 DEF BeginSend, Flush, Register, SendFails, Unwind
<1>4. ASSUME NEW u \in Threads, SyncLockRead(u) \/ TakeLock(u) \/ WaiterStart(u) \/ WaiterLoop(u)
      PROVE  FALSE
  BY <1>1, <1>4 DEF SyncLockRead, TakeLock, WaiterStart, WaiterLoop
<1>5. ASSUME NEW u \in Threads, SyncReadSeqid(u) PROVE FALSE
  BY <1>1, <1>2, <1>5 DEF SyncReadSeqid
<1>6. ASSUME NEW u \in Threads, ReadBody(u) \/ ReadCallid(u) PROVE FALSE
  <2>1. pc[u] \in {"syncArgs", "asyncArgs", "syncCallid", "asyncCallid"}
    BY <1>6 DEF ReadBody, ReadCallid, Reads, Expected
  <2>2. \E label : Goto(u, label)
    BY <1>6 DEF ReadBody, ReadCallid, EndRead
  <2> QED
    BY <1>1, <2>1, <2>2
<1>7. ASSUME NEW u \in Threads, TakeRegistered(u) \/ TakeUnregistered(u) \/ ReadFails(u)
      PROVE  FALSE
  <2>1. pc[u] # "callback"
    BY <1>7, ReadLabels DEF TakeRegistered, TakeUnregistered, ReadFails
  <2>2. \E label : Goto(u, label)
    BY <1>7 DEF TakeRegistered, TakeUnregistered, ReadFails, Unwind
  <2> QED
    BY <1>1, <2>1, <2>2
<1>8. ASSUME NEW u \in Threads, Choose(u) PROVE FALSE
  <2>1. CASE \E s \in Stubs, how \in Kinds, via \in {"prefer_id", "by_name"} : Issue(u, s, how, via)
    BY <1>1, <2>1 DEF Issue
  <2>2. CASE WaitPendingBegin(u)
    BY <1>1, <1>2, <2>2 DEF WaitPendingBegin
  <2>3. CASE StartAsync(u)
    BY <1>0, <2>3, ThreadsAssumption DEF StartAsync
  <2>4. CASE StopAsync(u)
    BY <1>2, <2>4 DEF StopAsync, threadVars
  <2> QED
    BY <1>8, <2>1, <2>2, <2>3, <2>4 DEF Choose
<1>9. ASSUME NEW u \in Threads, Desync(u) PROVE FALSE
  BY <1>2, <1>9 DEF Desync
<1>10. ASSUME SessionStep \/ ServantThrows \/ ConnectionLost PROVE FALSE
  <2>1. UNCHANGED threadVars
    BY <1>10 DEF SessionStep, Execute, UnknownFunction, SendReply, ReplyFails, SessionEof,
                 EndSession, ServantThrows, ConnectionLost
  <2> QED
    BY <1>2, <2>1 DEF threadVars
<1>11. ASSUME NEW u \in Threads, CallbackDone(u) PROVE u = t
  <2>1. \E label : Goto(u, label)
    BY <1>11 DEF CallbackDone
  <2> QED
    BY <1>1, <2>1
<1> QED
  BY <1>3, <1>4, <1>5, <1>6, <1>7, <1>8, <1>9, <1>10, <1>11 DEF Next, Step

\* When wait_pending_async returns, every call that was pending when it was
\* entered has been answered.
THEOREM WaitDrains == Disciplined => (Spec => DrainedOnReturn)
<1> DEFINE Drained == \A t \in AppThreads :
              pc[t] = "callback" /\ pc'[t] = "idle" /\ got[t] # NoPacket
                 => \A i \in owed[t] : answers'[i] # <<>>
<1>1. ASSUME IInv, DInv, [Next]_vars PROVE Drained
  <2>1. SUFFICES ASSUME NEW t \in AppThreads, pc[t] = "callback", pc'[t] = "idle",
                        got[t] # NoPacket
                 PROVE  \A i \in owed[t] : answers'[i] # <<>>
    OBVIOUS
  <2>2. Next
    BY <1>1, <2>1 DEF vars, threadVars
  <2>3. TypeOK /\ Owing /\ t \in Threads
    BY <1>1, <2>2, StoppedStays DEF IInv, TypeInv, DInv, Threads
  <2>4. CallbackDone(t)
    BY <2>1, <2>2, <2>3, ReturnsOnce
  <2>5. answers' = answers /\ t \notin Waiters
    BY <2>4, ThreadsAssumption DEF CallbackDone
  <2>6. isEmpty[t]
    <3>1. ~isEmpty[t] => Goto(t, "lockTake")
      BY <2>4, <2>5 DEF CallbackDone
    <3> QED
      BY <2>1, <2>3, <3>1 DEF Goto, TypeOK
  <2> QED
    BY <2>1, <2>3, <2>5, <2>6 DEF Owing
<1>2. IInv /\ DInv /\ [Next]_vars => [Drained]_vars
  BY <1>1
<1> QED
  BY <1>2, DisciplineHolds, PTL DEF Spec, DrainedOnReturn
-----------------------------------------------------------------------------
(* The promise                                                               *)

LEMMA PromiseInit == Init => Promise!Init
BY DEF Init, Promise!Init

LEMMA PromiseStep ==
    ASSUME Disciplined, IInv, IInv', DInv, Next
    PROVE  Promise!Next \/ UNCHANGED Promise!vars
<1>1. TypeOK /\ TypeOK' /\ InOrderOnce /\ Roles /\ Wire
  BY StoppedStays, DInvParts DEF IInv, TypeInv
<1>2. ASSUME UNCHANGED <<sequenceId, executed, answers, session, connected>>
      PROVE  UNCHANGED Promise!vars
  BY <1>2 DEF Promise!vars
<1>3. ASSUME UNCHANGED <<sequenceId, executed, answers>>, session' = "ended" \/ ~connected'
      PROVE  Promise!Break
  BY <1>3 DEF Promise!Break
<1>4. ASSUME NEW t \in Threads, BeginSend(t) PROVE Promise!Request
  <2>1. sequenceId' = sequenceId + 1 /\ UNCHANGED <<executed, answers, session, connected>>
    BY <1>4 DEF BeginSend, NextSequenceId, wireVars, sessionVars, historyVars
  <2>2. sequenceId < MaxCalls
    BY <1>1, <2>1, BoundsAssumption DEF TypeOK
  <2> QED
    BY <2>1, <2>2 DEF Promise!Request
<1>5. CASE Execute
  <2>1. Open' = Open /\ BodyDue' = BodyDue /\ CallidDue' = CallidDue /\ Drawn' = Drawn
    BY <1>5, ClientStays DEF Execute
  <2>2. Len(executed) < Drawn /\ Len(executed') = Len(executed) + 1
    BY <1>1, <1>5, <2>1, ExecuteWire
  <2>3. Len(executed) < sequenceId
    BY <1>1, <2>2 DEF TypeOK, Drawn
  <2>4. UNCHANGED <<sequenceId, answers, session, connected>>
    BY <1>5 DEF Execute, clientVars
  <2>5. Promise!Execute
    BY <2>2, <2>3, <2>4 DEF Promise!Execute
  <2> QED
    BY <2>5 DEF Promise!Next
<1>6. ASSUME NEW t \in Threads, ReadBody(t) PROVE Promise!Next
  <2>1. /\ Reading(t).seqid \in 1..MaxCalls
        /\ Reading(t).seqid \in 1..Len(executed) /\ answers[Reading(t).seqid] = <<>>
        /\ answers' = [answers EXCEPT ![Reading(t).seqid] = <<Reading(t).seqid>>]
    BY <1>1, <1>6, ReadBodyStep
  <2>2. UNCHANGED <<sequenceId, executed, connected, session>>
    BY <1>6 DEF ReadBody, sessionVars
  <2>3. Promise!Answer(Reading(t).seqid)
    BY <2>1, <2>2 DEF Promise!Answer
  <2> QED
    BY <2>1, <2>3 DEF Promise!Next
<1>7. CASE UnknownFunction \/ ReplyFails \/ SessionEof \/ ServantThrows \/ ConnectionLost
  <2>1. UNCHANGED <<sequenceId, executed, answers>> /\ (session' = "ended" \/ ~connected')
    BY <1>7 DEF UnknownFunction, ReplyFails, SessionEof, ServantThrows, EndSession, ConnectionLost,
                clientVars, historyVars
  <2> QED
    BY <1>3, <2>1 DEF Promise!Next
<1>8. CASE SendReply
  BY <1>2, <1>8 DEF SendReply, clientVars, historyVars
<1>9. ASSUME NEW t \in Threads,
             \/ Flush(t) \/ Register(t) \/ SendFails(t) \/ SyncLockRead(t) \/ SyncReadSeqid(t)
             \/ ReadCallid(t) \/ TakeLock(t) \/ TakeRegistered(t)
      PROVE  UNCHANGED Promise!vars
  BY <1>2, <1>9 DEF Flush, Register, SendFails, SyncLockRead, SyncReadSeqid, ReadCallid, TakeLock,
                    TakeRegistered, clientVars, wireVars, sessionVars, historyVars
<1>10. ASSUME NEW t \in Threads,
              \/ TakeUnregistered(t) \/ CallbackDone(t) \/ WaiterStart(t) \/ WaiterLoop(t)
              \/ ReadFails(t) \/ Desync(t) \/ Choose(t)
       PROVE  UNCHANGED Promise!vars
  BY <1>2, <1>10 DEF TakeUnregistered, CallbackDone, WaiterStart, WaiterLoop, ReadFails, Desync,
                     Choose, Issue, WaitPendingBegin, StartAsync, StopAsync,
                     clientVars, wireVars, sessionVars, historyVars
<1> QED
  BY <1>4, <1>5, <1>6, <1>7, <1>8, <1>9, <1>10 DEF Next, Step, SessionStep, Promise!Next

\* Numbering, execution and answers are those of CallSpec, step by step: a number
\* is drawn for each call, the calls are executed in the order of their numbers,
\* and each is given the one answer that was computed for it, after it was.
THEOREM KeepsPromise == Disciplined => (Spec => ImplementsSafety)
<1> SUFFICES ASSUME Disciplined PROVE Spec => ImplementsSafety
  OBVIOUS
<1>1. Spec => [](IInv /\ DInv)
  BY DisciplineHolds
<1>2. IInv /\ DInv /\ IInv' /\ [Next]_vars => [Promise!Next]_(Promise!vars)
  <2>1. UNCHANGED vars => UNCHANGED Promise!vars
    BY DEF vars, clientVars, wireVars, sessionVars, historyVars, Promise!vars
  <2> QED
    BY <2>1, PromiseStep
<1> QED
  BY <1>1, <1>2, PromiseInit, PTL DEF Spec, ImplementsSafety, Promise!Safety
=============================================================================
