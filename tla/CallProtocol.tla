---------------------------- MODULE CallProtocol ----------------------------
(***************************************************************************)
(* One client of nark-rpc, the connection, and the session that serves it. *)
(*                                                                         *)
(* Client: any number of program threads share one rpc_client.  A thread   *)
(* calls a stub synchronously (client_stub_ref::operator(), byname) or     *)
(* asynchronously (async, async_byname) and collects the answers of its    *)
(* asynchronous calls in wait_pending_async, or leaves that to the waiter  *)
(* threads of start_async.  m_mutex_write guards a request while it is     *)
(* written, m_mutex_read the input while the sequence number of a reply is *)
(* read; m_mutex_pendings guards single operations on m_pendings, which    *)
(* are single steps here.                                                  *)
(*                                                                         *)
(* Wire: two bounded FIFO streams.  A request is one message; a reply is   *)
(* its sequence number, its body (return value and arguments) and, when    *)
(* the call was by name, the id of the function, each read on its own.     *)
(*                                                                         *)
(* Server: the session thread reads one request, executes it and writes    *)
(* its reply before it reads the next one.                                 *)
(*                                                                         *)
(* The build is the debug build of the README: a failed assert stops the   *)
(* client process, which the model records in `halted`.  Reading a part of *)
(* a reply as something else is recorded there too, and not followed.      *)
(***************************************************************************)
EXTENDS Integers, Sequences, FiniteSets

CONSTANTS
    AppThreads,     \* the program's own threads
    Waiters,        \* the threads start_async creates
    Stubs,          \* the functions the client has a stub for
    Registered,     \* those of them the server knows
    StubId,         \* their positions in the server's m_stubTable
    Kinds,          \* "synch", "asynch": the calls the program makes
    Mixing,         \* may it start a call while another reader is at work?
    Chaining,       \* may a callback make further calls?
    Faults,         \* "servant", "connection": what may fail
    MaxCalls,       \* bound: calls in one behaviour
    UpCap,          \* bound: requests the connection can hold
    DownCap,        \* bound: reply parts after which a writer waits
    NoThread, NoPacket, NoRequest

Threads == AppThreads \cup Waiters

ASSUME ThreadsAssumption ==
    IsFiniteSet(Threads) /\ NoThread \notin Threads /\ AppThreads \cap Waiters = {}
ASSUME StubsAssumption ==
    /\ Registered \subseteq Stubs
    /\ StubId \in [Stubs -> Nat \ {0}]
    /\ \A r, s \in Stubs : StubId[r] = StubId[s] => r = s
ASSUME UsageAssumption ==
    /\ Kinds \subseteq {"synch", "asynch"}
    /\ Faults \subseteq {"servant", "connection"}
    /\ {Mixing, Chaining} \subseteq BOOLEAN
ASSUME BoundsAssumption ==
    MaxCalls \in Nat /\ UpCap \in Nat \ {0} /\ DownCap \in Nat \ {0}

\* A client_packet.  `via` is the entry point of the stub: the ones that
\* prefer the id, or the ones that always send the name.
Packet == [stub : Stubs, how : {"synch", "asynch"}, via : {"prefer_id", "by_name"},
           isbyid : BOOLEAN, seqid : 0..MaxCalls]

\* What a request carries: `callid` 0 announces the function's name.
Request == [seqid : 1..MaxCalls, callid : Nat, name : Stubs]

\* One separately read part of a reply.
Part == [field : {"seqid", "body", "callid"}, val : Nat]

ASSUME NullsAssumption == NoPacket \notin Packet /\ NoRequest \notin Request

VARIABLES
    \* rpc_client_base and its stubs
    sequenceId,     \* m_sequence_id
    callId,         \* m_callid of every stub
    pendings,       \* m_pendings
    writeMutex,     \* m_mutex_write: the thread that holds it
    readMutex,      \* m_mutex_read: the thread that holds it
    run,            \* m_run
    \* the client's threads
    pc,             \* where each thread is
    out,            \* the packet it sends
    got,            \* `packet` of wait_pending_async and wait_async_return_once
    vseqid,         \* `vseqid1` of t_call_byid and t_call_byname
    isEmpty,        \* `isEmpty` of wait_pending_async
    halted,         \* "no", or why the client process stopped
    \* the connection
    up, down, connected,
    \* the session
    session,        \* "running" until run() leaves its loop
    serving,        \* the request executed and not yet answered
    \* history
    executed,       \* sequence numbers in the order the server executed them
    answers,        \* answers[i]: the bodies call i has been given
    owed            \* calls pending when a thread entered wait_pending_async

clientVars  == <<sequenceId, callId, pendings, writeMutex, readMutex, run>>
threadVars  == <<pc, out, got, vseqid, isEmpty, halted>>
wireVars    == <<up, down, connected>>
sessionVars == <<session, serving>>
historyVars == <<executed, answers, owed>>
vars == <<clientVars, threadVars, wireVars, sessionVars, historyVars>>

Init ==
    /\ sequenceId = 0
    /\ callId = [s \in Stubs |-> 0]
    /\ pendings = {}
    /\ writeMutex = NoThread
    /\ readMutex = NoThread
    /\ run = FALSE
    /\ pc = [t \in Threads |-> IF t \in AppThreads THEN "idle" ELSE "off"]
    /\ out = [t \in Threads |-> NoPacket]
    /\ got = [t \in Threads |-> NoPacket]
    /\ vseqid = [t \in Threads |-> 0]
    /\ isEmpty = [t \in Threads |-> TRUE]
    /\ halted = "no"
    /\ up = <<>>
    /\ down = <<>>
    /\ connected = TRUE
    /\ session = "running"
    /\ serving = NoRequest
    /\ executed = <<>>
    /\ answers = [i \in 1..MaxCalls |-> <<>>]
    /\ owed = [t \in Threads |-> {}]
-----------------------------------------------------------------------------
(* Parts of the client that several actions share.                          *)

\* Slips in them, for the mutation runs: the number does not advance, a
\* mutex is not taken or not released, the first packet is taken whatever its
\* number, it is not erased, `empty` is asked before the erase or not at all.
NextSequenceIdOld == sequenceId
MayWriteUnlocked == TRUE
UnlockWriteForgotten(t) == writeMutex
UnlockReadForgotten(t) == readMutex
FindPendingAny(seqid) == pendings
EraseForgotten(p) == pendings
NoneLeftEarly(p) == pendings = {}
NoneLeftAssumed(p) == TRUE

\* next_sequence_id
NextSequenceId == sequenceId + 1

MayWrite == writeMutex = NoThread
MayRead == readMutex = NoThread

\* The scoped_lock of thread t goes out of scope, by a return or an exception.
UnlockWrite(t) == IF writeMutex = t THEN NoThread ELSE writeMutex
UnlockRead(t) == IF readMutex = t THEN NoThread ELSE readMutex

\* m_pendings: find, what an erase leaves, and `empty` after it.
FindPending(seqid) == {p \in pendings : p.seqid = seqid}
Erase(p) == pendings \ {p}
NoneLeft(p) == pendings \ {p} = {}
-----------------------------------------------------------------------------
(* Calling: client_stub_ref, client_packet_io::t_call_by..., t_send_..._args *)

Goto(t, label) == pc' = [pc EXCEPT ![t] = label]

\* Where a call that is over returns to: the callback that made it, if any.
Caller(t) == IF got[t] = NoPacket THEN "idle" ELSE "callback"

WaitersOff == \A w \in Waiters : pc[w] = "off"

\* The usage under which no thread reads what another one waits for: a
\* synchronous call, or wait_pending_async, with no other reader at work.
Undisturbed(how) ==
    \/ Mixing
    \/ how = "asynch"
    \/ pendings = {} /\ WaitersOff

\* The calls that have a number or are about to get one.
Issued == sequenceId + Cardinality({t \in Threads : pc[t] = "lockWrite"})

\* By id only if the stub has learnt the function's id already.
NewPacket(s, how, via) ==
    [stub |-> s, how |-> how, via |-> via,
     isbyid |-> via = "prefer_id" /\ callId[s] # 0, seqid |-> 0]

\* A thread calls a stub.
Issue(t, s, how, via) ==
    /\ halted = "no"
    /\ \/ t \in AppThreads /\ pc[t] = "idle"
       \/ Chaining /\ pc[t] = "callback"
    /\ how \in Kinds
    /\ Undisturbed(how)
    /\ Issued < MaxCalls
    /\ out' = [out EXCEPT ![t] = NewPacket(s, how, via)]
    /\ Goto(t, "lockWrite")
    /\ UNCHANGED <<clientVars, got, vseqid, isEmpty, halted, wireVars,
                   sessionVars, historyVars>>

\* The sequence number is drawn under m_mutex_write.
BeginSend(t) ==
    /\ halted = "no"
    /\ pc[t] = "lockWrite"
    /\ MayWrite
    /\ writeMutex' = t
    /\ sequenceId' = NextSequenceId
    /\ out' = [out EXCEPT ![t].seqid = NextSequenceId]
    /\ Goto(t, "flush")
    /\ UNCHANGED <<callId, pendings, readMutex, run, got, vseqid, isEmpty,
                   halted, wireVars, sessionVars, historyVars>>

RequestOf(p) ==
    [seqid |-> p.seqid, callid |-> IF p.isbyid THEN callId[p.stub] ELSE 0, name |-> p.stub]

AfterSend(p) == IF p.how = "synch" THEN "lockRead" ELSE "register"

\* flush() blocks while the connection takes no more; the lock goes with it.
Flush(t) ==
    /\ halted = "no"
    /\ pc[t] = "flush"
    /\ connected
    /\ Len(up) < UpCap
    /\ up' = Append(up, RequestOf(out[t]))
    /\ writeMutex' = UnlockWrite(t)
    /\ Goto(t, AfterSend(out[t]))
    /\ UNCHANGED <<sequenceId, callId, pendings, readMutex, run, out, got, vseqid,
                   isEmpty, halted, down, connected, sessionVars, historyVars>>

\* async_packet: the packet becomes pending after its request has left.
Register(t) ==
    /\ halted = "no"
    /\ pc[t] = "register"
    /\ pendings' = pendings \cup {out[t]}
    /\ out' = [out EXCEPT ![t] = NoPacket]
    /\ Goto(t, Caller(t))
    /\ UNCHANGED <<sequenceId, callId, writeMutex, readMutex, run, got, vseqid,
                   isEmpty, halted, wireVars, sessionVars, historyVars>>
-----------------------------------------------------------------------------
(* Reading a reply: t_call_by..., t_read_args, on_return                    *)

\* What a thread reads next.
Expected == [readSeqid |-> "seqid", take |-> "seqid", syncArgs |-> "body",
             asyncArgs |-> "body", syncCallid |-> "callid", asyncCallid |-> "callid"]

Reads(t, field) ==
    /\ halted = "no"
    /\ pc[t] \in DOMAIN Expected
    /\ Expected[pc[t]] = field
    /\ down # <<>>
    /\ Head(down).field = field
    /\ down' = Tail(down)

SyncLockRead(t) ==
    /\ halted = "no"
    /\ pc[t] = "lockRead"
    /\ MayRead
    /\ readMutex' = t
    /\ Goto(t, "readSeqid")
    /\ UNCHANGED <<sequenceId, callId, pendings, writeMutex, run, out, got, vseqid,
                   isEmpty, halted, wireVars, sessionVars, historyVars>>

\* operator() asserts at once that the reply is its own; byname later.
SyncReadSeqid(t) ==
    /\ pc[t] = "readSeqid"
    /\ Reads(t, "seqid")
    /\ vseqid' = [vseqid EXCEPT ![t] = Head(down).val]
    /\ IF out[t].via = "prefer_id" /\ Head(down).val # out[t].seqid
         THEN halted' = "client.hpp:176" /\ UNCHANGED pc
         ELSE Goto(t, "syncArgs") /\ UNCHANGED halted
    /\ UNCHANGED <<clientVars, out, got, isEmpty, up, connected, sessionVars, historyVars>>

\* The packet whose arguments a thread reads.
Reading(t) == IF pc[t] \in {"syncArgs", "syncCallid"} THEN out[t] ELSE got[t]

\* The last part is read.  A synchronous call unlocks m_mutex_read and returns,
\* an asynchronous one, which reads without that lock, calls back.
EndRead(t) ==
    IF pc[t] \in {"syncArgs", "syncCallid"}
    THEN /\ readMutex' = UnlockRead(t)
         /\ halted' = IF vseqid[t] = out[t].seqid THEN "no" ELSE "client.hpp:188"
         /\ out' = [out EXCEPT ![t] = NoPacket]
         /\ vseqid' = [vseqid EXCEPT ![t] = 0]
         /\ Goto(t, Caller(t))
    ELSE /\ Goto(t, "callback")
         /\ UNCHANGED <<readMutex, halted, out, vseqid>>

ReadBody(t) ==
    /\ Reads(t, "body")
    /\ answers' = [answers EXCEPT ![Reading(t).seqid] = Append(@, Head(down).val)]
    /\ IF Reading(t).isbyid
         THEN EndRead(t)
         ELSE /\ Goto(t, IF pc[t] = "syncArgs" THEN "syncCallid" ELSE "asyncCallid")
              /\ UNCHANGED <<readMutex, halted, out, vseqid>>
    /\ UNCHANGED <<sequenceId, callId, pendings, writeMutex, run, got, isEmpty,
                   up, connected, sessionVars, executed, owed>>

\* Called by name: the stub learns the function's id.
ReadCallid(t) ==
    /\ Reads(t, "callid")
    /\ callId' = [callId EXCEPT ![Reading(t).stub] = Head(down).val]
    /\ EndRead(t)
    /\ UNCHANGED <<sequenceId, pendings, writeMutex, run, got, isEmpty,
                   up, connected, sessionVars, historyVars>>

\* The next part of the input is not the one the thread takes it for.
Desync(t) ==
    /\ halted = "no"
    /\ pc[t] \in DOMAIN Expected
    /\ down # <<>>
    /\ Head(down).field # Expected[pc[t]]
    /\ halted' = "desync"
    /\ UNCHANGED <<clientVars, pc, out, got, vseqid, isEmpty, wireVars, sessionVars,
                   historyVars>>
-----------------------------------------------------------------------------
(* Collecting asynchronous answers: wait_pending_async, wait_async_return    *)

\* wait_pending_async looks once whether there is anything to wait for.
WaitPendingBegin(t) ==
    /\ halted = "no"
    /\ t \in AppThreads
    /\ pc[t] = "idle"
    /\ Mixing \/ WaitersOff
    /\ IF pendings = {}
         THEN UNCHANGED <<pc, isEmpty, owed>>
         ELSE /\ isEmpty' = [isEmpty EXCEPT ![t] = FALSE]
              /\ owed' = [owed EXCEPT ![t] = {p.seqid : p \in pendings}]
              /\ Goto(t, "lockTake")
    /\ UNCHANGED <<clientVars, out, got, vseqid, halted, wireVars, sessionVars,
                   executed, answers>>

TakeLock(t) ==
    /\ halted = "no"
    /\ pc[t] = "lockTake"
    /\ MayRead
    /\ readMutex' = t
    /\ Goto(t, "take")
    /\ UNCHANGED <<sequenceId, callId, pendings, writeMutex, run, out, got, vseqid,
                   isEmpty, halted, wireVars, sessionVars, historyVars>>

\* The reply of a pending call: the packet leaves m_pendings, m_mutex_read is
\* unlocked, and on_return goes on to read the arguments.
TakeRegistered(t) ==
    /\ pc[t] = "take"
    /\ Reads(t, "seqid")
    /\ \E p \in FindPending(Head(down).val) :
          /\ got' = [got EXCEPT ![t] = p]
          /\ pendings' = Erase(p)
          /\ isEmpty' = IF t \in AppThreads THEN [isEmpty EXCEPT ![t] = NoneLeft(p)]
                                           ELSE isEmpty
    /\ readMutex' = UnlockRead(t)
    /\ Goto(t, "asyncArgs")
    /\ UNCHANGED <<sequenceId, callId, writeMutex, run, out, vseqid, halted,
                   up, connected, sessionVars, historyVars>>

\* The reply of a call that is not pending.  `packet` is then null, which an
\* assert finds, or in wait_pending_async still the packet of the last round.
TakeUnregistered(t) ==
    /\ pc[t] = "take"
    /\ Reads(t, "seqid")
    /\ FindPending(Head(down).val) = {}
    /\ readMutex' = UnlockRead(t)
    /\ Goto(t, "asyncArgs")
    /\ halted' = IF got[t] # NoPacket THEN "no"
                 ELSE IF t \in AppThreads THEN "client.cpp:81" ELSE "client.cpp:104"
    /\ UNCHANGED <<sequenceId, callId, pendings, writeMutex, run, out, got, vseqid,
                   isEmpty, up, connected, sessionVars, historyVars>>

\* The callback returns: the next round, or the end of the wait.
CallbackDone(t) ==
    /\ halted = "no"
    /\ pc[t] = "callback"
    /\ IF t \in Waiters
         THEN /\ Goto(t, "loop")
              /\ got' = [got EXCEPT ![t] = NoPacket]
              /\ UNCHANGED owed
         ELSE IF isEmpty[t]
              THEN /\ Goto(t, "idle")
                   /\ got' = [got EXCEPT ![t] = NoPacket]
                   /\ owed' = [owed EXCEPT ![t] = {}]
              ELSE Goto(t, "lockTake") /\ UNCHANGED <<got, owed>>
    /\ UNCHANGED <<clientVars, out, vseqid, isEmpty, halted, wireVars, sessionVars,
                   executed, answers>>

StartAsync(t) ==
    /\ halted = "no"
    /\ t \in AppThreads
    /\ pc[t] = "idle"
    /\ Waiters # {}
    /\ WaitersOff
    /\ run' = TRUE
    /\ pc' = [u \in Threads |-> IF u \in Waiters THEN "start" ELSE pc[u]]
    /\ UNCHANGED <<sequenceId, callId, pendings, writeMutex, readMutex, out, got,
                   vseqid, isEmpty, halted, wireVars, sessionVars, historyVars>>

StopAsync(t) ==
    /\ halted = "no"
    /\ t \in AppThreads
    /\ pc[t] = "idle"
    /\ run
    /\ run' = FALSE
    /\ UNCHANGED <<sequenceId, callId, pendings, writeMutex, readMutex, threadVars,
                   wireVars, sessionVars, historyVars>>

\* wait_async_return sets m_run itself, whatever stop_async did before.
WaiterStart(t) ==
    /\ halted = "no"
    /\ pc[t] = "start"
    /\ run' = TRUE
    /\ Goto(t, "loop")
    /\ UNCHANGED <<sequenceId, callId, pendings, writeMutex, readMutex, out, got,
                   vseqid, isEmpty, halted, wireVars, sessionVars, historyVars>>

WaiterLoop(t) ==
    /\ halted = "no"
    /\ pc[t] = "loop"
    /\ Goto(t, IF run THEN "lockTake" ELSE "off")
    /\ UNCHANGED <<clientVars, out, got, vseqid, isEmpty, halted, wireVars,
                   sessionVars, historyVars>>
-----------------------------------------------------------------------------
(* Failures: an exception of the stream unwinds the call, and releases its   *)
(* locks; in a waiter thread nothing catches it and the process terminates.  *)

Unwind(t) ==
    /\ Goto(t, IF t \in AppThreads THEN "idle" ELSE "off")
    /\ halted' = IF t \in AppThreads THEN "no" ELSE "terminate"
    /\ out' = [out EXCEPT ![t] = NoPacket]
    /\ got' = [got EXCEPT ![t] = NoPacket]
    /\ vseqid' = [vseqid EXCEPT ![t] = 0]
    /\ isEmpty' = [isEmpty EXCEPT ![t] = TRUE]
    /\ owed' = [owed EXCEPT ![t] = {}]

SendFails(t) ==
    /\ halted = "no"
    /\ pc[t] = "flush"
    /\ ~connected
    /\ writeMutex' = UnlockWrite(t)
    /\ Unwind(t)
    /\ UNCHANGED <<sequenceId, callId, pendings, readMutex, run, wireVars,
                   sessionVars, executed, answers>>

ReadFails(t) ==
    /\ halted = "no"
    /\ pc[t] \in DOMAIN Expected
    /\ ~connected /\ down = <<>>
    /\ readMutex' = UnlockRead(t)
    /\ Unwind(t)
    /\ UNCHANGED <<sequenceId, callId, pendings, writeMutex, run, wireVars,
                   sessionVars, executed, answers>>

\* The connection breaks; each side still reads what had reached it.
ConnectionLost ==
    /\ halted = "no"
    /\ "connection" \in Faults
    /\ connected
    /\ connected' = FALSE
    /\ \E n \in 0..Len(up), m \in 0..Len(down) :
          /\ up' = SubSeq(up, 1, n)
          /\ down' = SubSeq(down, 1, m)
    /\ UNCHANGED <<clientVars, threadVars, sessionVars, historyVars>>
-----------------------------------------------------------------------------
(* The session: session_base::run, read_header, call, sync_call              *)

Known(r) == r.callid # 0 \/ r.name \in Registered

ReadRequest ==
    /\ halted = "no"
    /\ session = "running"
    /\ serving = NoRequest
    /\ up # <<>>
    /\ up' = Tail(up)

\* Both call modes are executed at once, by the session thread.
Execute ==
    /\ ReadRequest
    /\ Known(Head(up))
    /\ serving' = Head(up)
    /\ executed' = Append(executed, Head(up).seqid)
    /\ UNCHANGED <<clientVars, threadVars, down, connected, session, answers, owed>>

\* read_header throws, which ends run(); the connection stays open.
UnknownFunction ==
    /\ ReadRequest
    /\ ~Known(Head(up))
    /\ session' = "ended"
    /\ UNCHANGED <<clientVars, threadVars, down, connected, serving, historyVars>>

\* A slip: the position in the table, counted from 0, instead of the id.
ReplyToIndexed(r) ==
    <<[field |-> "seqid", val |-> r.seqid], [field |-> "body", val |-> r.seqid]>>
    \o (IF r.callid = 0 THEN <<[field |-> "callid", val |-> StubId[r.name] - 1]>> ELSE <<>>)

ReplyTo(r) ==
    <<[field |-> "seqid", val |-> r.seqid], [field |-> "body", val |-> r.seqid]>>
    \o (IF r.callid = 0 THEN <<[field |-> "callid", val |-> StubId[r.name]]>> ELSE <<>>)

\* do_send_args.
SendReply ==
    /\ halted = "no"
    /\ serving # NoRequest
    /\ connected
    /\ Len(down) < DownCap
    /\ down' = down \o ReplyTo(serving)
    /\ serving' = NoRequest
    /\ UNCHANGED <<clientVars, threadVars, up, connected, session, historyVars>>

EndSession ==
    /\ session' = "ended"
    /\ serving' = NoRequest
    /\ UNCHANGED <<clientVars, threadVars, wireVars, historyVars>>

\* The function throws: no reply, and run() ends.
ServantThrows ==
    /\ halted = "no"
    /\ "servant" \in Faults
    /\ serving # NoRequest
    /\ EndSession

ReplyFails ==
    /\ halted = "no"
    /\ serving # NoRequest
    /\ ~connected
    /\ EndSession

SessionEof ==
    /\ halted = "no"
    /\ session = "running"
    /\ serving = NoRequest
    /\ ~connected /\ up = <<>>
    /\ EndSession
-----------------------------------------------------------------------------
(* The steps the client's own code takes on behalf of thread t.              *)
Step(t) ==
    \/ BeginSend(t) \/ Flush(t) \/ Register(t) \/ SendFails(t)
    \/ SyncLockRead(t) \/ SyncReadSeqid(t) \/ ReadBody(t) \/ ReadCallid(t)
    \/ TakeLock(t) \/ TakeRegistered(t) \/ TakeUnregistered(t) \/ CallbackDone(t)
    \/ WaiterStart(t) \/ WaiterLoop(t) \/ ReadFails(t) \/ Desync(t)

\* What the program decides to do.
Choose(t) ==
    \/ \E s \in Stubs, how \in Kinds, via \in {"prefer_id", "by_name"} : Issue(t, s, how, via)
    \/ WaitPendingBegin(t) \/ StartAsync(t) \/ StopAsync(t)

SessionStep == Execute \/ UnknownFunction \/ SendReply \/ ReplyFails \/ SessionEof

Next ==
    \/ \E t \in Threads : Step(t) \/ Choose(t)
    \/ SessionStep \/ ServantThrows \/ ConnectionLost

\* Every thread is scheduled, callbacks return, the server's functions return;
\* nobody has to make a call, to wait or to fail.
Fairness == WF_vars(SessionStep) /\ \A t \in Threads : WF_vars(Step(t))

Spec == Init /\ [][Next]_vars
FairSpec == Spec /\ Fairness
-----------------------------------------------------------------------------
(* Types                                                                     *)

Labels == {"idle", "off", "start", "loop", "lockWrite", "flush", "register",
           "lockRead", "lockTake", "callback"} \cup DOMAIN Expected

\* Every variable has its type (one invariant for the whole module).
TypeOK ==
    /\ sequenceId \in 0..MaxCalls
    /\ callId \in [Stubs -> Nat]
    /\ pendings \subseteq Packet
    /\ writeMutex \in Threads \cup {NoThread}
    /\ readMutex \in Threads \cup {NoThread}
    /\ run \in BOOLEAN
    /\ pc \in [Threads -> Labels]
    /\ out \in [Threads -> Packet \cup {NoPacket}]
    /\ got \in [Threads -> Packet \cup {NoPacket}]
    /\ vseqid \in [Threads -> Nat]
    /\ isEmpty \in [Threads -> BOOLEAN]
    /\ halted \in {"no", "desync", "terminate", "client.hpp:176", "client.hpp:188",
                   "client.cpp:81", "client.cpp:104"}
    /\ up \in Seq(Request)
    /\ down \in Seq(Part)
    /\ connected \in BOOLEAN
    /\ session \in {"running", "ended"}
    /\ serving \in Request \cup {NoRequest}
    /\ executed \in Seq(1..MaxCalls)
    /\ answers \in [1..MaxCalls -> Seq(Nat)]
    /\ owed \in [Threads -> SUBSET (0..MaxCalls)]
-----------------------------------------------------------------------------
(* Safety                                                                    *)

\* m_mutex_write is held exactly while a thread writes a request, m_mutex_read
\* exactly while one reads a sequence number or the answer of its synchronous
\* call; so an exception or a failing call leaves neither locked.
LocksHeld ==
    \A t \in Threads :
        /\ writeMutex = t <=> pc[t] = "flush"
        /\ readMutex = t <=> pc[t] \in {"readSeqid", "take", "syncArgs", "syncCallid"}

\* The server executes the calls in the order of their sequence numbers, none
\* twice and none left out, however many threads send and whatever breaks:
\* what was executed is 1, 2, .., n and the next request to be read is n + 1.
InOrderOnce ==
    /\ \A i \in 1..Len(executed) : executed[i] = i
    /\ session = "running" =>
          \A i \in 1..Len(up) : up[i].seqid = Len(executed) + i

\* A cached m_callid is the id of the function of that name, and so is every
\* id on its way to the server: no call by id reaches another function.
CallIdSound ==
    /\ \A s \in Stubs : callId[s] \in {0, StubId[s]}
    /\ \A i \in 1..Len(up) : up[i].callid \in {0, StubId[up[i].name]}

\* No call gets a second answer or the answer of another call.
OwnAnswer == \A i \in 1..MaxCalls : answers[i] \in {<<>>, <<i>>}

ReplyToCome(i) ==
    \/ \E k \in 1..Len(up) : up[k].seqid = i
    \/ serving # NoRequest /\ serving.seqid = i
    \/ \E k \in 1..Len(down) : down[k].field = "seqid" /\ down[k].val = i

\* The reply of every pending call is still to be read: nobody consumed it
\* before or after the packet became pending, so a waiter will find it.
NoOrphan ==
    halted = "no" /\ connected /\ session = "running"
        => \A p \in pendings : ReplyToCome(p.seqid)

\* When wait_pending_async returns, every call that was pending when it was
\* entered has been answered.
DrainedOnReturn ==
    [][\A t \in AppThreads :
          pc[t] = "callback" /\ pc'[t] = "idle" /\ got[t] # NoPacket
             => \A i \in owed[t] : answers'[i] # <<>>]_vars
-----------------------------------------------------------------------------
(* Liveness                                                                  *)

\* run() has ended and left the connection open: nobody answers any more.
Abandoned == session = "ended" /\ connected

\* The session waits to write a reply, and no thread of the client is on its way
\* to read one.
Unread ==
    /\ connected
    /\ serving # NoRequest /\ Len(down) >= DownCap
    /\ \A t \in Threads : pc[t] \in {"idle", "off", "lockWrite", "flush"}

\* Then the requests fill the other direction, and a thread waits to write one.
Clogged ==
    /\ Unread
    /\ Len(up) = UpCap
    /\ \E t \in Threads : pc[t] = "flush"

\* A call, and wait_pending_async, comes back to the program, with an exception
\* if the connection breaks.  Two things keep a caller waiting: a session that
\* has ended and left the connection open, and a connection full both ways
\* because nobody collects the replies.
CallsReturn ==
    \A t \in AppThreads : pc[t] # "idle" ~> pc[t] = "idle" \/ Abandoned \/ Clogged

\* While waiter threads collect the answers, whoever sends gets its request
\* out, small as the connection's buffers are, unless the process stops, the
\* session ends, or the waiters themselves are sending into a full connection.
SendCompletes ==
    \A t \in Threads :
        pc[t] = "lockWrite"
            ~> \/ pc[t] \notin {"lockWrite", "flush"}
               \/ halted # "no" \/ WaitersOff \/ Abandoned \/ Clogged
-----------------------------------------------------------------------------
(* What the asserts of the client say                                        *)

\* assert(this->seqid == vseqid1.t), client.hpp:176: a synchronous call finds
\* its own reply.
ReplyIsOwn == halted # "client.hpp:176"

\* assert(packet), client.cpp:104: a waiter thread finds the packet of every
\* reply it reads among the pending ones.
PacketIsPending == halted # "client.cpp:104"

\* start_async takes any number of waiters, assert(nThreads > 0): they read
\* whole replies, whoever else reads.
RepliesStayWhole == halted # "desync"
-----------------------------------------------------------------------------
(* The promise: numbers drawn, calls executed, answers given.                *)
Promise ==
    INSTANCE CallSpec WITH requested <- sequenceId, executed <- Len(executed),
                           broken <- session = "ended" \/ ~connected, unread <- Unread

\* Numbering, execution and answers are those of CallSpec, step by step.
ImplementsSafety == Promise!Safety

\* And every numbered call is executed in the end, unless the connection breaks,
\* the session ends, or the session waits for somebody to read its replies.
ImplementsCallSpec == Promise!Spec
=============================================================================
