----------------------------- MODULE RemoteCall -----------------------------
(***************************************************************************)
(* What a remote call carries: from the program's variables through the    *)
(* stub and its packet into the request, from the request to the function  *)
(* the server has registered, and from the reply back into the variables   *)
(* or into the callback.                                                   *)
(*                                                                         *)
(* One thread of the client, one session.  Who may read and write when is  *)
(* the subject of CallProtocol; here a request is written and a reply read *)
(* in one step, and the steps are those between which the parties can do   *)
(* something else.  The streams are sequences of the parts that the code   *)
(* writes one by one, with nothing between one message and the next: where *)
(* a message ends is known only from the function and from the way it was  *)
(* called.  A part read as what it is not is not followed (Framed shows    *)
(* that there is none).                                                    *)
(***************************************************************************)
EXTENDS Registration, Arguments, FiniteSets

CONSTANTS
    Params,         \* of every function, by its full name: the forms
    Vars, Values,   \* the program's variables that it passes, and what they hold
    Wrap,           \* a sequence number is an unsigned: 2^32
    MaxPending,     \* bound: calls in flight
    MaxCalls,       \* bound: calls in one behaviour
    NoPacket, NoHeader

Functions == DOMAIN Params
Declared(c) == {FullName[StubsOf[c][i]] : i \in DOMAIN StubsOf[c]}

ASSUME ParamsAssumption ==
    /\ \A f \in Functions : Params[f] \in Seq(Forms)
    /\ \A c \in Classes : Declared(c) \subseteq Functions
ASSUME NumbersAssumption ==
    Wrap \in Nat /\ MaxCalls \in Nat /\ MaxPending \in 1..Wrap

\* What the client keeps of a call, and the server_packet_base of a request.
Packets == [fn : Functions, seqid : Nat, byid : BOOLEAN, how : {"synch", "asynch"},
            by : {"reference", "value"}, args : Seq(Vars), vals : Seq(Values), call : Nat]
Headers == [seqid : Nat, call : Nat, stub : Stubs, isbyid : BOOLEAN]

ASSUME NoneAssumption == NoPacket \notin Packets /\ NoHeader \notin Headers

VARIABLES
    callId,         \* m_callid of every client_stub there is
    sequenceId,     \* m_sequence_id
    pendings,       \* m_pendings: the packet of every sequence number in it
    current,        \* the packet of the synchronous call under way
    mem,            \* the program's variables
    asked,          \* calls so far
    up, down,       \* the connection
    session,        \* "running" until run() leaves its loop
    header,         \* the server_packet_base that has been read
    log,            \* history: of every call that is not over, what was passed,
                    \* and what the server made of it
    callback        \* history: what a callback is given in this step

clientVars == <<callId, sequenceId, pendings, current, mem, asked>>
wireVars == <<up, down>>
sessionVars == <<session, header>>
vars == <<registration, clientVars, wireVars, sessionVars, log, callback>>

Nothing == [x \in {} |-> 0]

\* What is in a map already is not replaced.
Insert(map, keys, v) ==
    [k \in DOMAIN map \cup keys |-> IF k \in DOMAIN map THEN map[k] ELSE v]

\* The constructor of rpc_client binds the functions of the session.
Init ==
    /\ InitRegistration
    /\ callId = [f \in Declared(Main) |-> 0]
    /\ sequenceId = 0
    /\ pendings = Nothing
    /\ current = NoPacket
    /\ mem \in [Vars -> Values]
    /\ asked = 0
    /\ up = <<>>
    /\ down = <<>>
    /\ session = "running"
    /\ header = NoHeader
    /\ log = Nothing
    /\ callback = <<>>
-----------------------------------------------------------------------------
(* The parts of the streams                                                  *)

Part(is, v) == [is |-> is, v |-> v]

\* The number a message begins with; which call it is of is not sent.
SeqId(n, call) == [is |-> "seqid", v |-> n, call |-> call]

Fits(stream, kinds) ==
    /\ Len(stream) >= Len(kinds)
    /\ \A i \in DOMAIN kinds : stream[i].is = kinds[i]

Args(order) == [k \in DOMAIN order |-> "arg"]
After(stream, kinds) == SubSeq(stream, Len(kinds) + 1, Len(stream))
ArgsAt(stream, before, order) == SubSeq(stream, before + 1, before + Len(order))
-----------------------------------------------------------------------------
(* The client calls                                                          *)

\* Slips, for the mutation runs: a number that does not wrap or does not
\* advance, a packet that refers to the variables of an asynchronous call.
NextSequenceIdWide == sequenceId + 1
NextSequenceIdKept == sequenceId
AsyncPacketByReference == "reference"

NextSequenceId == (sequenceId + 1) % Wrap

\* bind_client of class c calls bind_stub for each of its functions: those that
\* have a stub keep it.
Bind(c) ==
    /\ server = "serving"
    /\ callId' = Insert(callId, Declared(c), 0)
    /\ UNCHANGED <<registration, sequenceId, pendings, current, mem, asked,
                   wireVars, sessionVars, log>>

\* valpacket_create copies the arguments; the packet of a synchronous call
\* refers to them.
AsyncPacket == "value"
HeldBy(how) == IF how = "synch" THEN "reference" ELSE AsyncPacket

\* t_send_id_args, t_send_nm_args
Request(p) ==
    <<SeqId(p.seqid, p.call)>>
    \o (IF p.byid THEN <<Part("callid", callId[p.fn])>>
                  ELSE <<Part("callid", 0), Part("name", p.fn)>>)
    \o <<Part("how", p.how), Part("self", p.fn)>>
    \o Save(p.vals, Travelling(Params[p.fn], ClientSaves))

\* The packet of a call of f on the variables args.  By id if the id is known,
\* unless byname or async_byname is the entry.
Packet(f, args, how, byname) ==
    [fn |-> f, seqid |-> NextSequenceId, byid |-> ~byname /\ callId[f] # 0,
     how |-> how, by |-> HeldBy(how), args |-> args,
     vals |-> [i \in DOMAIN args |-> mem[args[i]]], call |-> asked + 1]

\* What there is to say of a call whose request has been sent.
Sent(p) == [fn |-> p.fn, how |-> p.how, args |-> p.args, passed |-> p.vals,
            ran |-> "nothing", seen |-> <<>>, wrote |-> <<>>]

Send(p) ==
    /\ server = "serving"
    /\ current = NoPacket
    /\ asked < MaxCalls
    /\ asked' = asked + 1
    /\ sequenceId' = NextSequenceId
    /\ up' = up \o Request(p)
    /\ log' = Insert(log, {p.call}, Sent(p))
    /\ UNCHANGED <<registration, callId, mem, down, sessionVars>>

\* operator() and byname.  One who calls with answers outstanding reads those.
CallSync(f, args, byname) ==
    /\ pendings = Nothing
    /\ LET p == Packet(f, args, "synch", byname) IN Send(p) /\ current' = p
    /\ UNCHANGED pendings

\* async and async_byname: the packet becomes pending, unless its number is.
CallAsync(f, args, byname) ==
    /\ Cardinality(DOMAIN pendings) < MaxPending
    /\ LET p == Packet(f, args, "asynch", byname) IN
          Send(p) /\ pendings' = Insert(pendings, {p.seqid}, p)
    /\ UNCHANGED current

\* The program goes on with its variables while answers are outstanding.
Assign(x, v) ==
    /\ current = NoPacket
    /\ pendings # Nothing
    /\ mem' = [mem EXCEPT ![x] = v]
    /\ UNCHANGED <<registration, callId, sequenceId, pendings, current, asked,
                   wireVars, sessionVars, log>>
-----------------------------------------------------------------------------
(* The session serves                                                        *)

\* What read_header expects and finds.
HeaderKinds(stream) ==
    IF Len(stream) > 1 /\ stream[2].v = 0 THEN <<"seqid", "callid", "name", "how">>
                                          ELSE <<"seqid", "callid", "how">>
ByName == up[2].v = 0
ReadsHeader ==
    /\ server = "serving" /\ session = "running"
    /\ header = NoHeader
    /\ up # <<>> /\ Fits(up, HeaderKinds(up))

\* get_byname finds the function, or the id is in range.
Registered == IF ByName THEN HasName(stubTable, up[3].v)
                        ELSE IsValid(stubTable.ids, up[2].v)
Stub == IF ByName THEN stubTable.names[up[3].v] ELSE Ptr(stubTable, up[2].v)

ReadHeader ==
    /\ ReadsHeader
    /\ Registered
    /\ header' = [seqid |-> up[1].v, call |-> up[1].call, stub |-> Stub, isbyid |-> ~ByName]
    /\ up' = After(up, HeaderKinds(up))
    /\ UNCHANGED <<registration, clientVars, down, session, log>>

\* "can not find function": an exception ends the session.
UnknownFunction ==
    /\ ReadsHeader
    /\ ~Registered
    /\ session' = "ended"
    /\ UNCHANGED <<registration, clientVars, wireVars, header, log>>

Running == FullName[header.stub]
Loaded == Travelling(Params[Running], ServerLoads)
ArgumentKinds == <<"self">> \o Args(Loaded)
ReadsArguments ==
    /\ session = "running"
    /\ header # NoHeader
    /\ Fits(up, ArgumentKinds)

\* do_send_args
Reply(h, vals) ==
    <<SeqId(h.seqid, h.call), Part("retv", h.call)>>
    \o Save(vals, Travelling(Params[FullName[h.stub]], ServerSaves))
    \o (IF h.isbyid THEN <<>> ELSE <<Part("callid", stubId[h.stub])>>)

\* What the function may have written when it returns.
MayWrite(vals) ==
    {w \in [DOMAIN vals -> Values \cup {"unread"}] : \A i \in DOMAIN vals :
        IF Direction(Params[Running][i]) \in {"out", "inout"} THEN w[i] \in Values
                                                              ELSE w[i] = vals[i]}

\* sync_call: the arguments are loaded into the packet, the function runs on
\* them, and the reply is sent.  What is not loaded is not initialized.
SyncCall ==
    /\ ReadsArguments
    /\ LET vals == Load([i \in DOMAIN Params[Running] |-> "unread"], Loaded,
                        ArgsAt(up, 1, Loaded))
       IN \E w \in MayWrite(vals) :
             /\ down' = down \o Reply(header, w)
             /\ log' = [log EXCEPT ![header.call].ran = Running,
                                   ![header.call].seen = vals,
                                   ![header.call].wrote = w]
    /\ up' = After(up, ArgumentKinds)
    /\ header' = NoHeader
    /\ UNCHANGED <<registration, clientVars, session>>

\* Loading or the function itself throws: the session ends without a reply.
SyncCallThrows ==
    /\ ReadsArguments
    /\ session' = "ended"
    /\ UNCHANGED <<registration, clientVars, wireVars, header, log>>
-----------------------------------------------------------------------------
(* The client takes a reply                                                  *)

Returned(p) == Travelling(Params[p.fn], ClientLoads)

\* t_read_args: the return value, the arguments, and the id if it is not known.
ReplyKinds(p) ==
    <<"seqid", "retv">> \o Args(Returned(p)) \o (IF p.byid THEN <<>> ELSE <<"callid">>)

\* The arguments a packet refers to are the variables; those it holds are its own.
MemAfter(p) ==
    IF p.by = "value" THEN mem
    ELSE Load(mem, [k \in DOMAIN Returned(p) |-> p.args[Returned(p)[k]]],
              ArgsAt(down, 2, Returned(p)))
ValsAfter(p) ==
    IF p.by = "value" THEN Load(p.vals, Returned(p), ArgsAt(down, 2, Returned(p)))
                      ELSE [i \in DOMAIN p.args |-> MemAfter(p)[p.args[i]]]

Learnt(p, id) == IF p.byid THEN callId[p.fn] ELSE id

ReadArgs(p) ==
    /\ Fits(down, ReplyKinds(p))
    /\ mem' = MemAfter(p)
    /\ callId' = [callId EXCEPT ![p.fn] = Learnt(p, down[Len(ReplyKinds(p))].v)]
    /\ down' = After(down, ReplyKinds(p))
    /\ log' = [c \in DOMAIN log \ {p.call} |-> log[c]]
    /\ UNCHANGED <<registration, sequenceId, asked, up, sessionVars>>

\* The reply of the synchronous call, by the assert on its sequence number.
SyncReturn ==
    /\ current # NoPacket
    /\ down # <<>> /\ down[1].v = current.seqid
    /\ ReadArgs(current)
    /\ current' = NoPacket
    /\ UNCHANGED pendings

\* wait_async_return_once, a round of wait_pending_async: the reply selects the
\* packet, which reads the rest and calls back.
AsyncReturn ==
    /\ current = NoPacket
    /\ down # <<>> /\ down[1].v \in DOMAIN pendings
    /\ LET p == pendings[down[1].v] IN
          /\ ReadArgs(p)
          /\ callback' = ValsAfter(p)
          /\ pendings' = [n \in DOMAIN pendings \ {down[1].v} |-> pendings[n]]
    /\ UNCHANGED current

Calls ==
    \E f \in DOMAIN callId, byname \in BOOLEAN :
       \E args \in [DOMAIN Params[f] -> Vars] :
          CallSync(f, args, byname) \/ CallAsync(f, args, byname)

Quiet ==
    \/ Register /\ UNCHANGED <<clientVars, wireVars, sessionVars, log>>
    \/ \E c \in Classes : Bind(c)
    \/ Calls
    \/ \E x \in Vars, v \in Values : Assign(x, v)
    \/ ReadHeader \/ UnknownFunction \/ SyncCall \/ SyncCallThrows
    \/ SyncReturn

Next ==
    \/ Quiet /\ callback' = <<>>
    \/ AsyncReturn

Spec == Init /\ [][Next]_vars
-----------------------------------------------------------------------------
Kinds == {"seqid", "callid", "name", "how", "self", "arg", "retv"}

\* Every variable has its type.
TypeOK ==
    /\ server \in {"registering", "serving", "thrown", "aborted"}
    /\ DOMAIN callId \subseteq Functions
    /\ \A f \in DOMAIN callId : callId[f] \in Nat
    /\ \A s \in Stubs : stubId[s] \in Nat
    /\ sequenceId \in 0..(Wrap - 1)
    /\ DOMAIN pendings \subseteq 0..(Wrap - 1)
    /\ mem \in [Vars -> Values]
    /\ asked \in 0..MaxCalls
    /\ \A i \in DOMAIN up : up[i].is \in Kinds
    /\ \A i \in DOMAIN down : down[i].is \in Kinds
    /\ session \in {"running", "ended"}
    /\ DOMAIN log \subseteq 1..MaxCalls

\* An id leads where a name does.  A stub of a server that serves is found under
\* its name and under its id, which is not 0, the mark of a call by name, and
\* stays what it was when the table grows; so an id that a client has learnt
\* from a reply is that of the function it learnt it for.
CallIdsLead ==
    server = "serving" =>
        /\ \A s \in Stubs : stubId[s] # 0 =>
              Ptr(stubTable, stubId[s]) = s /\ stubTable.names[FullName[s]] = s
        /\ \A c \in Classes : Known(c) =>
              \A i \in DOMAIN StubsOf[c] : stubId[StubsOf[c][i]] # 0
        /\ \A f \in DOMAIN callId : callId[f] # 0 =>
              stubTable.ids.at[callId[f]] \in Stubs
              /\ FullName[stubTable.ids.at[callId[f]]] = f

\* Both streams are cut where they were joined.  The session finds a request
\* where it looks for one and its arguments behind; the client finds, behind
\* the number of a call, the reply of that call to its last part, be it by name
\* or by id, although the id may have become known in between.
Framed ==
    /\ header = NoHeader /\ up # <<>> => Fits(up, HeaderKinds(up))
    /\ header # NoHeader => Fits(up, ArgumentKinds)
    /\ down # <<>> =>
          LET n == down[1].v IN
          /\ down[1].is = "seqid"
          /\ IF current # NoPacket THEN n = current.seqid /\ Fits(down, ReplyKinds(current))
             ELSE n \in DOMAIN pendings => Fits(down, ReplyKinds(pendings[n]))

\* The numbers on their way: in the requests, in the header being served and in
\* the replies.
Numbered(stream) == {i \in DOMAIN stream : stream[i].is = "seqid"}
Numbers(stream) == {stream[i].v : i \in Numbered(stream)}
Served == IF header = NoHeader THEN {} ELSE {header.seqid}
InFlight == Numbers(up) \cup Served \cup Numbers(down)

\* The numbers the client waits for.
Awaited == DOMAIN pendings \cup (IF current = NoPacket THEN {} ELSE {current.seqid})

\* No two messages of a stream have one number.
Distinct(stream) == \A i, j \in Numbered(stream) : stream[i].v = stream[j].v => i = j

\* A number stands for one call.  What is on its way carries each number once,
\* and a client waits for exactly these numbers as long as the session runs;
\* when they are used again after 2^32 calls, the call that had one is over.
InFlightExact ==
    /\ Distinct(up) /\ Distinct(down)
    /\ Numbers(up) \cap Numbers(down) = {}
    /\ Served \cap (Numbers(up) \cup Numbers(down)) = {}
    /\ InFlight \subseteq Awaited
    /\ session = "running" => Awaited \subseteq InFlight
    /\ Cardinality(DOMAIN log) = Cardinality(Awaited)

Where(f, directions) == {i \in DOMAIN Params[f] : Direction(Params[f][i]) \in directions}

\* What the server runs is the function that was called, on the values that
\* its arguments had then; what an argument that is only an output held does not
\* reach it.
ArgumentsArrive ==
    \A c \in DOMAIN log : log[c].ran # "nothing" =>
        /\ log[c].ran = log[c].fn
        /\ \A i \in DOMAIN log[c].passed :
              log[c].seen[i] = IF i \in Where(log[c].fn, {"in", "inout", "remote"})
                               THEN log[c].passed[i] ELSE "unread"

\* A call that is over has brought back what its own function wrote.  A
\* synchronous one has set the variables passed for outputs, the last one when
\* a variable was passed twice, and no other.  An asynchronous one has set none,
\* whatever became of them meanwhile: its callback is given the arguments as
\* they were passed, with the outputs in place.
BringsBack(l) ==
    LET outputs == Where(l.fn, {"out", "inout"})
        for(x) == {i \in outputs : l.args[i] = x}
        last(is) == CHOOSE i \in is : \A j \in is : j <= i
    IN  /\ l.ran = l.fn
        /\ \A x \in Vars :
              mem'[x] = IF l.how = "synch" /\ for(x) # {} THEN l.wrote[last(for(x))]
                                                         ELSE mem[x]
        /\ l.how = "asynch" =>
              callback' = [i \in DOMAIN l.passed |->
                              IF i \in outputs THEN l.wrote[i] ELSE l.passed[i]]

ResultsReturn == [][\A c \in DOMAIN log \ DOMAIN log' : BringsBack(log[c])]_vars
=============================================================================
