# nark-rpc in TLA+

nark-rpc is a C++ library for remote calls on objects. A server keeps objects,
some shared by all clients (*global*), some private to one connection
(*session scope*); a client holds proxies, calls their functions synchronously
or asynchronously, and has objects created, looked up by name and removed. This
directory models the library, checks the models with TLC and proves most of
what they say with TLAPS. Paths below are relative to `src/src/nark/`.

## 1. Inventory

| component | code | state | operations |
|---|---|---|---|
| client call protocol | `rpc/client.hpp`, `rpc/client.cpp`, `rpc/pp_client_stub.hpp` | `m_sequence_id`, `m_pendings`, `m_callid` of each stub, `m_mutex_read`, `m_mutex_write`, `m_mutex_pendings`, `m_run`, the waiter threads | `client_stub_ref::operator()`, `byname`, `async`, `async_byname`; `wait_pending_async`; `start_async`, `stop_async`, `wait_async_return` |
| session | `rpc/server.hpp`, `rpc/server.cpp`, `rpc/pp_server_stub.hpp` | its stream, its objects, its thread, its reference count | `run`, `read_header`, `call`, `sync_call`, `do_send_args` |
| accept loop, server object | `rpc/server.cpp`, `rpc/server.hpp` | `m_sessionList`, `m_mutex->sessionList` | `start`, `createSession`, `removeSession`, the destructor |
| `id_generator` | `io/access_byid.*` | a vector whose free slots form a list | `alloc_id`, `free_id`, `add_val`, `get_used_id` |
| `AccessByNameID` | `io/access_byid.*` | an `id_generator` of pointers and a map of names | `add_ptr` (with and without a name), `get_byid`, `get_byname`, `check_id`, `remove`, `destroy` |
| session-scope objects | `rpc/server.cpp`, `rpc/server_io.hpp`, `rpc/client.cpp` | `m_sessionScopeObjects`, the objects, the client's proxies | `createSessionObject`, `createNamedSessionObject`, `retrieveSessionObject`, `removeSessionObject`, calls; `create_0`, `create_1`, `retrieve_1` |
| global objects | `rpc/server.cpp`, `rpc/server_io.hpp`, `rpc/client.cpp` | `m_globaleScopeObjects`, `m_mutex->globaleScopeObjects` | `createGlobaleObject`, `createNamedGlobaleObject`, `retrieveGlobaleObject`, `add_servant`, `remove_servant`, calls |
| registration | `rpc/server.hpp`, `rpc/rpc_basic.cpp` | the factories, `m_stubTable`, `m_id` of each stub | the constructor of `rpc_server`, `auto_create`, `add_servant`, `ObjectFactoryBase::add`, `gen_stubs` |
| marshalling | `rpc/client_io.hpp`, `rpc/server_io.hpp`, `rpc/arg_traits.hpp`, `rpc/pp_arglist_type.hpp` | none of its own: packets, streams | which argument travels in which direction, when it is read and where it is put |
| socket streams | `inet/SocketStream.*` | a descriptor, end-of-file flag | `read`, `write`, `accept`, connect |
| message stream, reactor | `inet/MessageInputStream.*`, `inet/reactor.hpp`, `inet/epoll_reactor.hpp`, `inet/ReactAcceptor.hpp` | | unused by the RPC; the reactor has no implementation here |

**How they interact.** The threads of a client share one connection. A request
is written under `m_mutex_write`; the sequence number of a reply is read under
`m_mutex_read`; a packet that awaits its answer is in `m_pendings`. The server
has one thread per connection, which reads a request, loads its arguments
(object ids become pointers through the two object tables), runs the function
and writes the reply before it reads on. The session is itself an object of the
first table, with id 1, and receives the calls that create, find and remove.
The accept loop hands each new session to a thread and lists it; the list entry,
the session's own table and the calls in progress hold counted references to
it. Global objects are reached from every session's thread and from the
application.

**What is hard.** Several readers of one input stream; a reply that comes
before its packet is registered; state read before an unlock and used after it;
callbacks that call again; sends that block while replies pile up; exceptions
that leave functions in the middle; creation of named objects in two locked
steps with unlocked ones between them; a lifetime governed by reference counts;
a list threaded through a growing vector; ids and sequence numbers that are
given out again; two ends that decide separately what travels; variables that
change while a call is on its way. `PROJECT.json` lists each hazard at its line with the properties that watch it.

**What makes each part correct.**

- *Calls*: every call gets its own answer, once; the server executes the calls
  of a connection in the order they were sent, each once; callers come back;
  `wait_pending_async` returns when what was pending is answered; a cached
  function id is the right one; failures leave no lock held.
- *Sessions*: a session lives exactly as long as someone holds it, nobody
  touches it afterwards, it closes its socket when it ends, a client that
  disappears is noticed, and the server outlives its sessions.
- *`id_generator`*: an id is given to one value at a time, the value stays until
  it is freed, and the walk in `destroy` finds precisely the ids in use.
- *Objects*: names, ids and reference counts agree; a proxy denotes the object
  it was obtained for; a name means one object; a call runs on a live object;
  the clients see an object service whose operations are atomic.
- *Registration and marshalling*: the id of a function leads where its name
  does, for ever; a function runs on the values its call was given; results
  come back to the variables of their call, and to no others; both ends agree
  where a message ends.

## 2. Modules

| module | what it is |
|---|---|
| `CallSpec` | abstract: calls are numbered, executed in order and once, answered at most once with their own answer |
| `CallProtocol` | the client, its threads and locks, the connection, the session that serves it; refines `CallSpec` |
| `CallProtocolProofs` | its theorems for every use of a connection |
| `CallDisciplineProofs` | its theorems for the disciplined use; that it refines the steps of `CallSpec` |
| `IdPool` | abstract: values under ids that are not in use |
| `FreeList` | `id_generator` as operators on a vector |
| `IdGenerator` | the list in use by a table; refines `IdPool` |
| `IdGeneratorProofs` | its theorems |
| `ObjectTable` | `AccessByNameID`: `FreeList` and a map of names |
| `ObjectTableProofs` | lemmas about the operators of both, and the walk |
| `ObjectService` | abstract: what a server promises about its objects; no ids, no tables |
| `SessionObjects` | the session-scope objects of one client, on `ObjectTable`; refines `ObjectService` |
| `SessionObjectsProofs` | its theorems, the refinement among them |
| `GlobalObjects` | the global objects, their clients' sessions and the application, on `ObjectTable`; refines `ObjectService` |
| `GlobalObjectsProofs` | its theorems, the refinement among them |
| `SessionLifecycle` | the accept loop, the sessions and their deletion |
| `SessionLifecycleProofs` | its theorems |
| `Registration` | the factories and the table of functions, before the server serves, on `ObjectTable` |
| `Arguments` | which arguments travel in which direction, as operators |
| `RemoteCall` | a call from the variables of the program to the function and back; composes `Registration`, `Arguments`, the stubs, packets and both streams |
| `RemoteCallProofs` | its theorems |
| `MC...` | the values and symmetries for TLC |

Definitions named after a slip (`UnlockReadForgotten`, `EnlargeRelinking`, ...)
stand beside the definition they are a plausible mistake in. No specification
uses them: they serve to see that each property fails when the code is wrong.

### CallProtocol

A thread's place in the code is `pc[t]`:

| `pc` | code |
|---|---|
| `lockWrite`, `flush` | `t_send_id_args`, `t_send_nm_args`: lock, draw the number, write, flush, unlock |
| `register` | `async_packet` |
| `lockRead`, `readSeqid`, `syncArgs`, `syncCallid` | `t_call_byid`, `t_call_byname` and `t_read_args` under `m_mutex_read` |
| `lockTake`, `take` | `wait_pending_async`, `wait_async_return_once` up to the unlock |
| `asyncArgs`, `asyncCallid`, `callback` | `on_return`, without the lock, and the program's callback |
| `start`, `loop`, `off` | a waiter thread in `wait_async_return` |

A request is one message, because nothing reads part of one and lets another
thread in; a reply is two or three parts, because that is what happens to
replies. A body carries the number of the call it answers, which is all that the
properties need of its data. Failed asserts are recorded in `halted`, which stops
the client; a thread that takes one part of a reply for another is recorded
there too. `Mixing = FALSE` restricts the program to the discipline of the
samples: no synchronous call while asynchronous ones are pending or waiter
threads run, and no `wait_pending_async` beside waiter threads.

### FreeList, IdGenerator

A vector is its size and its slots; slot 0 is the head of the list of free
slots, and a free slot holds the next. Every operation is the composition the
code makes (`add_val` is `alloc_id` and a store; `alloc_id` doubles and calls
`chain` when the list is empty). The walk of `get_used_id` is a recursive
function of the slots; that it is exact is proved (section 4).

### SessionObjects, GlobalObjects

The objects of a session are touched by the thread of that session alone, so a
handler of `SessionObjects` is one step, with a request and a reply around it.
In `GlobalObjects` the thread of each session is at a place `at[s]` within a
handler: a look-up under the lock is one step, and so are the retrieve handler,
`add_servant` and `remove_servant`, which hold the lock throughout; creation
goes `lookUp`, `findCreator`, `construct`, `insert` and `store` (the map is read
and tested, then written, without the lock, `io/access_byid.cpp:143-150`),
`alloc` and `link` (`alloc_id`, and the store of the pointer), `hold` (the
table's reference), `setId`; a call goes `load`, `cast` (the class is looked at
and the object held), `invoke`.

`alloc_id` is split between its read of the head and its writes, and has no check
of what it takes: `Link` stores over whatever the slot holds by then. Two sessions
are given one id, an object is stored over another or over a servant, the list of
free slots is led through an object, names are taken over, and `remove_servant`
then releases what it finds under the id: all of that happens in the model, and
the model goes on. It stops only where the program does (a failed assert) or
where nobody can say what it does (memory used after deletion; an id that is a
pointer, `io/access_byid.cpp:55`): these are recorded in `fault`. The two stores
of `Link` are one step: who comes between them has come between the read of the
head and its last write, and counts as overtaking the session in the same way.
A simultaneous reallocation of the vector or of the map, and the race on the
counter `m_nUsed` (only its assert in `free_id` reads it), are not modelled.

A proxy records in `obj`, as history, which object the server meant. An object
is "unused", then "live", then "freed", and its address is not used again.

What a client does that the handlers do not bear is recorded, as history, in
`careful` (`SessionObjects`) and `misuse` (`GlobalObjects`). A client of a
session is careful unless it has removed an object that has a name, kept the
proxy of a look-up that failed, or asked for a class that has no creator. A
misuse of global objects is an "overlap" (somebody looks for a name, adds or
removes while a session is creating), an "unknown" class, or a class without a
creator ("noCreator"). Two kinds of overlap are recorded beside it: somebody has
taken an id or given one back while a session was between the halves of
`alloc_id` ("overtaken"), or has begun to create by the name that a session was
creating by ("sameName"). Nothing is forbidden: the models go on after a misuse
(`GlobalObjects` for `MaxMisused` further requests), and properties that need a
careful client say so. `Untouched` adds that no servant has been removed.

`ObjectService` knows named and unnamed objects and who holds, calls or removes
which. Creation, finding and removal are single steps there. In the mapping an
object that a session is still creating does not exist, and neither does its
name; a look-up that met one would be a step that the service does not have.
Once somebody has been careless `reliable` is false and any step is allowed.

### Registration, Arguments, RemoteCall

A server registers its classes and then serves: nothing in the repository
registers later. A class that is registered twice is an exception, a stub whose
full name is taken is a failed assert, and both end the program before `start`
(`server` records which). `Scope`, `ClassName` and `StubsOf` are the C++ program.
That two classes of one scope have different names is assumed; of classes of
different scopes it is not.

`Arguments` has `Direction`, the table that the overloads of `ArgVal` make, and
four sets, the overloads of `<<` and `>>` in the four streams. `Save` and `Load`
go through the argument list in order. `RemoteCall` joins this with what a
request and a reply carry beside arguments: number, function (by id, or by name
with the id 0), how to call, the object called, and in the reply the return
value and, if the call was by name, the id of the function. Streams are
sequences of such parts, not messages, so that a side that reads too little or
too much would read on in the next message. The packet of a synchronous call
refers to the variables of its caller (`by = "reference"`), that of an
asynchronous call copies them. `log` and `callback` are history.

There is one thread and one session here, and requests and replies are read and
written in one step each: interleavings are the subject of `CallProtocol`. The
return value has no content, and a synchronous call is made with nothing
pending (`call_pending_caller` shows what happens otherwise). A client comes
only to a server that serves.

### SessionLifecycle

The accept loop is at `server`, the thread of each session at `thread[s]`. The
references counted are those of the list, of the session's own table and of a
call on the session. A session is deleted with its last reference, and its
deletion is what closes the socket. What a request does is left to the
other modules: here it ends, or throws.

`Destroy` is the destructor with what follows its body: the members go, and
`m_sessionList` (`rpc/server.hpp:269`) releases its references. A session whose
thread has been started but has not yet run has no other one: it is deleted,
its socket closed, and the thread begins on freed memory (`RunFreed`). A thread
that the destructor has not waited for looks its next request up in the deleted
table of functions (`ReadDestroyed`), or uses the deleted function, or the mutex
of the list when it ends (`UseDestroyed`). These three are recorded in `fault`
and end the behaviour.

## 3. Runs

| run | question | bound | 
|---|---|---|
| `call_single` | one disciplined thread, with functions that throw and a connection that breaks: types, locks, ids, `wait_pending_async`, when a call returns, refinement of `CallSpec` with its liveness | 4 calls, 2 functions, callbacks that call, room for one request and one reply |
| `call_threads` | two undisciplined threads and a waiter: order of execution | 3 calls, room for one request and one reply |
| `call_waiter` | a waiter thread whose callbacks call again, functions that throw or are unknown, a connection that breaks: when a send completes, that answers arrive | 4 calls, 2 functions, room for one request and one reply: the fourth waits until an answer is collected |
| `id_generator` | the list through two doublings | 8 slots |
| `sessions` | references, list, use after deletion, a client that hangs up, and the destructor in all of their states | 3 clients, 2 descriptors, 2 looks of the destructor |
| `session_objects` | one client, careful or not; refinement of `ObjectService` | 6 requests, 4 objects, 2 names, a class unknown and one without creator |
| `global_objects` | two clients, one of which does everything and one of which creates and looks up by name, and an application that adds and removes a servant, all interleaved; refinement of `ObjectService` | 4 requests, 2 once there is a misuse; 4 objects, 1 name, a class unknown and one without creator |
| `global_overlaps` | the same two clients and application, both asking for everything: what survives creations that overlap | 3 requests, 3 objects, 2 names |
| `dispatch` | registration in any order and way, then calls of every kind by a program that goes on with its variables | 3 calls, 2 pending, 5 functions, 3 classes, numbers that wrap after 2 |

Of `session_objects`, `PoolExact` holds whatever the client does, the other
properties as long as it is careful. Of `global_objects`, `RefsExact` holds until
creations overlap; `NamesAccounted`, `ProxyDenotes`, `NoFault` and the
refinement until a misuse or the removal of a servant. The "overlap" of a
single client with itself does not exist, so these properties do say something
of every step of a creation beside the calls of the other client.
`global_overlaps` is about what happens behind an overlap. `CallsLand` (the
object of a call lives until the call returns) and `ServantsServed` (a servant is
found under its id) hold through every overlap but one, that of the two halves of
`alloc_id` ("overtaken"): then a creation may store over the slot of a servant,
and whatever is removed by that id is another object, perhaps during its call.
`NamesKept` (no name is taken over) holds as long as no two create by one name at
once ("sameName"). Types hold behind all of it, but for the reference counts,
which fall below zero when an object is removed that the table did not hold.

Why these bounds are enough to be of interest: two threads suffice for every
interleaving of a pair of critical sections, and the third thread of
`call_threads` is the collector that may interfere with both; three calls allow
one made in a callback while another is pending; with room for one request and
one reply in the connection, one request being served holds a second reply, a
third call fills the way up and a fourth has to wait for a reader: so both ends
do block in a flush; three ids fit into a table before
its vector doubles, and the session takes one, so the four objects of
`session_objects` pass the doubling, and so do the four of `global_objects`;
two clients and the application are enough for a creation to be overlapped by
each other step, and for a servant to be added and removed between the halves of
`alloc_id`;
in `dispatch` the five functions pass the doubling of the table of functions,
two classes share a name and a function name across scopes, the forms include
every direction, one function takes the same variable twice if the program
likes, and with numbers 0 and 1 for three calls (`Wrap` stands for 2^32) a
number is used again while another call is pending; eight slots are two doublings of an initial vector of two;
with two descriptors and three clients the accept loop does run out.
Addresses, names, values, program variables and, where nothing distinguishes them, threads are
symmetric; the runs with liveness properties use no symmetry. Where the
configuration turns deadlock checking off, the system may really stop: the bound
on calls is reached, the client stops at an assert, or a session has ended.

**Disagreements found.** Each of these runs checks one statement of the
repository, and TLC finds it violated.

| run | statement | why |
|---|---|---|
| `call_pending_caller` | `assert(this->seqid == vseqid1.t)`, `rpc/client.hpp:176` | a synchronous call while an asynchronous one is pending reads the reply of the latter |
| `call_early_reply` | `assert(packet)`, `rpc/client.cpp:104` | the packet is registered after the request is sent |
| `session_closes` | "close the session", `rpc/server.cpp:97` | a session refers to itself and is never deleted |

The models show more. For these there is a configuration, and the property it
names fails; they are not among the runs, which are kept to one per kind of
disagreement.

| configuration | property | what it shows |
|---|---|---|
| `CallTwoCallers.cfg` | `ReplyIsOwn` | two threads call: whoever locks `m_mutex_read` first reads the first reply (`rpc/client.hpp:173`) |
| `CallTwoWaiters.cfg` | `RepliesStayWhole` | `start_async` admits several waiters (`rpc/client.cpp:123`), but arguments are read after the unlock |
| `CallTwoCollectors.cfg` | `OwnAnswer` | `packet` is declared outside the loop of `wait_pending_async`: `assert(packet)`, `rpc/client.cpp:81`, passes with the packet of the round before |
| `ServerDestroyed.cfg` | `ServerOutlivesSessions` | the destructor looks a hundred times without waiting, and destroys what the sessions use (`rpc/server.cpp:115`), their own references in the list included |
| `GlobalTwoCreators.cfg` | `NameStillFree` | a name is looked up under the lock and inserted without it: `assert(0 == y)`, `rpc/server.cpp:214` |
| `GlobalNewIds.cfg` | `FreshForAll` | `add_ptr` without the lock: one id for two objects (`rpc/server.cpp:239`, `io/access_byid.cpp:54-55`) |
| `GlobalNullCreator.cfg` | `CreatorPresent` | a class added with the creator 0 ("0 will not auto create GlobaleScope Object", `samples/echo_server/echo_server.cpp:41` of the repository) is found, and the null pointer called (`rpc/server.cpp:210`, `238`) |
| `GlobalZeroId.cfg` | `NoZeroId` | an object can be found by name before it has an id, and its finder is told 0 (`rpc/server.cpp:215`) |
| `GlobalUnregistered.cfg` | `ProxiesGiven` | `create` ignores the -1 for an unknown class, and the proxy gets an id nobody assigned (`rpc/client.cpp:183`) |

And `NamesAccounted` of `SessionObjects` fails without its condition `careful`:
`remove(id)` leaves the name in the map, against `assert(used_id.size() == n)`,
`io/access_byid.cpp:185`.

**Fairness.** `CallProtocol`: weak fairness of every thread's own steps and of
the session's. The threads are operating-system threads, the mutexes are held
only across steps that end or fail, and a callback or a function of the server
is assumed to return. What is not assumed is that a flush ends: it waits for room.
Three states excuse a caller that waits, and no other. `Abandoned`: the session
has ended and left the connection open, so that nobody will answer. `Clogged`:
both directions are full, the session waits to write a reply, a thread of the
client to write a request, and no thread is on its way to read (a program that
sends and never collects; callbacks that send from the only waiter). `CallSpec`
does without the second half (`unread`): as long as a reply waits for somebody to
read it, the next request need not be executed. That a program calls, waits, starts or stops waiters, and
that a function throws or the connection breaks, is never assumed. Weak fairness is enough: the liveness properties are checked where a lock is not contended
forever. `SessionLifecycle`: weak fairness of the accept loop and of each
session's thread; none of the clients, none of a failing `accept`.

## 4. Proofs

`CallProtocolProofs`, for any number of threads, functions, calls, any buffer
sizes, use and failures (assumptions: those the module states on its constants):

- `TypeCorrect`: `Spec => []TypeOK`;
- `LockDiscipline`: `Spec => []LocksHeld`;
- `ExecutionOrder`: `Spec => []InOrderOnce`.

The inductive invariant is `IInv`, the conjunction of `TypeOK`, `LocksHeld`,
`InOrderOnce` and three parts without which a step cannot be proved. `Sending`:
a thread that sends has its packet, and the one that holds `m_mutex_write` has
drawn the last number. `Bounded`: the calls that wait for the lock have numbers
left. `Numbering`: while both ends are there, every number drawn has been
executed, is on its way, or is in the hands of the thread that holds the lock;
it is what makes the next request to be sent the next one to be executed. The
mutual exclusion of writers (`LocksHeld`) enters the proof of the order through
`Sending`: only one thread can hold the last number.

`CallDisciplineProofs`, for any number of functions, calls and room in both
directions, callbacks that call, functions that throw and a connection that
breaks, under the hypothesis `Disciplined`: no `Mixing`, one thread of the
program, at most one waiter thread:

- `LearntIds`: `Disciplined => (Spec => []CallIdSound)`;
- `AnswersFit`: `... []OwnAnswer`;
- `NoneForgotten`: `... []NoOrphan`;
- `RepliesFit`: `... [](ReplyIsOwn /\ RepliesStayWhole)`;
- `WaitDrains`: `... DrainedOnReturn`;
- `KeepsPromise`: `... ImplementsSafety`, step by step the refinement of
  `CallSpec` (that its fairness is implemented too stays with TLC).

The hypothesis is that of the samples, and none of its three parts can be left
out: `call_pending_caller` breaks `ReplyIsOwn` by mixing alone,
`CallTwoWaiters.cfg` breaks `RepliesStayWhole` by a second waiter alone, and
`CallTwoCallers.cfg` and `CallTwoCollectors.cfg` break `ReplyIsOwn` and `OwnAnswer`
by a second thread of the program, with `Mixing = FALSE` too. `call_single` is an
instance of it without a waiter thread and `call_waiter` one with a waiter. The invariant is
`IInv /\ DInv`. `DInv` says, while nothing has halted: `Roles`, what a thread has
in hand at each place, and that a synchronous call or `wait_pending_async` has
the connection for itself; `Calls`, that the open calls (pending, or sent and not
yet read) have distinct numbers without an answer; `Requests` and `Replies`, that
requests on their way are those of open calls, and so are replies, whole and in
the order of execution; `Due`, that the next part of the input is the one its
reader expects; `Owing`, that what `wait_pending_async` owes is pending, in hand
or answered. `Due` is the centre: a reader takes a part on trust, and that the
part is its own follows from everything that came before it on the connection.
`client.cpp:104`, the failing assert of an early reply, remains possible with a
waiter, and `Sound` says that no other assert fails.

`ObjectTableProofs`, for vectors of any size, are lemmas that the next modules
share. `IdsUsed(v, used)` says that there is a sequence of ids, without repetition
and apart from those in use, along which the list runs from slot 0 to its end.
`NewListFree`, `RoomMade`, `AddValAt` and `FreeIdAt` say what the constructor, the
doubling, `add_val` and `free_id` do to such a vector; `AddPtrTable`,
`AddNamedTable` and `RemoveIdTable` what the operations of the table do. `WalkExact`
says that the walk of `get_used_id` finds precisely the ids in use. The walk is a
recursive function; induction along it is by the least counterexample
(`LeastNumber`), which needs no theorem with an operator for a parameter.

`IdGeneratorProofs`, for any values and any size of the vector:

- `TypeCorrect`: `Spec => []TypeOK`;
- `ContentSafe`: `Spec => []ContentKept`;
- `UsedExact`: `Spec => []UsedIdsExact`;
- `Refinement`: `Spec => ImplementsIdPool`.

The inductive invariant adds to `ContentKept` that the ids that hold a value are
the ids used of the vector, in the sense above, and that `nUsed` counts them.

`SessionObjectsProofs`, for any number of objects, names, classes and requests:

- `TypeCorrect`: `Spec => []TypeOK`;
- `PoolSafe`: `Spec => []PoolExact`;
- `NamesSafe`: `Spec => []NamesAccounted`;
- `ProxySafe`: `Spec => []ProxyDenotes`;
- `FaultFree`: `Spec => []NoFault`;
- `Implements`: `Spec => ImplementsService`.

The inductive invariant has two layers. `Types`, `TableInv` and `Room` hold
whatever the client does: every id in use leads to the session or to a live
object that knows the id, every live object has one reference and one id, and
the vector is no larger than the requests so far can have made it. `Reliable`
holds as long as the client is careful: names lead to live objects, the object
of every proxy, of the answer under way and of the request under way is alive
under the id of the proxy, and an object without a name has one proxy, which is
given up when its removal is asked. The last part is why a careful client may
not remove an object that has a name: it would leave the name, and with it every
later look-up, without an object.

`SessionLifecycleProofs`, for any number of clients, any limit on descriptors
and any number of looks of the destructor:

- `TypeCorrect`: `Spec => []TypeOK`;
- `ReferencesCounted`: `Spec => []RefsExact`;
- `ListCorrect`: `Spec => []ListExact`: while there is a server;
- `NoneTouchedAfterDeletion`: `Spec => []NoUseAfterFree`: until the server is
  destroyed, and then but for a session whose thread has not begun;
- `NoneCloses`: `Spec => []SocketsStayOpen`, the other side of the finding
  `session_closes`: not one session but none is deleted by the server, nor an
  accepted socket closed, until it is destroyed; and then only those of sessions
  whose threads have not begun.

The inductive invariant adds four parts. `HoldsItself`: from its first step on
a session holds a reference to itself, and never gives it back; with the exact
count this is what makes every release leave something, that of the destroyed
list too. `InHands`: the accept loop has at most one session that it has not let
go, and this one is in memory; it carries the late assignment of `m_thread`.
`Existing` ties memory to socket, and says that what is freed is a session whose
thread was new when the server was destroyed. `Destroyed`: then nobody is listed
any more, and before it nothing has been used after its deletion. That nothing is
touched after deletion therefore rests on the very leak: a session that dropped
its own reference would need another argument.

`GlobalObjectsProofs`, for any number of sessions, objects, servants, names and
requests (assumptions: those of the module, that addresses are not slot numbers
and sessions are finitely many among them):

- `TypeCorrect`: `Spec => []TypeOK`;
- `CalledStayAlive`: `Spec => []CallsLand`;
- `ServantsFound`: `Spec => []ServantsServed`;
- `NamesStay`: `Spec => NamesKept`;
- `CountsHolders`: `Spec => []RefsExact`;
- `ProxiesDenote`: `Spec => []ProxyDenotes`;
- `Faultless`: `Spec => []NoFault`;
- `NamesHaveIds`: `Spec => []NamesAccounted`;
- `Implements`: `Spec => ImplementsService`.

All but the first say something only until something has happened: a session is
overtaken in `alloc_id` (`CalledStayAlive`, `ServantsFound`), two create by one
name (`NamesStay`), creations overlap at all (`CountsHolders`), the first misuse
or removal (the others). The condition is part of the property, and the
specification goes on behind it. The proof has a layer for each.

*Whatever happens*: `Base`. The types, of a vector that may hold a pointer at its
head, and of handlers that may hold one for an id; the requests under way, and
that an "overtaken" or a "sameName" is an "overlap" too. The counts are integers
here, no more.

*Until a session is overtaken*: `Typed`. `ReadHead` says that the session between
the halves of `alloc_id` is alone there and has read what is the head. `Linked` is
what is left of a free list whose exactness nobody can count on: no slot is linked
to twice, and none that holds a pointer is linked to at all. Together they are why
a slot that is taken was free, so that `Served` (the slot of a servant is its own
until it is removed) survives every creation. `RemoveServant` thus releases the
servant's own reference and nobody else's, which keeps the object of a call alive.
`RefsExact` is no help in this layer, because it fails once creations overlap; the
invariant has instead the lower bound `Counts`: a live object counts at least the
calls on it and, if it is a servant, what the application and its slot in the
table hold. `Unheld` says that what is not alive counts nothing. `Shape` and
`Constructed` say that what the vector, the names and the handlers point to has
been constructed, and that a session never creates a servant.

*Until two create by one name*: `Apart`. Of the sessions that create by name and
have not stored it, no two have the same, and the name that one has found free is
free still.

*Until creations overlap*: `Lone`, `Once` and `Exact`. One session at a time is
busy, the table is sound in the sense of `ObjectTableProofs`, and the head that
`alloc_id` read is still the head when it is unlinked, so that `Alloc` and `Link`
together are `AddPtr`. No object has two ids (`Once`). `Exact` counts: outside a
creation an object has the table's reference, the application's and those of its
calls, and never none; during it only what the creation has taken so far.

*Until the first misuse or removal*: `Clean`, that is `Whole` (nothing has failed,
nothing is freed), `GoodProxies` (the slot of every proxy holds its object, which
is not under creation), `IdsKnown` (the object in a slot knows its id, once its
creation ends) and `NamesKnown` (what has a name is stored or about to be; a name
that was looked up is still as it was found). None of the four is inductive
without the others and the layers before: `Whole` needs the counts, so that a
call that returns never gives up the last reference. In the refinement `SetId` is
the creation, every earlier step of it a stutter, because the object that is
`Unfinished` is hidden from the service; `Existing` and `Retrieve` are `Find`
because by `Lone` nobody else is creating what they find.

`RemoteCallProofs`, for any classes and functions, parameter lists of any length
and any forms, any variables and values, any number of calls and any width of
the sequence number (assumptions: those of the modules, which say what a C++
program cannot avoid, that fewer calls are pending than there are numbers, and
that "no packet" and "no header" are neither):

- `TypeCorrect`: `Spec => []TypeOK`;
- `IdsLeadWhereNamesDo`: `Spec => []CallIdsLead`;
- `StreamsFramed`: `Spec => []Framed`;
- `NumbersInFlight`: `Spec => []InFlightExact`;
- `ArgumentsArrived`: `Spec => []ArgumentsArrive`;
- `ResultsReturned`: `Spec => ResultsReturn`, an action property.

None of these is inductive, nor is their conjunction: that the next reply fits
its packet says nothing of the one behind it. The invariant `IInv` therefore
reconstructs what is not in any variable. There are numbers `d` and `u`, packets
`pk` and a stream `rest` (`View`) such that the calls before `d` are over, those
before `u` have been read by the session, `rest` is what has not, and `pk[c]` is
the packet of call `c`, the one the client keeps. `CallsOK`: packets, pending
numbers and log are those of the calls `d .. asked`, of which there are at most
`Wrap`; this is where the numbers stay apart (`NumbersApart`: two calls less than
`Wrap` apart have different remainders). `StreamsOK`: `rest` is the requests of
the calls from `u` on and `down` the replies of those from `d` on that have been
answered, one behind the other; with a header being served, `up` has the
arguments of its call before `rest`. `RegistrationOK` and `IdsOK`: the table of
functions is sound in the sense of `ObjectTableProofs`, has every stub that has
an id under its name, and what a client has learnt is the id of the stub of
that name. That it stays so is why a request written with an id, or a reply
that brings one, means the same when it is read as when it was written.

The argument has four parts. *Streams*: `Joined(s, M, first, last)` says that `s`
is the messages `M[first] .. M[last]`; a message begins with a number and has no
other (`Message`), so that it can be taken off at the front (`JoinedAfter`) and
put on at the end (`JoinedAppend`) without a definition of the whole by recursion.
*Lists*: `TravellingLists` says which places `Travelling` lists and in what
order, `LoadFills` what the loop of `Load` leaves in each place, the last value
where a variable was passed twice; `GenStubsFinds` what the loop of `gen_stubs`
leaves in the table. All three are recursive functions and are treated as the
walk of `get_used_id` is, by the least counterexample. *Messages*:
`RequestParts`, `ReplyParts`, `RequestFits` and `ReplyFits` say that what one end
writes is, part for part, what the other expects; they need that what the client
saves the server loads, and the reverse. *Steps*: one lemma for each action.
`ResultsReturned` then follows from the reply at the head of the stream being
that of the first call that is not over (`ReplyTaken`). TLC found
`CallsOK`, `StreamsOK` and `IdsOK` true of all states of `dispatch`, with `d`,
`u`, `pk` and `rest` computed from the state, before they were proved.

**Only model-checked**. Beyond the provers used: liveness (`CallsReturn`,
`SendCompletes`, `HangupEnds`, and the fairness in `CallSpec`, hence
`ImplementsCallSpec` as a whole). Every other property of a passing run is a
theorem. The statements of the violation runs are refuted, not proved.

## 5. Not modelled

- Bytes: encoding, partial reads, addresses. The streams appear through their
  results, and the serializer is not part of the repository.
- `ObjectFactoryBase::create(classID)`: nothing calls it.
- `read_args`, `send_args` and `invoke` of `server_stub`: nothing calls them.
- `remove(id, name)` and `destroy` of `AccessByNameID`: the first is not called,
  the second only from destructors; what it asserts is `Accounted`.
- Simultaneous reallocation: two threads that both enlarge the vector of the
  global table, or both insert into its map, do so one after the other here, and
  a reader of either sees it before or after. The stores into them are apart from
  the reads, and overwrite what has come between. The counter `m_nUsed` of the
  global table, which only an assert of `free_id` reads, is left out.
- What a program does after it has used deleted memory: the models stop there.
- The number of looks of the destructor is a bound (100 in the code), and that
  fewer calls are pending than there are sequence numbers is assumed
  (`MaxPending \in 1..Wrap`), not enforced by the code.
- The samples: programs that use the library; what they do is among the uses
  that the models allow.
- The message stream and the reactor: not used by the RPC.

## 6. Plan

Done: `CallProtocol` with `CallSpec`; `IdGenerator` with `IdPool`;
`SessionLifecycle`; `SessionObjects` and `GlobalObjects` with `ObjectService`;
`Registration`, `Arguments` and `RemoteCall`; the theorems of `CallProtocol`
(for any use, and for the disciplined one), `IdGenerator`, `SessionLifecycle`,
`SessionObjects`, `GlobalObjects` and `RemoteCall`, with the refinements of
`IdPool`, of `ObjectService` by both, and of the steps of `CallSpec`. What would
come next: several clients of one server, that is `CallProtocol` per connection
under `SessionLifecycle`, with the end of a session seen by its client.
