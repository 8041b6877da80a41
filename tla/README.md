# A TLA+ verification of grpcw

grpcw wraps gRPC's asynchronous C++ API: a server class that owns completion
queues and threads so that its user only registers callbacks, and a client class
that keeps a channel, reports its connectivity and runs streaming calls on
threads. Almost everything that can go wrong in it is concurrency: threads that
share a mutex and a condition variable, completion-queue events that arrive in
any order, calls that end at any moment, and destructors that join threads.
This directory models those parts in TLA+, checks them with TLC and proves their
safety properties, and the arithmetic of two pure helpers, with TLAPS.

## 1. Inventory

Paths are relative to `src/` of the repository root used in `PROJECT.json`.

| Part | State | Operations | Threads | What makes it correct |
|---|---|---|---|---|
| `StreamRpcHandler` (`include/grpcw/server/detail/stream_rpc_handler.hpp`, `tag.*`, callback setter) | `Connections`: `next`, `active`, `processing`, `tags`; two callbacks; `queue_` | `activate_next`, `write`, `finish`, `run_synchronization`, `on_connect`, `on_delete`, destructor | server run thread, own sync thread, any number of writers | one operation in flight per stream; no object freed under an operation; each client announced and retracted once; writers wake; shutdown drains |
| `GrpcAsyncServer`, `NonStreamRpcHandler` | `rpc_handlers_`, the pending request of each handler, `server_queue_` | `register_async`, `register_async_stream`, the run loop, `shutdown_and_wait`, `force_shutdown_in`, destructor | run thread, user thread | an event's handler is in the map; calls are answered; shutdown ends and leaves nothing |
| `GrpcClient`, `GrpcClientStream` | `SharedData` (state, channel, stub, streams), `queue_`, `run_thread_`; per stream a context and a thread | `change_server` (two), `kill_streams_and_channel`, `register_stream`, `use_stub`, `get_state`, `run`, `start_stream`, `stop_stream` | user, run thread, one per stream | streams follow the connection; joins return; the user is told; the stub exists when used |
| `BlockingQueue` | a `std::queue` with mutex and condition variable | `push_back`, `emplace_back`, `pop_front`, `pop_all_but_most_recent`, `clear` | producers, consumers | first in first out; no consumer asleep beside a value |
| `AtomicData` (grpcw's and ltb-util's) | a value with mutex and condition variable | `use_safely`, `wait_to_use_safely` with and without a timeout, `notify_one`, `notify_all`, `lock` | its users | mutual exclusion, no lost wakeup, a timeout that tells the truth |
| `GrpcServer`, `ScopedGrpcServer` | a synchronous `grpc::Server`, a thread | construct, `run`, `shutdown` (two), `in_process_channel`, destructor | owner, run thread, one per call | shutdown returns, the run thread can be joined |
| example clock server | the ticker, `keep_ticking_`, a stream | construct, tick, destructor | main, ticker, the server's | the handler outlives the ticker's use; dead streams go; enter ends the program |
| example clock client | a `GrpcClient`, `stream_context_` | `get_server_time_now`, `toggle_streaming` | main, the client's | a toggle turns one stream on or off |
| second-generation server (`example/src/server`, `shared`) | initialisation queue, `data_`, tagger, shutdown mutex | `register_async`, `start`, `run`, `finish`, destructor | user, run thread, threads that answer later | one tag per operation; clone before serve; no use after erase; destructor ends |
| second-generation client (`example/src/client`) | a task queue and a thread | construct, destroy | two | nothing to check yet, see section 6 |
| clock formatting, `AlmostEquals` | none | pure functions | | exactness at the edges |
| protocols, docs, tests, the rest of `ltb-util` | | | | no state |

How they meet: the run thread of `GrpcAsyncServer` takes events from
`server_queue_`, whose tag is a handler. An ok event makes it call
`activate_next` while it holds the lock of `rpc_handlers_`; a failed one makes it
erase, and so destroy, the handler under the same lock. A stream handler has a
second queue of its own, served by its sync thread, on which the events of `Write`,
`Finish` and `AsyncNotifyWhenDone` arrive. User threads reach the handler through
`StreamInterface` and meet the other two at the lock of `connections_`.
On the client side the user's thread and the run thread meet at the lock of
`shared_data_`, and each may, while holding it, join the threads of streams, whose
callbacks are user code. A client may attach to a `ScopedGrpcServer` of its own process;
then its streams are calls that the server's destructor waits for. In the
second-generation server one mutex separates the run thread, the threads that
answer later and the destructor.

The hard behaviours are listed with their lines under `hazards` in
`PROJECT.json`. The main ones: no order between the done tag of a call and the
tag of its operation in flight; a client that leaves before its stream is
activated; object addresses used as client ids and reused by the allocator;
`notify_one` with several waiters; joins under a lock; a state sampled after the
event that reports it; destruction racing the last event.

## 2. Modules

Every locked section is one action, because nothing else touches the data it
guards; a notify or a user callback that the code makes after unlocking is an
action of its own, and so is every point where a thread blocks. Operators and
variables carry the names of the source. `Mutant_*` operators are plausible
mistakes, one next to the definition each replaces; no specification uses
them, they show which property would notice.

**`StreamRpcHandler`** (with `MCStreamRpcHandler`). The variables `next`, `active`,
`processing`, `tags` are `struct Connections`; `obj` is the heap, giving the call
whose `StreamConnection` lives at an address, so that `active.erase` frees an
address that a later `make_unique` may return again. `known` is what a user who
keeps a table in `on_connect` and `on_delete` believes: `Hooks` says which of the two he
sets, each at any moment, and `missed` remembers the clients that went while
`on_delete` was not set. gRPC is external: a call is
requested, started and ended; `Deliverable` says which tags the queue may return
with which `ok` flag. An operation that found its
call alive (`accepted`) may succeed; one on an ended call may fail. Tags come in any
order. `InOrder` is the order that the comment at lines 294-295 assumes, and no more: an operation
in flight when its call ends comes back failed and after the done tag; a done tag may still be
handled before its call is activated. `misused`
records an operation gRPC's API forbids. Actions: `ClientArrives`, `EndCall`,
`on_connect`, `on_delete`, `activate_next`, `InvokeStream`/`Wait`/`write`/`finish`/
`WriterNotify` of a writer, `SpuriousWakeup`, `HandleEvent`/`SyncNotify`/`SyncExit` of the
sync thread, `shutdown_and_wait`, `EraseHandler`, `Destroy`.

**`StreamSessions`**. What the handler promises, in terms of clients: no addresses, tags or
threads. A client is awaited, served and let go, once; one operation at a time goes to
open sessions, and a session is closed under its operation only when that fails because
the client has left. `Ordered` adds that a session is closed only if its client has left,
and `Disciplined` that at the end nothing is in flight and every session still open is one whose
client has left. `SessionSpec` in `StreamRpcHandler` is
the refinement; the two flags are `InOrder` and the negation of `EarlyShutdown`, so the
abstract specification also tells what is lost without each.

**`GrpcAsyncServer`**. `entry[h]` is the pending request of handler `h` or the event
it turned into; unary calls are served in the three steps of `activate_next`
(callback, reply, next request) because the user's thread may run between
them; a stream handler appears by its effect: `activate_next` asks for the next
call, the destructor waits for its calls to end.

**`GrpcClient`**. `lock` is kept across steps only in the two
sections that stop streams, since `stop_stream` joins. `mpc` is the user's thread in
an operation, `rpc` the run thread, `tpc[s]` the thread of stream `s`, `event` the one
outstanding `NotifyOnStateChange`. `Locking` says which user callbacks use the client
(and so take the lock). `stub` is set and reset together with `channel` and is
not a variable.

**`ScopedGrpcServer`** and **`ClientAndServer`**. The server (`server`, the calls in the
service `handlers`, its `Wait`ing thread `wpc`, its destructor `dpc`) and its composition with a
`GrpcClient` in one process, as in the client's tests: one thread uses both. `DestroyServer` is the
destructor of `ScopedGrpcServer`, which sets no deadline; `ShutdownWithDeadline` is the owner of a plain
`GrpcServer` who does, and joins its thread himself, as in `grpc_server_tests.cpp`. A stream
that `register_stream` starts on the in-process channel is a call of the server. The
service sends until its call is cancelled, as `endless_echo_stream` of the test service does
(`HandlerNotices`).

**`ExampleServer`** extends `StreamRpcHandler` with the clock server: the ticker (`tpc`) checks
`keep_ticking`, sleeps and writes; main (`mpc`) waits for enter, stops and joins the ticker,
shuts the server down, which waits for the calls to end, and destroys it, which waits for the
handler to be destroyed. **`ExampleClient`** extends `GrpcClient` with the clock client:
`stream_context_` names the stream whose context it points to, and is written by the
user's thread, by the run thread when streams restart and by `on_finish` of any stream.

**`AsyncServer`**. The second-generation server. `op[a]` is what gRPC has of the handler at
address `a` (a request, the event that ended it, a call in the user's hands, the event
of its `Finish`); `tags` is the tagger; addresses are reused. An element of `Functions` is one
registration: `register_async` does not check for an earlier one, and a function registered twice is
two elements. The callback answers at
once or leaves the writer in `held` for another thread (`FinishLater`). The destructor holds
the mutex from `BeginDestruction` to `ShutdownReturns`. What kills the process is recorded in
`fault`: pointers the destructor uses before the run thread assigned them, a server
that could not be built, an operation on a queue that is shut down.

**`AtomicData`** has one operator per operation of the class, with the predicate and the
function as parameters; **`AtomicDataTests`** instantiates it with the three programs of the
class's tests, a bystander that takes `lock()` and spurious wakeups.

**`BlockingQueue`** and **`FifoQueue`**. The concrete queue with its wakeups (the operations of
both copies), and the promise it keeps: items leave in order, each at most once, only
the oldest are dropped. `FifoSpec` is the refinement. `pop_all_but_most_recent` of an empty queue reads
the `front()` of an empty `std::queue` (line 92 of the source, no check), which is undefined: the
model takes it as a precondition on the caller, and so does not cover such a call.

**`Clock`** and **`AlmostEquals`**. The counts the clock servers print for a duration, and the
comparison of floating-point numbers by their bit patterns, as operators. They have no
state and no run: their theorems hold for every input.

The modules **`*Proofs`** hold the theorems of section 5, each beside the module or the
composition it is about.

## 3. Runs

| Run (cfg) | Shows | Instance |
|---|---|---|
| `stream_safety` | `ProcessingExact`, `InFlightIsLive`, `NoMisuse`, `NoLostWakeup`, `KnownIsServed` with tags in any order | 4 calls over 3 addresses, 2 writers with 2 writes each; 347,276 states up to symmetry |
| `stream_in_order` | `DeletionIsLive` and the refinement `SessionSpec`, if tags came in the order lines 294-295 rely on, with targeted writes and `finish` | 4 calls over 3 addresses, 2 writers; 192,849 states up to symmetry |
| `stream_liveness` | `WritesReturn` (if the clients read), `ShutdownCompletes` | 3 calls over 2 addresses, 2 writers with 2 writes each, no callbacks; 51,787 states |
| `example_server` | `HandlerOutlivesUse`, `DeadStreamReleased`, `QuitEnds`: the ticker is joined before its handler goes, later writes release streams of clients that left if those that stay read, enter ends the program once every client has left | 3 calls, 3 addresses, 1 ticker; 97,994 states |
| `client` | on `ClientAndServer`: `ThreadHasContext`, `StreamsFollowState`, `UserIsUpToDate`, `NullStubOnlyInKill`, `OperationsReturn`, `StableStateReported`; `ServerDestructorEnds` | 2 streams, a remote server and a `ScopedGrpcServer`, the connection callback uses the client; 95,782 states |
| `server` | `EventsHaveHandlers`, `DestroyedEmpty`, `CallsAnswered`, `ShutdownEnds` | 2 unary handlers, 1 stream handler, 4 calls; 12,406 states |
| `async_server` | `TagsExact`, `HandlersAlive`, `AlwaysListening`, `FaultsExplained`, `CallsAnswered`, `DestructorEnds` | 2 functions, 4 addresses, 2 calls; 34,953 states |
| `queue` | `NoLostWakeup`, `FifoSpec`, `ConsumersServed` | 2 producers, 3 consumers, 5 values; 11,430 states |
| `atomic_data` | `TakeTurns`, `TimeoutIsTruthful`, `TestsEnd` | the three tests; 402 states |

`stream_safety` and `client` also check their module's `TypeOK`; section 5 proves
it for both and for the two asynchronous servers and the queue.

Violations, each a disagreement between the code and something the repository
says of it:

* `stream_deletion_any_order`: a write that failed frees its connection, and the
  done tag that comes later runs the deletion callback on the freed object, or
  on the client that got its address. The comment at lines 294-295 assumes the
  opposite order.
* `client_stub_in_process`: once `kill_streams_and_channel` has deleted the stub the
  state is still READY, and `use_stub` (from another thread, from a callback, or afterwards)
  dereferences a null stub. In-process that lasts; for a remote client `NullStubOnlyInKill` shows,
  and `NullStubEndsWithKill` proves, that it ends with the kill.
* `example_client_toggle`: the command "Toggle a stream of time updates", given twice
  before the client is connected, registers two streams, and both deliver updates once
  it is; so do a stream toggled off and its successor after a lost connection.

Further statements are kept as definitions, without a run of their own. TLC refutes each
when it is put into the configuration named, changed as described:

| Definition | Says | Configuration | Why it fails |
|---|---|---|---|
| `NoLostWakeup` | `stream_rpc_handler.hpp:309` | `StreamSafety`, `Targeted = TRUE` | `write(update, client)` for a client that is gone issues nothing and does not notify: it swallows the wakeup of another writer |
| `HandlerOutlivesUse` | `grpc_async_server.hpp:51` | `StreamSafety`, `EarlyShutdown = TRUE` | `shutdown_and_wait` makes the run thread destroy the stream handlers although the server object lives on |
| `DoneMeansGone` | comment, `stream_rpc_handler.hpp:294-295` | `StreamSafety` or `StreamInOrder` | a client that cancels before `activate_next` has its done tag consumed while it is `next`, and then becomes active although it is dead; `example_server` shows that later writes release it |
| `FinishedIsRemoved` | comment, `stream_rpc_handler.hpp:280` | `StreamSafety`, `Ops <- WritesFinishes` | a stream whose `Finish` succeeded stays active, and may be written to again |
| `ReplyIsOk` | `assert(call_ok)`, `non_stream_rpc_handler.hpp:116` | `Server` | the client of a unary call gives up |
| `RequestsInTime` | | `Server` | the destructor shuts `server_queue_` down between a unary call's reply and the next request |
| `OperationsReturn` | comment, `grpc_client.hpp:373` | `Client`, `Locking = {"stream"}` | a stream callback that uses the client (even `get_state`) waits for the lock that the stop of its stream holds while it joins it |
| `LossReported` | `grpc_client.hpp:86-87` | `ClientStubViolation` under `FairSpec` | a connection lost and regained before the run thread samples it |
| `ServerFirst` | the order of destruction in the test `external_to_inprocess_and_back` | `Client` | the server's destructor waits for in-process streams that only the blocked thread could stop (the test opens none) |
| `EnterQuits` | "Press enter to quit", `example_server.cpp` | `ExampleServer` | a client keeps its stream: if it does not read, the ticker stays in `write` and is never joined; if it does, `shutdown_and_wait`, which has no deadline, waits for it |
| `DeadStreamReleased` without `ClientsRead` | `example_server.cpp:76-78` | `ExampleServer` | a live client that does not read keeps every later write, and so the release of other clients' streams, waiting |
| `DestructorReturns` | "Clean up after enter", `new_arch_server.cpp:159` | `AsyncServer` | the destructor holds the mutex while `Shutdown` waits for a call that the run thread can only serve with it |
| `ContextAlive` | `example_client.cpp:55-56` | `ExampleClientViolation` | a stream that ends before `on_finish` is set leaves `stream_context_` behind |

Some properties describe a fault by naming the one case in which it happens, and do not
catch it: `ServerDestructorEnds` excepts the in-process stream that `ServerFirst` is refuted by,
`DestructorEnds` the waiting client of `DestructorReturns`, `FaultsExplained` destruction
during initialisation, a port that cannot be used and a client that left, `NullStubOnlyInKill` the kill, `KnownIsServed` the
clients that went before `on_delete` was set. They say that there is no further case.
`StreamsFollowState` counts a stream whose thread has ended but was not stopped as streaming, as
`streaming()` does.

### Bounds

`Calls`, `MaxWrites`, `MaxCalls` and `MaxPush` bound how often things happen; no other
counter is unbounded. Three addresses hold the pending connection and two
active ones, so a broadcast has several receivers and `processing` empties in two
steps; with more calls than addresses every address is reused, which is what
the stale-tag scenarios need. Two writers with two writes each are what a lost wakeup needs: one writes, both
wait, one is woken and proceeds, the other sleeps on. `ClientArrives` waits for a free address and an unused
call so that `activate_next` never runs out of either: the program would allocate.
Two streams let a stop be interrupted between streams. Two unary handlers and
a stream handler let a unary call wait behind the destruction of a stream
handler. In
`ExampleServer` three addresses let a dead stream and a live one that is not read be active together. In
`AsyncServer` two calls over two functions let one be answered late while another
arrives, and four addresses are one per live handler, so that an erased one is reused.
In `ExampleClient` two streams are two toggles. `AtomicDataTests` has the sequence length of
the test and four threads for its 500. For the safety properties the theorems of section 5
remove the bounds.

### Fairness

Weak fairness on each thread's next step: threads run, and user callbacks
return unless a model says they need a lock. `notify_one` wakes some waiter, not a
particular one. gRPC returns the events of a call that has ended (`SyncDue`). The event of a write
on a live call is not owed: a client that keeps its stream and does not read stalls it by flow
control. `WritesReturn` and `DeadStreamReleased` therefore have the premise `ClientsRead` (such events do
come), and `QuitEnds` the premise that all clients leave in the end. Streaming calls are only
assumed to end once the server is shut down (`stage # "running"`, `~serving`):
`force_shutdown_in` ends them at its deadline, and `shutdown_and_wait` without one
waits for the clients, so its liveness does rest on them leaving. On the
client, strong fairness for `WatchFires`: a state that differs from the one asked
about is reported in the end although every wait may also end by its deadline;
and for the end of a cancelled call, whose buffered updates are finite. A service
function whose call was cancelled notices it, since `endless_echo_stream` looks after every
write. In `ExampleServer` and `AsyncServer` clients need not leave: `shutdown_and_wait` and `Shutdown` set
no deadline. In `AsyncServer` a thread that keeps a writer is assumed to finish its call in the
end (`WF(FinishLater)`): that is what the user's side owes, and `CallsAnswered` rests on it. `DestructorEnds` is about servers
that were started: the destructor of one that never was hangs in `run_thread_.join()`, since its run
thread waits in `pop_front` for the task that only `start` enqueues. In `AtomicDataTests` threads are
strongly fair, since a mutex that a bystander takes now and then is free again and
again.

## 4. Constants and assumptions

Each module's `Assumptions` say that its bounds are naturals, its operations and callbacks among those of the code, its flags Booleans
and that `None` is no element of the sets it is used beside (in `GrpcClient` none of the
strings that name threads, channels and queue states either). `BlockingQueue` and `AsyncServer`
count threads or addresses, and assume them finite; `AsyncServer` has an address for every
function and call, since the program would allocate one, and `AtomicDataTests` different threads
and at least one number to write. `TickerAssumption` of
`ExampleServer` describes the program: the ticker is the only writer, never stops on its own,
only broadcasts writes, and the server may be shut down without regard to it. Nothing else is
assumed of the number of calls, addresses, writers, streams or handlers.

## 5. Proofs

Each theorem holds for every value of the constants: any number of clients, addresses,
threads, streams, functions and values. An invariant is proved from three facts: it
holds initially, every step preserves it, and it implies the property; the
strengthening was in each case checked with TLC before it was proved.

**`StreamRpcHandlerProofs`**

| Theorem | Statement | Under |
|---|---|---|
| `TypeCorrect` | `TypeOK`, `HeapExact` | nothing |
| `InFlightSafe` | `ProcessingExact`, `InFlightIsLive` | nothing: any order of events |
| `WritesNeverMisuse` | `NoMisuse` | the user only writes |
| `BroadcastsNeverLoseWakeups` | `NoLostWakeup` | no targeted operations, no use after shutdown |
| `OrderedEventsReleaseOnce` | `DeletionIsLive` | operations in flight when their call ends come back failed and after the done tag |
| `AnnouncedClientsAreServed` | `KnownIsServed` | nothing |
| `HandlerImplementsSessions` | `SessionSpec`: the handler implements `StreamSessions` | nothing; the two flags of the abstract specification follow `InOrder` and `EarlyShutdown` |
| `SessionsOnlyAdvance` | the action property `[][OnlyAdvances]_vars` | nothing |

The conditions of the middle rows are those whose removal section 3 refutes.

The argument. `HeapExact` (the occupied addresses are `next` and `active`, which are
disjoint) makes a fresh address distinct from every live one; it is inductive with
`TypeOK`. `InFlightSafe` then needs both of its parts at once: a tag of an operation in
flight names an active object *because* a done tag skips addresses in `processing`
(line 296), and `processing` misses none *because* operations are only issued when it
is empty (line 180), so no two tags share an address. `WritesNeverMisuse` is that fact
read at the moment of issue. `NoLostWakeup` needs `UsersGone` (no writer is inside when the
handler is being destroyed) and that a broadcast leaves `processing` empty only if
`active` was empty, the case in which it notifies (line 187). For ordered events
`TagsLive` ties every tag to its object: a failed operation, which frees the object, is then the last
tag of its call. `OneObjectPerCall` makes the object unique. `KnownIsServed` is inductive with
`HeapExact`: every deletion either retracts the client or records it in `missed`.

The refinement maps a client to `none`, `pending`, `open` or `closed` by where its
connection is, and the operations in flight to the clients of their tags. `OneObjectPerCall`
makes the map a function of the client although the code knows only addresses. The
interesting steps: a failed operation closes the session of *its* client, because of
`InFlightIsLive`; a stale done tag closes a session only if no operation is in flight on it,
because `processing` is exact; with ordered events it closes its own, because of `TagsLive`;
and the destructor finds nobody served, because the sync thread leaves only when every tag
of a call that came is back (`Ending`, `ActiveCame`) while the done tag of a call that has not ended
is still to come (`DoneOwed`, in any order of events): whoever is left then has ended.

**`GrpcAsyncServerProofs`**

| Theorem | Statement |
|---|---|
| `ServerTypeCorrect` | `TypeOK` |
| `EventsFindHandlers` | `EventsHaveHandlers` |
| `DestructionLeavesNothing` | `DestroyedEmpty` |

All three come from one inductive invariant. `CallsCounted` bounds the open calls by
those that arrived. `Owned` says who is responsible for each handler: it has a request
or an event on the queue, or the run thread serves or erases it, or it is being
registered, or its request came after the queue was shut down; so an event never
names an erased handler, and a handler without one has not been forgotten. `Closing`
follows the destructor (lines 101-107): the server stops before the queue does,
the queue before the run thread, the run thread before the destructor ends, and the
run thread leaves only when no event is left. With `Owned`, that makes the handler map
empty.

**`ClientAndServerProofs`**

| Theorem | Statement |
|---|---|
| `ClientTypeCorrect` | `TypeOK` of `GrpcClient` |
| `ThreadsHaveContexts` | `ThreadHasContext` |
| `StreamsFollowConnection` | `StreamsFollowState` |
| `UserKnowsState` | `UserIsUpToDate` |
| `NullStubEndsWithKill` | `NullStubOnlyInKill` |
| `PairImplementsClient` | `PairSpec => Spec`: beside a server of its process the client is a `GrpcClient` |
| `PairClientSafe` | the five properties above, of the composition |

None assumes anything of `Locking`: what the callbacks do can block the client but not
break it. The invariant has one part per question. `Mutex`: who holds the lock, and which
stream is being stopped under it. `Registered`: only registered streams of a client with
a channel stream. `Channels`: which channel there is at each point of the user's
operation. `Runner`: every remote channel has a run thread, and an event asked for or due,
and none is left behind when `kill_streams_and_channel` has joined the thread; this is what
`NullStubEndsWithKill` rests on, and what an in-process client lacks (`client_stub_in_process`).
`Following`: the streams between and inside the locked sections. `Telling`: what the
user has been told, or is about to be, is the recorded state.

**`BlockingQueueProofs`**

| Theorem | Statement |
|---|---|
| `QueueTypeCorrect` | `TypeOK` |
| `NoConsumerForgotten` | `NoLostWakeup` |
| `QueueIsFifo` | `FifoSpec`: the queue implements `FifoQueue` |

`NoLostWakeup` is itself inductive with `TypeOK`; it counts: values do not outnumber the
notifications due and the consumers awake while somebody sleeps. The refinement maps
each operation to its abstract one, `pop_all_but_most_recent` to a drop of all but one.

**`AsyncServerProofs`**

| Theorem | Statement |
|---|---|
| `TagsAreExact` | `TagsExact` |
| `HandlersStayAlive` | `HandlersAlive` |
| `EveryFunctionListens` | `AlwaysListening` |
| `FaultsAreExplained` | `FaultsExplained` |
| `AsyncTypeCorrect` | `TypeOK` |

`Initializing` orders the tasks of the initialisation queue (build, publish, then each
function once, while it has no handler). `Closing` follows the destructor, `Holding` says
which events and calls threads have in hand. `Owning` ties the three records of a
handler, `data_`, its tags and what gRPC has of it, and `Listening` says that a function
with a handler has exactly one that waits for a call.

**`ExampleServerProofs`**

| Theorem | Statement |
|---|---|
| `ExampleImplementsHandler` | `ExampleSpec => Spec`: the clock server is a user of `StreamRpcHandler` |
| `TickerOutlivedByHandler` | `HandlerOutlivesUse` |
| `TickerNeverForgotten` | `NoLostWakeup` |
| `TicksNeverMisuse` | `NoMisuse`, `InFlightIsLive`, `ProcessingExact` |
| `CompoundIsExact` | for every duration, negative ones too (the system clock may be set back), hours, minutes and seconds are in range, of one sign, and fall short of the duration by less than a second |
| `FormatsAgree` | `HOURS`, `MINUTES` and `SECONDS` are the compound counts added up, although each truncates on its own |

`shutdown_and_wait` waits for no user of the stream (`EarlyShutdown`), and section 3 shows
what that allows. `TickerFirst` proves that this program uses it well: the ticker is
joined (line 86) before the shutdown begins (line 88), so it satisfies the `UsersGone` that
the handler asks for. The last two rest on `CastRemainder` (a truncating
division leaves a remainder smaller than the unit and of the duration's sign), applied
three times.

**`AtomicDataProofs`**

| Theorem | Statement |
|---|---|
| `NumbersAreOrdered` | `TakeTurns`, for every `max_number` |
| `ReturnValueIsTruthful` | `TimeoutIsTruthful` |

`Numbers` gives the three lists element by element; `NextInOrder` is the arithmetic of one
more number. `Leaving` says which of the two threads has left its loop at which number
(the one that reaches `max_number` leaves first, the other writes once more), and
`EndsLast` that main ends after the helper, which together fix the last number.

**`AlmostEquals`** carries its own theorems: `AlmostEqualsIsUlps` (the wrapping unsigned distance
of the bit patterns is the distance in representable numbers, for every width, across
zero), `AlmostEqualsIsSymmetric`, and `SpecialNumbers` (NaN, infinity and the two zeros behave
as the comment says). They rest on `BiasedIsShifted`: the biased representation is the
number's place plus the sign mask.

Only model-checked: every liveness property (`WritesReturn`, `ShutdownCompletes`,
`OperationsReturn`, `StableStateReported`, `ServerDestructorEnds`, `CallsAnswered`, `ShutdownEnds`,
`ConsumersServed`, `DestructorEnds`, `DeadStreamReleased`, `QuitEnds`, `TestsEnd`), since reasoning from
fairness is outside the provers used. Every safety property that a passing run checks is
also proved.

## 6. Not modelled

* `ServerStreamRpcHandler`: `AsyncServer` has no operation that creates one.
* The second-generation `Client`: no operation of it starts a call, and
  `completion_queue_valid_` is never set, so its event loop never runs. The code that uses
  the client's `UnaryRpcHandler` is disabled by `#if 0`, and `new_arch_client.cpp` never creates
  its `ExampleClient` (`NEW_WAY`).
* Message contents, addresses of servers and printing are abstracted, except the
  numbers the clock prints. Unlocked assignments of callbacks (`on_connect`, `on_update`)
  race with their callers in the code; the models set them atomically. Return values
  of `write` and `finish`, always true in the code, are left out.
* The rest of `ltb-util` (results, errors, guards, timers, files, CUDA): template plumbing
  and I/O without state that outlives a call.

## 7. Plan

1. A proof of what remains safe of `ExampleClient` (a context is never freed twice although
   `stream_context_` may be stale), with the invariant of `ClientAndServerProofs`.
2. `StreamSessions` for targeted operations on one client: which client an id names while
   its session is open.
3. The composition of `GrpcAsyncServer` with `StreamRpcHandler` instead of the handler's
   effect, as a refinement of both.
