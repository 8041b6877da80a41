------------------------- MODULE StreamRpcHandler -------------------------
(***************************************************************************)
(* grpcw::server::detail::StreamRpcHandler: one server-streaming RPC of a  *)
(* GrpcAsyncServer.                                                        *)
(*                                                                         *)
(* Threads: the server's run thread (activate_next, destruction), the      *)
(* handler's sync thread (run_synchronization), and the user's threads     *)
(* that call write and finish.  They share `connections_', an AtomicData   *)
(* (a mutex and a condition variable), so every locked section is one      *)
(* step; a notify, which the code issues after unlocking, is a step of its *)
(* own.                                                                    *)
(*                                                                         *)
(* gRPC itself is external: a completion queue returns every event that is *)
(* due once, in no particular order.                                       *)
(***************************************************************************)
EXTENDS Naturals

CONSTANTS
    Calls,          \* RPC calls, each used by one client (bound: how many there are)
    Addrs,          \* addresses of StreamConnection objects, reused by the allocator
    Writers,        \* user threads that call write and finish
    Ops,            \* which of "write", "finish" the user calls
    Hooks,          \* which of "connect", "delete" the user sets a callback for
    Targeted,       \* TRUE: the user also passes a ClientID, else only broadcasts
    MaxWrites,      \* bound on the calls of a writer, unless ...
    Forever,        \* ... TRUE: writers never stop calling (the example's ticker)
    InOrder,        \* TRUE: events come back in the order lines 294-295 rely on
    EarlyShutdown,  \* TRUE: shutdown_and_wait while the stream is still in use
    None

ASSUME Assumptions ==
    /\ Ops \subseteq {"write", "finish"} /\ Hooks \subseteq {"connect", "delete"}
    /\ MaxWrites \in Nat
    /\ Targeted \in BOOLEAN /\ Forever \in BOOLEAN
    /\ InOrder \in BOOLEAN /\ EarlyShutdown \in BOOLEAN
    /\ None \notin Calls /\ None \notin Addrs

VARIABLES
    next, active, processing, tags,   \* struct Connections
    obj,        \* heap: the call whose StreamConnection lives at an address
    hooks,      \* which of connection_callback_, deletion_callback_ are set
    known,      \* the user's record of the clients the callbacks announced
    missed,     \* history: clients deleted while deletion_callback_ was not set
    call,       \* gRPC: progress of each call
    accepted,   \* gRPC: calls whose outstanding operation found the call alive
    finished,   \* gRPC: calls Finish was issued on
    misused,    \* gRPC: an operation was issued that its API forbids (its outcome is open)
    wpc, request, left,               \* user threads
    spc,        \* sync_thread_
    stage       \* life of the handler and of its server

connections == <<next, active, processing, tags, obj>>
callbacks   == <<hooks, known, missed>>
grpc        == <<call, accepted, finished, misused>>
users       == <<wpc, request, left>>
vars        == <<connections, callbacks, grpc, users, spc, stage>>

Tag == [call : Calls, label : {"done", "writing"}, data : Addrs]
\* A tag names the connection by its address; `call', which the code does not
\* record, is the call the connection had then.
make_tag(c, label, a) == [call |-> c, label |-> label, data |-> a]

Request == [op : Ops, client : IF Targeted THEN Addrs \cup {None} ELSE {None}]

----------------------------------------------------------------------------
(* gRPC, as the handler uses it.                                           *)

Free == {a \in Addrs : obj[a] = None}

\* An operation is outstanding on call c: its tag has not come back.
Outstanding(c) == \E t \in tags : t.call = c /\ t.label = "writing"

\* The done tag of call c has come back.
DoneReturned(c) == \A t \in tags : ~(t.call = c /\ t.label = "done")

\* Next may return tag t with this ok flag.  A done tag is due when its call
\* has started and ended.  An operation succeeds only if it found the call
\* alive, and fails only if the call has ended.  InOrder, an operation in flight
\* when its call ends comes back after the done tag, and failed.
Deliverable(t, ok) ==
    \/ /\ t.label = "done" /\ ok
       /\ call[t.call] = "ended"
    \/ /\ t.label = "writing" /\ ok
       /\ t.call \in accepted
       /\ InOrder => ~DoneReturned(t.call)
    \/ /\ t.label = "writing" /\ ~ok
       /\ call[t.call] = "ended"
       /\ InOrder => DoneReturned(t.call)

\* Nothing is left that Next could still return.  The done tag of a call that
\* never started is not one of gRPC's pending events.
Drained == \A t \in tags : call[t.call] \in {"requested", "failed"}

\* A client's call takes the pending request (bound: there must be a call and
\* an address for the request that replaces it).
ClientArrives ==
    /\ stage = "running"
    /\ next # None /\ call[obj[next]] = "requested"
    /\ Free # {} /\ \E c \in Calls : call[c] = "idle"
    /\ call' = [call EXCEPT ![obj[next]] = "started"]
    /\ UNCHANGED <<connections, callbacks, accepted, finished, misused, users, spc, stage>>

\* The client cancels or disconnects, or a forced shutdown cancels the call.
EndCall(c) ==
    /\ call[c] = "started"
    /\ call' = [call EXCEPT ![c] = "ended"]
    /\ UNCHANGED <<connections, callbacks, accepted, finished, misused, users, spc, stage>>

----------------------------------------------------------------------------
(* The callback setter.                                                    *)

Setter(hook) ==
    /\ stage = "running" /\ next # None
    /\ hook \in Hooks \ hooks
    /\ hooks' = hooks \cup {hook}
    /\ UNCHANGED <<connections, known, missed, grpc, users, spc, stage>>

on_connect == Setter("connect")
on_delete  == Setter("delete")

----------------------------------------------------------------------------
(* The server's run thread.                                                *)

\* `active' once `next', if there is one, has been moved into it.
Mutant_PromoteUnchecked == active \cup {next}
Promoted == active \cup ({next} \ {None})

\* make_unique<StreamConnection>, AsyncNotifyWhenDone and the request call
\* for address a and call c, after `next' (if any) became active.
ActivateNext(a, c) ==
    /\ stage \in {"running", "stopping"}
    /\ next # None => call[obj[next]] \in {"started", "ended"}
    /\ a \in Free /\ call[c] = "idle"
    /\ active' = Promoted
    /\ known' = IF next # None /\ "connect" \in hooks
                THEN [known EXCEPT ![next] = obj[next]] ELSE known
    /\ next' = a
    /\ obj' = [obj EXCEPT ![a] = c]
    /\ tags' = tags \cup {make_tag(c, "done", a)}
    /\ call' = [call EXCEPT ![c] = "requested"]
    /\ UNCHANGED <<processing, hooks, missed, accepted, finished, misused, users, spc, stage>>

activate_next == \E a \in Addrs, c \in Calls : ActivateNext(a, c)

----------------------------------------------------------------------------
(* write and finish: wait until nothing is processing, then issue the      *)
(* operation on one stream or on all; unlock; maybe notify.                *)

InvokeStream(w) ==
    /\ wpc[w] = "idle"
    /\ stage = "running" \/ EarlyShutdown
    /\ next # None
    /\ Forever \/ left[w] > 0
    /\ left' = IF Forever THEN left ELSE [left EXCEPT ![w] = @ - 1]
    /\ \E r \in Request : request' = [request EXCEPT ![w] = r]
    /\ wpc' = [wpc EXCEPT ![w] = "ready"]
    /\ UNCHANGED <<connections, callbacks, grpc, spc, stage>>

\* The predicate of wait_to_use_safely.
Mutant_NoGate == TRUE
previous_updates_processed == processing = {}

\* The connections an operation for this client (None: everyone) goes to.
Receivers(client) == IF client = None THEN active ELSE active \cap {client}

Wait(w) ==
    /\ wpc[w] = "ready" /\ stage # "destroyed"
    /\ ~previous_updates_processed
    /\ wpc' = [wpc EXCEPT ![w] = "waiting"]
    /\ UNCHANGED <<connections, callbacks, grpc, request, left, spc, stage>>

\* write and finish notify after unlocking when there was no stream at all.
Mutant_NeverNotify == FALSE
NotifyAfter == active = {}

\* What write and finish share: one operation on every connection of `to', with
\* a new tag each, and the connections marked as being processed.
Issue(w, to) ==
    /\ wpc[w] = "ready" /\ stage # "destroyed"
    /\ previous_updates_processed
    /\ tags' = tags \cup {make_tag(obj[a], "writing", a) : a \in to}
    /\ processing' = processing \cup to
    /\ accepted' = accepted \cup {obj[a] : a \in {b \in to : call[obj[b]] = "started"}}
    /\ misused' = (misused \/ \E a \in to : obj[a] \in finished \/ Outstanding(obj[a]))
    /\ wpc' = [wpc EXCEPT ![w] = IF NotifyAfter THEN "notify" ELSE "idle"]
    /\ request' = [request EXCEPT ![w] = None]
    /\ UNCHANGED <<next, active, obj, callbacks, left, spc, stage>>

write(w) ==
    /\ wpc[w] = "ready" /\ request[w].op = "write"
    /\ Issue(w, Receivers(request[w].client))
    /\ UNCHANGED <<finished, call>>

\* Finish ends a call that is alive.
finish(w) ==
    /\ wpc[w] = "ready" /\ request[w].op = "finish"
    /\ LET to == Receivers(request[w].client)
           cs == {obj[a] : a \in to}
       IN  /\ Issue(w, to)
           /\ finished' = finished \cup cs
           /\ call' = [c \in Calls |-> IF c \in cs /\ call[c] = "started"
                                       THEN "ended" ELSE call[c]]

\* The writers after condition_.notify_one: one of those waiting, if any, is
\* ready again.
NotifyOne(pcs, pcs2) ==
    \/ pcs2 = pcs /\ \A v \in Writers : pcs[v] # "waiting"
    \/ \E v \in Writers : pcs[v] = "waiting" /\ pcs2 = [pcs EXCEPT ![v] = "ready"]

WriterNotify(w) ==
    /\ wpc[w] = "notify"
    /\ NotifyOne([wpc EXCEPT ![w] = "idle"], wpc')
    /\ UNCHANGED <<connections, callbacks, grpc, request, left, spc, stage>>

\* A condition variable may wake a waiter on its own.
SpuriousWakeup(w) ==
    /\ wpc[w] = "waiting"
    /\ wpc' = [wpc EXCEPT ![w] = "ready"]
    /\ UNCHANGED <<connections, callbacks, grpc, request, left, spc, stage>>

----------------------------------------------------------------------------
(* run_synchronization.                                                    *)

\* `processing' after the event: only a writing tag ends the processing.
Mutant_ProcessedByDone(t) == processing \ {t.data}
Processed(t) == IF t.label = "writing" THEN processing \ {t.data} ELSE processing

\* The handling of this event ends in the deletion callback and active.erase.
Mutant_DoneAlwaysDeletes(t, ok) ==
    IF t.label = "writing" THEN ~ok ELSE TRUE
Mutant_OnlyDoneDeletes(t, ok) ==
    t.label = "done" /\ t.data \notin processing
Deletes(t, ok) ==
    IF t.label = "writing" THEN ~ok ELSE t.data \notin processing

\* deletion_callback_ and active.erase(key): the object is freed only if the
\* key was in `active'.
Mutant_DeleteSilently(key) ==
    /\ active' = active \ {key}
    /\ obj' = IF key \in active THEN [obj EXCEPT ![key] = None] ELSE obj
    /\ UNCHANGED <<known, missed>>
Delete(key) ==
    /\ active' = active \ {key}
    /\ obj' = IF key \in active THEN [obj EXCEPT ![key] = None] ELSE obj
    /\ known' = IF "delete" \in hooks THEN [known EXCEPT ![key] = None] ELSE known
    /\ missed' = IF key \in active /\ "delete" \notin hooks THEN missed \cup {obj[key]} ELSE missed

Handle(t, ok) ==
    /\ spc = "next" /\ stage # "destroyed"
    /\ Deliverable(t, ok)
    /\ tags' = tags \ {t}                                          \* get_tag
    /\ processing' = Processed(t)
    /\ accepted' = IF t.label = "writing" THEN accepted \ {t.call} ELSE accepted
    /\ IF Deletes(t, ok) THEN Delete(t.data) ELSE UNCHANGED <<active, obj, known, missed>>
    /\ spc' = IF t.label = "writing" /\ processing' = {} THEN "notify" ELSE "next"
    /\ UNCHANGED <<next, hooks, call, finished, misused, users, stage>>

HandleEvent == \E t \in tags, ok \in BOOLEAN : Handle(t, ok)

SyncNotify ==
    /\ spc = "notify"
    /\ NotifyOne(wpc, wpc')
    /\ spc' = "next"
    /\ UNCHANGED <<connections, callbacks, grpc, request, left, stage>>

\* After queue_.Shutdown, Next returns false once the queue is drained.
SyncExit ==
    /\ spc = "next" /\ stage = "draining" /\ Drained
    /\ spc' = "exited"
    /\ UNCHANGED <<connections, callbacks, grpc, users, stage>>

----------------------------------------------------------------------------
(* Shutdown and destruction.                                               *)

\* GrpcAsyncServer::shutdown_and_wait begins.  The user has stopped using the
\* StreamInterface, unless EarlyShutdown.
shutdown_and_wait ==
    /\ stage = "running" /\ next # None
    /\ EarlyShutdown \/ \A w \in Writers : wpc[w] = "idle"
    /\ stage' = "stopping"
    /\ UNCHANGED <<connections, callbacks, grpc, users, spc>>

\* The pending request comes back with ok = false, the run thread erases the
\* handler, and its destructor shuts queue_ down.
Mutant_JoinWithoutShutdown ==
    /\ stage = "stopping" /\ call[obj[next]] = "requested"
    /\ call' = [call EXCEPT ![obj[next]] = "failed"]
    /\ stage' = "joining"
    /\ UNCHANGED <<connections, callbacks, accepted, finished, misused, users, spc>>
EraseHandler ==
    /\ stage = "stopping" /\ call[obj[next]] = "requested"
    /\ call' = [call EXCEPT ![obj[next]] = "failed"]
    /\ stage' = "draining"
    /\ UNCHANGED <<connections, callbacks, accepted, finished, misused, users, spc>>

\* sync_thread_ is joined and the members are destroyed.
Destroy ==
    /\ stage = "draining" /\ spc = "exited"
    /\ stage' = "destroyed"
    /\ next' = None /\ active' = {} /\ processing' = {} /\ tags' = {}
    /\ obj' = [a \in Addrs |-> None]
    /\ UNCHANGED <<callbacks, grpc, users, spc>>

----------------------------------------------------------------------------

Init ==
    /\ next = None /\ active = {} /\ processing = {} /\ tags = {}
    /\ obj = [a \in Addrs |-> None]
    /\ hooks = {} /\ known = [a \in Addrs |-> None] /\ missed = {}
    /\ call = [c \in Calls |-> "idle"]
    /\ accepted = {} /\ finished = {} /\ misused = FALSE
    /\ wpc = [w \in Writers |-> "idle"]
    /\ request = [w \in Writers |-> None]
    /\ left = [w \in Writers |-> MaxWrites]
    /\ spc = "next" /\ stage = "running"

\* The destructor has run: the handler may stop here.
Terminated == stage = "destroyed" /\ UNCHANGED vars

SyncThread == HandleEvent \/ SyncNotify \/ SyncExit
RunThread  == activate_next \/ EraseHandler \/ Destroy
Writer(w)  == Wait(w) \/ write(w) \/ finish(w) \/ WriterNotify(w)

Next ==
    \/ ClientArrives
    \/ \E c \in Calls : EndCall(c)
    \/ on_connect \/ on_delete
    \/ \E w \in Writers : InvokeStream(w) \/ Writer(w) \/ SpuriousWakeup(w)
    \/ SyncThread \/ RunThread
    \/ shutdown_and_wait
    \/ Terminated

Spec == Init /\ [][Next]_vars

\* The sync thread handles an event that is due whatever the clients do: one of
\* a call that has ended.  The write on a living stream is due only when flow
\* control lets it through, that is if its client reads.
SyncDue ==
    \/ \E t \in tags, ok \in BOOLEAN : call[t.call] = "ended" /\ Handle(t, ok)
    \/ SyncNotify \/ SyncExit

\* The threads of the program keep running.  gRPC returns an event that is due,
\* and once the server is shut down (with a deadline) it ends every call.
Fairness ==
    /\ WF_vars(SyncDue) /\ WF_vars(RunThread)
    /\ \A w \in Writers : WF_vars(Writer(w))
    /\ \A c \in Calls : WF_vars(stage # "running" /\ EndCall(c))

FairSpec == Spec /\ Fairness

----------------------------------------------------------------------------
(* Properties.                                                             *)

TypeOK ==
    /\ next \in Addrs \cup {None} /\ active \subseteq Addrs /\ processing \subseteq Addrs
    /\ tags \subseteq Tag
    /\ obj \in [Addrs -> Calls \cup {None}] /\ known \in [Addrs -> Calls \cup {None}]
    /\ hooks \subseteq {"connect", "delete"} /\ missed \subseteq Calls
    /\ call \in [Calls -> {"idle", "requested", "started", "ended", "failed"}]
    /\ accepted \subseteq Calls /\ finished \subseteq Calls /\ misused \in BOOLEAN
    /\ wpc \in [Writers -> {"idle", "ready", "waiting", "notify"}]
    /\ request \in [Writers -> Request \cup {None}]
    /\ \A w \in Writers : wpc[w] \in {"ready", "waiting"} => request[w] \in Request
    /\ left \in [Writers -> 0 .. MaxWrites]
    /\ spc \in {"next", "notify", "exited"}
    /\ stage \in {"running", "stopping", "draining", "destroyed"}

\* `processing' (lines 193, 205: "mark as being processed") is exactly the set
\* of connections with an operation in flight: an entry left behind would block
\* every later write, a missing one would let two operations overlap.
ProcessingExact ==
    processing = {t.data : t \in {u \in tags : u.label = "writing"}}

\* The connection object an operation in flight was issued on is not freed or
\* given to another client before the operation's tag comes back, whatever order
\* the queue returns tags in (lines 277-302).
InFlightIsLive ==
    \A t \in tags : t.label = "writing" => t.data \in active /\ obj[t.data] = t.call

\* The handler issues no operation that gRPC forbids: none on a stream that
\* has one outstanding (lines 180-186), none after Finish.
NoMisuse == ~misused

\* A writer that waits on the condition variable is woken: while nothing is
\* processing, somebody is about to look at the predicate or to notify
\* (lines 210-212, 307-310).
NoLostWakeup ==
    (processing = {} /\ \E w \in Writers : wpc[w] = "waiting")
        => spc = "notify" \/ \E w \in Writers : wpc[w] \in {"ready", "notify"}

\* A client the user was told of is the one served at that address until the
\* deletion callback retracts it, also when addresses are reused.  The one
\* exception: on_delete was called after on_connect, and the client came and went
\* in between, so nothing ever retracts it (lines 147-153, 283-287, 297-301).
KnownIsServed ==
    stage # "destroyed" =>
        \A a \in Addrs : known[a] # None =>
            (a \in active /\ known[a] = obj[a]) \/ known[a] \in missed

\* Lines 294-295: once the done tag has been handled and no operation is in
\* flight, the stream is gone from `active'.  It does not hold in either order of
\* events: a call may end before activate_next, which then activates a connection
\* whose done tag has been used up.
DoneMeansGone ==
    \A a \in active : DoneReturned(obj[a]) => a \in processing

\* Lines 283-287 and 297-301 read the request of the stream they delete, so its
\* object must not be freed yet, nor belong to a client that came later.
DeletionIsLive ==
    \A t \in tags, ok \in BOOLEAN :
        Deliverable(t, ok) /\ Deletes(t, ok) => obj[t.data] = t.call

\* Line 280, "Remove the stream if it is finished": once the tag of Finish has
\* been handled the stream is not active any more.
FinishedIsRemoved ==
    \A a \in active : obj[a] \in finished => a \in processing

\* grpc_async_server.hpp line 51: the StreamInterface may be used until the
\* GrpcAsyncServer is destroyed, so the handler must outlive every use.
HandlerOutlivesUse ==
    stage = "destroyed" => \A w \in Writers : wpc[w] = "idle"

\* The handler keeps the promise of StreamSessions (lines 142-170, 177-215 and
\* 262-311), with clients instead of addresses: events that come late or out of
\* order close no session twice and none under its operation; in the order the
\* code assumes they close none whose client is still there.  The destructor
\* (lines 122-126) finds no operation in flight, and open only sessions whose
\* client has left.
session ==
    [c \in Calls |-> IF call[c] = "idle" THEN "none"
                     ELSE IF next # None /\ obj[next] = c THEN "pending"
                     ELSE IF \E a \in active : obj[a] = c THEN "open" ELSE "closed"]
presence ==
    [c \in Calls |-> IF call[c] = "started" THEN "here"
                     ELSE IF call[c] = "ended" THEN "left" ELSE "away"]
busy == {t.call : t \in {u \in tags : u.label = "writing"}}
Sessions == INSTANCE StreamSessions WITH Ordered <- InOrder, Disciplined <- ~EarlyShutdown
SessionSpec == Sessions!Spec

\* A client that keeps its stream reads what is written to it.
ClientsRead == \A c \in Calls : []<>(call[c] # "started" \/ ~Outstanding(c))

\* If the clients read, every call of write and finish returns (lines 180, 210-212,
\* 307-310): one that does not read blocks the writers of all streams.
WritesReturn == ClientsRead => \A w \in Writers : (wpc[w] = "ready") ~> (wpc[w] = "idle")

\* Shutting the server down ends in the destruction of the handler: the sync
\* thread drains its queue and can be joined (lines 122-126).
ShutdownCompletes == (stage = "stopping") ~> (stage = "destroyed")
=============================================================================
