-------------------------- MODULE GrpcAsyncServer --------------------------
(***************************************************************************)
(* grpcw::server::GrpcAsyncServer with its NonStreamRpcHandlers.  Stream   *)
(* handlers, modelled in detail in StreamRpcHandler, appear by what they   *)
(* do to the server: activate_next returns at once, and the destructor     *)
(* waits until the calls of the handler have ended.                        *)
(*                                                                         *)
(* Threads: the run thread, which serves every handler while it holds the  *)
(* lock of rpc_handlers_, and the user's thread, which registers handlers, *)
(* shuts the server down and destroys it.  gRPC's server and completion    *)
(* queues are external.                                                    *)
(***************************************************************************)
EXTENDS Naturals

CONSTANTS
    Unary, Stream,  \* handlers of the two kinds
    MaxCalls,       \* bound on the calls that arrive
    None

Handlers == Unary \cup Stream

ASSUME Assumptions ==
    /\ Unary \cap Stream = {}
    /\ None \notin Unary \cup Stream
    /\ MaxCalls \in Nat

VARIABLES
    rpc_handlers,   \* the keys of rpc_handlers_
    lock,           \* TRUE: the run thread holds the lock of rpc_handlers_ across steps
    entry,          \* per handler: its request on server_queue_, or the event that ended it
    unary,          \* per unary handler: the call being served
    opened,         \* per stream handler: its calls that have not ended
    rpc, current,   \* the run thread and the handler it is serving
    upc, target,    \* the user's thread, and the handler it registers
    op,             \* why the user's thread is in server_->Shutdown
    serving,        \* server_ accepts calls
    queueOpen,      \* server_queue_ has not been shut down
    assertFailed,   \* assert(call_ok) of NonStreamRpcHandler did not hold
    lateRequest,    \* a request was made on the shut-down server_queue_
    calls           \* calls that may still arrive

run  == <<rpc, current, lock>>
user == <<upc, target, op>>
vars == <<rpc_handlers, entry, unary, opened, run, user, serving, queueOpen, assertFailed,
          lateRequest, calls>>

----------------------------------------------------------------------------
(* gRPC and the clients.                                                   *)

CallArrives(h) ==
    /\ serving /\ entry[h] = "requested" /\ calls > 0
    /\ entry' = [entry EXCEPT ![h] = "arrived"]
    /\ calls' = calls - 1
    /\ IF h \in Unary THEN unary' = [unary EXCEPT ![h] = "live"] /\ UNCHANGED opened
                      ELSE opened' = [opened EXCEPT ![h] = @ + 1] /\ UNCHANGED unary
    /\ UNCHANGED <<rpc_handlers, run, user, serving, queueOpen, assertFailed, lateRequest>>

\* The client of a unary call gives up before it is answered.
ClientCancels(h) ==
    /\ h \in Unary /\ unary[h] = "live"
    /\ unary' = [unary EXCEPT ![h] = "cancelled"]
    /\ UNCHANGED <<rpc_handlers, entry, opened, run, user, serving, queueOpen, assertFailed,
                   lateRequest, calls>>

\* A streaming call ends: the client leaves, or the deadline of a shutdown passes.
StreamEnds(h) ==
    /\ h \in Stream /\ opened[h] > 0
    /\ opened' = [opened EXCEPT ![h] = @ - 1]
    /\ UNCHANGED <<rpc_handlers, entry, unary, run, user, serving, queueOpen, assertFailed,
                   lateRequest, calls>>

NoCalls == (\A h \in Unary : unary[h] = "none") /\ (\A h \in Stream : opened[h] = 0)

\* The service's request function: a server that is shut down fails the request
\* at once, and a queue that is shut down does not take it at all.
RequestCall(h) ==
    /\ entry' = [entry EXCEPT ![h] = IF serving THEN "requested"
                                     ELSE IF queueOpen THEN "failed" ELSE "none"]
    /\ lateRequest' = (lateRequest \/ ~queueOpen)

----------------------------------------------------------------------------
(* The user's thread.                                                      *)

\* register_async and register_async_stream: emplace under the lock, then
\* activate_next outside of it.
Mutant_RegisterUnlisted(h) ==
    /\ upc = "idle" /\ ~lock /\ h \notin rpc_handlers /\ target[h] = "new"
    /\ upc' = "activating" /\ target' = [target EXCEPT ![h] = "registering"]
    /\ UNCHANGED <<rpc_handlers, entry, unary, opened, run, op, serving, queueOpen, assertFailed,
                   lateRequest, calls>>
register_async(h) ==
    /\ upc = "idle" /\ ~lock /\ h \notin rpc_handlers /\ target[h] = "new"
    /\ rpc_handlers' = rpc_handlers \cup {h}
    /\ upc' = "activating" /\ target' = [target EXCEPT ![h] = "registering"]
    /\ UNCHANGED <<entry, unary, opened, run, op, serving, queueOpen, assertFailed, lateRequest,
                   calls>>

FirstActivation(h) ==
    /\ upc = "activating" /\ target[h] = "registering"
    /\ RequestCall(h)
    /\ upc' = "idle" /\ target' = [target EXCEPT ![h] = "registered"]
    /\ UNCHANGED <<rpc_handlers, unary, opened, run, op, serving, queueOpen, assertFailed, calls>>

\* shutdown_and_wait, by itself or in the destructor: pending requests fail.
Shutdown(o) ==
    /\ upc = "idle"
    /\ upc' = "waiting" /\ op' = o
    /\ serving' = FALSE
    /\ entry' = [h \in Handlers |-> IF entry[h] = "requested" THEN "failed" ELSE entry[h]]
    /\ UNCHANGED <<rpc_handlers, unary, opened, run, target, queueOpen, assertFailed, lateRequest,
                   calls>>

\* server_->Shutdown returns once every call has ended.
ShutdownReturns ==
    /\ upc = "waiting" /\ NoCalls
    /\ upc' = IF op = "destroy" THEN "closing" ELSE "idle"
    /\ UNCHANGED <<rpc_handlers, entry, unary, opened, run, target, op, serving, queueOpen,
                   assertFailed, lateRequest, calls>>

Mutant_JoinOpenQueue ==
    /\ upc = "closing" /\ upc' = "joining"
    /\ UNCHANGED <<rpc_handlers, entry, unary, opened, run, target, op, serving, queueOpen,
                   assertFailed, lateRequest, calls>>
CloseQueue ==
    /\ upc = "closing" /\ upc' = "joining"
    /\ queueOpen' = FALSE
    /\ UNCHANGED <<rpc_handlers, entry, unary, opened, run, target, op, serving, assertFailed,
                   lateRequest, calls>>

JoinRunThread ==
    /\ upc = "joining" /\ rpc = "exited"
    /\ upc' = "destroyed"
    /\ UNCHANGED <<rpc_handlers, entry, unary, opened, run, target, op, serving, queueOpen,
                   assertFailed, lateRequest, calls>>

----------------------------------------------------------------------------
(* The run thread.                                                         *)

\* Next returned handler h with this event; the user's thread does not hold
\* the lock across steps, so it is free.
Takes(h, event) == rpc = "next" /\ entry[h] = event

\* activate_next of a stream handler asks for the next call and returns.
ServeStream(h) ==
    /\ h \in Stream /\ Takes(h, "arrived")
    /\ RequestCall(h)
    /\ UNCHANGED <<rpc_handlers, unary, opened, run, user, serving, queueOpen, assertFailed, calls>>

\* activate_next of a unary handler: the callback, under the lock ...
ServeUnary(h) ==
    /\ h \in Unary /\ Takes(h, "arrived")
    /\ rpc' = "callback" /\ current' = h /\ lock' = TRUE
    /\ entry' = [entry EXCEPT ![h] = "none"]
    /\ UNCHANGED <<rpc_handlers, unary, opened, user, serving, queueOpen, assertFailed, lateRequest,
                   calls>>

\* ... then Finish, and Next on the handler's own queue: not ok if the client
\* gave up ...
Mutant_Unanswered ==
    /\ rpc = "callback" /\ rpc' = "request"
    /\ UNCHANGED <<rpc_handlers, entry, unary, opened, current, lock, user, serving, queueOpen,
                   assertFailed, lateRequest, calls>>
FinishUnary ==
    /\ rpc = "callback" /\ rpc' = "request"
    /\ \E call_ok \in BOOLEAN :
         /\ ~call_ok => unary[current] = "cancelled"
         /\ assertFailed' = (assertFailed \/ ~call_ok)
    /\ unary' = [unary EXCEPT ![current] = "none"]
    /\ UNCHANGED <<rpc_handlers, entry, opened, current, lock, user, serving, queueOpen, lateRequest,
                   calls>>

\* ... then a new connection and the request for the next call.
RequestNext ==
    /\ rpc = "request" /\ rpc' = "next"
    /\ RequestCall(current)
    /\ current' = None /\ lock' = FALSE
    /\ UNCHANGED <<rpc_handlers, unary, opened, user, serving, queueOpen, assertFailed, calls>>

\* A failed request: erase(tag) under the lock runs the handler's destructor.
BeginErase(h) ==
    /\ Takes(h, "failed")
    /\ rpc' = "erasing" /\ current' = h /\ lock' = TRUE
    /\ entry' = [entry EXCEPT ![h] = "none"]
    /\ UNCHANGED <<rpc_handlers, unary, opened, user, serving, queueOpen, assertFailed, lateRequest,
                   calls>>

EndErase ==
    /\ rpc = "erasing" /\ rpc' = "next"
    /\ current \in Stream => opened[current] = 0
    /\ rpc_handlers' = rpc_handlers \ {current}
    /\ current' = None /\ lock' = FALSE
    /\ UNCHANGED <<entry, unary, opened, user, serving, queueOpen, assertFailed, lateRequest, calls>>

\* Next returns false: the queue is shut down and holds no event any more.
Mutant_ExitEarly ==
    /\ rpc = "next" /\ ~queueOpen
    /\ rpc' = "exited"
    /\ UNCHANGED <<rpc_handlers, entry, unary, opened, current, lock, user, serving, queueOpen,
                   assertFailed, lateRequest, calls>>
RunExit ==
    /\ rpc = "next" /\ ~queueOpen /\ \A h \in Handlers : entry[h] = "none"
    /\ rpc' = "exited"
    /\ UNCHANGED <<rpc_handlers, entry, unary, opened, current, lock, user, serving, queueOpen,
                   assertFailed, lateRequest, calls>>

----------------------------------------------------------------------------

Init ==
    /\ rpc_handlers = {} /\ lock = FALSE
    /\ entry = [h \in Handlers |-> "none"]
    /\ unary = [h \in Unary |-> "none"] /\ opened = [h \in Stream |-> 0]
    /\ rpc = "next" /\ current = None
    /\ upc = "idle" /\ target = [h \in Handlers |-> "new"] /\ op = "destroy"
    /\ serving = TRUE /\ queueOpen = TRUE
    /\ assertFailed = FALSE /\ lateRequest = FALSE
    /\ calls = MaxCalls

RunThread ==
    \/ \E h \in Handlers : ServeStream(h) \/ ServeUnary(h) \/ BeginErase(h)
    \/ FinishUnary \/ RequestNext \/ EndErase \/ RunExit

UserThread ==
    \/ \E h \in Handlers : FirstActivation(h)
    \/ ShutdownReturns \/ CloseQueue \/ JoinRunThread

Terminated == upc = "destroyed" /\ UNCHANGED vars

Next ==
    \/ \E h \in Handlers : CallArrives(h) \/ ClientCancels(h) \/ StreamEnds(h) \/ register_async(h)
    \/ \E o \in {"shutdown", "destroy"} : Shutdown(o)
    \/ RunThread \/ UserThread
    \/ Terminated

Spec == Init /\ [][Next]_vars

\* Both threads run, user callbacks return, and streaming calls end in the end
\* once the server is shut down (their clients leave, or the deadline passes).
FairSpec ==
    /\ Spec
    /\ WF_vars(RunThread) /\ WF_vars(UserThread)
    /\ \A h \in Stream : WF_vars(~serving /\ StreamEnds(h))

----------------------------------------------------------------------------
(* Properties.                                                             *)

TypeOK ==
    /\ rpc_handlers \subseteq Handlers
    /\ lock \in BOOLEAN
    /\ entry \in [Handlers -> {"none", "requested", "arrived", "failed"}]
    /\ unary \in [Unary -> {"none", "live", "cancelled"}]
    /\ opened \in [Stream -> 0 .. MaxCalls]
    /\ rpc \in {"next", "callback", "request", "erasing", "exited"}
    /\ current \in Handlers \cup {None}
    /\ upc \in {"idle", "activating", "waiting", "closing", "joining", "destroyed"}
    /\ target \in [Handlers -> {"new", "registering", "registered"}]
    /\ op \in {"shutdown", "destroy"}
    /\ {serving, queueOpen, assertFailed, lateRequest} \subseteq BOOLEAN
    /\ calls \in 0 .. MaxCalls

\* Line 93 of grpc_async_server.hpp, rpc_handlers.at(tag): every request and
\* every event on the server's queue, and the handler being served, belong to a
\* handler that is still in the map.
EventsHaveHandlers ==
    /\ \A h \in Handlers : entry[h] # "none" => h \in rpc_handlers
    /\ current # None => current \in rpc_handlers

\* Line 95: unless a request came too late for the queue, the destructor leaves
\* no handler behind, and with it no thread and no connection.
DestroyedEmpty ==
    (upc = "destroyed" /\ ~lateRequest) => rpc_handlers = {} /\ NoCalls

\* non_stream_rpc_handler.hpp line 116, assert(call_ok).
ReplyIsOk == ~assertFailed

\* async_rpc_handler_interface.hpp lines 63-64: activate_next puts its request
\* on the server's queue, so the queue must still be open.
RequestsInTime == ~lateRequest

\* Every unary call that arrived is answered, also when the shutdown of the
\* server is under way and stream handlers are being destroyed.
CallsAnswered == \A h \in Unary : (unary[h] # "none") ~> (unary[h] = "none")

\* shutdown_and_wait returns, and the destructor ends.
ShutdownEnds == (upc = "waiting") ~> (upc \in {"idle", "destroyed"})
=============================================================================
