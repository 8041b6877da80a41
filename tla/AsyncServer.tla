---------------------------- MODULE AsyncServer ----------------------------
(***************************************************************************)
(* The second-generation server of the examples: AsyncServer, the          *)
(* UnaryRpcHandlers it owns in data_, and the Tagger that names every      *)
(* operation given to gRPC.                                                *)
(*                                                                         *)
(* Threads: the run thread, which first performs the tasks of              *)
(* initialization_queue_ and then serves the events of server_queue_; the  *)
(* user's thread, which registers, starts and destroys; and other user     *)
(* threads that were given a writer and finish the call later.  Every step *)
(* on the handlers holds shutdown_mutex_; only the destructor keeps it     *)
(* from one step to the next, while it is in server_->Shutdown.            *)
(***************************************************************************)
EXTENDS Naturals, Sequences, FiniteSets

CONSTANTS
    Functions,  \* what may be registered: unary functions with their callbacks
    Addrs,      \* addresses of handlers, enough for every live one
    MaxCalls,   \* bound on the calls that arrive
    None

ASSUME AsyncAssumptions ==
    /\ MaxCalls \in Nat
    /\ IsFiniteSet(Addrs) /\ IsFiniteSet(Functions)
    /\ Cardinality(Addrs) >= Cardinality(Functions) + MaxCalls
    /\ None \notin Addrs \cup Functions
    /\ Functions \cap {"build", "publish", "stop"} = {}

VARIABLES
    initialization_queue,   \* tasks of the constructor, functions to register, "stop" = nullptr
    running,                \* running_
    server,                 \* server_ and server_queue_: "none", "up", "failed", "closing", "closed"
    published,              \* shutdown_server_ and shutdown_server_queue_ have been assigned
    data,                   \* data_: the function served by the handler at an address, or None
    tags,                   \* tagger_.tags_
    op,                     \* per handler: what gRPC has of it
    gone,                   \* handlers whose client has left
    held,                   \* handlers whose writer another thread of the user keeps
    rpc, received,          \* the run thread, and the handler of the event it took
    upc,                    \* the user's thread
    calls,                  \* calls that may still arrive
    fault                   \* why the process died, "none" while it lives

init    == <<initialization_queue, running>>
grpc    == <<server, published, gone, calls>>
rpcs    == <<data, tags, op, held>>
threads == <<rpc, received, upc>>
vars    == <<init, grpc, rpcs, threads, fault>>

Tag(a, l) == [data |-> a, label |-> l]

\* What gRPC may have of a handler: a request, the event that ended it, a call
\* in the user's hands, the event of its Finish.
NewRpcOps == {"requested", "arrived", "refused"}
Events    == {"arrived", "refused", "finished"}
InUse     == {"arrived", "open"}

----------------------------------------------------------------------------
(* Tagger and the handlers' operations.                                    *)

make_tag(ts, a, l) == ts \cup {Tag(a, l)}

Mutant_GetTagKeeps(ts, a, l) == ts
get_tag(ts, a, l) == ts \ {Tag(a, l)}

\* The clone serves the same function with the same callback.
clone(a) == data[a]

\* The tags after handler b has requested a call.
queue_handler(ts, b) == make_tag(ts, b, "ServerNewRpc")

\* A new handler b for function f joins data_ and requests a call.
queue_rpc(b, f) ==
    /\ data' = [data EXCEPT ![b] = f]
    /\ op' = [op EXCEPT ![b] = "requested"]
    /\ tags' = queue_handler(tags, b)

\* UnaryRpcHandler::finish and finish_with_error.
finish(a) ==
    /\ op' = [op EXCEPT ![a] = "finished"]
    /\ tags' = make_tag(tags, a, "ServerDone")

\* The tags after the user's callback, which finishes the call of handler a or
\* keeps the writer for later.
invoke_user_callback(ts, a, later) == IF later THEN ts ELSE make_tag(ts, a, "ServerDone")

\* gRPC asserts when an operation is started on a queue that is shut down.
ClosedQueue == fault' = "closed_queue" /\ UNCHANGED <<init, grpc, rpcs, threads>>

mutex_free == upc # "shutdown"

Alive == fault = "none"

----------------------------------------------------------------------------
(* The user's thread.                                                      *)

\* register_async throws once the server was started.  It does not check whether
\* its function was registered before: an element of Functions is one
\* registration, and a function registered twice is two elements of it, each
\* with a handler of its own.
register_async(f) ==
    /\ Alive /\ upc = "idle" /\ ~running
    /\ \A i \in DOMAIN initialization_queue : initialization_queue[i] # f
    /\ \A a \in Addrs : data[a] # f
    /\ initialization_queue' = Append(initialization_queue, f)
    /\ UNCHANGED <<running, grpc, rpcs, threads, fault>>

start ==
    /\ Alive /\ upc = "idle" /\ ~running
    /\ initialization_queue' = Append(initialization_queue, "stop")
    /\ running' = TRUE
    /\ UNCHANGED <<grpc, rpcs, threads, fault>>

\* The destructor takes shutdown_mutex_ and calls server_->Shutdown, which
\* refuses the pending requests; the pointers it uses may not be assigned yet.
Mutant_CloseBeforeDrained ==
    /\ Alive /\ upc = "idle" /\ published /\ server = "up"
    /\ server' = "closed" /\ upc' = "joining"
    /\ op' = [a \in Addrs |-> IF op[a] = "requested" THEN "refused" ELSE op[a]]
    /\ UNCHANGED <<init, published, gone, calls, data, tags, held, rpc, received, fault>>
BeginDestruction ==
    /\ Alive /\ upc = "idle"
    /\ \/ /\ ~published
          /\ fault' = "uninitialized" /\ UNCHANGED <<server, op, upc>>
       \/ /\ published /\ server = "failed"
          /\ fault' = "no_server" /\ UNCHANGED <<server, op, upc>>
       \/ /\ published /\ server = "up"
          /\ server' = "closing" /\ upc' = "shutdown"
          /\ op' = [a \in Addrs |-> IF op[a] = "requested" THEN "refused" ELSE op[a]]
          /\ UNCHANGED fault
    /\ UNCHANGED <<init, published, gone, calls, data, tags, held, rpc, received>>

\* server_->Shutdown returns when no client waits for an answer any more; then
\* the queue is shut down and the mutex released.
Mutant_QueueLeftOpen ==
    /\ Alive /\ upc = "shutdown"
    /\ \A a \in Addrs : op[a] \in InUse => a \in gone
    /\ upc' = "joining"
    /\ UNCHANGED <<init, grpc, rpcs, rpc, received, fault>>
ShutdownReturns ==
    /\ Alive /\ upc = "shutdown"
    /\ \A a \in Addrs : op[a] \in InUse => a \in gone
    /\ server' = "closed" /\ upc' = "joining"
    /\ UNCHANGED <<init, published, gone, calls, rpcs, rpc, received, fault>>

\* run_thread_.join returns, and the members are destroyed.
Join ==
    /\ Alive /\ upc = "joining" /\ rpc = "exited"
    /\ upc' = "destroyed"
    /\ data' = [a \in Addrs |-> None] /\ tags' = {}
    /\ UNCHANGED <<init, grpc, op, held, rpc, received, fault>>

\* Another thread answers the call whose writer the callback gave it.
FinishLater(a) ==
    /\ Alive /\ a \in held /\ mutex_free /\ upc # "destroyed"
    /\ \/ server = "closed" /\ ClosedQueue
       \/ /\ server # "closed"
          /\ finish(a) /\ held' = held \ {a}
          /\ UNCHANGED <<init, grpc, data, threads, fault>>

----------------------------------------------------------------------------
(* The run thread.                                                         *)

\* One round of the initialization loop.  BuildAndStart returns no server when
\* the port cannot be used.
InitTask ==
    /\ Alive /\ rpc = "init" /\ initialization_queue # <<>>
    /\ LET task == Head(initialization_queue) IN
       \/ /\ task = "build" /\ mutex_free
          /\ server' \in {"up", "failed"}
          /\ UNCHANGED <<published, rpcs, rpc, fault>>
       \/ /\ task = "publish" /\ mutex_free
          /\ published' = TRUE
          /\ UNCHANGED <<server, rpcs, rpc, fault>>
       \/ /\ task \in Functions /\ mutex_free
          /\ \/ /\ server = "up"
                /\ \E b \in Addrs : data[b] = None /\ queue_rpc(b, task)
                /\ UNCHANGED fault
             \/ /\ server # "up"
                /\ fault' = IF server = "closed" THEN "closed_queue" ELSE "no_server"
                /\ UNCHANGED <<data, tags, op>>
          /\ UNCHANGED <<server, published, held, rpc>>
       \/ /\ task = "stop"
          /\ rpc' = "run"
          /\ UNCHANGED <<server, published, rpcs, fault>>
    /\ initialization_queue' = Tail(initialization_queue)
    /\ UNCHANGED <<running, gone, calls, received, upc>>

\* server_queue_->Next returns an event; the loop then waits for the mutex.
TakeEvent ==
    /\ Alive /\ rpc = "run" /\ received = None /\ server # "failed"
    /\ \E a \in Addrs : op[a] \in Events /\ received' = a
    /\ UNCHANGED <<init, grpc, rpcs, rpc, upc, fault>>

\* ServerNewRpc: the next request first, then the user's callback.
Mutant_AnswerNever ==
    /\ Alive /\ received # None /\ mutex_free /\ op[received] = "arrived" /\ server = "up"
    /\ \E b \in Addrs : /\ data[b] = None
                        /\ data' = [data EXCEPT ![b] = data[received]]
                        /\ op' = [op EXCEPT ![b] = "requested", ![received] = "open"]
                        /\ tags' = make_tag(get_tag(tags, received, "ServerNewRpc"), b, "ServerNewRpc")
                        /\ gone' = gone \ {b}
    /\ received' = None
    /\ UNCHANGED <<init, server, published, calls, held, rpc, upc, fault>>
Mutant_NoClone ==
    /\ Alive /\ received # None /\ mutex_free /\ op[received] = "arrived" /\ server = "up"
    /\ op' = [op EXCEPT ![received] = "finished"]
    /\ tags' = make_tag(get_tag(tags, received, "ServerNewRpc"), received, "ServerDone")
    /\ received' = None
    /\ UNCHANGED <<init, grpc, data, held, rpc, upc, fault>>
Mutant_EraseAfterCallback ==
    /\ Alive /\ received # None /\ mutex_free /\ op[received] = "arrived" /\ server = "up"
    /\ \E b \in Addrs : /\ data[b] = None
                        /\ data' = [data EXCEPT ![b] = data[received], ![received] = None]
                        /\ op' = [op EXCEPT ![b] = "requested", ![received] = "open"]
                        /\ tags' = make_tag(get_tag(tags, received, "ServerNewRpc"), b, "ServerNewRpc")
                        /\ gone' = gone \ {b}
    /\ held' = held \cup {received} /\ received' = None
    /\ UNCHANGED <<init, server, published, calls, rpc, upc, fault>>
HandleNewRpc ==
    /\ Alive /\ received # None /\ mutex_free /\ op[received] = "arrived"
    /\ \/ server = "closed" /\ ClosedQueue
       \/ /\ server = "up"
          /\ \E b \in Addrs, later \in BOOLEAN :
                LET queued == queue_handler(get_tag(tags, received, "ServerNewRpc"), b)
                IN  /\ data[b] = None
                    /\ data' = [data EXCEPT ![b] = clone(received)]
                    /\ op' = [op EXCEPT ![b] = "requested",
                                        ![received] = IF later THEN "open" ELSE "finished"]
                    /\ tags' = invoke_user_callback(queued, received, later)
                    /\ held' = IF later THEN held \cup {received} ELSE held
                    /\ gone' = gone \ {b}
          /\ received' = None
          /\ UNCHANGED <<init, server, published, calls, rpc, upc, fault>>

\* ServerDone, and every event that did not succeed: the handler is erased.
HandleErase ==
    /\ Alive /\ received # None /\ mutex_free /\ op[received] \in {"refused", "finished"}
    /\ tags' = get_tag(tags, received, IF op[received] = "refused" THEN "ServerNewRpc"
                                                                  ELSE "ServerDone")
    /\ data' = [data EXCEPT ![received] = None]
    /\ op' = [op EXCEPT ![received] = "none"]
    /\ received' = None
    /\ UNCHANGED <<init, grpc, held, rpc, upc, fault>>

\* Next returns false: the queue is shut down and drained.
RunExit ==
    /\ Alive /\ rpc = "run" /\ received = None /\ server = "closed"
    /\ \A a \in Addrs : op[a] \notin Events
    /\ rpc' = "exited"
    /\ UNCHANGED <<init, grpc, rpcs, received, upc, fault>>

----------------------------------------------------------------------------
(* gRPC and the clients.                                                   *)

CallArrives(a) ==
    /\ Alive /\ server = "up" /\ op[a] = "requested" /\ calls > 0
    /\ op' = [op EXCEPT ![a] = "arrived"]
    /\ calls' = calls - 1 /\ gone' = gone \ {a}
    /\ UNCHANGED <<init, server, published, data, tags, held, threads, fault>>

\* A client gives up its call before it is answered.
ClientLeaves(a) ==
    /\ Alive /\ op[a] \in InUse /\ a \notin gone
    /\ gone' = gone \cup {a}
    /\ UNCHANGED <<init, server, published, calls, rpcs, threads, fault>>

----------------------------------------------------------------------------
Init ==
    /\ initialization_queue = <<"build", "publish">> /\ running = FALSE
    /\ server = "none" /\ published = FALSE /\ gone = {} /\ calls = MaxCalls
    /\ data = [a \in Addrs |-> None] /\ tags = {} /\ held = {}
    /\ op = [a \in Addrs |-> "none"]
    /\ rpc = "init" /\ received = None /\ upc = "idle" /\ fault = "none"

RunThread == InitTask \/ TakeEvent \/ HandleNewRpc \/ HandleErase \/ RunExit
Next ==
    \/ \E f \in Functions : register_async(f)
    \/ start \/ BeginDestruction \/ ShutdownReturns \/ Join
    \/ RunThread
    \/ \E a \in Addrs : FinishLater(a) \/ CallArrives(a) \/ ClientLeaves(a)

\* The run thread keeps running, the destructor goes on when it can, and a
\* thread that keeps a writer finishes its call.  Clients owe nothing.
Fairness ==
    /\ WF_vars(RunThread) /\ WF_vars(ShutdownReturns) /\ WF_vars(Join)
    /\ \A a \in Addrs : WF_vars(FinishLater(a))

Spec == Init /\ [][Next]_vars
FairSpec == Spec /\ Fairness

----------------------------------------------------------------------------
(* Properties.                                                             *)

Tasks  == Functions \cup {"build", "publish", "stop"}
Labels == {"ServerNewRpc", "ServerDone"}

\* The type invariant.
TypeOK ==
    /\ initialization_queue \in Seq(Tasks) /\ running \in BOOLEAN
    /\ server \in {"none", "up", "failed", "closing", "closed"} /\ published \in BOOLEAN
    /\ data \in [Addrs -> Functions \cup {None}]
    /\ tags \subseteq [data : Addrs, label : Labels]
    /\ op \in [Addrs -> {"none", "requested", "arrived", "refused", "open", "finished"}]
    /\ gone \subseteq Addrs /\ held \subseteq Addrs /\ calls \in 0..MaxCalls
    /\ rpc \in {"init", "run", "exited"} /\ received \in Addrs \cup {None}
    /\ upc \in {"idle", "shutdown", "joining", "destroyed"}
    /\ fault \in {"none", "uninitialized", "no_server", "closed_queue"}

\* The tagger holds one tag for every operation gRPC still has to report and
\* no other: get_tag never throws on an event, and no tag leaks.
TagsExact ==
    upc # "destroyed" =>
        tags = {Tag(a, "ServerNewRpc") : a \in {b \in Addrs : op[b] \in NewRpcOps}}
          \cup {Tag(a, "ServerDone")   : a \in {b \in Addrs : op[b] = "finished"}}

\* The handler of an event, and the writer a thread keeps, are alive: data_
\* gives up neither before its last event.  Only the destructor can take a kept
\* writer away, and only the writer of a client that left.
HandlersAlive ==
    /\ upc # "destroyed" => \A a \in Addrs : (data[a] # None) <=> (op[a] # "none")
    /\ \A a \in held : data[a] # None \/ (upc = "destroyed" /\ a \in gone)

\* Every function whose registration was performed has exactly one handler that
\* listens, or whose call is about to be followed by the next request.
AlwaysListening ==
    server = "up" => \A f \in Functions :
        Cardinality({a \in Addrs : data[a] = f /\ op[a] \in {"requested", "arrived"}})
            = IF \E a \in Addrs : data[a] = f THEN 1 ELSE 0

\* The process dies only if it is destroyed while still initializing, if the
\* port could not be used, or if a client left a call that was in progress.
FaultsExplained == fault # "none" => rpc = "init" \/ server = "failed" \/ gone # {}

\* A call that arrives at a started server is answered, as long as the server
\* is not destroyed.
CallsAnswered ==
    \A a \in Addrs : (op[a] = "arrived" /\ running)
                        ~> (op[a] \notin InUse \/ upc # "idle" \/ fault # "none")

\* The destructor of a started server returns; all that can keep it is a call
\* whose client still waits for the answer.  (That of a server that was never
\* started waits in join for a run thread that waits for start, line 75.)
DestructorEnds ==
    (upc = "shutdown" /\ running) ~>
        \/ upc = "destroyed" \/ fault # "none"
        \/ \E a \in Addrs : op[a] \in InUse /\ a \notin gone

\* What main of the example expects of it ("Clean up after enter"): the
\* destructor of a started server returns.
DestructorReturns == (upc = "shutdown" /\ running) ~> (upc = "destroyed" \/ fault # "none")
=============================================================================
