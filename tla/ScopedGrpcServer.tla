------------------------- MODULE ScopedGrpcServer -------------------------
(***************************************************************************)
(* grpcw::server::GrpcServer, a synchronous gRPC server, and               *)
(* ScopedGrpcServer, which runs it in a thread of its own and shuts it     *)
(* down in its destructor.  The service's functions run on threads of      *)
(* gRPC, one per call.                                                     *)
(***************************************************************************)
CONSTANT Calls

VARIABLES
    server,     \* server_: "serving", shutting down ("shutdown", "forced"), "closed"
    handlers,   \* calls the service is executing
    wpc,        \* run_thread_, inside server_->Wait
    dpc         \* the owner's thread, as far as it shuts down and joins

serverVars == <<server, handlers, wpc, dpc>>

\* A call reaches the service.
CallStarts(c) ==
    /\ server = "serving"
    /\ handlers' = handlers \cup {c}
    /\ UNCHANGED <<server, wpc, dpc>>

HandlerReturns(c) ==
    /\ c \in handlers
    /\ handlers' = handlers \ {c}
    /\ UNCHANGED <<server, wpc, dpc>>

\* shutdown() by the destructor, or shutdown(deadline) by the owner of a
\* GrpcServer: no more calls; after a deadline the open ones are cancelled.
shutdown(deadline) ==
    /\ dpc = "alive" /\ dpc' = "shutting_down"
    /\ server' = IF deadline THEN "forced" ELSE "shutdown"
    /\ UNCHANGED <<handlers, wpc>>

\* server_->Shutdown returns when no call is left.
ShutdownReturns ==
    /\ dpc = "shutting_down" /\ handlers = {}
    /\ dpc' = "joining" /\ server' = "closed"
    /\ UNCHANGED <<handlers, wpc>>

\* run: server_->Wait returns.
Mutant_WaitForever ==
    /\ wpc = "waiting" /\ server = "closed" /\ handlers # {}
    /\ wpc' = "returned"
    /\ UNCHANGED <<server, handlers, dpc>>
run ==
    /\ wpc = "waiting" /\ server = "closed"
    /\ wpc' = "returned"
    /\ UNCHANGED <<server, handlers, dpc>>

JoinRun ==
    /\ dpc = "joining" /\ wpc = "returned"
    /\ dpc' = "destroyed"
    /\ UNCHANGED <<server, handlers, wpc>>

ServerInit == server = "serving" /\ handlers = {} /\ wpc = "waiting" /\ dpc = "alive"
=============================================================================
