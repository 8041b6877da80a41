-------------------------- MODULE ClientAndServer --------------------------
(***************************************************************************)
(* A GrpcClient and a ScopedGrpcServer in one process, as in the client's  *)
(* tests: one thread uses both, and the client may attach to the server    *)
(* through its in-process channel.  The service's streaming function sends *)
(* until its call is cancelled, as the test service's does.                *)
(***************************************************************************)
EXTENDS GrpcClient

VARIABLES server, handlers, wpc, dpc

Server == INSTANCE ScopedGrpcServer WITH Calls <- Streams

server_  == <<server, handlers, wpc, dpc>>
pairVars == <<vars, server_>>

\* The user's thread is not in the server's destructor.
UserFree == dpc \in {"alive", "destroyed"}

\* The in-process call of stream s has been cancelled, by either side; one that
\* the client no longer has a channel for was cancelled when it was stopped.
Cancelled(s) ==
    \/ server = "forced" \/ stopping = s
    \/ channel # "in_process" \/ tpc[s] \notin {"reading", "updating"}

----------------------------------------------------------------------------
\* in_process_channel() is asked of a server that lives.
PairInvoke(o) ==
    /\ UserFree /\ (o = "in_process" => dpc = "alive")
    /\ Invoke(o) /\ UNCHANGED server_

\* A stream started on the in-process channel is a call of the server.
PairRegister(s) ==
    /\ UserFree /\ register_stream(s)
    /\ IF channel = "in_process" /\ connection_state = "READY" /\ server = "serving"
       THEN Server!CallStarts(s) ELSE UNCHANGED server_

\* The reader of an in-process stream sees its end when the call is cancelled
\* or the server has none for it.
PairReadEnds(s) ==
    /\ (channel = "in_process" /\ s \in handlers) => Cancelled(s)
    /\ ReadEnds(s) /\ UNCHANGED server_

PairStream(s) == (ReadUpdate(s) \/ CallbackReturns(s)) /\ UNCHANGED server_

HandlerNotices(s) == Cancelled(s) /\ Server!HandlerReturns(s) /\ UNCHANGED vars

\* ~ScopedGrpcServer sets no deadline.
DestroyServer ==
    /\ mpc \in {"idle", "destroyed"}
    /\ Server!shutdown(FALSE)
    /\ UNCHANGED vars

\* The owner of a GrpcServer that runs in a thread of his own shuts it down with a
\* deadline and joins the thread.
ShutdownWithDeadline ==
    /\ mpc \in {"idle", "destroyed"}
    /\ Server!shutdown(TRUE)
    /\ UNCHANGED vars

ServerThread == (Server!ShutdownReturns \/ Server!run \/ Server!JoinRun) /\ UNCHANGED vars

----------------------------------------------------------------------------
PairInit == Init /\ Server!ServerInit

PairStopper == Stopper /\ UNCHANGED server_
PairUser    == UserThread /\ UNCHANGED server_
PairRun     == RunThread /\ UNCHANGED server_
PairWatch   == WatchFires /\ UNCHANGED server_
Network     == (ChannelMoves \/ WatchExpires) /\ UNCHANGED server_
Ended       == mpc = "destroyed" /\ dpc = "destroyed" /\ UNCHANGED pairVars

PairNext ==
    \/ Network \/ PairWatch
    \/ \E s \in Streams : PairStream(s) \/ PairReadEnds(s) \/ PairRegister(s) \/ HandlerNotices(s)
    \/ \E o \in Operations : PairInvoke(o)
    \/ PairStopper \/ PairUser \/ PairRun
    \/ DestroyServer \/ ShutdownWithDeadline \/ ServerThread \/ Ended

\* As for GrpcClient; and a service whose call was cancelled notices it.
PairFairness ==
    /\ WF_pairVars(PairUser) /\ WF_pairVars(PairRun) /\ WF_pairVars(PairStopper)
    /\ \A s \in Streams : /\ WF_pairVars(CallbackReturns(s) /\ UNCHANGED server_)
                          /\ SF_pairVars(stopping = s /\ PairReadEnds(s))
                          /\ WF_pairVars(HandlerNotices(s))
    /\ SF_pairVars(PairWatch)
    /\ WF_pairVars(ServerThread)

PairSpec == PairInit /\ [][PairNext]_pairVars /\ PairFairness

----------------------------------------------------------------------------
(* Properties of the pair.                                                 *)

\* The shutdown of the server returns and its thread is joined (lines 34-37 of
\* scoped_grpc_server.cpp), unless it set no deadline and the client has streams
\* open on its in-process channel: only the blocked thread could end those.
ServerDestructorEnds ==
    (dpc = "shutting_down" /\ (server = "forced" \/ channel # "in_process" \/ StreamsStopped))
        ~> (dpc = "destroyed")

\* The same for every client, as the order of destruction in the test
\* external_to_inprocess_and_back (server first) would need it.
ServerFirst == (dpc = "shutting_down") ~> (dpc = "destroyed")
=============================================================================
