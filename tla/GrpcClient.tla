---------------------------- MODULE GrpcClient ----------------------------
(***************************************************************************)
(* grpcw::client::GrpcClient and its GrpcClientStreams.                    *)
(*                                                                         *)
(* Threads: the user's thread (the public operations), run_thread_, which  *)
(* follows the connectivity of the channel, and one thread per started     *)
(* stream.  `shared_data_' is guarded by one mutex.  A locked section is   *)
(* one step unless it stops streams: stop_stream joins a stream's thread   *)
(* while the mutex is held, so those sections take several steps and       *)
(* `lock' says who holds it.                                               *)
(*                                                                         *)
(* External: the channel, whose connectivity changes on its own, and the   *)
(* completion queue that reports one NotifyOnStateChange at a time.        *)
(***************************************************************************)
EXTENDS Naturals

CONSTANTS
    Streams,        \* streams the user may register
    InProcess,      \* TRUE: the user also attaches an in-process server
    Locking,        \* which user callbacks, of "connection" and "stream", use the client
    None

ASSUME Assumptions ==
    /\ InProcess \in BOOLEAN
    /\ Locking \subseteq {"connection", "stream"}
    /\ None \notin Streams \cup {"user", "run", "remote", "in_process", "open", "shutdown"}

VARIABLES
    connection_state, channel, streams,     \* SharedData; `stub' is set and reset with `channel'
    lock,           \* holder of the mutex of shared_data_, across steps
    using_in_process_server_, queue_,
    event,          \* the one NotifyOnStateChange: asked for, due, or neither
    conn,           \* the channel's own connectivity
    ctx, tpc,       \* per stream: context_ is set; its thread
    stopping,       \* the stream inside stop_stream
    mpc, op,        \* the user's thread and the operation it is in
    rpc, note,      \* run_thread_ and its cnc_client_state
    told            \* what the user was last told of the connection

shared  == <<connection_state, channel, streams, using_in_process_server_, queue_>>
network == <<event, conn>>
readers == <<ctx, tpc, stopping>>
user    == <<mpc, op>>
runner  == <<rpc, note>>
vars    == <<shared, lock, network, readers, user, runner, told>>

Connectivity == {"IDLE", "CONNECTING", "READY", "TRANSIENT_FAILURE"}

Mutant_UnmappedFailure(s) ==
    CASE s \in {"SHUTDOWN", "IDLE"} -> "not_connected"
      [] s = "CONNECTING"           -> "attempting_to_connect"
      [] s = "READY"                -> "connected"
      [] OTHER                      -> "invalid_argument"
to_cnc_client_state(s) ==
    CASE s \in {"SHUTDOWN", "IDLE"}                -> "not_connected"
      [] s \in {"CONNECTING", "TRANSIENT_FAILURE"} -> "attempting_to_connect"
      [] s = "READY"                               -> "connected"

----------------------------------------------------------------------------
(* The channel and the completion queue.                                   *)

Moves == {<<"IDLE", "CONNECTING">>, <<"CONNECTING", "READY">>,
          <<"CONNECTING", "TRANSIENT_FAILURE">>, <<"TRANSIENT_FAILURE", "CONNECTING">>,
          <<"CONNECTING", "IDLE">>, <<"READY", "IDLE">>, <<"READY", "TRANSIENT_FAILURE">>}

ChannelMoves ==
    /\ channel = "remote"
    /\ \E m \in Moves : conn = m[1] /\ conn' = m[2]
    /\ UNCHANGED <<shared, lock, event, readers, user, runner, told>>

\* The state differs from the last one observed, or the channel is gone.
WatchFires ==
    /\ event = "asked" /\ conn # connection_state
    /\ event' = "changed"
    /\ UNCHANGED <<shared, lock, conn, readers, user, runner, told>>

WatchExpires ==
    /\ event = "asked"
    /\ event' = "deadline"
    /\ UNCHANGED <<shared, lock, conn, readers, user, runner, told>>

----------------------------------------------------------------------------
(* GrpcClientStream.                                                       *)

streaming(s) == ctx[s]

\* The streams `which' after start_stream: one that streams already is left alone.
start_stream(which) ==
    /\ ctx' = [s \in Streams |-> s \in which \/ ctx[s]]
    /\ tpc' = [s \in Streams |-> IF s \in which /\ ~streaming(s) THEN "reading" ELSE tpc[s]]

\* Read returns an update, for on_update_; one that had arrived when the call
\* was cancelled too.
ReadUpdate(s) ==
    /\ tpc[s] = "reading"
    /\ tpc' = [tpc EXCEPT ![s] = "updating"]
    /\ UNCHANGED <<shared, lock, network, ctx, stopping, user, runner, told>>

\* Read returns false: the call was cancelled, failed or was finished.
ReadEnds(s) ==
    /\ tpc[s] = "reading"
    /\ tpc' = [tpc EXCEPT ![s] = "finishing"]
    /\ UNCHANGED <<shared, lock, network, ctx, stopping, user, runner, told>>

\* on_update_ or on_finish_ returns; if it uses the client it needs the lock.
CallbackReturns(s) ==
    /\ tpc[s] \in {"updating", "finishing"}
    /\ "stream" \in Locking => lock = None
    /\ tpc' = [tpc EXCEPT ![s] = IF @ = "updating" THEN "reading" ELSE "exited"]
    /\ UNCHANGED <<shared, lock, network, ctx, stopping, user, runner, told>>

\* stop_stream: TryCancel, then join, then reset the context.
TryCancel(s) ==
    /\ lock # None /\ stopping = None /\ s \in streams /\ streaming(s)
    /\ stopping' = s
    /\ UNCHANGED <<shared, lock, network, ctx, tpc, user, runner, told>>

Mutant_JoinNobody(s) == TRUE
Joinable(s) == tpc[s] = "exited"

JoinStream(s) ==
    /\ stopping = s /\ Joinable(s)
    /\ ctx' = [ctx EXCEPT ![s] = FALSE]
    /\ tpc' = [tpc EXCEPT ![s] = IF @ = "exited" THEN "none" ELSE @]
    /\ stopping' = None
    /\ UNCHANGED <<shared, lock, network, user, runner, told>>

\* Every registered stream has been stopped.
StreamsStopped == stopping = None /\ \A s \in streams : ~streaming(s)

----------------------------------------------------------------------------
(* The user's thread.                                                      *)

\* Every operation but register_stream begins with kill_streams_and_channel.
Operations == {"kill", "change_server", "destroy"} \cup (IF InProcess THEN {"in_process"} ELSE {})

Invoke(o) ==
    /\ mpc = "idle" /\ lock = None
    /\ op' = o /\ mpc' = "stopping" /\ lock' = "user"
    /\ UNCHANGED <<shared, network, readers, runner, told>>

\* The stub and the channel are deleted, and the lock is released.
DeleteChannel ==
    /\ mpc = "stopping" /\ StreamsStopped
    /\ channel' = None /\ conn' = "SHUTDOWN"
    /\ lock' = None /\ mpc' = "shutdown"
    /\ UNCHANGED <<connection_state, streams, using_in_process_server_, queue_, event, readers,
                   op, runner, told>>

Mutant_QueueLeftOpen ==
    /\ mpc = "shutdown" /\ mpc' = "join"
    /\ UNCHANGED <<shared, lock, network, readers, op, runner, told>>
ShutdownQueue ==
    /\ mpc = "shutdown" /\ mpc' = "join"
    /\ queue_' = IF queue_ = None THEN None ELSE "shutdown"
    /\ UNCHANGED <<connection_state, channel, streams, using_in_process_server_, lock, network,
                   readers, op, runner, told>>

\* What an operation goes on with after the kill.
After(o) ==
    CASE o = "kill" -> "idle" [] o = "destroy" -> "destroyed"
      [] o = "change_server" -> "connect" [] o = "in_process" -> "attach"

Mutant_NoJoin == TRUE
RunThreadDone == rpc \in {"none", "exited"}

JoinRunThread ==
    /\ mpc = "join" /\ RunThreadDone
    /\ rpc' = "none" /\ mpc' = After(op)
    /\ UNCHANGED <<shared, lock, network, readers, op, note, told>>

\* change_server(address, callback): a new channel and the first observation.
Connect ==
    /\ mpc = "connect" /\ lock = None
    /\ using_in_process_server_' = FALSE /\ queue_' = "open" /\ channel' = "remote"
    /\ conn' \in {"IDLE", "CONNECTING"}
    /\ connection_state' = conn'
    /\ event' = "asked"
    /\ mpc' = IF to_cnc_client_state(conn') # to_cnc_client_state(connection_state)
              THEN "notify" ELSE "spawn"
    /\ UNCHANGED <<streams, lock, readers, op, runner, told>>

NotifyUser ==
    /\ mpc = "notify" /\ mpc' = "spawn"
    /\ "connection" \in Locking => lock = None
    /\ told' = to_cnc_client_state(connection_state)
    /\ UNCHANGED <<shared, lock, network, readers, op, runner>>

SpawnRunThread ==
    /\ mpc = "spawn" /\ mpc' = "idle"
    /\ rpc' = "next"
    /\ UNCHANGED <<shared, lock, network, readers, op, note, told>>

\* change_server(in_process_channel)
Attach ==
    /\ mpc = "attach" /\ lock = None
    /\ using_in_process_server_' = TRUE /\ channel' = "in_process"
    /\ connection_state' = "READY" /\ conn' = "READY"
    /\ mpc' = "idle"
    /\ UNCHANGED <<streams, queue_, lock, event, readers, op, runner, told>>

Mutant_RegisterWithoutStart(s) ==
    /\ mpc = "idle" /\ lock = None /\ s \notin streams
    /\ streams' = streams \cup {s}
    /\ UNCHANGED <<connection_state, channel, using_in_process_server_, queue_, lock, network,
                   readers, user, runner, told>>
register_stream(s) ==
    /\ mpc = "idle" /\ lock = None /\ s \notin streams
    /\ streams' = streams \cup {s}
    /\ IF channel # None /\ connection_state = "READY"
       THEN start_stream({s}) ELSE UNCHANGED <<ctx, tpc>>
    /\ UNCHANGED <<connection_state, channel, using_in_process_server_, queue_, lock, network,
                   stopping, user, runner, told>>

\* The queries, each under the lock: use_stub calls usage_func with the stub.
get_state == to_cnc_client_state(connection_state)
use_stub  == lock = None /\ connection_state = "READY"

----------------------------------------------------------------------------
(* run: one event of the queue per iteration.                              *)

\* Next returned an event and the lock was taken.
RunLocked == rpc = "next" /\ lock = None /\ event \in {"changed", "deadline"}

\* The state of the channel changed.  Streams start or stop when the client's
\* view of it changed, then the channel is asked again; stopping takes steps.
RunUpdate ==
    /\ RunLocked /\ channel # None /\ event = "changed"
    /\ connection_state' = conn
    /\ note' = to_cnc_client_state(conn)
    /\ \/ /\ note' = to_cnc_client_state(connection_state)
          /\ event' = "asked" /\ rpc' = "next"
          /\ UNCHANGED <<lock, ctx, tpc>>
       \/ /\ note' # to_cnc_client_state(connection_state) /\ conn = "READY"
          /\ start_stream(streams)
          /\ event' = "asked" /\ rpc' = "callback"
          /\ UNCHANGED lock
       \/ /\ note' # to_cnc_client_state(connection_state) /\ conn # "READY"
          /\ lock' = "run" /\ rpc' = "stopping" /\ event' = "none"
          /\ UNCHANGED <<ctx, tpc>>
    /\ UNCHANGED <<channel, streams, using_in_process_server_, queue_, conn, stopping, user, told>>

RunStopped ==
    /\ rpc = "stopping" /\ StreamsStopped
    /\ event' = "asked" /\ lock' = None /\ rpc' = "callback"
    /\ UNCHANGED <<shared, conn, readers, user, note, told>>

\* The deadline passed: only ask again.
Mutant_DeadlineForgets ==
    /\ RunLocked /\ channel # None /\ event = "deadline"
    /\ event' = "none"
    /\ UNCHANGED <<shared, lock, conn, readers, user, runner, told>>
RunDeadline ==
    /\ RunLocked /\ channel # None /\ event = "deadline"
    /\ event' = "asked"
    /\ UNCHANGED <<shared, lock, conn, readers, user, runner, told>>

\* The channel has been deleted: the user is told, unless there is no news.
Mutant_ShutdownUntold ==
    /\ RunLocked /\ channel = None
    /\ event' = "none" /\ connection_state' = "SHUTDOWN"
    /\ UNCHANGED <<channel, streams, using_in_process_server_, queue_, runner, lock, conn, readers,
                   user, told>>
RunShutdown ==
    /\ RunLocked /\ channel = None
    /\ event' = "none"
    /\ IF to_cnc_client_state(connection_state) # "not_connected"
       THEN /\ connection_state' = "SHUTDOWN"
            /\ note' = to_cnc_client_state("SHUTDOWN")
            /\ rpc' = "callback"
       ELSE UNCHANGED <<connection_state, runner>>
    /\ UNCHANGED <<channel, streams, using_in_process_server_, queue_, lock, conn, readers, user, told>>

\* The callback runs outside the lock; if it uses the client it needs the lock.
RunCallback ==
    /\ rpc = "callback" /\ rpc' = "next"
    /\ "connection" \in Locking => lock = None
    /\ told' = note
    /\ UNCHANGED <<shared, lock, network, readers, user, note>>

\* The queue is shut down and empty.
RunExit ==
    /\ rpc = "next" /\ queue_ = "shutdown" /\ event = "none"
    /\ rpc' = "exited"
    /\ UNCHANGED <<shared, lock, network, readers, user, note, told>>

----------------------------------------------------------------------------

Init ==
    /\ connection_state = "IDLE" /\ channel = None /\ streams = {}
    /\ lock = None /\ using_in_process_server_ = FALSE /\ queue_ = None
    /\ event = "none" /\ conn = "SHUTDOWN"
    /\ ctx = [s \in Streams |-> FALSE] /\ tpc = [s \in Streams |-> "none"] /\ stopping = None
    /\ mpc = "idle" /\ op = "kill"
    /\ rpc = "none" /\ note = "not_connected" /\ told = "not_connected"

StreamThread(s) == ReadUpdate(s) \/ ReadEnds(s) \/ CallbackReturns(s)
Stopper         == \E s \in Streams : TryCancel(s) \/ JoinStream(s)
UserThread      == DeleteChannel \/ ShutdownQueue \/ JoinRunThread \/ Connect \/ NotifyUser
                   \/ SpawnRunThread \/ Attach
RunThread       == RunUpdate \/ RunStopped \/ RunDeadline \/ RunShutdown \/ RunCallback \/ RunExit
Terminated      == mpc = "destroyed" /\ UNCHANGED vars

Next ==
    \/ ChannelMoves \/ WatchFires \/ WatchExpires
    \/ \E s \in Streams : StreamThread(s) \/ register_stream(s)
    \/ \E o \in Operations : Invoke(o)
    \/ Stopper \/ UserThread \/ RunThread
    \/ Terminated

Spec == Init /\ [][Next]_vars

\* Threads run; the calls of a cancelled stream end; the queue reports a state
\* that differs from the one asked about, even when deadlines keep passing.
Fairness ==
    /\ WF_vars(UserThread) /\ WF_vars(RunThread) /\ WF_vars(Stopper)
    /\ \A s \in Streams : /\ WF_vars(CallbackReturns(s))
                          /\ SF_vars(stopping = s /\ ReadEnds(s))
    /\ SF_vars(WatchFires)

FairSpec == Spec /\ Fairness

----------------------------------------------------------------------------
(* Properties.                                                             *)

TypeOK ==
    /\ connection_state \in Connectivity \cup {"SHUTDOWN"}
    /\ conn \in Connectivity \cup {"SHUTDOWN"}
    /\ channel \in {None, "remote", "in_process"}
    /\ streams \subseteq Streams
    /\ lock \in {None, "user", "run"}
    /\ using_in_process_server_ \in BOOLEAN
    /\ queue_ \in {None, "open", "shutdown"}
    /\ event \in {"none", "asked", "changed", "deadline"}
    /\ ctx \in [Streams -> BOOLEAN]
    /\ tpc \in [Streams -> {"none", "reading", "updating", "finishing", "exited"}]
    /\ stopping \in Streams \cup {None}
    /\ mpc \in {"idle", "stopping", "shutdown", "join", "connect", "notify", "spawn", "attach",
                "destroyed"}
    /\ op \in {"kill", "change_server", "destroy", "in_process"}
    /\ rpc \in {"none", "next", "stopping", "callback", "exited"}
    /\ {note, told} \subseteq {"not_connected", "attempting_to_connect", "connected"}

\* A stream has a thread exactly while it has a context (lines 79-101, 104-112
\* of grpc_client_stream.hpp): a thread left running would be destroyed while
\* joinable by the next start_stream or by the destructor, and would use a
\* context that is gone.
ThreadHasContext == \A s \in Streams : ctx[s] <=> tpc[s] # "none"

\* While the lock is free and there is a channel to a remote server, exactly
\* the streams of a connected client stream (lines 254-256, 347-357).
StreamsFollowState ==
    (channel = "remote" /\ lock = None) =>
        \A s \in streams : streaming(s) <=> connection_state = "READY"

\* Whenever the user's thread is not inside an operation and no callback is
\* about to run, the user has been told what get_state returns.
UserIsUpToDate ==
    (mpc = "idle" /\ rpc # "callback" /\ lock = None /\ ~using_in_process_server_)
        => told = get_state

\* Lines 116-118: use_stub, called by any thread and at any moment the lock is
\* free, dereferences the stub only if there is one.
StubForUser == use_stub => channel # None

\* What is true of it.  A client of a remote server passes on a null stub only
\* inside kill_streams_and_channel, between the deletion of the stub (line 274) and
\* the event by which its run thread records the shutdown (line 367); that event
\* is due, and kill returns only after it (line 285).
NullStubOnlyInKill ==
    (use_stub /\ channel = None) =>
        \/ using_in_process_server_
        \/ /\ mpc \in {"shutdown", "join"}
           /\ rpc \in {"next", "callback"} /\ event # "none"

\* kill_streams_and_channel and everything that begins with it returns.
OperationsReturn == (mpc # "idle") ~> (mpc \in {"idle", "destroyed"})

\* A state the channel stays in is reported to the user in the end, however
\* many changes and deadlines came before.
StableStateReported ==
    \A s \in Connectivity :
        <>[](channel = "remote" /\ conn = s) => <>[](told = to_cnc_client_state(s))

\* Lines 86-87, "as the connection state changes the 'connection_change_callback'
\* will be invoked": a client told it is connected learns of a lost connection.
LossReported ==
    (channel = "remote" /\ told = "connected" /\ conn # "READY") ~> (told # "connected")
=============================================================================
