--------------------------- MODULE ExampleClient ---------------------------
(***************************************************************************)
(* The example's clock client: one GrpcClient attached to a remote server, *)
(* and a loop that reads a command at a time.  `t' toggles a stream of     *)
(* time updates.  stream_context_ is written by the user's thread, by      *)
(* run_thread_ (when a stream restarts) and by the streams' threads.       *)
(***************************************************************************)
EXTENDS GrpcClient

VARIABLES
    stream_context_,    \* the stream whose context it points to, or None
    built,              \* the constructor has called change_server
    setting,            \* the stream registered whose on_finish is not set yet
    on_finish,          \* streams whose on_finish_ is set
    cancelled           \* streams whose current context was cancelled by a toggle

example     == <<stream_context_, built, setting, on_finish, cancelled>>
exampleVars == <<vars, example>>

\* The thread of main is at its prompt.
Prompt == built /\ mpc = "idle" /\ setting = None

----------------------------------------------------------------------------
\* ExampleClient(host_address)
Constructor ==
    /\ ~built /\ built' = TRUE
    /\ Invoke("change_server")
    /\ UNCHANGED <<stream_context_, setting, on_finish, cancelled>>

\* get_server_time_now: the call is made inside use_stub, under the lock.
get_server_time_now ==
    /\ Prompt /\ use_stub
    /\ lock' = "user" /\ mpc' = "asking"
    /\ UNCHANGED <<shared, network, readers, op, runner, told, example>>

TimeArrives ==
    /\ mpc = "asking"
    /\ lock' = None /\ mpc' = "idle"
    /\ UNCHANGED <<shared, network, readers, op, runner, told, example>>

\* toggle_streaming with a context: the stream stays registered.
ToggleOff ==
    /\ Prompt /\ stream_context_ # None
    /\ cancelled' = cancelled \cup {stream_context_}
    /\ UNCHANGED <<vars, stream_context_, built, setting, on_finish>>

\* A stream that starts leaves its new context in stream_context_.
Started == {s \in Streams : ctx'[s] /\ ~ctx[s]}
RecordContext ==
    /\ IF Started = {} THEN UNCHANGED stream_context_ ELSE stream_context_' \in Started
    /\ cancelled' = cancelled \ Started

\* toggle_streaming without one: register_stream, then on_update and on_finish.
ToggleOn(s) ==
    /\ Prompt /\ stream_context_ = None
    /\ register_stream(s) /\ RecordContext
    /\ setting' = s
    /\ UNCHANGED <<built, on_finish>>

SetCallbacks ==
    /\ setting # None /\ lock = None
    /\ on_finish' = on_finish \cup {setting} /\ setting' = None
    /\ UNCHANGED <<vars, stream_context_, built, cancelled>>

\* on_finish_ of a stream clears stream_context_, whichever stream it points to.
StreamFinishes(s) ==
    /\ CallbackReturns(s)
    /\ stream_context_' = IF tpc[s] = "finishing" /\ s \in on_finish THEN None ELSE stream_context_
    /\ UNCHANGED <<built, setting, on_finish, cancelled>>

RunRestarts == RunUpdate /\ RecordContext /\ UNCHANGED <<built, setting, on_finish>>

\* `x', or the end of the input.
Exit == Prompt /\ Invoke("destroy") /\ UNCHANGED example

----------------------------------------------------------------------------
ExampleInit ==
    /\ Init
    /\ stream_context_ = None /\ setting = None /\ built = FALSE
    /\ on_finish = {} /\ cancelled = {}

\* The steps of the client that leave stream_context_ alone; the lock held for
\* get_server_time_now stops no stream.
ClientSteps ==
    \/ ChannelMoves \/ WatchFires \/ WatchExpires
    \/ \E s \in Streams : ReadUpdate(s) \/ ReadEnds(s)
    \/ mpc # "asking" /\ Stopper
    \/ UserThread
    \/ RunStopped \/ RunDeadline \/ RunShutdown \/ RunCallback \/ RunExit
    \/ Terminated

ExampleNext ==
    \/ Constructor \/ get_server_time_now \/ TimeArrives \/ ToggleOff \/ SetCallbacks \/ Exit
    \/ \E s \in Streams : ToggleOn(s) \/ StreamFinishes(s)
    \/ RunRestarts
    \/ ClientSteps /\ UNCHANGED example

ExampleSpec == ExampleInit /\ [][ExampleNext]_exampleVars

----------------------------------------------------------------------------
(* Properties.                                                             *)

Reads(s) == tpc[s] \in {"reading", "updating"} /\ s \notin cancelled

\* "Toggle a stream of time updates" (main, line 91 of example_client.cpp): never
\* more than one stream delivers updates.
OneStream == \A s, t \in Streams : Reads(s) /\ Reads(t) => s = t

\* toggle_streaming (lines 55-56) cancels a context that its stream still owns.
ContextAlive == stream_context_ # None => ctx[stream_context_]
=============================================================================
