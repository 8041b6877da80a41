----------------------- MODULE ClientAndServerProofs -----------------------
(***************************************************************************)
(* The client's threads, streams, stub and reports agree with its state,   *)
(* for any number of streams, whether or not its callbacks use the client  *)
(* and whether or not it shares its process with the server.               *)
(***************************************************************************)
EXTENDS ClientAndServer, TLAPS

----------------------------------------------------------------------------
(* The inductive invariant of the client.                                  *)

\* The mutex has one holder, the thread that stops streams, and a stream inside
\* stop_stream is a registered one that streams.
Mutex ==
    /\ lock = "user" <=> mpc = "stopping"
    /\ lock = "run" <=> rpc = "stopping"
    /\ stopping # None => lock # None /\ stopping \in streams /\ streaming(stopping)

\* Only registered streams of a client with a channel stream, and each has its
\* thread.
Registered ==
    /\ ThreadHasContext
    /\ \A s \in Streams : streaming(s) => s \in streams /\ channel # None

\* Which channel there is, by what the user's thread is doing.
Channels ==
    /\ mpc \in {"shutdown", "join", "connect", "attach", "destroyed"} => channel = None
    /\ mpc \in {"notify", "spawn"} => channel = "remote"
    /\ channel = "in_process" => using_in_process_server_
    /\ using_in_process_server_ =>
         channel # "remote" /\ rpc = "none" /\ connection_state = "READY"

\* Every remote channel has a run thread and an event that is asked for or due,
\* and a run thread survives its channel only until kill_streams_and_channel
\* has joined it; it leaves no event behind.
Runner ==
    /\ mpc \in {"connect", "attach", "notify", "spawn", "destroyed"} => rpc = "none"
    /\ channel = "remote" => rpc \in {"next", "stopping", "callback"} \/ mpc \in {"notify", "spawn"}
    /\ channel = None /\ mpc \notin {"shutdown", "join"} => rpc = "none"
    /\ rpc = "none" /\ mpc \notin {"notify", "spawn"} => event = "none"
    /\ rpc = "stopping" => channel = "remote" /\ event = "none" /\ connection_state # "READY"
    /\ channel = "remote" /\ rpc # "stopping" => event # "none"
    /\ rpc = "exited" => event = "none"

\* The streams of a remote channel between and inside locked sections.
Following ==
    /\ channel = "remote" /\ rpc # "stopping" =>
         \A s \in Streams : streaming(s) => connection_state = "READY"
    /\ channel = "remote" /\ lock = None /\ connection_state = "READY" =>
         \A s \in streams : streaming(s)

\* What the user was told, or is about to be told, is the recorded state; and
\* without a channel or an event left that state is not a connected one.
Telling ==
    /\ rpc \in {"stopping", "callback"} => note = get_state
    /\ ~using_in_process_server_ /\ mpc # "notify" /\ rpc \notin {"stopping", "callback"} =>
         told = get_state
    /\ channel = None /\ event = "none" /\ ~using_in_process_server_ =>
         get_state = "not_connected"

IInv == TypeOK /\ Mutex /\ Registered /\ Channels /\ Runner /\ Following /\ Telling

----------------------------------------------------------------------------
\* What to_cnc_client_state returns: of the five states only READY is connected.
LEMMA StateNames ==
    /\ \A s \in Connectivity \cup {"SHUTDOWN"} :
         /\ to_cnc_client_state(s) \in {"not_connected", "attempting_to_connect", "connected"}
         /\ to_cnc_client_state(s) = "connected" <=> s = "READY"
    /\ to_cnc_client_state("SHUTDOWN") = "not_connected"
    /\ to_cnc_client_state("IDLE") = "not_connected"
  BY DEF Connectivity, to_cnc_client_state

\* start_stream makes the given streams stream and leaves the others alone.
LEMMA StartStream ==
    ASSUME TypeOK, NEW which, start_stream(which)
    PROVE  /\ ctx' \in [Streams -> BOOLEAN]
           /\ tpc' \in [Streams -> {"none", "reading", "updating", "finishing", "exited"}]
           /\ \A s \in Streams : ctx'[s] <=> (s \in which \/ ctx[s])
           /\ ThreadHasContext => ThreadHasContext'
<1>1. ctx' \in [Streams -> BOOLEAN]
  BY Zenon DEF start_stream
<1>2. \A s \in Streams : ctx'[s] <=> (s \in which \/ ctx[s])
  BY DEF start_stream
<1>3. tpc' \in [Streams -> {"none", "reading", "updating", "finishing", "exited"}]
  BY DEF start_stream, TypeOK
<1>4. \A s \in Streams : tpc'[s] = IF s \in which /\ ~ctx[s] THEN "reading" ELSE tpc[s]
  BY DEF start_stream, streaming
<1> QED
  BY <1>1, <1>2, <1>3, <1>4 DEF ThreadHasContext

\* Initially there is no channel, no thread and no stream.
LEMMA ClientInit == Init => IInv
<1> SUFFICES ASSUME Init PROVE IInv
  OBVIOUS
<1> USE Assumptions DEF Init, streaming
<1>1. TypeOK
  BY DEF TypeOK, Connectivity
<1>2. Mutex /\ Registered /\ Channels /\ Runner /\ Following
  BY DEF Mutex, Registered, ThreadHasContext, Channels, Runner, Following
<1>3. Telling
  BY StateNames DEF Telling, get_state
<1> QED
  BY <1>1, <1>2, <1>3 DEF IInv

\* Every step of the user's, the run and the streams' threads, of the channel
\* and of the completion queue preserves the invariant.
LEMMA ClientStep ==
    ASSUME IInv, [Next]_vars
    PROVE  IInv'
<1> USE Assumptions DEF shared, network, readers, user, runner, streaming, IInv
<1>1. ASSUME ChannelMoves PROVE IInv'
  <2>1. TypeOK'
    BY <1>1, StateNames DEF TypeOK, Connectivity, ChannelMoves, Moves
  <2>2. Mutex' /\ Registered'
    BY <1>1 DEF TypeOK, Mutex, Registered, ThreadHasContext, ChannelMoves, Moves
  <2>3. Channels'
    BY <1>1 DEF TypeOK, Mutex, Channels, Runner, ChannelMoves, Moves
  <2>4. Runner'
    BY <1>1 DEF TypeOK, Mutex, Channels, Runner, ChannelMoves, Moves
  <2>5. Following'
    BY <1>1, StateNames DEF TypeOK, Mutex, Registered, Channels, Runner, Following, ChannelMoves, Moves
  <2>6. Telling'
    BY <1>1, StateNames DEF TypeOK, Mutex, Channels, Runner, Telling, get_state, ChannelMoves, Moves
  <2> QED
    BY <2>1, <2>2, <2>3, <2>4, <2>5, <2>6
<1>2. ASSUME WatchFires PROVE IInv'
  <2>1. TypeOK'
    BY <1>2, StateNames DEF TypeOK, Connectivity, WatchFires
  <2>2. Mutex' /\ Registered'
    BY <1>2 DEF TypeOK, Mutex, Registered, ThreadHasContext, WatchFires
  <2>3. Channels'
    BY <1>2 DEF TypeOK, Mutex, Channels, Runner, WatchFires
  <2>4. Runner'
    BY <1>2 DEF TypeOK, Mutex, Channels, Runner, WatchFires
  <2>5. Following'
    BY <1>2, StateNames DEF TypeOK, Mutex, Registered, Channels, Runner, Following, WatchFires
  <2>6. Telling'
    BY <1>2, StateNames DEF TypeOK, Mutex, Channels, Runner, Telling, get_state, WatchFires
  <2> QED
    BY <2>1, <2>2, <2>3, <2>4, <2>5, <2>6
<1>3. ASSUME WatchExpires PROVE IInv'
  <2>1. TypeOK'
    BY <1>3, StateNames DEF TypeOK, Connectivity, WatchExpires
  <2>2. Mutex' /\ Registered'
    BY <1>3 DEF TypeOK, Mutex, Registered, ThreadHasContext, WatchExpires
  <2>3. Channels'
    BY <1>3 DEF TypeOK, Mutex, Channels, Runner, WatchExpires
  <2>4. Runner'
    BY <1>3 DEF TypeOK, Mutex, Channels, Runner, WatchExpires
  <2>5. Following'
    BY <1>3, StateNames DEF TypeOK, Mutex, Registered, Channels, Runner, Following, WatchExpires
  <2>6. Telling'
    BY <1>3, StateNames DEF TypeOK, Mutex, Channels, Runner, Telling, get_state, WatchExpires
  <2> QED
    BY <2>1, <2>2, <2>3, <2>4, <2>5, <2>6
<1>4. ASSUME NEW s \in Streams, ReadUpdate(s) PROVE IInv'
  <2>1. TypeOK'
    BY <1>4, StateNames DEF TypeOK, Connectivity, ReadUpdate
  <2>2. Mutex' /\ Registered'
    BY <1>4 DEF TypeOK, Mutex, Registered, ThreadHasContext, ReadUpdate
  <2>3. Channels'
    BY <1>4 DEF TypeOK, Mutex, Channels, Runner, ReadUpdate
  <2>4. Runner'
    BY <1>4 DEF TypeOK, Mutex, Channels, Runner, ReadUpdate
  <2>5. Following'
    BY <1>4, StateNames DEF TypeOK, Mutex, Registered, Channels, Runner, Following, ReadUpdate
  <2>6. Telling'
    BY <1>4, StateNames DEF TypeOK, Mutex, Channels, Runner, Telling, get_state, ReadUpdate
  <2> QED
    BY <2>1, <2>2, <2>3, <2>4, <2>5, <2>6
<1>5. ASSUME NEW s \in Streams, ReadEnds(s) PROVE IInv'
  <2>1. TypeOK'
    BY <1>5, StateNames DEF TypeOK, Connectivity, ReadEnds
  <2>2. Mutex' /\ Registered'
    BY <1>5 DEF TypeOK, Mutex, Registered, ThreadHasContext, ReadEnds
  <2>3. Channels'
    BY <1>5 DEF TypeOK, Mutex, Channels, Runner, ReadEnds
  <2>4. Runner'
    BY <1>5 DEF TypeOK, Mutex, Channels, Runner, ReadEnds
  <2>5. Following'
    BY <1>5, StateNames DEF TypeOK, Mutex, Registered, Channels, Runner, Following, ReadEnds
  <2>6. Telling'
    BY <1>5, StateNames DEF TypeOK, Mutex, Channels, Runner, Telling, get_state, ReadEnds
  <2> QED
    BY <2>1, <2>2, <2>3, <2>4, <2>5, <2>6
<1>6. ASSUME NEW s \in Streams, CallbackReturns(s) PROVE IInv'
  <2>1. TypeOK'
    BY <1>6, StateNames DEF TypeOK, Connectivity, CallbackReturns
  <2>2. Mutex' /\ Registered'
    BY <1>6 DEF TypeOK, Mutex, Registered, ThreadHasContext, CallbackReturns
  <2>3. Channels'
    BY <1>6 DEF TypeOK, Mutex, Channels, Runner, CallbackReturns
  <2>4. Runner'
    BY <1>6 DEF TypeOK, Mutex, Channels, Runner, CallbackReturns
  <2>5. Following'
    BY <1>6, StateNames DEF TypeOK, Mutex, Registered, Channels, Runner, Following, CallbackReturns
  <2>6. Telling'
    BY <1>6, StateNames DEF TypeOK, Mutex, Channels, Runner, Telling, get_state, CallbackReturns
  <2> QED
    BY <2>1, <2>2, <2>3, <2>4, <2>5, <2>6
<1>7. ASSUME NEW s \in Streams, register_stream(s) PROVE IInv'
  <2>1. TypeOK'
    BY <1>7, StartStream DEF TypeOK, Connectivity, register_stream
  <2>2. Mutex' /\ Registered'
    BY <1>7, StartStream DEF TypeOK, Mutex, Registered, ThreadHasContext, register_stream
  <2>3. Channels'
    BY <1>7 DEF TypeOK, Mutex, Channels, Runner, register_stream
  <2>4. Runner'
    BY <1>7 DEF TypeOK, Mutex, Channels, Runner, register_stream
  <2>5. Following'
    BY <1>7, StartStream DEF TypeOK, Mutex, Registered, Channels, Runner, Following, register_stream
  <2>6. Telling'
    BY <1>7, StateNames DEF TypeOK, Mutex, Channels, Runner, Telling, get_state, register_stream
  <2> QED
    BY <2>1, <2>2, <2>3, <2>4, <2>5, <2>6
<1>8. ASSUME NEW o \in Operations, Invoke(o) PROVE IInv'
  <2>1. TypeOK'
    BY <1>8, StateNames DEF TypeOK, Connectivity, Invoke, Operations
  <2>2. Mutex' /\ Registered'
    BY <1>8 DEF TypeOK, Mutex, Registered, ThreadHasContext, Invoke, Operations
  <2>3. Channels'
    BY <1>8 DEF TypeOK, Mutex, Channels, Runner, Invoke, Operations
  <2>4. Runner'
    BY <1>8 DEF TypeOK, Mutex, Channels, Runner, Invoke, Operations
  <2>5. Following'
    BY <1>8, StateNames DEF TypeOK, Mutex, Registered, Channels, Runner, Following, Invoke, Operations
  <2>6. Telling'
    BY <1>8, StateNames DEF TypeOK, Mutex, Channels, Runner, Telling, get_state, Invoke, Operations
  <2> QED
    BY <2>1, <2>2, <2>3, <2>4, <2>5, <2>6
<1>9. ASSUME NEW s \in Streams, TryCancel(s) PROVE IInv'
  <2>1. TypeOK'
    BY <1>9, StateNames DEF TypeOK, Connectivity, TryCancel
  <2>2. Mutex' /\ Registered'
    BY <1>9 DEF TypeOK, Mutex, Registered, ThreadHasContext, TryCancel
  <2>3. Channels'
    BY <1>9 DEF TypeOK, Mutex, Channels, Runner, TryCancel
  <2>4. Runner'
    BY <1>9 DEF TypeOK, Mutex, Channels, Runner, TryCancel
  <2>5. Following'
    BY <1>9, StateNames DEF TypeOK, Mutex, Registered, Channels, Runner, Following, TryCancel
  <2>6. Telling'
    BY <1>9, StateNames DEF TypeOK, Mutex, Channels, Runner, Telling, get_state, TryCancel
  <2> QED
    BY <2>1, <2>2, <2>3, <2>4, <2>5, <2>6
<1>10. ASSUME NEW s \in Streams, JoinStream(s) PROVE IInv'
  <2>1. TypeOK'
    BY <1>10, StateNames DEF TypeOK, Connectivity, JoinStream, Joinable
  <2>2. Mutex' /\ Registered'
    BY <1>10 DEF TypeOK, Mutex, Registered, ThreadHasContext, JoinStream, Joinable
  <2>3. Channels'
    BY <1>10 DEF TypeOK, Mutex, Channels, Runner, JoinStream, Joinable
  <2>4. Runner'
    BY <1>10 DEF TypeOK, Mutex, Channels, Runner, JoinStream, Joinable
  <2>5. Following'
    BY <1>10, StateNames DEF TypeOK, Mutex, Registered, Channels, Runner, Following, JoinStream, Joinable
  <2>6. Telling'
    BY <1>10, StateNames DEF TypeOK, Mutex, Channels, Runner, Telling, get_state, JoinStream, Joinable
  <2> QED
    BY <2>1, <2>2, <2>3, <2>4, <2>5, <2>6
<1>11. ASSUME DeleteChannel PROVE IInv'
  <2>1. TypeOK'
    BY <1>11, StateNames DEF TypeOK, Connectivity, DeleteChannel, StreamsStopped
  <2>2. Mutex' /\ Registered'
    BY <1>11 DEF TypeOK, Mutex, Registered, ThreadHasContext, DeleteChannel, StreamsStopped
  <2>3. Channels'
    BY <1>11 DEF TypeOK, Mutex, Channels, Runner, DeleteChannel, StreamsStopped
  <2>4. Runner'
    BY <1>11 DEF TypeOK, Mutex, Channels, Runner, DeleteChannel, StreamsStopped
  <2>5. Following'
    BY <1>11, StateNames DEF TypeOK, Mutex, Registered, Channels, Runner, Following, DeleteChannel, StreamsStopped
  <2>6. Telling'
    BY <1>11, StateNames DEF TypeOK, Mutex, Channels, Runner, Telling, get_state, DeleteChannel, StreamsStopped
  <2> QED
    BY <2>1, <2>2, <2>3, <2>4, <2>5, <2>6
<1>12. ASSUME ShutdownQueue PROVE IInv'
  <2>1. TypeOK'
    BY <1>12, StateNames DEF TypeOK, Connectivity, ShutdownQueue
  <2>2. Mutex' /\ Registered'
    BY <1>12 DEF TypeOK, Mutex, Registered, ThreadHasContext, ShutdownQueue
  <2>3. Channels'
    BY <1>12 DEF TypeOK, Mutex, Channels, Runner, ShutdownQueue
  <2>4. Runner'
    BY <1>12 DEF TypeOK, Mutex, Channels, Runner, ShutdownQueue
  <2>5. Following'
    BY <1>12, StateNames DEF TypeOK, Mutex, Registered, Channels, Runner, Following, ShutdownQueue
  <2>6. Telling'
    BY <1>12, StateNames DEF TypeOK, Mutex, Channels, Runner, Telling, get_state, ShutdownQueue
  <2> QED
    BY <2>1, <2>2, <2>3, <2>4, <2>5, <2>6
<1>13. ASSUME JoinRunThread PROVE IInv'
  <2>1. TypeOK'
    BY <1>13, StateNames DEF TypeOK, Connectivity, JoinRunThread, After, RunThreadDone
  <2>2. Mutex' /\ Registered'
    BY <1>13 DEF TypeOK, Mutex, Registered, ThreadHasContext, JoinRunThread, After, RunThreadDone
  <2>3. Channels'
    BY <1>13 DEF TypeOK, Mutex, Channels, Runner, JoinRunThread, After, RunThreadDone
  <2>4. Runner'
    BY <1>13 DEF TypeOK, Mutex, Channels, Runner, JoinRunThread, After, RunThreadDone
  <2>5. Following'
    BY <1>13, StateNames DEF TypeOK, Mutex, Registered, Channels, Runner, Following, JoinRunThread, After, RunThreadDone
  <2>6. Telling'
    BY <1>13, StateNames DEF TypeOK, Mutex, Channels, Runner, Telling, get_state, JoinRunThread, After, RunThreadDone
  <2> QED
    BY <2>1, <2>2, <2>3, <2>4, <2>5, <2>6
<1>14. ASSUME Connect PROVE IInv'
  <2>1. TypeOK'
    BY <1>14, StateNames DEF TypeOK, Connectivity, Connect
  <2>2. Mutex' /\ Registered'
    BY <1>14 DEF TypeOK, Mutex, Registered, ThreadHasContext, Connect
  <2>3. Channels'
    BY <1>14 DEF TypeOK, Mutex, Channels, Runner, Connect
  <2>4. Runner'
    BY <1>14 DEF TypeOK, Mutex, Channels, Runner, Connect
  <2>5. Following'
    BY <1>14, StateNames DEF TypeOK, Mutex, Registered, Channels, Runner, Following, Connect
  <2>6. Telling'
    BY <1>14, StateNames DEF TypeOK, Connectivity, Mutex, Channels, Runner, Telling, get_state, Connect
  <2> QED
    BY <2>1, <2>2, <2>3, <2>4, <2>5, <2>6
<1>15. ASSUME NotifyUser PROVE IInv'
  <2>1. TypeOK'
    BY <1>15, StateNames DEF TypeOK, Connectivity, NotifyUser
  <2>2. Mutex' /\ Registered'
    BY <1>15 DEF TypeOK, Mutex, Registered, ThreadHasContext, NotifyUser
  <2>3. Channels'
    BY <1>15 DEF TypeOK, Mutex, Channels, Runner, NotifyUser
  <2>4. Runner'
    BY <1>15 DEF TypeOK, Mutex, Channels, Runner, NotifyUser
  <2>5. Following'
    BY <1>15, StateNames DEF TypeOK, Mutex, Registered, Channels, Runner, Following, NotifyUser
  <2>6. Telling'
    BY <1>15, StateNames DEF TypeOK, Mutex, Channels, Runner, Telling, get_state, NotifyUser
  <2> QED
    BY <2>1, <2>2, <2>3, <2>4, <2>5, <2>6
<1>16. ASSUME SpawnRunThread PROVE IInv'
  <2>1. TypeOK'
    BY <1>16, StateNames DEF TypeOK, Connectivity, SpawnRunThread
  <2>2. Mutex' /\ Registered'
    BY <1>16 DEF TypeOK, Mutex, Registered, ThreadHasContext, Runner, SpawnRunThread
  <2>3. Channels'
    BY <1>16 DEF TypeOK, Mutex, Channels, Runner, SpawnRunThread
  <2>4. Runner'
    BY <1>16 DEF TypeOK, Mutex, Channels, Runner, SpawnRunThread
  <2>5. Following'
    BY <1>16, StateNames DEF TypeOK, Mutex, Registered, Channels, Runner, Following, SpawnRunThread
  <2>6. Telling'
    BY <1>16, StateNames DEF TypeOK, Mutex, Channels, Runner, Telling, get_state, SpawnRunThread
  <2> QED
    BY <2>1, <2>2, <2>3, <2>4, <2>5, <2>6
<1>17. ASSUME Attach PROVE IInv'
  <2>1. TypeOK'
    BY <1>17, StateNames DEF TypeOK, Connectivity, Attach
  <2>2. Mutex' /\ Registered'
    BY <1>17 DEF TypeOK, Mutex, Registered, ThreadHasContext, Attach
  <2>3. Channels'
    BY <1>17 DEF TypeOK, Mutex, Channels, Runner, Attach
  <2>4. Runner'
    BY <1>17 DEF TypeOK, Mutex, Channels, Runner, Attach
  <2>5. Following'
    BY <1>17, StateNames DEF TypeOK, Mutex, Registered, Channels, Runner, Following, Attach
  <2>6. Telling'
    BY <1>17, StateNames DEF TypeOK, Mutex, Channels, Runner, Telling, get_state, Attach
  <2> QED
    BY <2>1, <2>2, <2>3, <2>4, <2>5, <2>6
<1>18. ASSUME RunUpdate PROVE IInv'
  <2>1. TypeOK'
    BY <1>18, StartStream, StateNames DEF TypeOK, Connectivity, RunUpdate, RunLocked
  <2>2. Mutex' /\ Registered'
    BY <1>18, StartStream DEF TypeOK, Mutex, Registered, ThreadHasContext, RunUpdate, RunLocked
  <2>3. Channels'
    BY <1>18 DEF TypeOK, Mutex, Channels, Runner, RunUpdate, RunLocked
  <2>4. Runner'
    BY <1>18, StateNames DEF TypeOK, Mutex, Channels, Runner, RunUpdate, RunLocked
  <2>5. Following'
    BY <1>18, StateNames, StartStream DEF TypeOK, Mutex, Registered, Channels, Runner, Following, RunUpdate, RunLocked
  <2>6. Telling'
    BY <1>18, StateNames DEF TypeOK, Mutex, Channels, Runner, Telling, get_state, RunUpdate, RunLocked
  <2> QED
    BY <2>1, <2>2, <2>3, <2>4, <2>5, <2>6
<1>19. ASSUME RunStopped PROVE IInv'
  <2>1. TypeOK'
    BY <1>19, StateNames DEF TypeOK, Connectivity, RunStopped, StreamsStopped
  <2>2. Mutex' /\ Registered'
    BY <1>19 DEF TypeOK, Mutex, Registered, ThreadHasContext, RunStopped, StreamsStopped
  <2>3. Channels'
    BY <1>19 DEF TypeOK, Mutex, Channels, Runner, RunStopped, StreamsStopped
  <2>4. Runner'
    BY <1>19 DEF TypeOK, Mutex, Channels, Runner, RunStopped, StreamsStopped
  <2>5. Following'
    BY <1>19, StateNames DEF TypeOK, Mutex, Registered, Channels, Runner, Following, RunStopped, StreamsStopped
  <2>6. Telling'
    BY <1>19, StateNames DEF TypeOK, Mutex, Channels, Runner, Telling, get_state, RunStopped, StreamsStopped
  <2> QED
    BY <2>1, <2>2, <2>3, <2>4, <2>5, <2>6
<1>20. ASSUME RunDeadline PROVE IInv'
  <2>1. TypeOK'
    BY <1>20, StateNames DEF TypeOK, Connectivity, RunDeadline, RunLocked
  <2>2. Mutex' /\ Registered'
    BY <1>20 DEF TypeOK, Mutex, Registered, ThreadHasContext, RunDeadline, RunLocked
  <2>3. Channels'
    BY <1>20 DEF TypeOK, Mutex, Channels, Runner, RunDeadline, RunLocked
  <2>4. Runner'
    BY <1>20 DEF TypeOK, Mutex, Channels, Runner, RunDeadline, RunLocked
  <2>5. Following'
    BY <1>20, StateNames DEF TypeOK, Mutex, Registered, Channels, Runner, Following, RunDeadline, RunLocked
  <2>6. Telling'
    BY <1>20, StateNames DEF TypeOK, Mutex, Channels, Runner, Telling, get_state, RunDeadline, RunLocked
  <2> QED
    BY <2>1, <2>2, <2>3, <2>4, <2>5, <2>6
<1>21. ASSUME RunShutdown PROVE IInv'
  <2>1. TypeOK'
    BY <1>21, StateNames DEF TypeOK, Connectivity, RunShutdown, RunLocked
  <2>2. Mutex' /\ Registered'
    BY <1>21 DEF TypeOK, Mutex, Registered, ThreadHasContext, RunShutdown, RunLocked
  <2>3. Channels'
    BY <1>21 DEF TypeOK, Mutex, Channels, Runner, RunShutdown, RunLocked
  <2>4. Runner'
    BY <1>21 DEF TypeOK, Mutex, Channels, Runner, RunShutdown, RunLocked
  <2>5. Following'
    BY <1>21, StateNames DEF TypeOK, Mutex, Registered, Channels, Runner, Following, RunShutdown, RunLocked
  <2>6. Telling'
    BY <1>21, StateNames DEF TypeOK, Mutex, Channels, Runner, Telling, get_state, RunShutdown, RunLocked
  <2> QED
    BY <2>1, <2>2, <2>3, <2>4, <2>5, <2>6
<1>22. ASSUME RunCallback PROVE IInv'
  <2>1. TypeOK'
    BY <1>22, StateNames DEF TypeOK, Connectivity, RunCallback
  <2>2. Mutex' /\ Registered'
    BY <1>22 DEF TypeOK, Mutex, Registered, ThreadHasContext, RunCallback
  <2>3. Channels'
    BY <1>22 DEF TypeOK, Mutex, Channels, Runner, RunCallback
  <2>4. Runner'
    BY <1>22 DEF TypeOK, Mutex, Channels, Runner, RunCallback
  <2>5. Following'
    BY <1>22, StateNames DEF TypeOK, Mutex, Registered, Channels, Runner, Following, RunCallback
  <2>6. Telling'
    BY <1>22, StateNames DEF TypeOK, Mutex, Channels, Runner, Telling, get_state, RunCallback
  <2> QED
    BY <2>1, <2>2, <2>3, <2>4, <2>5, <2>6
<1>23. ASSUME RunExit PROVE IInv'
  <2>1. TypeOK'
    BY <1>23, StateNames DEF TypeOK, Connectivity, RunExit
  <2>2. Mutex' /\ Registered'
    BY <1>23 DEF TypeOK, Mutex, Registered, ThreadHasContext, RunExit
  <2>3. Channels'
    BY <1>23 DEF TypeOK, Mutex, Channels, Runner, RunExit
  <2>4. Runner'
    BY <1>23 DEF TypeOK, Mutex, Channels, Runner, RunExit
  <2>5. Following'
    BY <1>23, StateNames DEF TypeOK, Mutex, Registered, Channels, Runner, Following, RunExit
  <2>6. Telling'
    BY <1>23, StateNames DEF TypeOK, Mutex, Channels, Runner, Telling, get_state, RunExit
  <2> QED
    BY <2>1, <2>2, <2>3, <2>4, <2>5, <2>6
<1>24. ASSUME UNCHANGED vars PROVE IInv'
  <2>1. TypeOK'
    BY <1>24, StateNames DEF TypeOK, Connectivity, vars
  <2>2. Mutex' /\ Registered'
    BY <1>24 DEF TypeOK, Mutex, Registered, ThreadHasContext, vars
  <2>3. Channels'
    BY <1>24 DEF TypeOK, Mutex, Channels, Runner, vars
  <2>4. Runner'
    BY <1>24 DEF TypeOK, Mutex, Channels, Runner, vars
  <2>5. Following'
    BY <1>24, StateNames DEF TypeOK, Mutex, Registered, Channels, Runner, Following, vars
  <2>6. Telling'
    BY <1>24, StateNames DEF TypeOK, Mutex, Channels, Runner, Telling, get_state, vars
  <2> QED
    BY <2>1, <2>2, <2>3, <2>4, <2>5, <2>6
<1> QED
  BY <1>1, <1>2, <1>3, <1>4, <1>5, <1>6, <1>7, <1>8, <1>9, <1>10, <1>11, <1>12, <1>13, <1>14, <1>15, <1>16, <1>17, <1>18, <1>19, <1>20, <1>21, <1>22, <1>23, <1>24
     DEF Next, StreamThread, Stopper, UserThread, RunThread, Terminated

\* The invariant holds in every state of the client.
LEMMA ClientInvariant == Spec => []IInv
  BY ClientInit, ClientStep, PTL DEF Spec

----------------------------------------------------------------------------
\* Every variable of the client keeps its type: to_cnc_client_state is defined
\* for every state that is recorded.
THEOREM ClientTypeCorrect == Spec => []TypeOK
  BY ClientInvariant, PTL DEF IInv

\* A stream has a thread exactly while it has a context, whichever thread
\* starts and stops it: no start_stream overwrites a joinable thread.
THEOREM ThreadsHaveContexts == Spec => []ThreadHasContext
<1>1. IInv => ThreadHasContext
  BY DEF IInv, Registered
<1> QED
  BY <1>1, ClientInvariant, PTL

\* Exactly the registered streams of a connected remote client stream whenever
\* the lock is free: register_stream, the run thread and kill_streams_and_channel
\* never leave one stopped or running by mistake.
THEOREM StreamsFollowConnection == Spec => []StreamsFollowState
<1>1. IInv => StreamsFollowState
  BY Assumptions DEF IInv, TypeOK, Mutex, Following, StreamsFollowState, streaming
<1> QED
  BY <1>1, ClientInvariant, PTL

\* Between operations and callbacks the user has been told the state get_state
\* returns, although callbacks run after the lock is released (line 375).
THEOREM UserKnowsState == Spec => []UserIsUpToDate
<1>1. IInv => UserIsUpToDate
  BY Assumptions DEF IInv, Mutex, Telling, UserIsUpToDate
<1> QED
  BY <1>1, ClientInvariant, PTL

\* For a remote client the window in which use_stub dereferences a null stub lies
\* inside kill_streams_and_channel, and the event that closes it is due: the run
\* thread has recorded the shutdown before the kill returns.
THEOREM NullStubEndsWithKill == Spec => []NullStubOnlyInKill
<1>1. IInv => NullStubOnlyInKill
  <2> SUFFICES ASSUME IInv, ~using_in_process_server_, use_stub, channel = None
               PROVE  mpc \in {"shutdown", "join"} /\ rpc \in {"next", "callback"} /\ event # "none"
    BY DEF NullStubOnlyInKill
  <2> USE Assumptions
  <2>1. event # "none"
    BY StateNames DEF IInv, Telling, get_state, use_stub, Connectivity
  <2>2. mpc \notin {"notify", "spawn"}
    BY DEF IInv, Channels
  <2>3. rpc \notin {"none", "exited", "stopping"}
    BY <2>1, <2>2 DEF IInv, Runner
  <2> QED
    BY <2>1, <2>3 DEF IInv, Runner, TypeOK
<1> QED
  BY <1>1, ClientInvariant, PTL

----------------------------------------------------------------------------
(* The client and the server in one process.                               *)

\* Every step of the pair is a step of the client, or leaves the client alone.
LEMMA PairStep == [PairNext]_pairVars => [Next]_vars
<1> SUFFICES ASSUME [PairNext]_pairVars PROVE [Next]_vars
  OBVIOUS
<1>1. CASE Network \/ PairWatch
  BY <1>1 DEF Network, PairWatch, Next
<1>2. ASSUME NEW s \in Streams, PairStream(s) \/ PairReadEnds(s) \/ PairRegister(s)
      PROVE  Next
  BY <1>2 DEF PairStream, PairReadEnds, PairRegister, Next, StreamThread
<1>3. ASSUME NEW s \in Streams, HandlerNotices(s) PROVE UNCHANGED vars
  BY <1>3 DEF HandlerNotices
<1>4. ASSUME NEW o \in Operations, PairInvoke(o) PROVE Next
  BY <1>4 DEF PairInvoke, Next
<1>5. CASE PairStopper \/ PairUser \/ PairRun
  BY <1>5 DEF PairStopper, PairUser, PairRun, Next
<1>6. CASE DestroyServer \/ ShutdownWithDeadline \/ ServerThread \/ Ended \/ UNCHANGED pairVars
  BY <1>6 DEF DestroyServer, ShutdownWithDeadline, ServerThread, Ended, pairVars
<1> QED
  BY <1>1, <1>2, <1>3, <1>4, <1>5, <1>6 DEF PairNext

\* The client beside a server of its process is the client: what is proved of
\* GrpcClient holds of it, whatever the server does.
THEOREM PairImplementsClient == PairSpec => Spec
<1>1. PairInit => Init
  BY DEF PairInit
<1> QED
  BY <1>1, PairStep, PTL DEF PairSpec, Spec

\* The client's safety properties in the composition that the runs check.
THEOREM PairClientSafe ==
    PairSpec => [](/\ TypeOK /\ ThreadHasContext /\ StreamsFollowState
                   /\ UserIsUpToDate /\ NullStubOnlyInKill)
  BY PairImplementsClient, ClientTypeCorrect, ThreadsHaveContexts, StreamsFollowConnection,
     UserKnowsState, NullStubEndsWithKill, PTL
=============================================================================
