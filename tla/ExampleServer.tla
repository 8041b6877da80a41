--------------------------- MODULE ExampleServer ---------------------------
(***************************************************************************)
(* The example clock server: its streaming rpc (StreamRpcHandler) with the *)
(* ticker thread that writes the time to every client once a second, and   *)
(* the main thread that destroys the server when the user presses enter.   *)
(***************************************************************************)
EXTENDS StreamRpcHandler

CONSTANT ticker     \* ticker_, the only writer

ASSUME TickerAssumption ==
    /\ Writers = {ticker} /\ Forever /\ EarlyShutdown
    /\ Ops = {"write"} /\ ~Targeted      \* it only broadcasts the time

VARIABLES
    keep_ticking,   \* keep_ticking_
    tpc,            \* the ticker's loop around write
    mpc             \* main and the destructor of ExampleServer

handler     == vars
program     == <<keep_ticking, tpc, mpc>>
exampleVars == <<handler, program>>

----------------------------------------------------------------------------
(* The ticker.                                                             *)

TickerChecks ==
    /\ tpc = "check"
    /\ tpc' = IF keep_ticking THEN "sleeping" ELSE "exited"
    /\ UNCHANGED <<handler, keep_ticking, mpc>>

\* After the sleep, which keep_ticking_ does not cut short.
TickerWrites ==
    /\ tpc = "sleeping" /\ tpc' = "writing"
    /\ InvokeStream(ticker)
    /\ UNCHANGED <<keep_ticking, mpc>>

TickerReturns ==
    /\ tpc = "writing" /\ wpc[ticker] = "idle"
    /\ tpc' = "check"
    /\ UNCHANGED <<handler, keep_ticking, mpc>>

----------------------------------------------------------------------------
(* The main thread: enter is pressed and the server goes out of scope.     *)

Mutant_KeepTicking ==
    /\ mpc = "serving" /\ next # None
    /\ mpc' = "joining"
    /\ UNCHANGED <<handler, keep_ticking, tpc>>
StopTicking ==
    /\ mpc = "serving" /\ next # None
    /\ keep_ticking' = FALSE /\ mpc' = "joining"
    /\ UNCHANGED <<handler, tpc>>

Mutant_NoJoin ==
    /\ mpc = "joining" /\ mpc' = "joined"
    /\ UNCHANGED <<handler, keep_ticking, tpc>>
JoinTicker ==
    /\ mpc = "joining" /\ tpc = "exited"
    /\ mpc' = "joined"
    /\ UNCHANGED <<handler, keep_ticking, tpc>>

ShutdownServer ==
    /\ mpc = "joined" /\ mpc' = "waiting"
    /\ shutdown_and_wait
    /\ UNCHANGED <<keep_ticking, tpc>>

\* shutdown_and_wait returns once every call has ended.
ShutdownDone ==
    /\ mpc = "waiting" /\ \A c \in Calls : call[c] # "started"
    /\ mpc' = "destroying"
    /\ UNCHANGED <<handler, keep_ticking, tpc>>

\* ~GrpcAsyncServer joins the run thread, which destroys the handler.
ServerDestroyed ==
    /\ mpc = "destroying" /\ stage = "destroyed"
    /\ mpc' = "exited"
    /\ UNCHANGED <<handler, keep_ticking, tpc>>

----------------------------------------------------------------------------
ExampleInit == Init /\ keep_ticking = TRUE /\ tpc = "check" /\ mpc = "serving"

TickerStep  == TickerChecks \/ TickerWrites \/ TickerReturns
MainStep    == JoinTicker \/ ShutdownServer \/ ShutdownDone \/ ServerDestroyed
HandlerStep ==
    /\ \/ ClientArrives \/ \E c \in Calls : EndCall(c)
       \/ Writer(ticker) \/ SpuriousWakeup(ticker)
       \/ SyncThread \/ RunThread
    /\ UNCHANGED program
Exited      == mpc = "exited" /\ UNCHANGED exampleVars

ExampleNext == TickerStep \/ StopTicking \/ MainStep \/ HandlerStep \/ Exited

\* The program's threads keep running and gRPC returns the events of calls that
\* have ended.  Clients need neither read nor leave: shutdown_and_wait sets no
\* deadline.
ExampleFairness ==
    /\ WF_exampleVars(TickerStep) /\ WF_exampleVars(MainStep)
    /\ WF_exampleVars(Writer(ticker) /\ UNCHANGED program)
    /\ WF_exampleVars(SyncDue /\ UNCHANGED program)
    /\ WF_exampleVars(RunThread /\ UNCHANGED program)

ExampleSpec == ExampleInit /\ [][ExampleNext]_exampleVars /\ ExampleFairness

----------------------------------------------------------------------------
(* Properties.                                                             *)

\* While the server ticks, the stream of a client that has left is released by
\* the next writes, even one whose done tag came back too early to release it, if
\* the clients that stay read what is written to them (lines 76-78).
DeadStreamReleased ==
    ClientsRead =>
        \A c \in Calls :
            (call[c] = "ended" /\ \E a \in active : obj[a] = c)
                ~> (mpc # "serving" \/ \A a \in active : obj[a] # c)

\* Pressing enter ends the program once every client has left: the ticker's last
\* write returns and is joined, and the server shuts down (lines 83-89).  A client
\* that stays can hold it up at two places: it does not read, so that the ticker
\* is not joined, or its stream is what shutdown_and_wait waits for.
QuitEnds ==
    <>[](\A c \in Calls : call[c] # "started") => ((mpc = "joining") ~> (mpc = "exited"))

\* What main announces ("Press enter to quit...").
EnterQuits == (mpc = "joining") ~> (mpc = "exited")
=============================================================================
