----------------------- MODULE GrpcAsyncServerProofs -----------------------
(***************************************************************************)
(* The server never looks up a handler that is not in rpc_handlers_, and   *)
(* its destructor leaves none behind, for any set of handlers and any      *)
(* number of calls.                                                        *)
(***************************************************************************)
EXTENDS GrpcAsyncServer, TLAPS

\* Every open stream is one of the calls that have arrived.
CallsCounted == \A h \in Stream : opened[h] + calls <= MaxCalls

\* The handler a thread works on: the run thread has one exactly while it
\* serves or erases, and a handler with neither a request nor an event on the
\* queue is being served, erased or registered, or its request came too late.
Owned ==
    /\ current = None <=> rpc \in {"next", "exited"}
    /\ current # None => current \in rpc_handlers /\ entry[current] = "none"
    /\ \A g, h \in Handlers : target[g] = "registering" /\ target[h] = "registering" => g = h
    /\ \A h \in Handlers :
         /\ target[h] = "registering" => upc = "activating" /\ h \in rpc_handlers
         /\ target[h] # "registered" => entry[h] = "none" /\ current # h
         /\ entry[h] # "none" => h \in rpc_handlers
         /\ h \in rpc_handlers =>
              entry[h] # "none" \/ current = h \/ target[h] = "registering" \/ lateRequest

\* How far the destructor has come.
Closing ==
    /\ upc \in {"waiting", "closing", "joining", "destroyed"} => ~serving
    /\ upc \in {"closing", "joining", "destroyed"} => NoCalls
    /\ ~queueOpen => upc \in {"joining", "destroyed"}
    /\ rpc = "exited" => ~queueOpen /\ \A h \in Handlers : entry[h] = "none"
    /\ upc = "destroyed" => rpc = "exited"

IInv == TypeOK /\ CallsCounted /\ Owned /\ Closing

\* Every step of the server, of the user's thread and of gRPC preserves the invariant.
LEMMA ServerStep ==
    ASSUME IInv, [Next]_vars
    PROVE  IInv'
<1> USE Assumptions DEF Handlers
<1>1. ASSUME NEW h \in Handlers, CallArrives(h) PROVE IInv'
  <2>1. TypeOK' /\ CallsCounted'
    BY <1>1 DEF IInv, TypeOK, CallsCounted, Owned, CallArrives, run, user
  <2>2. Owned'
    BY <1>1 DEF IInv, TypeOK, Owned, Closing, CallArrives, run, user
  <2>3. Closing'
    BY <1>1 DEF IInv, TypeOK, Owned, Closing, NoCalls, CallArrives, run, user
  <2> QED
    BY <2>1, <2>2, <2>3 DEF IInv
<1>2. ASSUME NEW h \in Handlers, ClientCancels(h) PROVE IInv'
  <2>1. TypeOK' /\ CallsCounted'
    BY <1>2 DEF IInv, TypeOK, CallsCounted, Owned, ClientCancels, run, user
  <2>2. Owned'
    BY <1>2 DEF IInv, TypeOK, Owned, Closing, ClientCancels, run, user
  <2>3. Closing'
    BY <1>2 DEF IInv, TypeOK, Owned, Closing, NoCalls, ClientCancels, run, user
  <2> QED
    BY <2>1, <2>2, <2>3 DEF IInv
<1>3. ASSUME NEW h \in Handlers, StreamEnds(h) PROVE IInv'
  <2>1. TypeOK' /\ CallsCounted'
    BY <1>3 DEF IInv, TypeOK, CallsCounted, Owned, StreamEnds, run, user
  <2>2. Owned'
    BY <1>3 DEF IInv, TypeOK, Owned, Closing, StreamEnds, run, user
  <2>3. Closing'
    BY <1>3 DEF IInv, TypeOK, Owned, Closing, NoCalls, StreamEnds, run, user
  <2> QED
    BY <2>1, <2>2, <2>3 DEF IInv
<1>4. ASSUME NEW h \in Handlers, register_async(h) PROVE IInv'
  <2>1. TypeOK' /\ CallsCounted'
    BY <1>4 DEF IInv, TypeOK, CallsCounted, Owned, register_async, run
  <2>2. Owned'
    BY <1>4 DEF IInv, TypeOK, Owned, Closing, register_async, run
  <2>3. Closing'
    BY <1>4 DEF IInv, TypeOK, Owned, Closing, NoCalls, register_async, run
  <2> QED
    BY <2>1, <2>2, <2>3 DEF IInv
<1>5. ASSUME NEW h \in Handlers, FirstActivation(h) PROVE IInv'
  <2>1. TypeOK' /\ CallsCounted'
    BY <1>5 DEF IInv, TypeOK, CallsCounted, Owned, FirstActivation, RequestCall, run
  <2>2. Owned'
    BY <1>5 DEF IInv, TypeOK, Owned, Closing, FirstActivation, RequestCall, run
  <2>3. Closing'
    BY <1>5 DEF IInv, TypeOK, Owned, Closing, NoCalls, FirstActivation, RequestCall, run
  <2> QED
    BY <2>1, <2>2, <2>3 DEF IInv
<1>6. ASSUME NEW o \in {"shutdown", "destroy"}, Shutdown(o) PROVE IInv'
  <2>1. TypeOK' /\ CallsCounted'
    BY <1>6 DEF IInv, TypeOK, CallsCounted, Owned, Shutdown, run
  <2>2. Owned'
    BY <1>6 DEF IInv, TypeOK, Owned, Closing, Shutdown, run
  <2>3. Closing'
    BY <1>6 DEF IInv, TypeOK, Owned, Closing, NoCalls, Shutdown, run
  <2> QED
    BY <2>1, <2>2, <2>3 DEF IInv
<1>7. ASSUME ShutdownReturns PROVE IInv'
  <2>1. TypeOK' /\ CallsCounted'
    BY <1>7 DEF IInv, TypeOK, CallsCounted, Owned, ShutdownReturns, run
  <2>2. Owned'
    BY <1>7 DEF IInv, TypeOK, Owned, Closing, ShutdownReturns, run
  <2>3. Closing'
    BY <1>7 DEF IInv, TypeOK, Owned, Closing, NoCalls, ShutdownReturns, run
  <2> QED
    BY <2>1, <2>2, <2>3 DEF IInv
<1>8. ASSUME CloseQueue PROVE IInv'
  <2>1. TypeOK' /\ CallsCounted'
    BY <1>8 DEF IInv, TypeOK, CallsCounted, Owned, CloseQueue, run
  <2>2. Owned'
    BY <1>8 DEF IInv, TypeOK, Owned, Closing, CloseQueue, run
  <2>3. Closing'
    BY <1>8 DEF IInv, TypeOK, Owned, Closing, NoCalls, CloseQueue, run
  <2> QED
    BY <2>1, <2>2, <2>3 DEF IInv
<1>9. ASSUME JoinRunThread PROVE IInv'
  <2>1. TypeOK' /\ CallsCounted'
    BY <1>9 DEF IInv, TypeOK, CallsCounted, Owned, JoinRunThread, run
  <2>2. Owned'
    BY <1>9 DEF IInv, TypeOK, Owned, Closing, JoinRunThread, run
  <2>3. Closing'
    BY <1>9 DEF IInv, TypeOK, Owned, Closing, NoCalls, JoinRunThread, run
  <2> QED
    BY <2>1, <2>2, <2>3 DEF IInv
<1>10. ASSUME NEW h \in Handlers, ServeStream(h) PROVE IInv'
  <2>1. TypeOK' /\ CallsCounted'
    BY <1>10 DEF IInv, TypeOK, CallsCounted, Owned, ServeStream, Takes, RequestCall, run, user
  <2>2. Owned'
    BY <1>10 DEF IInv, TypeOK, Owned, Closing, ServeStream, Takes, RequestCall, run, user
  <2>3. Closing'
    BY <1>10 DEF IInv, TypeOK, Owned, Closing, NoCalls, ServeStream, Takes, RequestCall, run, user
  <2> QED
    BY <2>1, <2>2, <2>3 DEF IInv
<1>11. ASSUME NEW h \in Handlers, ServeUnary(h) PROVE IInv'
  <2>1. TypeOK' /\ CallsCounted'
    BY <1>11 DEF IInv, TypeOK, CallsCounted, Owned, ServeUnary, Takes, user
  <2>2. Owned'
    BY <1>11 DEF IInv, TypeOK, Owned, Closing, ServeUnary, Takes, user
  <2>3. Closing'
    BY <1>11 DEF IInv, TypeOK, Owned, Closing, NoCalls, ServeUnary, Takes, user
  <2> QED
    BY <2>1, <2>2, <2>3 DEF IInv
<1>12. ASSUME FinishUnary PROVE IInv'
  <2>1. TypeOK' /\ CallsCounted'
    BY <1>12 DEF IInv, TypeOK, CallsCounted, Owned, FinishUnary, user
  <2>2. Owned'
    BY <1>12 DEF IInv, TypeOK, Owned, Closing, FinishUnary, user
  <2>3. Closing'
    BY <1>12 DEF IInv, TypeOK, Owned, Closing, NoCalls, FinishUnary, user
  <2> QED
    BY <2>1, <2>2, <2>3 DEF IInv
<1>13. ASSUME RequestNext PROVE IInv'
  <2>1. TypeOK' /\ CallsCounted'
    BY <1>13 DEF IInv, TypeOK, CallsCounted, Owned, RequestNext, RequestCall, user
  <2>2. Owned'
    BY <1>13 DEF IInv, TypeOK, Owned, Closing, RequestNext, RequestCall, user
  <2>3. Closing'
    BY <1>13 DEF IInv, TypeOK, Owned, Closing, NoCalls, RequestNext, RequestCall, user
  <2> QED
    BY <2>1, <2>2, <2>3 DEF IInv
<1>14. ASSUME NEW h \in Handlers, BeginErase(h) PROVE IInv'
  <2>1. TypeOK' /\ CallsCounted'
    BY <1>14 DEF IInv, TypeOK, CallsCounted, Owned, BeginErase, Takes, user
  <2>2. Owned'
    BY <1>14 DEF IInv, TypeOK, Owned, Closing, BeginErase, Takes, user
  <2>3. Closing'
    BY <1>14 DEF IInv, TypeOK, Owned, Closing, NoCalls, BeginErase, Takes, user
  <2> QED
    BY <2>1, <2>2, <2>3 DEF IInv
<1>15. ASSUME EndErase PROVE IInv'
  <2>1. TypeOK' /\ CallsCounted'
    BY <1>15 DEF IInv, TypeOK, CallsCounted, Owned, EndErase, user
  <2>2. Owned'
    BY <1>15 DEF IInv, TypeOK, Owned, Closing, EndErase, user
  <2>3. Closing'
    BY <1>15 DEF IInv, TypeOK, Owned, Closing, NoCalls, EndErase, user
  <2> QED
    BY <2>1, <2>2, <2>3 DEF IInv
<1>16. ASSUME RunExit PROVE IInv'
  <2>1. TypeOK' /\ CallsCounted'
    BY <1>16 DEF IInv, TypeOK, CallsCounted, Owned, RunExit, user
  <2>2. Owned'
    BY <1>16 DEF IInv, TypeOK, Owned, Closing, RunExit, user
  <2>3. Closing'
    BY <1>16 DEF IInv, TypeOK, Owned, Closing, NoCalls, RunExit, user
  <2> QED
    BY <2>1, <2>2, <2>3 DEF IInv
<1>17. CASE UNCHANGED vars
  BY <1>17 DEF IInv, TypeOK, CallsCounted, Owned, Closing, NoCalls, vars, run, user
<1> QED
  BY <1>1, <1>2, <1>3, <1>4, <1>5, <1>6, <1>7, <1>8,
     <1>9, <1>10, <1>11, <1>12, <1>13, <1>14, <1>15, <1>16, <1>17
  DEF Next, RunThread, UserThread, Terminated

\* A server that has just started satisfies the invariant.
LEMMA ServerInit == Init => IInv
<1> SUFFICES ASSUME Init PROVE IInv
  OBVIOUS
<1> USE Assumptions DEF Handlers
<1>1. MaxCalls \in Nat /\ calls = MaxCalls /\ opened = [h \in Stream |-> 0]
  BY DEF Init
<1>2. calls \in 0 .. MaxCalls /\ opened \in [Stream -> 0 .. MaxCalls] /\ CallsCounted
  BY <1>1 DEF CallsCounted
<1>3. {serving, queueOpen, assertFailed, lateRequest} \subseteq BOOLEAN /\ lock \in BOOLEAN
  BY DEF Init
<1>4. entry \in [Handlers -> {"none", "requested", "arrived", "failed"}]
  BY DEF Init
<1>5. unary \in [Unary -> {"none", "live", "cancelled"}]
  BY DEF Init
<1>6. target \in [Handlers -> {"new", "registering", "registered"}]
  BY DEF Init
<1>7. TypeOK
  BY <1>2, <1>3, <1>4, <1>5, <1>6 DEF Init, TypeOK
<1>8. Owned
  BY DEF Init, Owned
<1>9. Closing
  BY DEF Init, Closing
<1> QED
  BY <1>2, <1>7, <1>8, <1>9 DEF IInv

\* Every variable of the server keeps its type: in particular a stream handler
\* never counts fewer than zero open calls (the calls its destructor waits for).
THEOREM ServerTypeCorrect == Spec => []TypeOK
<1>1. IInv => TypeOK
  BY DEF IInv
<1> QED
  BY <1>1, ServerInit, ServerStep, PTL DEF Spec

\* rpc_handlers.at(tag), line 93 of grpc_async_server.hpp, always finds the
\* handler, whatever registrations, calls and shutdowns came before.
THEOREM EventsFindHandlers == Spec => []EventsHaveHandlers
<1>1. IInv => EventsHaveHandlers
  BY DEF IInv, Owned, EventsHaveHandlers
<1> QED
  BY <1>1, ServerInit, ServerStep, PTL DEF Spec

\* When the destructor of lines 101-107 ends, every handler has been erased and
\* no call is left, unless a request came too late for the queue.
THEOREM DestructionLeavesNothing == Spec => []DestroyedEmpty
<1>1. IInv => DestroyedEmpty
  BY Assumptions DEF IInv, TypeOK, Owned, Closing, DestroyedEmpty, Handlers
<1> QED
  BY <1>1, ServerInit, ServerStep, PTL DEF Spec
=============================================================================
