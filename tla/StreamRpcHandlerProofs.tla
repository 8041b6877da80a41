---------------------- MODULE StreamRpcHandlerProofs ----------------------
(***************************************************************************)
(* Proofs about StreamRpcHandler, for any number of clients, addresses and *)
(* writers and with no bound on the writes.                                *)
(***************************************************************************)
EXTENDS StreamRpcHandler, TLAPS

----------------------------------------------------------------------------
(* The parts of the inductive invariant that are not themselves among the  *)
(* properties the runs check.                                              *)

\* An address holds an object exactly if `next' or `active' owns it.
HeapExact ==
    /\ next \notin active
    /\ \A a \in Addrs : obj[a] # None <=> (a \in active \/ a = next)

\* A call has at most one connection object.
OneObjectPerCall ==
    /\ \A a, b \in Addrs : obj[a] # None /\ obj[a] = obj[b] => a = b
    /\ \A a \in Addrs : obj[a] # None => call[obj[a]] # "idle"

\* The client of an active connection has come.
ActiveCame == \A a \in active : call[obj[a]] \in {"started", "ended"}

\* The steps of the specification that touch the connections, and the rest.
Quiet ==
    \/ on_connect \/ on_delete
    \/ \E w \in Writers : InvokeStream(w) \/ Wait(w) \/ WriterNotify(w) \/ SpuriousWakeup(w)
    \/ SyncNotify \/ SyncExit \/ shutdown_and_wait

\* write and finish, as the part they share and what they do to the calls.
Issued(w, to) ==
    /\ Issue(w, to)
    /\ to \subseteq active
    /\ request[w].client = None => to = active
    /\ call' \in [Calls -> {"idle", "requested", "started", "ended", "failed"}]
    /\ \A c \in Calls : call'[c] = call[c] \/ (call[c] = "started" /\ call'[c] = "ended")

\* Both operations go to connections that are active.
LEMMA IssueSteps ==
    ASSUME TypeOK, NEW w \in Writers, write(w) \/ finish(w)
    PROVE  Issued(w, Receivers(request[w].client))
<1> DEFINE to == Receivers(request[w].client)
<1>1. to \subseteq active /\ (request[w].client = None => to = active)
  BY DEF Receivers
<1>2. CASE write(w)
  BY <1>1, <1>2 DEF write, Issued, TypeOK
<1>3. CASE finish(w)
  BY <1>1, <1>3 DEF finish, Issued, TypeOK
<1> QED
  BY <1>2, <1>3

\* Waking a waiter keeps the type of the program counters.
LEMMA NotifyType ==
    ASSUME NEW pcs \in [Writers -> {"idle", "ready", "waiting", "notify"}], NEW pcs2,
           NotifyOne(pcs, pcs2)
    PROVE  /\ pcs2 \in [Writers -> {"idle", "ready", "waiting", "notify"}]
           /\ \A w \in Writers : pcs2[w] \in {"ready", "waiting"} => pcs[w] \in {"ready", "waiting"}
BY DEF NotifyOne

\* Type correctness of the steps that leave the connections alone.
LEMMA TypeQuiet ==
    ASSUME TypeOK, Quiet
    PROVE  TypeOK' /\ UNCHANGED <<connections, known, grpc>>
<1> USE Assumptions
<1>1. CASE on_connect \/ on_delete
  BY <1>1 DEF TypeOK, on_connect, on_delete, Setter, connections, grpc, users, Tag, Request
<1>2. ASSUME NEW w \in Writers, InvokeStream(w)
      PROVE  TypeOK' /\ UNCHANGED <<connections, known, grpc>>
  <2>1. left' \in [Writers -> 0 .. MaxWrites]
    BY <1>2 DEF TypeOK, InvokeStream
  <2>2. request' \in [Writers -> Request \cup {None}]
    BY <1>2 DEF TypeOK, InvokeStream
  <2>3. \A v \in Writers : wpc'[v] \in {"ready", "waiting"} => request'[v] \in Request
    BY <1>2 DEF TypeOK, InvokeStream
  <2> QED
    BY <1>2, <2>1, <2>2, <2>3 DEF TypeOK, InvokeStream, connections, callbacks, grpc, Tag
<1>3. ASSUME NEW w \in Writers, Wait(w) \/ SpuriousWakeup(w)
      PROVE  TypeOK' /\ UNCHANGED <<connections, known, grpc>>
  BY <1>3 DEF TypeOK, Wait, SpuriousWakeup, connections, callbacks, grpc, Tag
<1>4. ASSUME NEW w \in Writers, WriterNotify(w)
      PROVE  TypeOK' /\ UNCHANGED <<connections, known, grpc>>
  <2> DEFINE pcs == [wpc EXCEPT ![w] = "idle"]
  <2>1. pcs \in [Writers -> {"idle", "ready", "waiting", "notify"}]
    BY DEF TypeOK
  <2>2. NotifyOne(pcs, wpc')
    BY <1>4 DEF WriterNotify
  <2>a. \A v \in Writers : pcs[v] \in {"ready", "waiting"} => wpc[v] \in {"ready", "waiting"}
    BY DEF TypeOK
  <2> HIDE DEF pcs
  <2>3. \A v \in Writers : wpc'[v] \in {"ready", "waiting"} => wpc[v] \in {"ready", "waiting"}
    BY <2>1, <2>2, <2>a, NotifyType
  <2>4. wpc' \in [Writers -> {"idle", "ready", "waiting", "notify"}]
    BY <2>1, <2>2, NotifyType
  <2>5. \A v \in Writers : wpc'[v] \in {"ready", "waiting"} => request'[v] \in Request
    BY <1>4, <2>3 DEF TypeOK, WriterNotify
  <2> QED
    BY <1>4, <2>4, <2>5 DEF TypeOK, WriterNotify, connections, callbacks, grpc, Tag
<1>5. CASE SyncNotify
  BY <1>5, NotifyType DEF TypeOK, SyncNotify, connections, callbacks, grpc, Tag
<1>6. CASE SyncExit \/ shutdown_and_wait
  BY <1>6 DEF TypeOK, SyncExit, shutdown_and_wait, connections, callbacks, grpc, users, Tag
<1> QED
  BY <1>1, <1>2, <1>3, <1>4, <1>5, <1>6 DEF Quiet

\* TypeOK and HeapExact are preserved together: the tag of an operation is well
\* typed because every active address holds an object.
LEMMA HeapStep ==
    ASSUME TypeOK, HeapExact, [Next]_vars
    PROVE  TypeOK' /\ HeapExact'
<1> USE Assumptions
<1>1. CASE ClientArrives
  BY <1>1 DEF TypeOK, HeapExact, ClientArrives, connections, callbacks, users, Tag
<1>2. ASSUME NEW c \in Calls, EndCall(c) PROVE TypeOK' /\ HeapExact'
  BY <1>2 DEF TypeOK, HeapExact, EndCall, connections, callbacks, users, Tag
<1>3. CASE Quiet
  BY <1>3, TypeQuiet DEF HeapExact, connections
<1>4. ASSUME NEW w \in Writers, write(w) \/ finish(w) PROVE TypeOK' /\ HeapExact'
  <2> DEFINE to == Receivers(request[w].client)
  <2>1. Issued(w, to)
    BY <1>4, IssueSteps
  <2>2. \A a \in to : a \in Addrs /\ obj[a] \in Calls
    BY <2>1 DEF Issued, TypeOK, HeapExact
  <2>3. tags' \subseteq Tag
    BY <2>1, <2>2 DEF Issued, Issue, make_tag, TypeOK, Tag
  <2>4. accepted' \subseteq Calls /\ processing' \subseteq Addrs
    BY <2>1, <2>2 DEF Issued, Issue, TypeOK
  <2>5. finished' \subseteq Calls
    BY <1>4, <2>2 DEF write, finish, TypeOK
  <2>6. misused' \in BOOLEAN
    BY <2>1 DEF Issued, Issue, TypeOK
  <2>7. /\ wpc' \in [Writers -> {"idle", "ready", "waiting", "notify"}]
        /\ request' \in [Writers -> Request \cup {None}]
        /\ \A v \in Writers : wpc'[v] \in {"ready", "waiting"} => request'[v] \in Request
    BY <2>1 DEF Issued, Issue, TypeOK
  <2> QED
    BY <2>1, <2>3, <2>4, <2>5, <2>6, <2>7 DEF Issued, Issue, TypeOK, HeapExact, callbacks
<1>5. ASSUME NEW t \in tags, NEW ok \in BOOLEAN, Handle(t, ok) PROVE TypeOK' /\ HeapExact'
  <2>1. t \in Tag
    BY DEF TypeOK
  <2>2. CASE Deletes(t, ok)
    BY <1>5, <2>1, <2>2 DEF Handle, Delete, Processed, TypeOK, HeapExact, users, Tag
  <2>3. CASE ~Deletes(t, ok)
    BY <1>5, <2>1, <2>3 DEF Handle, Processed, TypeOK, HeapExact, users, Tag
  <2> QED
    BY <2>2, <2>3
<1>6. ASSUME NEW a \in Addrs, NEW c \in Calls, ActivateNext(a, c) PROVE TypeOK' /\ HeapExact'
  <2>1. TypeOK'
    BY <1>6 DEF ActivateNext, make_tag, Promoted, TypeOK, users, Tag
  <2>2. HeapExact'
    BY <1>6 DEF ActivateNext, Promoted, Free, TypeOK, HeapExact
  <2> QED
    BY <2>1, <2>2
<1>7. CASE EraseHandler
  BY <1>7 DEF EraseHandler, TypeOK, HeapExact, connections, callbacks, users, Tag
<1>8. CASE Destroy
  BY <1>8 DEF Destroy, TypeOK, HeapExact, callbacks, grpc, users, Tag
<1>9. CASE UNCHANGED vars
  BY <1>9 DEF vars, TypeOK, HeapExact, connections, callbacks, grpc, users, Tag
<1> QED
  BY <1>1, <1>2, <1>3, <1>4, <1>5, <1>6, <1>7, <1>8, <1>9
  DEF Next, Writer, SyncThread, HandleEvent, RunThread, activate_next, Terminated, Quiet

\* Initially there is no connection.
LEMMA HeapInit == Init => TypeOK /\ HeapExact
<1> SUFFICES ASSUME Init PROVE TypeOK /\ HeapExact
  OBVIOUS
<1>1. left \in [Writers -> 0 .. MaxWrites]
  BY Assumptions DEF Init
<1>2. HeapExact
  BY Assumptions DEF Init, HeapExact
<1> QED
  BY <1>1, <1>2 DEF Init, TypeOK

\* The handler's connections, tags and callbacks keep their types, and every
\* address in `active' or `next' holds a living connection object.
THEOREM TypeCorrect == Spec => [](TypeOK /\ HeapExact)
<1>1. Init => TypeOK /\ HeapExact
  BY HeapInit
<1>2. TypeOK /\ HeapExact /\ [Next]_vars => (TypeOK /\ HeapExact)'
  BY HeapStep
<1> QED
  BY <1>1, <1>2, PTL DEF Spec

----------------------------------------------------------------------------
(* Operations in flight.                                                   *)

\* ProcessingExact and InFlightIsLive need each other: the tag that comes back
\* is the only one of its connection because the connection names its call, and
\* the connection is not deleted by a done tag because it is in `processing'.
LEMMA InFlightStep ==
    ASSUME TypeOK, HeapExact, ProcessingExact, InFlightIsLive, [Next]_vars
    PROVE  ProcessingExact' /\ InFlightIsLive'
<1> USE Assumptions
<1>1. CASE ClientArrives \/ EraseHandler
  BY <1>1 DEF ProcessingExact, InFlightIsLive, ClientArrives, EraseHandler, connections
<1>2. ASSUME NEW c \in Calls, EndCall(c) PROVE ProcessingExact' /\ InFlightIsLive'
  BY <1>2 DEF ProcessingExact, InFlightIsLive, EndCall, connections
<1>3. CASE Quiet
  BY <1>3, TypeQuiet DEF ProcessingExact, InFlightIsLive, connections
<1>4. ASSUME NEW w \in Writers, write(w) \/ finish(w) PROVE ProcessingExact' /\ InFlightIsLive'
  <2> DEFINE to == Receivers(request[w].client)
  <2>1. Issued(w, to)
    BY <1>4, IssueSteps
  <2> HIDE DEF to
  <2>2. ProcessingExact'
    <3> DEFINE new == {[call |-> obj[a], label |-> "writing", data |-> a] : a \in to}
    <3>1. tags' = tags \cup new /\ processing' = processing \cup to
      BY <2>1 DEF Issued, Issue, make_tag
    <3>2. \A a : a \in to <=> \E t \in new : t.label = "writing" /\ t.data = a
      <4>1. ASSUME NEW a \in to PROVE \E t \in new : t.label = "writing" /\ t.data = a
        <5> WITNESS [call |-> obj[a], label |-> "writing", data |-> a] \in new
        <5> QED
          OBVIOUS
      <4>2. \A t \in new : t.data \in to
        OBVIOUS
      <4> QED
        BY <4>1, <4>2
    <3>3. \A a : a \in processing' <=> \E t \in tags' : t.label = "writing" /\ t.data = a
      BY <3>1, <3>2 DEF ProcessingExact
    <3> QED
      BY <3>3 DEF ProcessingExact
  <2>3. InFlightIsLive'
    BY <2>1 DEF Issued, Issue, make_tag, InFlightIsLive
  <2> QED
    BY <2>2, <2>3
<1>5. ASSUME NEW t \in tags, NEW ok \in BOOLEAN, Handle(t, ok)
      PROVE  ProcessingExact' /\ InFlightIsLive'
  <2>1. /\ t \in Tag /\ tags \subseteq Tag /\ tags' = tags \ {t}
        /\ processing' = IF t.label = "writing" THEN processing \ {t.data} ELSE processing
    BY <1>5 DEF TypeOK, Handle, Processed
  <2>2. \A u \in tags : u.label = "writing" /\ t.label = "writing" /\ u.data = t.data => u = t
    BY <2>1 DEF InFlightIsLive, Tag
  <2>3. ProcessingExact'
    BY <2>1, <2>2 DEF ProcessingExact, Tag
  <2>4. CASE Deletes(t, ok)
    <3>1. \A u \in tags' : u.label = "writing" => u.data # t.data
      BY <1>5, <2>1, <2>2, <2>4 DEF Deletes, ProcessingExact, Tag
    <3>2. InFlightIsLive'
      BY <1>5, <2>1, <2>4, <3>1 DEF Handle, Delete, InFlightIsLive, TypeOK, Tag
    <3> QED
      BY <2>3, <3>2
  <2>5. CASE ~Deletes(t, ok)
    BY <1>5, <2>1, <2>3, <2>5 DEF Handle, InFlightIsLive
  <2> QED
    BY <2>4, <2>5
<1>6. ASSUME NEW a \in Addrs, NEW c \in Calls, ActivateNext(a, c)
      PROVE  ProcessingExact' /\ InFlightIsLive'
  <2> DEFINE new == [call |-> c, label |-> "done", data |-> a]
  <2>1. tags' = tags \cup {new} /\ new.label # "writing" /\ processing' = processing
    BY <1>6 DEF ActivateNext, make_tag
  <2>2. ProcessingExact'
    BY <2>1 DEF ProcessingExact
  <2>3. \A t \in tags : t.label = "writing" => t.data # a
    BY <1>6 DEF ActivateNext, Free, InFlightIsLive, HeapExact, TypeOK
  <2>4. InFlightIsLive'
    BY <1>6, <2>1, <2>3 DEF ActivateNext, Promoted, InFlightIsLive, TypeOK
  <2> QED
    BY <2>2, <2>4
<1>7. CASE Destroy
  BY <1>7 DEF Destroy, ProcessingExact, InFlightIsLive
<1>8. CASE UNCHANGED vars
  BY <1>8 DEF vars, ProcessingExact, InFlightIsLive, connections
<1> QED
  BY <1>1, <1>2, <1>3, <1>4, <1>5, <1>6, <1>7, <1>8
  DEF Next, Writer, SyncThread, HandleEvent, RunThread, activate_next, Terminated, Quiet

\* Whatever order the queue returns tags in, `processing' is exactly the set of
\* connections with an operation in flight, and none of them is freed or reused
\* before the operation's tag has come back.
THEOREM InFlightSafe == Spec => [](ProcessingExact /\ InFlightIsLive)
<1> DEFINE Inv == TypeOK /\ HeapExact /\ ProcessingExact /\ InFlightIsLive
<1>1. Init => Inv
  BY HeapInit DEF Init, ProcessingExact, InFlightIsLive
<1>2. Inv /\ [Next]_vars => Inv'
  BY HeapStep, InFlightStep
<1>3. Inv => ProcessingExact /\ InFlightIsLive
  OBVIOUS
<1> QED
  BY <1>1, <1>2, <1>3, PTL DEF Spec

----------------------------------------------------------------------------
(* Misuse of gRPC.                                                         *)

\* A user who only writes never makes the handler issue an operation that gRPC
\* forbids: the gate on `processing' keeps operations on a stream apart.
THEOREM WritesNeverMisuse ==
    ASSUME Ops = {"write"}
    PROVE  Spec => []NoMisuse
<1> DEFINE Inv == /\ TypeOK /\ HeapExact /\ ProcessingExact /\ InFlightIsLive
                  /\ finished = {} /\ NoMisuse
<1>1. Init => Inv
  BY HeapInit DEF Init, ProcessingExact, InFlightIsLive, NoMisuse
<1>2. Inv /\ [Next]_vars => Inv'
  <2> SUFFICES ASSUME Inv, [Next]_vars
               PROVE  finished' = {} /\ NoMisuse'
    BY HeapStep, InFlightStep
  <2>1. ASSUME NEW w \in Writers, write(w) PROVE finished' = {} /\ NoMisuse'
    <3>1. processing = {} /\ \A c : ~Outstanding(c)
      BY <2>1 DEF write, Issue, previous_updates_processed, ProcessingExact, Outstanding
    <3> QED
      BY <2>1, <3>1 DEF write, Issue, NoMisuse
  <2>2. \A w \in Writers : ~finish(w)
    BY DEF finish, TypeOK, Request
  <2>3. CASE Quiet
    BY <2>3, TypeQuiet DEF grpc, NoMisuse
  <2>4. CASE ClientArrives \/ EraseHandler \/ Destroy \/ UNCHANGED vars
    BY <2>4 DEF ClientArrives, EraseHandler, Destroy, vars, grpc, NoMisuse
  <2>5. ASSUME NEW c \in Calls, EndCall(c) PROVE finished' = {} /\ NoMisuse'
    BY <2>5 DEF EndCall, NoMisuse
  <2>6. CASE HandleEvent \/ activate_next
    BY <2>6 DEF HandleEvent, Handle, activate_next, ActivateNext, NoMisuse
  <2> QED
    BY <2>1, <2>2, <2>3, <2>4, <2>5, <2>6
    DEF Next, Writer, SyncThread, RunThread, Terminated, Quiet
<1> QED
  BY <1>1, <1>2, PTL DEF Spec

----------------------------------------------------------------------------
(* Waiting writers.                                                        *)

\* The user stops using the stream before the server shuts down.
UsersGone == stage # "running" => \A w \in Writers : wpc[w] = "idle"

\* Notifying wakes a waiter if there is one, and changes nobody else.
LEMMA NotifyWakes ==
    ASSUME NEW pcs \in [Writers -> {"idle", "ready", "waiting", "notify"}], NEW pcs2,
           NotifyOne(pcs, pcs2)
    PROVE  \/ \E w \in Writers : pcs[w] = "waiting" /\ pcs2[w] = "ready"
           \/ pcs2 = pcs /\ \A w \in Writers : pcs2[w] # "waiting"
BY DEF NotifyOne

\* Users who broadcast, and stop before the shutdown, cannot lose a wakeup:
\* every step that leaves `processing' empty leaves a notification behind.  Unless
\* EarlyShutdown, the handler's own guards make them stop.
LEMMA WakeupStep ==
    ASSUME ~Targeted, TypeOK, UsersGone, NoLostWakeup, [Next]_vars
    PROVE  (EarlyShutdown \/ UsersGone') /\ NoLostWakeup'
<1> USE Assumptions
<1>1. ASSUME NEW w \in Writers, write(w) \/ finish(w) PROVE (EarlyShutdown \/ UsersGone') /\ NoLostWakeup'
  <2> DEFINE to == Receivers(request[w].client)
  <2>1. Issued(w, to) /\ wpc[w] = "ready"
    BY <1>1, IssueSteps DEF write, finish
  <2>2. to = active
    <3>1. request[w] \in Request
      BY <2>1 DEF TypeOK
    <3> QED
      BY <2>1, <3>1 DEF Issued, Request
  <2> HIDE DEF to
  <2>3. UsersGone'
    BY <2>1 DEF Issued, Issue, UsersGone
  <2>4. CASE active = {}
    BY <2>1, <2>3, <2>4 DEF Issued, Issue, NotifyAfter, NoLostWakeup, TypeOK
  <2>5. CASE active # {}
    BY <2>1, <2>2, <2>3, <2>5 DEF Issued, Issue, NoLostWakeup
  <2> QED
    BY <2>4, <2>5
<1>2. ASSUME NEW w \in Writers, WriterNotify(w) PROVE (EarlyShutdown \/ UsersGone') /\ NoLostWakeup'
  <2> DEFINE pcs == [wpc EXCEPT ![w] = "idle"]
  <2>1. /\ pcs \in [Writers -> {"idle", "ready", "waiting", "notify"}]
        /\ NotifyOne(pcs, wpc') /\ wpc[w] = "notify" /\ stage' = stage
    BY <1>2 DEF TypeOK, WriterNotify
  <2> HIDE DEF pcs
  <2>2. UsersGone'
    BY <2>1 DEF UsersGone
  <2>3. \/ \E v \in Writers : wpc'[v] = "ready"
        \/ \A v \in Writers : wpc'[v] # "waiting"
    BY <2>1, NotifyWakes
  <2>4. NoLostWakeup'
    BY <2>3 DEF NoLostWakeup
  <2> QED
    BY <2>2, <2>4
<1>3. CASE SyncNotify
  <2>1. NotifyOne(wpc, wpc') /\ stage' = stage
    BY <1>3 DEF SyncNotify
  <2>2. UsersGone'
    BY <2>1 DEF UsersGone, NotifyOne
  <2>3. \/ \E v \in Writers : wpc'[v] = "ready"
        \/ \A v \in Writers : wpc'[v] # "waiting"
    BY <2>1, NotifyWakes DEF TypeOK
  <2>4. NoLostWakeup'
    BY <2>3 DEF NoLostWakeup
  <2> QED
    BY <2>2, <2>4
<1>4. ASSUME NEW w \in Writers, InvokeStream(w) \/ Wait(w) \/ SpuriousWakeup(w)
      PROVE  (EarlyShutdown \/ UsersGone') /\ NoLostWakeup'
  <2>1. EarlyShutdown \/ UsersGone'
    BY <1>4 DEF InvokeStream, Wait, SpuriousWakeup, UsersGone
  <2>2. NoLostWakeup'
    BY <1>4 DEF InvokeStream, Wait, SpuriousWakeup, NoLostWakeup, TypeOK,
                previous_updates_processed, connections
  <2> QED
    BY <2>1, <2>2
<1>5. ASSUME NEW t \in tags, NEW ok \in BOOLEAN, Handle(t, ok) PROVE (EarlyShutdown \/ UsersGone') /\ NoLostWakeup'
  BY <1>5 DEF Handle, Processed, UsersGone, NoLostWakeup, users, TypeOK, Tag
<1>6. CASE activate_next
  BY <1>6 DEF activate_next, ActivateNext, UsersGone, NoLostWakeup, users
<1>7. CASE ClientArrives \/ on_connect \/ on_delete \/ \E c \in Calls : EndCall(c)
  BY <1>7 DEF ClientArrives, on_connect, on_delete, Setter, EndCall, UsersGone, NoLostWakeup,
              users, connections
<1>8. CASE SyncExit \/ shutdown_and_wait \/ EraseHandler
  BY <1>8 DEF SyncExit, shutdown_and_wait, EraseHandler, UsersGone, NoLostWakeup, users, connections
<1>9. CASE Destroy
  BY <1>9 DEF Destroy, UsersGone, NoLostWakeup, users
<1>10. CASE UNCHANGED vars
  BY <1>10 DEF vars, UsersGone, NoLostWakeup, users, connections
<1> QED
  BY <1>1, <1>2, <1>3, <1>4, <1>5, <1>6, <1>7, <1>8, <1>9, <1>10
  DEF Next, Writer, SyncThread, HandleEvent, RunThread, Terminated

\* No broadcasting writer sleeps through the moment the previous updates have
\* been processed (write, finish and run_synchronization notify often enough).
THEOREM BroadcastsNeverLoseWakeups ==
    ASSUME ~Targeted, ~EarlyShutdown
    PROVE  Spec => []NoLostWakeup
<1> DEFINE Inv == TypeOK /\ HeapExact /\ UsersGone /\ NoLostWakeup
<1>1. Init => Inv
  BY HeapInit DEF Init, UsersGone, NoLostWakeup
<1>2. Inv /\ [Next]_vars => Inv'
  BY HeapStep, WakeupStep
<1> QED
  BY <1>1, <1>2, PTL DEF Spec

----------------------------------------------------------------------------
(* What the order of events the code assumes would give.                   *)

\* Every tag the queue still owes belongs to a connection that is there.
TagsLive == \A t \in tags : obj[t.data] = t.call

\* A connection is made for a call that has none, and moves to `active' with a
\* client.
LEMMA ObjectStep ==
    ASSUME TypeOK, HeapExact, OneObjectPerCall, ActiveCame, [Next]_vars
    PROVE  OneObjectPerCall' /\ ActiveCame'
<1> USE Assumptions
<1>1. ASSUME NEW w \in Writers, write(w) \/ finish(w) PROVE OneObjectPerCall' /\ ActiveCame'
  <2> DEFINE to == Receivers(request[w].client)
  <2>1. Issued(w, to)
    BY <1>1, IssueSteps
  <2> HIDE DEF to
  <2>2. \A a \in Addrs : obj[a] # None => obj[a] \in Calls
    BY DEF TypeOK
  <2> QED
    BY <2>1, <2>2 DEF Issued, Issue, OneObjectPerCall, ActiveCame, HeapExact, TypeOK
<1>2. ASSUME NEW t \in tags, NEW ok \in BOOLEAN, Handle(t, ok)
      PROVE  OneObjectPerCall' /\ ActiveCame'
  <2>1. t \in Tag /\ call' = call
    BY <1>2 DEF TypeOK, Handle
  <2>2. /\ \A a \in Addrs : obj'[a] = obj[a] \/ (obj'[a] = None /\ a \notin active')
        /\ active' \subseteq active
    BY <1>2 DEF Handle, Delete, TypeOK
  <2> QED
    BY <2>1, <2>2 DEF OneObjectPerCall, ActiveCame, TypeOK
<1>3. ASSUME NEW a \in Addrs, NEW c \in Calls, ActivateNext(a, c)
      PROVE  OneObjectPerCall' /\ ActiveCame'
  <2>1. /\ next' = a /\ obj[a] = None /\ call[c] = "idle"
        /\ next # None => call[obj[next]] \in {"started", "ended"}
        /\ obj' = [obj EXCEPT ![a] = c] /\ call' = [call EXCEPT ![c] = "requested"]
        /\ active' = active \cup ({next} \ {None})
    BY <1>3 DEF ActivateNext, Free, Promoted
  <2>2. OneObjectPerCall'
    BY <2>1 DEF OneObjectPerCall, TypeOK
  <2>3. \A b \in active' : b \in Addrs /\ b # a /\ call[obj[b]] \in {"started", "ended"}
    BY <2>1 DEF ActiveCame, HeapExact, TypeOK
  <2>4. ActiveCame'
    BY <2>1, <2>3 DEF ActiveCame, TypeOK
  <2> QED
    BY <2>2, <2>4
<1>4. CASE ClientArrives \/ EraseHandler
  <2>1. \A b \in active : b \in Addrs /\ next # b
    BY DEF HeapExact, TypeOK
  <2>2. /\ UNCHANGED connections /\ call[obj[next]] = "requested"
        /\ call' \in [Calls -> {"idle", "requested", "started", "ended", "failed"}]
        /\ \A d \in Calls : call'[d] = call[d] \/ (d = obj[next] /\ call'[d] # "idle")
    BY <1>4 DEF ClientArrives, EraseHandler, TypeOK
  <2>3. ActiveCame'
    BY <2>1, <2>2 DEF ActiveCame, connections, TypeOK, HeapExact
  <2>4. OneObjectPerCall'
    BY <2>2 DEF OneObjectPerCall, connections, TypeOK
  <2> QED
    BY <2>3, <2>4
<1>5. ASSUME NEW c \in Calls, EndCall(c) PROVE OneObjectPerCall' /\ ActiveCame'
  BY <1>5 DEF EndCall, connections, OneObjectPerCall, ActiveCame, TypeOK
<1>6. CASE Quiet
  BY <1>6, TypeQuiet DEF connections, grpc, OneObjectPerCall, ActiveCame
<1>7. CASE Destroy
  BY <1>7 DEF Destroy, OneObjectPerCall, ActiveCame
<1>8. CASE UNCHANGED vars
  BY <1>8 DEF vars, connections, grpc, OneObjectPerCall, ActiveCame
<1> QED
  BY <1>1, <1>2, <1>3, <1>4, <1>5, <1>6, <1>7, <1>8
  DEF Next, Writer, SyncThread, HandleEvent, RunThread, activate_next, Terminated, Quiet

\* Every step keeps the tags with their connections, if events are ordered: what
\* deletes a connection is the last event of its call.
LEMMA OrderStep ==
    ASSUME InOrder, TypeOK, HeapExact, ProcessingExact, TagsLive, [Next]_vars
    PROVE  TagsLive'
<1> USE Assumptions
<1>1. ASSUME NEW w \in Writers, write(w) \/ finish(w) PROVE TagsLive'
  <2> DEFINE to == Receivers(request[w].client)
  <2>1. Issued(w, to)
    BY <1>1, IssueSteps
  <2> HIDE DEF to
  <2> QED
    BY <2>1 DEF Issued, Issue, make_tag, TagsLive
<1>2. ASSUME NEW t \in tags, NEW ok \in BOOLEAN, Handle(t, ok) PROVE TagsLive'
  <2>1. t \in Tag /\ tags \subseteq Tag /\ tags' = tags \ {t}
    BY <1>2 DEF TypeOK, Handle
  <2>2. \A a \in Addrs : obj'[a] = IF a \in active /\ Deletes(t, ok) /\ a = t.data
                                   THEN None ELSE obj[a]
    BY <1>2 DEF Handle, Delete, TypeOK
  <2>3. \A u \in tags : u.data = t.data /\ u.label = t.label => u = t
    BY <2>1 DEF TagsLive, Tag
  <2>4. Deletes(t, ok) => \A u \in tags' : u.data # t.data
    <3> SUFFICES ASSUME Deletes(t, ok), NEW u \in tags', u.data = t.data PROVE FALSE
      OBVIOUS
    <3>1. u \in tags /\ u.label # t.label /\ u.call = t.call /\ u \in Tag
      BY <2>1, <2>3 DEF TagsLive
    <3>2. CASE t.label = "done"
      BY <3>1, <3>2, <2>1 DEF Deletes, ProcessingExact, Tag
    <3>3. CASE t.label = "writing"
      <4>1. DoneReturned(t.call)
        BY <1>2, <3>3 DEF Handle, Deliverable, Deletes
      <4> QED
        BY <3>1, <3>3, <4>1 DEF DoneReturned, Tag
    <3> QED
      BY <3>2, <3>3, <2>1 DEF Tag
  <2> QED
    BY <2>1, <2>2, <2>4 DEF TagsLive, Tag
<1>3. ASSUME NEW a \in Addrs, NEW c \in Calls, ActivateNext(a, c) PROVE TagsLive'
  <2> DEFINE new == [call |-> c, label |-> "done", data |-> a]
  <2>1. tags' = tags \cup {new} /\ obj[a] = None /\ obj' = [obj EXCEPT ![a] = c]
    BY <1>3 DEF ActivateNext, make_tag, Free
  <2>2. \A t \in tags : t.data # a
    BY <2>1 DEF TagsLive, TypeOK, Tag
  <2> QED
    BY <2>1, <2>2 DEF TagsLive, TypeOK, Tag
<1>4. CASE ClientArrives \/ EraseHandler
  BY <1>4 DEF ClientArrives, EraseHandler, connections, TagsLive
<1>5. ASSUME NEW c \in Calls, EndCall(c) PROVE TagsLive'
  BY <1>5 DEF EndCall, connections, TagsLive
<1>6. CASE Quiet
  BY <1>6, TypeQuiet DEF connections, TagsLive
<1>7. CASE Destroy
  BY <1>7 DEF Destroy, TagsLive
<1>8. CASE UNCHANGED vars
  BY <1>8 DEF vars, connections, TagsLive
<1> QED
  BY <1>1, <1>2, <1>3, <1>4, <1>5, <1>6, <1>7, <1>8
  DEF Next, Writer, SyncThread, HandleEvent, RunThread, activate_next, Terminated, Quiet

\* If an operation in flight when its call ends comes back after the done tag and
\* failed, as lines 294-295 assume, then whatever deletes a stream finds its
\* object, not freed and not another client's.
THEOREM OrderedEventsReleaseOnce ==
    ASSUME InOrder
    PROVE  Spec => []DeletionIsLive
<1> DEFINE Inv == TypeOK /\ HeapExact /\ ProcessingExact /\ InFlightIsLive /\ TagsLive
<1>1. Init => Inv
  BY HeapInit DEF Init, ProcessingExact, InFlightIsLive, TagsLive
<1>2. Inv /\ [Next]_vars => Inv'
  BY HeapStep, InFlightStep, OrderStep
<1>3. Inv => DeletionIsLive
  BY DEF DeletionIsLive, TagsLive
<1> QED
  BY <1>1, <1>2, <1>3, PTL DEF Spec

----------------------------------------------------------------------------
(* The user's view of the clients.                                         *)

\* The clients announced by the connection callback are those being served, in
\* any order of events and whatever addresses are reused, but for those that went
\* before on_delete was called.
THEOREM AnnouncedClientsAreServed == Spec => []KnownIsServed
<1> DEFINE Inv == TypeOK /\ HeapExact /\ KnownIsServed
<1>1. Init => Inv
  BY HeapInit DEF Init, KnownIsServed
<1>2. Inv /\ [Next]_vars => Inv'
  <2> SUFFICES ASSUME Inv, [Next]_vars PROVE KnownIsServed'
    BY HeapStep
  <2> USE Assumptions
  <2>1. ASSUME NEW w \in Writers, write(w) \/ finish(w) PROVE KnownIsServed'
    <3>1. Issued(w, Receivers(request[w].client))
      BY <2>1, IssueSteps
    <3> QED
      BY <3>1 DEF Issued, Issue, callbacks, KnownIsServed
  <2>2. ASSUME NEW t \in tags, NEW ok \in BOOLEAN, Handle(t, ok)
        PROVE  KnownIsServed'
    <3>1. t.data \in Addrs
      BY DEF TypeOK, Tag
    <3>2. CASE Deletes(t, ok)
      BY <2>2, <3>1, <3>2 DEF Handle, Delete, KnownIsServed, TypeOK
    <3>3. CASE ~Deletes(t, ok)
      BY <2>2, <3>3 DEF Handle, KnownIsServed
    <3> QED
      BY <3>2, <3>3
  <2>3. ASSUME NEW a \in Addrs, NEW c \in Calls, ActivateNext(a, c)
        PROVE  KnownIsServed'
    BY <2>3 DEF ActivateNext, Promoted, Free, KnownIsServed, HeapExact, TypeOK
  <2>4. CASE on_connect \/ on_delete
    BY <2>4 DEF on_connect, on_delete, Setter, connections, KnownIsServed
  <2>5. ASSUME NEW w \in Writers,
               InvokeStream(w) \/ Wait(w) \/ WriterNotify(w) \/ SpuriousWakeup(w)
        PROVE  KnownIsServed'
    BY <2>5 DEF InvokeStream, Wait, WriterNotify, SpuriousWakeup, connections, callbacks,
                KnownIsServed
  <2>6. CASE SyncNotify \/ SyncExit \/ shutdown_and_wait \/ EraseHandler \/ ClientArrives
    BY <2>6 DEF SyncNotify, SyncExit, shutdown_and_wait, EraseHandler, ClientArrives,
                connections, callbacks, KnownIsServed
  <2>7. ASSUME NEW c \in Calls, EndCall(c) PROVE KnownIsServed'
    BY <2>7 DEF EndCall, connections, callbacks, KnownIsServed
  <2>8. CASE Destroy
    BY <2>8 DEF Destroy, callbacks, KnownIsServed
  <2>9. CASE UNCHANGED vars
    BY <2>9 DEF vars, connections, callbacks, KnownIsServed
  <2> QED
    BY <2>1, <2>2, <2>3, <2>4, <2>5, <2>6, <2>7, <2>8, <2>9
    DEF Next, Writer, SyncThread, HandleEvent, RunThread, activate_next, Terminated
<1> QED
  BY <1>1, <1>2, PTL DEF Spec

----------------------------------------------------------------------------
(* The handler keeps the promise of StreamSessions.                        *)

\* When the sync thread has left nothing is owed any more, if the users are gone.
Ending ==
    /\ ~EarlyShutdown => UsersGone
    /\ spc = "exited" => stage \in {"draining", "destroyed"} /\ (~EarlyShutdown => Drained)

\* Every step keeps it: no user starts after the shutdown, and no tag is made after
\* the sync thread has left.
LEMMA EndingStep ==
    ASSUME TypeOK, Ending, [Next]_vars
    PROVE  Ending'
<1> USE Assumptions
<1>1. ASSUME NEW w \in Writers, write(w) \/ finish(w) PROVE Ending'
  <2>1. wpc[w] = "ready" /\ UNCHANGED <<stage, spc>>
    BY <1>1 DEF write, finish, Issue
  <2>2. ~EarlyShutdown => stage = "running"
    BY <2>1 DEF Ending, UsersGone
  <2> QED
    BY <2>1, <2>2 DEF Ending, UsersGone
<1>2. ASSUME NEW t \in tags, NEW ok \in BOOLEAN, Handle(t, ok) PROVE Ending'
  BY <1>2 DEF Handle, users, Ending, UsersGone
<1>3. ASSUME NEW a \in Addrs, NEW c \in Calls, ActivateNext(a, c) PROVE Ending'
  BY <1>3 DEF ActivateNext, users, Ending, UsersGone
<1>4. CASE ClientArrives \/ EraseHandler
  BY <1>4 DEF ClientArrives, EraseHandler, users, Ending, UsersGone
<1>5. ASSUME NEW c \in Calls, EndCall(c) PROVE Ending'
  <2>1. Drained => Drained'
    BY <1>5 DEF EndCall, connections, Drained, TypeOK
  <2> QED
    BY <1>5, <2>1 DEF EndCall, users, Ending, UsersGone
<1>6. CASE Quiet
  <2>1. UNCHANGED <<tags, call>>
    BY <1>6, TypeQuiet DEF connections, grpc
  <2>2. Drained => Drained'
    BY <2>1 DEF Drained
  <2>3. CASE on_connect \/ on_delete
    BY <2>2, <2>3 DEF on_connect, on_delete, Setter, users, Ending, UsersGone
  <2>4. ASSUME NEW w \in Writers,
               InvokeStream(w) \/ Wait(w) \/ WriterNotify(w) \/ SpuriousWakeup(w)
        PROVE  Ending'
    <3>1. ~EarlyShutdown => stage = "running"
      BY <2>4 DEF InvokeStream, Wait, WriterNotify, SpuriousWakeup, Ending, UsersGone
    <3> QED
      BY <2>2, <2>4, <3>1 DEF InvokeStream, Wait, WriterNotify, SpuriousWakeup, Ending, UsersGone
  <2>5. CASE SyncNotify
    BY <2>5 DEF SyncNotify, NotifyOne, Ending, UsersGone
  <2>6. CASE SyncExit \/ shutdown_and_wait
    BY <2>2, <2>6 DEF SyncExit, shutdown_and_wait, users, Ending, UsersGone
  <2> QED
    BY <1>6, <2>3, <2>4, <2>5, <2>6 DEF Quiet
<1>7. CASE Destroy
  BY <1>7 DEF Destroy, users, Ending, UsersGone, Drained
<1>8. CASE UNCHANGED vars
  BY <1>8 DEF vars, connections, grpc, users, Ending, UsersGone, Drained
<1> QED
  BY <1>1, <1>2, <1>3, <1>4, <1>5, <1>6, <1>7, <1>8
  DEF Next, Writer, SyncThread, HandleEvent, RunThread, activate_next, Terminated, Quiet

\* The done tag of a call that has not ended is still to come, in any order of
\* events.
DoneOwed ==
    stage # "destroyed" =>
        \A c \in Calls : call[c] \in {"requested", "started"} => ~DoneReturned(c)

\* Every step keeps it: a done tag is made with the request of its call, and comes
\* back only when the call has ended.
LEMMA OwedStep ==
    ASSUME TypeOK, HeapExact, DoneOwed, [Next]_vars
    PROVE  DoneOwed'
<1> USE Assumptions
<1>1. ASSUME NEW w \in Writers, write(w) \/ finish(w) PROVE DoneOwed'
  <2> DEFINE to == Receivers(request[w].client)
  <2>1. Issued(w, to)
    BY <1>1, IssueSteps
  <2> HIDE DEF to
  <2>2. \A c : DoneReturned(c)' => DoneReturned(c)
    BY <2>1 DEF Issued, Issue, DoneReturned
  <2> QED
    BY <2>1, <2>2 DEF Issued, Issue, DoneOwed
<1>2. ASSUME NEW t \in tags, NEW ok \in BOOLEAN, Handle(t, ok) PROVE DoneOwed'
  <2>1. tags' = tags \ {t} /\ UNCHANGED <<call, stage>>
    BY <1>2 DEF Handle
  <2>2. t.label = "done" => call[t.call] = "ended"
    BY <1>2 DEF Handle, Deliverable
  <2>3. ASSUME NEW c \in Calls, call[c] # "ended", DoneReturned(c)' PROVE DoneReturned(c)
    BY <2>1, <2>2, <2>3 DEF DoneReturned
  <2> QED
    BY <2>1, <2>3 DEF DoneOwed
<1>3. ASSUME NEW a \in Addrs, NEW c \in Calls, ActivateNext(a, c) PROVE DoneOwed'
  <2> DEFINE new == [call |-> c, label |-> "done", data |-> a]
  <2>1. tags' = tags \cup {new} /\ call' = [call EXCEPT ![c] = "requested"] /\ stage' = stage
    BY <1>3 DEF ActivateNext, make_tag
  <2>2. ~DoneReturned(c)'
    <3>1. new \in tags' /\ new.call = c /\ new.label = "done"
      BY <2>1
    <3> QED
      BY <3>1 DEF DoneReturned
  <2>3. \A d : DoneReturned(d)' => DoneReturned(d)
    BY <2>1 DEF DoneReturned
  <2> QED
    BY <2>1, <2>2, <2>3 DEF DoneOwed, TypeOK
<1>4. CASE ClientArrives \/ EraseHandler
  <2>1. /\ tags' = tags /\ (stage' # "destroyed" => stage # "destroyed")
        /\ \A d \in Calls : call'[d] \in {"requested", "started"} => call[d] \in {"requested", "started"}
    BY <1>4 DEF ClientArrives, EraseHandler, connections, TypeOK
  <2> QED
    BY <2>1 DEF DoneOwed, DoneReturned
<1>5. ASSUME NEW c \in Calls, EndCall(c) PROVE DoneOwed'
  BY <1>5 DEF EndCall, connections, DoneOwed, DoneReturned, TypeOK
<1>6. CASE Quiet
  <2>1. tags' = tags /\ call' = call
    BY <1>6, TypeQuiet DEF connections, grpc
  <2>2. stage' # "destroyed" => stage # "destroyed"
    BY <1>6 DEF Quiet, on_connect, on_delete, Setter, InvokeStream, Wait, WriterNotify,
                SpuriousWakeup, SyncNotify, SyncExit, shutdown_and_wait
  <2> QED
    BY <2>1, <2>2 DEF DoneOwed, DoneReturned
<1>7. CASE Destroy
  BY <1>7 DEF Destroy, DoneOwed
<1>8. CASE UNCHANGED vars
  BY <1>8 DEF vars, connections, grpc, DoneOwed, DoneReturned
<1> QED
  BY <1>1, <1>2, <1>3, <1>4, <1>5, <1>6, <1>7, <1>8
  DEF Next, Writer, SyncThread, HandleEvent, RunThread, activate_next, Terminated, Quiet

\* All that the simulation needs of a state.
SessionInv ==
    /\ TypeOK /\ HeapExact /\ ProcessingExact /\ InFlightIsLive
    /\ OneObjectPerCall /\ ActiveCame /\ Ending
    /\ DoneOwed /\ (InOrder => TagsLive)

\* It holds in every state of the handler.
LEMMA SessionInvariant == Spec => []SessionInv
<1>1. Init => SessionInv
  BY HeapInit DEF Init, SessionInv, ProcessingExact, InFlightIsLive, OneObjectPerCall, ActiveCame,
                  Ending, UsersGone, DoneOwed, TagsLive
<1>2. SessionInv /\ [Next]_vars => SessionInv'
  BY HeapStep, InFlightStep, ObjectStep, EndingStep, OwedStep, OrderStep DEF SessionInv
<1> QED
  BY <1>1, <1>2, PTL DEF Spec

\* The session of each client, by where its connection is.
LEMMA SessionOf ==
    ASSUME SessionInv
    PROVE  /\ \A c \in Calls : session[c] = "none" <=> call[c] = "idle"
           /\ \A a \in active : obj[a] \in Calls /\ session[obj[a]] = "open" /\ obj[a] # None
           /\ \A c \in Calls : session[c] = "open" => \E a \in active : obj[a] = c
           /\ next # None => obj[next] \in Calls /\ session[obj[next]] = "pending"
           /\ \A c \in Calls : session[c] = "pending" => next # None /\ c = obj[next]
           /\ \A c \in busy : c \in Calls /\ \E a \in processing : a \in active /\ obj[a] = c
           /\ \A a \in processing : a \in active /\ obj[a] \in busy
<1> USE Assumptions
<1>1. /\ active \subseteq Addrs /\ next \notin active /\ next \in Addrs \cup {None}
      /\ \A a \in Addrs : obj[a] \in Calls \cup {None}
      /\ \A a \in active : obj[a] # None
      /\ next # None => obj[next] # None
      /\ \A a, b \in Addrs : obj[a] # None /\ obj[a] = obj[b] => a = b
      /\ \A a \in Addrs : obj[a] # None => call[obj[a]] # "idle"
  BY DEF SessionInv, TypeOK, HeapExact, OneObjectPerCall
<1>2. \A c \in Calls : session[c] = IF call[c] = "idle" THEN "none"
                                    ELSE IF next # None /\ obj[next] = c THEN "pending"
                                    ELSE IF \E a \in active : obj[a] = c THEN "open" ELSE "closed"
  BY DEF session
<1>3. \A a \in active : obj[a] \in Calls /\ session[obj[a]] = "open" /\ obj[a] # None
  BY <1>1, <1>2
<1>4. \A c \in busy : c \in Calls /\ \E a \in processing : a \in active /\ obj[a] = c
  BY DEF SessionInv, busy, ProcessingExact, InFlightIsLive, TypeOK, Tag
<1>5. \A a \in processing : a \in active /\ obj[a] \in busy
  BY DEF SessionInv, busy, ProcessingExact, InFlightIsLive
<1> QED
  BY <1>1, <1>2, <1>3, <1>4, <1>5

\* A step that changes no connection, and takes no call for the first time, changes
\* no session.
LEMMA SessionsKept ==
    ASSUME UNCHANGED <<next, active, obj>>,
           \A c \in Calls : call'[c] = "idle" <=> call[c] = "idle"
    PROVE  session' = session
  BY DEF session

\* A step that neither issues nor ends an operation leaves the clients busy that
\* were.
LEMMA BusyKept ==
    ASSUME {t \in tags' : t.label = "writing"} = {t \in tags : t.label = "writing"}
    PROVE  busy' = busy
  BY DEF busy

\* Every step of the handler is a step of the sessions, or none.
LEMMA SessionStep ==
    ASSUME SessionInv, [Next]_vars
    PROVE  [Sessions!Next]_(Sessions!sessions)
<1> USE Assumptions
<1>1. CASE ClientArrives
  <2> DEFINE c == obj[next]
  <2>1. /\ c \in Calls /\ session[c] = "pending" /\ call[c] = "requested"
        /\ call' = [call EXCEPT ![c] = "started"] /\ UNCHANGED connections
    BY <1>1, SessionOf DEF ClientArrives
  <2>2. session' = session /\ busy' = busy
    BY <2>1, SessionsKept, BusyKept DEF connections, SessionInv, TypeOK
  <2>3. presence[c] = "away" /\ presence' = [presence EXCEPT ![c] = "here"]
    BY <2>1 DEF presence, SessionInv, TypeOK
  <2> HIDE DEF c
  <2> QED
    BY <2>1, <2>2, <2>3 DEF Sessions!Next, Sessions!Arrive
<1>2. ASSUME NEW c \in Calls, EndCall(c) PROVE Sessions!Next
  <2>1. /\ call[c] = "started" /\ call' = [call EXCEPT ![c] = "ended"] /\ UNCHANGED connections
    BY <1>2 DEF EndCall
  <2>2. session' = session /\ busy' = busy
    BY <2>1, SessionsKept, BusyKept DEF connections, SessionInv, TypeOK
  <2>3. presence[c] = "here" /\ presence' = [presence EXCEPT ![c] = "left"]
    BY <2>1 DEF presence, SessionInv, TypeOK
  <2> QED
    BY <2>2, <2>3 DEF Sessions!Next, Sessions!Leave
<1>3. CASE Quiet \/ UNCHANGED vars
  <2>1. UNCHANGED <<connections, call>>
    BY <1>3, TypeQuiet DEF SessionInv, vars, grpc
  <2>2. session' = session /\ busy' = busy /\ presence' = presence
    BY <2>1, SessionsKept, BusyKept DEF connections, presence
  <2> QED
    BY <2>2 DEF Sessions!sessions
<1>4. ASSUME NEW w \in Writers, write(w) \/ finish(w) PROVE Sessions!Next
  <2> DEFINE to == Receivers(request[w].client)
             cs == {obj[a] : a \in to}
  <2>1. Issued(w, to)
    BY <1>4, IssueSteps DEF SessionInv
  <2>2. \/ call' = call
        \/ call' = [c \in Calls |-> IF c \in cs /\ call[c] = "started" THEN "ended" ELSE call[c]]
    BY <1>4 DEF write, finish
  <2> HIDE DEF to
  <2>3. cs \subseteq Sessions!Open
    BY <2>1, SessionOf DEF Issued, Sessions!Open
  <2>4. busy = {}
    BY <2>1, SessionOf DEF Issued, Issue, previous_updates_processed
  <2>5. busy' = cs
    <3>1. tags' = tags \cup {make_tag(obj[a], "writing", a) : a \in to}
      BY <2>1 DEF Issued, Issue
    <3>2. \A t \in tags : t.label # "writing"
      BY <2>4 DEF busy
    <3>3. {t \in tags' : t.label = "writing"} = {make_tag(obj[a], "writing", a) : a \in to}
      BY <3>1, <3>2 DEF make_tag
    <3>4. \A a \in to : make_tag(obj[a], "writing", a).call = obj[a]
      BY DEF make_tag
    <3> QED
      BY <3>3, <3>4 DEF busy
  <2>6. session' = session
    BY <2>1, SessionsKept DEF Issued, Issue
  <2>7. \/ presence' = presence
        \/ presence' = [c \in Calls |-> IF c \in cs /\ presence[c] = "here" THEN "left" ELSE presence[c]]
    BY <2>2 DEF presence
  <2>8. cs \in SUBSET Calls
    BY <2>3 DEF Sessions!Open
  <2> HIDE DEF cs
  <2> QED
    BY <2>3, <2>4, <2>5, <2>6, <2>7, <2>8 DEF Sessions!Next, Sessions!Operate
<1>5. ASSUME NEW t \in tags, NEW ok \in BOOLEAN, Handle(t, ok)
      PROVE  Sessions!Next \/ UNCHANGED Sessions!sessions
  <2>1. t \in Tag /\ tags \subseteq Tag /\ tags' = tags \ {t} /\ next' = next /\ call' = call
    BY <1>5 DEF Handle, SessionInv, TypeOK
  <2>2. presence' = presence
    BY <2>1 DEF presence
  <2>3. ~Deletes(t, ok) => session' = session
    BY <1>5, <2>1, SessionsKept DEF Handle
  <2>4. ASSUME Deletes(t, ok), t.data \in active
        PROVE  session' = [session EXCEPT ![obj[t.data]] = "closed"]
    <3> DEFINE c == obj[t.data]
    <3>1. active' = active \ {t.data} /\ obj' = [obj EXCEPT ![t.data] = None]
      BY <1>5, <2>4 DEF Handle, Delete
    <3>2. c \in Calls /\ call[c] # "idle" /\ c # None /\ t.data \in Addrs
      BY <2>1, <2>4, SessionOf DEF SessionInv, OneObjectPerCall, Tag
    <3>3. \A b \in Addrs : b # t.data => obj[b] # c /\ obj'[b] = obj[b]
      BY <3>1, <3>2 DEF SessionInv, OneObjectPerCall, TypeOK
    <3>4. next # None => next \in Addrs /\ next # t.data
      BY <2>4 DEF SessionInv, HeapExact, TypeOK
    <3>5. active \subseteq Addrs
      BY DEF SessionInv, TypeOK
    <3>6. session'[c] = "closed"
      BY <2>1, <3>1, <3>2, <3>3, <3>4, <3>5 DEF session
    <3>7. ASSUME NEW d \in Calls, d # c PROVE session'[d] = session[d]
      <4>1. (\E a \in active' : obj'[a] = d) <=> (\E a \in active : obj[a] = d)
        BY <3>1, <3>3, <3>5, <3>7
      <4>2. next # None => obj'[next] = obj[next]
        BY <3>3, <3>4
      <4> QED
        BY <2>1, <4>1, <4>2 DEF session
    <3>8. session \in [Calls -> {"none", "pending", "open", "closed"}]
          /\ session' \in [Calls -> {"none", "pending", "open", "closed"}]
      BY DEF session
    <3> HIDE DEF c
    <3> QED
      BY <3>2, <3>6, <3>7, <3>8 DEF c
  <2>5. CASE t.label = "writing"
    <3>1. t.data \in active /\ obj[t.data] = t.call /\ t.call \in busy /\ t.call \in Calls
      BY <2>1, <2>5 DEF SessionInv, InFlightIsLive, busy, Tag
    <3>2. \A u \in tags : u.label = "writing" /\ u.call = t.call => u = t
      BY <2>1, <2>5, <3>1 DEF SessionInv, InFlightIsLive, OneObjectPerCall, Tag, TypeOK
    <3>3. busy' = busy \ {t.call}
      BY <2>1, <2>5, <3>2 DEF busy
    <3>4. CASE ok
      BY <2>2, <2>3, <2>5, <3>1, <3>3, <3>4 DEF Deletes, Sessions!Next, Sessions!Complete
    <3>5. CASE ~ok
      <4>1. presence[t.call] = "left"
        BY <1>5, <2>5, <3>1, <3>5 DEF Handle, Deliverable, presence
      <4> QED
        BY <2>2, <2>4, <2>5, <3>1, <3>3, <3>5, <4>1 DEF Deletes, Sessions!Next, Sessions!Fail
    <3> QED
      BY <3>4, <3>5
  <2>6. CASE t.label = "done"
    <3>1. busy' = busy
      BY <2>1, <2>6, BusyKept
    <3>2. CASE ~Deletes(t, ok)
      BY <2>2, <2>3, <3>1, <3>2 DEF Sessions!sessions
    <3>3. CASE Deletes(t, ok) /\ t.data \notin active
      BY <1>5, <2>1, <2>2, <3>1, <3>3, SessionsKept DEF Handle, Delete, Sessions!sessions
    <3>4. CASE Deletes(t, ok) /\ t.data \in active
      <4> DEFINE c == obj[t.data]
      <4>1. c \in Sessions!Open /\ c \in Calls
        BY <3>4, SessionOf DEF Sessions!Open
      <4>2. c \notin busy
        <5>1. t.data \notin processing /\ t.data \in Addrs /\ c # None
          BY <2>1, <2>6, <3>4, SessionOf DEF Deletes, Tag
        <5> QED
          BY <5>1, SessionOf DEF SessionInv, OneObjectPerCall, TypeOK
      <4>3. InOrder => presence[c] = "left"
        BY <1>5, <2>1, <2>6, <4>1 DEF Handle, Deliverable, SessionInv, TagsLive, presence, Tag
      <4>4. session' = [session EXCEPT ![c] = "closed"]
        BY <2>4, <3>4
      <4> HIDE DEF c
      <4> QED
        BY <2>2, <3>1, <4>1, <4>2, <4>3, <4>4 DEF Sessions!Next, Sessions!Close
    <3> QED
      BY <3>2, <3>3, <3>4
  <2> QED
    BY <2>1, <2>5, <2>6 DEF Tag
<1>6. ASSUME NEW a \in Addrs, NEW c \in Calls, ActivateNext(a, c) PROVE Sessions!Next
  <2>1. /\ next' = a /\ obj[a] = None /\ call[c] = "idle"
        /\ next # None => call[obj[next]] \in {"started", "ended"}
        /\ obj' = [obj EXCEPT ![a] = c] /\ call' = [call EXCEPT ![c] = "requested"]
        /\ active' = active \cup ({next} \ {None})
        /\ tags' = tags \cup {make_tag(c, "done", a)}
    BY <1>6 DEF ActivateNext, Free, Promoted
  <2>2. busy' = busy
    BY <2>1, BusyKept DEF make_tag
  <2>3. presence' = presence
    BY <2>1 DEF presence, SessionInv, TypeOK
  <2>4. session[c] = "none" /\ \A d \in Calls : session[d] = "pending" => presence[d] # "away"
    BY <2>1, SessionOf DEF presence
  <2>5. /\ active \subseteq Addrs /\ next \in Addrs \cup {None}
        /\ \A b \in active' : b \in Addrs /\ b # a /\ obj'[b] = obj[b]
        /\ obj'[a] = c /\ a # None
    BY <2>1 DEF SessionInv, TypeOK, HeapExact
  <2>6. ASSUME NEW d \in Calls
        PROVE  session'[d] = IF d = c THEN "pending"
                             ELSE IF session[d] = "pending" THEN "open" ELSE session[d]
    <3>1. CASE d = c
      BY <2>1, <2>5, <3>1 DEF session, SessionInv, TypeOK
    <3>2. CASE d # c
      <4>1. call'[d] = call[d] /\ obj'[next'] # d
        BY <2>1, <2>5, <3>2 DEF SessionInv, TypeOK
      <4>2. (\E b \in active' : obj'[b] = d) <=>
              (\E b \in active : obj[b] = d) \/ (next # None /\ obj[next] = d)
        BY <2>1, <2>5
      <4> QED
        BY <3>2, <4>1, <4>2 DEF session
    <3> QED
      BY <3>1, <3>2
  <2>7. session' = [d \in Calls |-> IF d = c THEN "pending"
                                    ELSE IF session[d] = "pending" THEN "open" ELSE session[d]]
    <3>1. session' = [d \in Calls |-> session'[d]]
      BY DEF session
    <3> QED
      BY <2>6, <3>1, Zenon
  <2> QED
    BY <2>2, <2>3, <2>4, <2>7 DEF Sessions!Next, Sessions!Await
<1>7. CASE EraseHandler
  <2>1. /\ UNCHANGED connections
        /\ \A c \in Calls : call'[c] = call[c] \/ (call[c] = "requested" /\ call'[c] = "failed")
    BY <1>7 DEF EraseHandler, SessionInv, TypeOK
  <2>2. session' = session /\ busy' = busy
    BY <2>1, SessionsKept, BusyKept DEF connections
  <2>3. presence' = presence
    BY <2>1 DEF presence
  <2> QED
    BY <2>2, <2>3 DEF Sessions!sessions
<1>8. CASE Destroy
  <2>1. /\ next' = None /\ active' = {} /\ tags' = {} /\ call' = call
        /\ ~EarlyShutdown => Drained
    BY <1>8 DEF Destroy, grpc, SessionInv, Ending
  <2>2. ASSUME ~EarlyShutdown PROVE processing = {}
    <3> SUFFICES ASSUME NEW b \in processing PROVE FALSE
      OBVIOUS
    <3>1. PICK t \in tags : t.label = "writing" /\ t.data = b
      BY DEF SessionInv, ProcessingExact
    <3> QED
      BY <2>1, <2>2, <3>1 DEF SessionInv, InFlightIsLive, ActiveCame, Drained
  <2>3. ~EarlyShutdown => busy = {}
    BY <2>2, SessionOf
  <2>4. ASSUME ~EarlyShutdown, NEW b \in active PROVE call[obj[b]] = "ended"
    <3> SUFFICES ASSUME call[obj[b]] = "started" PROVE FALSE
      BY DEF SessionInv, ActiveCame
    <3>1. obj[b] \in Calls /\ stage # "destroyed"
      BY <1>8, SessionOf DEF Destroy
    <3>2. PICK t \in tags : t.call = obj[b] /\ t.label = "done"
      BY <3>1 DEF SessionInv, DoneOwed, DoneReturned
    <3> QED
      BY <2>1, <2>4, <3>2 DEF Drained
  <2>5. ~EarlyShutdown => \A c \in Sessions!Open : presence[c] = "left"
    BY <2>4, SessionOf DEF Sessions!Open, presence
  <2>6. busy' = {} /\ presence' = presence
    BY <2>1 DEF busy, presence
  <2>7. session' = [c \in Calls |-> IF session[c] = "none" THEN "none" ELSE "closed"]
    BY <2>1 DEF session
  <2> QED
    BY <2>3, <2>5, <2>6, <2>7 DEF Sessions!Next, Sessions!End
<1> QED
  BY <1>1, <1>2, <1>3, <1>4, <1>5, <1>6, <1>7, <1>8
  DEF Next, Writer, SyncThread, HandleEvent, RunThread, activate_next, Terminated, Quiet

(***************************************************************************)
(* The handler implements the sessions, for any number of clients,         *)
(* addresses and writers and any order of events: a session is opened      *)
(* once, closed once and never under its operation, although addresses are *)
(* reused and stale tags arrive.  With the order the code assumes only     *)
(* sessions of clients that have left are closed, and if the users stop in *)
(* time the destructor finds nobody served and nothing in flight.          *)
(***************************************************************************)
THEOREM HandlerImplementsSessions == Spec => SessionSpec
<1>1. Init => Sessions!Init
  BY Assumptions DEF Init, Sessions!Init, session, presence, busy
<1>2. SessionInv /\ [Next]_vars => [Sessions!Next]_(Sessions!sessions)
  BY SessionStep
<1> QED
  BY <1>1, <1>2, SessionInvariant, PTL DEF Spec, SessionSpec, Sessions!Spec

\* A client is waited for, served and let go, in this order and never again.
OnlyAdvances ==
    \A c \in Calls : session'[c] # session[c] =>
        <<session[c], session'[c]>> \in {<<"none", "pending">>, <<"pending", "open">>,
                                        <<"pending", "closed">>, <<"open", "closed">>}

\* No event that comes late, twice or for an address that was reused brings a
\* session back or serves a client twice (lines 262-311).
THEOREM SessionsOnlyAdvance == Spec => [][OnlyAdvances]_vars
<1>1. SessionInv /\ [Next]_vars => OnlyAdvances
  <2> SUFFICES ASSUME SessionInv, [Next]_vars, NEW c \in Calls, session'[c] # session[c]
               PROVE  <<session[c], session'[c]>> \in
                        {<<"none", "pending">>, <<"pending", "open">>,
                         <<"pending", "closed">>, <<"open", "closed">>}
    BY DEF OnlyAdvances
  <2>1. Sessions!Next
    BY SessionStep DEF Sessions!sessions
  <2>2. session \in [Calls -> {"none", "pending", "open", "closed"}]
    BY DEF session
  <2>3. \A d \in busy : session[d] = "open"
    BY SessionOf
  <2>4. ASSUME NEW d \in Calls, Sessions!Await(d)
        PROVE  \/ session[c] = "none" /\ session'[c] = "pending"
               \/ session[c] = "pending" /\ session'[c] = "open"
    BY <2>4 DEF Sessions!Await
  <2>5. ASSUME NEW d \in Calls, Sessions!Fail(d) \/ Sessions!Close(d)
        PROVE  session[c] = "open" /\ session'[c] = "closed"
    BY <2>2, <2>3, <2>5 DEF Sessions!Fail, Sessions!Close, Sessions!Open
  <2>6. CASE Sessions!End
    BY <2>2, <2>6 DEF Sessions!End
  <2> QED
    BY <2>1, <2>4, <2>5, <2>6
       DEF Sessions!Next, Sessions!Arrive, Sessions!Leave, Sessions!Operate, Sessions!Complete
<1>2. SessionInv /\ [Next]_vars => [OnlyAdvances]_vars
  BY <1>1
<1> QED
  BY <1>2, SessionInvariant, PTL DEF Spec
=============================================================================
