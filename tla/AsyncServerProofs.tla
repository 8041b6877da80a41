------------------------- MODULE AsyncServerProofs -------------------------
(***************************************************************************)
(* The second-generation server keeps one tag per operation that gRPC has, *)
(* one live handler per operation and one listening handler per function,  *)
(* and dies only for the reasons known, for any number of functions,       *)
(* handlers and calls.                                                     *)
(***************************************************************************)
EXTENDS AsyncServer, FiniteSetTheorems, SequenceTheorems, TLAPS

----------------------------------------------------------------------------
(* The inductive invariant.                                                *)

\* The constructor's two tasks come first, in order, and each function that is
\* still to be registered is queued once and has no handler.
Initializing ==
    /\ \A i \in DOMAIN initialization_queue :
         /\ initialization_queue[i] = "build" <=> (server = "none" /\ i = 1)
         /\ initialization_queue[i] = "publish" <=>
              (~published /\ i = IF server = "none" THEN 2 ELSE 1)
         /\ initialization_queue[i] \in Functions =>
              \A a \in Addrs : data[a] # initialization_queue[i]
    /\ \A i, j \in DOMAIN initialization_queue :
         /\ initialization_queue[i] \in Functions
         /\ initialization_queue[i] = initialization_queue[j]
         => i = j
    /\ ~published => Len(initialization_queue) >= IF server = "none" THEN 2 ELSE 1
    /\ ~published => rpc = "init" /\ upc = "idle"
    /\ server = "none" => ~published

\* How far the destructor has come, and what that leaves of the calls.
Closing ==
    /\ server = "closing" <=> upc = "shutdown"
    /\ server = "closed" <=> upc \in {"joining", "destroyed"}
    /\ server \in {"none", "failed"} => \A a \in Addrs : op[a] = "none"
    /\ server = "up" => \A a \in Addrs : op[a] # "refused"
    /\ upc \in {"joining", "destroyed"} => \A a \in Addrs : op[a] \in InUse => a \in gone
    /\ upc = "destroyed" => rpc = "exited"

\* The run thread holds an event of gRPC, other threads hold the open calls.
Holding ==
    /\ received # None => rpc = "run" /\ op[received] \in Events
    /\ \A a \in Addrs : op[a] = "open" <=> a \in held

\* A handler is in data_ exactly while gRPC has an operation of it or the user
\* has its call, and its tags are those of the operation gRPC has.
Owning ==
    upc # "destroyed" => \A a \in Addrs :
        /\ (data[a] # None) <=> (op[a] # "none")
        /\ Tag(a, "ServerNewRpc") \in tags <=> op[a] \in NewRpcOps
        /\ Tag(a, "ServerDone") \in tags <=> op[a] = "finished"

\* A function with a handler has one that listens, and no second one.
Listens(a, f) == data[a] = f /\ op[a] \in {"requested", "arrived"}
Listening ==
    server = "up" => \A f \in Functions :
        /\ (\E a \in Addrs : data[a] = f) => \E a \in Addrs : Listens(a, f)
        /\ \A a, b \in Addrs : Listens(a, f) /\ Listens(b, f) => a = b

IInv == /\ TypeOK /\ Initializing /\ Closing /\ Holding /\ Owning /\ Listening
        /\ FaultsExplained

----------------------------------------------------------------------------
\* A tag names one handler and one label.
LEMMA TagInjective ==
    \A a, b, l, m : Tag(a, l) = Tag(b, m) <=> a = b /\ l = m
  BY DEF Tag

\* make_tag adds one tag and leaves the others.
LEMMA MakeTag ==
    ASSUME NEW ts, NEW a, NEW l
    PROVE  \A b, m : Tag(b, m) \in make_tag(ts, a, l) <=> Tag(b, m) \in ts \/ (b = a /\ m = l)
  BY TagInjective DEF make_tag

\* get_tag takes one tag out and leaves the others.
LEMMA GetTag ==
    ASSUME NEW ts, NEW a, NEW l
    PROVE  \A b, m : Tag(b, m) \in get_tag(ts, a, l) <=> Tag(b, m) \in ts /\ ~(b = a /\ m = l)
  BY TagInjective DEF get_tag

\* Both keep the type of the tagger.
LEMMA TagsTyped ==
    ASSUME NEW ts \in SUBSET [data : Addrs, label : Labels], NEW a \in Addrs, NEW l \in Labels
    PROVE  /\ make_tag(ts, a, l) \in SUBSET [data : Addrs, label : Labels]
           /\ get_tag(ts, a, l) \in SUBSET [data : Addrs, label : Labels]
  BY DEF make_tag, get_tag, Tag

\* The initialization queue after a task is queued.
LEMMA TaskQueued ==
    ASSUME NEW q \in Seq(Tasks), NEW t \in Tasks
    PROVE  /\ Append(q, t) \in Seq(Tasks) /\ Len(q) \in Nat
           /\ Len(Append(q, t)) = Len(q) + 1
           /\ DOMAIN q = 1 .. Len(q) /\ DOMAIN Append(q, t) = 1 .. Len(q) + 1
           /\ \A i \in 1 .. Len(q) : Append(q, t)[i] = q[i]
           /\ Append(q, t)[Len(q) + 1] = t
  BY AppendProperties, LenProperties

\* The initialization queue after its first task is taken.
LEMMA TaskTaken ==
    ASSUME NEW q \in Seq(Tasks), q # << >>
    PROVE  /\ Tail(q) \in Seq(Tasks) /\ Len(q) \in Nat \ {0} /\ Head(q) = q[1]
           /\ Len(Tail(q)) = Len(q) - 1
           /\ DOMAIN q = 1 .. Len(q) /\ DOMAIN Tail(q) = 1 .. Len(q) - 1
           /\ \A i \in 1 .. Len(q) - 1 : Tail(q)[i] = q[i + 1]
  BY HeadTailProperties, LenProperties, EmptySeq

\* Initially nothing is built, published, registered or served.
LEMMA AsyncInit == Init => IInv
<1> SUFFICES ASSUME Init PROVE IInv
  OBVIOUS
<1> USE AsyncAssumptions DEF Init
<1>1. TypeOK
  <2>1. <<"build", "publish">> \in Seq(Tasks)
    BY DEF Tasks
  <2>2. data \in [Addrs -> Functions \cup {None}] /\ calls \in 0 .. MaxCalls
    OBVIOUS
  <2>3. op \in [Addrs -> {"none", "requested", "arrived", "refused", "open", "finished"}]
    OBVIOUS
  <2> QED
    BY <2>1, <2>2, <2>3, Zenon DEF TypeOK
<1>2. Initializing
  BY DEF Initializing
<1>3. Closing /\ Holding /\ Owning /\ Listening /\ FaultsExplained
  BY DEF Closing, Holding, Owning, Listening, Listens, FaultsExplained, NewRpcOps, InUse, Tag
<1> QED
  BY <1>1, <1>2, <1>3 DEF IInv

\* Every step of the user's thread, the run thread, the threads that answer
\* later, gRPC and the clients preserves the invariant.
LEMMA AsyncStep ==
    ASSUME IInv, [Next]_vars
    PROVE  IInv'
<1> USE AsyncAssumptions DEF init, grpc, rpcs, threads, IInv, Alive, mutex_free
<1>1. ASSUME NEW f \in Functions, register_async(f) PROVE IInv'
  <2>1. TypeOK'
    BY <1>1, TaskQueued DEF TypeOK, Tasks, register_async
  <2>2. Initializing'
    BY <1>1, TaskQueued DEF TypeOK, Initializing, Closing, Owning, Holding, Tasks, register_async
  <2>3. Closing'
    BY <1>1 DEF TypeOK, Initializing, Closing, Holding, InUse, Events, register_async
  <2>4. Holding'
    BY <1>1 DEF TypeOK, Closing, Holding, Owning, Events, register_async
  <2>5. Owning'
    BY <1>1 DEF TypeOK, Closing, Holding, Owning, Events, NewRpcOps, register_async
  <2>6. Listening'
    BY <1>1 DEF TypeOK, Initializing, Closing, Holding, Owning, Events, Listening, Listens, register_async
  <2>7. FaultsExplained'
    BY <1>1 DEF TypeOK, Initializing, Closing, Holding, FaultsExplained, InUse, Events, register_async
  <2> QED
    BY <2>1, <2>2, <2>3, <2>4, <2>5, <2>6, <2>7
<1>2. ASSUME start PROVE IInv'
  <2>1. TypeOK'
    BY <1>2, TaskQueued DEF TypeOK, Tasks, start
  <2>2. Initializing'
    BY <1>2, TaskQueued DEF TypeOK, Initializing, Closing, Owning, Holding, Tasks, start
  <2>3. Closing'
    BY <1>2 DEF TypeOK, Initializing, Closing, Holding, InUse, Events, start
  <2>4. Holding'
    BY <1>2 DEF TypeOK, Closing, Holding, Owning, Events, start
  <2>5. Owning'
    BY <1>2 DEF TypeOK, Closing, Holding, Owning, Events, NewRpcOps, start
  <2>6. Listening'
    BY <1>2 DEF TypeOK, Initializing, Closing, Holding, Owning, Events, Listening, Listens, start
  <2>7. FaultsExplained'
    BY <1>2 DEF TypeOK, Initializing, Closing, Holding, FaultsExplained, InUse, Events, start
  <2> QED
    BY <2>1, <2>2, <2>3, <2>4, <2>5, <2>6, <2>7
<1>3. ASSUME BeginDestruction PROVE IInv'
  <2>1. TypeOK'
    BY <1>3 DEF TypeOK, BeginDestruction
  <2>2. Initializing'
    BY <1>3 DEF TypeOK, Initializing, Closing, Owning, Holding, BeginDestruction
  <2>3. Closing'
    BY <1>3 DEF TypeOK, Initializing, Closing, Holding, InUse, Events, BeginDestruction
  <2>4. Holding'
    BY <1>3 DEF TypeOK, Closing, Holding, Owning, Events, BeginDestruction
  <2>5. Owning'
    BY <1>3 DEF TypeOK, Closing, Holding, Owning, Events, NewRpcOps, BeginDestruction
  <2>6. Listening'
    BY <1>3 DEF TypeOK, Initializing, Closing, Holding, Owning, Events, Listening, Listens, BeginDestruction
  <2>7. FaultsExplained'
    BY <1>3 DEF TypeOK, Initializing, Closing, Holding, FaultsExplained, InUse, Events, BeginDestruction
  <2> QED
    BY <2>1, <2>2, <2>3, <2>4, <2>5, <2>6, <2>7
<1>4. ASSUME ShutdownReturns PROVE IInv'
  <2>1. TypeOK'
    BY <1>4 DEF TypeOK, ShutdownReturns
  <2>2. Initializing'
    BY <1>4 DEF TypeOK, Initializing, Closing, Owning, Holding, ShutdownReturns
  <2>3. Closing'
    BY <1>4 DEF TypeOK, Initializing, Closing, Holding, InUse, Events, ShutdownReturns
  <2>4. Holding'
    BY <1>4 DEF TypeOK, Closing, Holding, Owning, Events, ShutdownReturns
  <2>5. Owning'
    BY <1>4 DEF TypeOK, Closing, Holding, Owning, Events, NewRpcOps, ShutdownReturns
  <2>6. Listening'
    BY <1>4 DEF TypeOK, Initializing, Closing, Holding, Owning, Events, Listening, Listens, ShutdownReturns
  <2>7. FaultsExplained'
    BY <1>4 DEF TypeOK, Initializing, Closing, Holding, FaultsExplained, InUse, Events, ShutdownReturns
  <2> QED
    BY <2>1, <2>2, <2>3, <2>4, <2>5, <2>6, <2>7
<1>5. ASSUME Join PROVE IInv'
  <2>1. TypeOK'
    BY <1>5 DEF TypeOK, Join
  <2>2. Initializing'
    BY <1>5 DEF TypeOK, Initializing, Closing, Owning, Holding, Join
  <2>3. Closing'
    BY <1>5 DEF TypeOK, Initializing, Closing, Holding, InUse, Events, Join
  <2>4. Holding'
    BY <1>5 DEF TypeOK, Closing, Holding, Owning, Events, Join
  <2>5. Owning'
    BY <1>5 DEF TypeOK, Closing, Holding, Owning, Events, NewRpcOps, Join
  <2>6. Listening'
    BY <1>5 DEF TypeOK, Initializing, Closing, Holding, Owning, Events, Listening, Listens, Join
  <2>7. FaultsExplained'
    BY <1>5 DEF TypeOK, Initializing, Closing, Holding, FaultsExplained, InUse, Events, Join
  <2> QED
    BY <2>1, <2>2, <2>3, <2>4, <2>5, <2>6, <2>7
<1>6. ASSUME NEW a \in Addrs, FinishLater(a) PROVE IInv'
  <2>1. TypeOK'
    BY <1>6, TagsTyped DEF TypeOK, Labels, FinishLater, finish, ClosedQueue
  <2>2. Initializing'
    BY <1>6 DEF TypeOK, Initializing, Closing, Owning, Holding, FinishLater, finish, ClosedQueue
  <2>3. Closing'
    BY <1>6 DEF TypeOK, Initializing, Closing, Holding, InUse, Events, FinishLater, finish, ClosedQueue
  <2>4. Holding'
    BY <1>6 DEF TypeOK, Closing, Holding, Owning, Events, FinishLater, finish, ClosedQueue
  <2>5. Owning'
    BY <1>6, MakeTag DEF TypeOK, Closing, Holding, Owning, Events, NewRpcOps, FinishLater, finish, ClosedQueue
  <2>6. Listening'
    BY <1>6 DEF TypeOK, Initializing, Closing, Holding, Owning, Events, Listening, Listens, FinishLater, finish, ClosedQueue
  <2>7. FaultsExplained'
    BY <1>6 DEF TypeOK, Initializing, Closing, Holding, FaultsExplained, InUse, Events, FinishLater, finish, ClosedQueue
  <2> QED
    BY <2>1, <2>2, <2>3, <2>4, <2>5, <2>6, <2>7
<1>7. ASSUME InitTask PROVE IInv'
  <2>1. TypeOK'
    <3> DEFINE task == Head(initialization_queue)
    <3>1. Tail(initialization_queue) \in Seq(Tasks)
      BY <1>7, TaskTaken DEF TypeOK, InitTask
    <3>2. CASE task \in Functions /\ \E b \in Addrs : data[b] = None /\ queue_rpc(b, task)
      <4>1. PICK b \in Addrs : queue_rpc(b, task)
        BY <3>2
      <4>2. tags' \in SUBSET [data : Addrs, label : Labels]
        BY <4>1, TagsTyped DEF TypeOK, queue_rpc, queue_handler, Labels
      <4>3. data' \in [Addrs -> Functions \cup {None}]
        BY <3>2, <4>1 DEF TypeOK, queue_rpc
      <4>4. op' \in [Addrs -> {"none", "requested", "arrived", "refused", "open", "finished"}]
        BY <4>1 DEF TypeOK, queue_rpc
      <4>5. CASE UNCHANGED <<server, published, held, rpc, fault>>
        BY <1>7, <3>1, <4>2, <4>3, <4>4, <4>5 DEF TypeOK, InitTask
      <4> QED
        BY <1>7, <3>1, <3>2, <4>2, <4>3, <4>4, <4>5 DEF TypeOK, InitTask
    <3>3. CASE UNCHANGED rpcs
      BY <1>7, <3>1, <3>3 DEF TypeOK, InitTask
    <3> QED
      BY <1>7, <3>2, <3>3 DEF InitTask
  <2>2. Initializing'
    BY <1>7, TaskTaken DEF TypeOK, Initializing, Closing, Owning, Holding, InitTask, queue_rpc, queue_handler
  <2>3. Closing'
    BY <1>7, TaskTaken DEF TypeOK, Initializing, Closing, Holding, InUse, Events, InitTask, queue_rpc, queue_handler
  <2>4. Holding'
    BY <1>7 DEF TypeOK, Closing, Holding, Owning, Events, InitTask, queue_rpc, queue_handler
  <2>5. Owning'
    BY <1>7, MakeTag DEF TypeOK, Closing, Holding, Owning, Events, NewRpcOps, InitTask, queue_rpc, queue_handler
  <2>6. Listening'
    <3> DEFINE task == Head(initialization_queue)
    <3>1. CASE task = "build"
      BY <1>7, <3>1, TaskTaken DEF TypeOK, Closing, Initializing, Owning, Listening, Listens, InitTask
    <3>2. CASE task \in Functions /\ server = "up"
      <4>1. PICK b \in Addrs : data[b] = None /\ queue_rpc(b, task)
        BY <1>7, <3>2 DEF InitTask
      <4>2. \A a \in Addrs : data[a] # task
        BY <1>7, <3>2, TaskTaken DEF TypeOK, Initializing, InitTask
      <4> QED
        BY <1>7, <3>2, <4>1, <4>2 DEF TypeOK, Listening, Listens, InitTask, queue_rpc
    <3>3. CASE task \notin Functions \cup {"build"} \/ (task \in Functions /\ server # "up")
      BY <1>7, <3>3 DEF TypeOK, Listening, Listens, InitTask
    <3> QED
      BY <3>1, <3>2, <3>3
  <2>7. FaultsExplained'
    BY <1>7 DEF TypeOK, Initializing, Closing, Holding, FaultsExplained, InUse, Events, InitTask, queue_rpc, queue_handler
  <2> QED
    BY <2>1, <2>2, <2>3, <2>4, <2>5, <2>6, <2>7
<1>8. ASSUME TakeEvent PROVE IInv'
  <2>1. TypeOK'
    BY <1>8 DEF TypeOK, TakeEvent
  <2>2. Initializing'
    BY <1>8 DEF TypeOK, Initializing, Closing, Owning, Holding, TakeEvent
  <2>3. Closing'
    BY <1>8 DEF TypeOK, Initializing, Closing, Holding, InUse, Events, TakeEvent
  <2>4. Holding'
    BY <1>8 DEF TypeOK, Closing, Holding, Owning, Events, TakeEvent
  <2>5. Owning'
    BY <1>8 DEF TypeOK, Closing, Holding, Owning, Events, NewRpcOps, TakeEvent
  <2>6. Listening'
    BY <1>8 DEF TypeOK, Initializing, Closing, Holding, Owning, Events, Listening, Listens, TakeEvent
  <2>7. FaultsExplained'
    BY <1>8 DEF TypeOK, Initializing, Closing, Holding, FaultsExplained, InUse, Events, TakeEvent
  <2> QED
    BY <2>1, <2>2, <2>3, <2>4, <2>5, <2>6, <2>7
<1>9. ASSUME HandleNewRpc PROVE IInv'
  <2>1. TypeOK'
    BY <1>9, TagsTyped DEF TypeOK, Labels, HandleNewRpc, ClosedQueue, queue_handler, invoke_user_callback, clone
  <2>2. Initializing'
    BY <1>9 DEF TypeOK, Initializing, Closing, Owning, Holding, HandleNewRpc, ClosedQueue, queue_handler, invoke_user_callback, clone
  <2>3. Closing'
    BY <1>9 DEF TypeOK, Initializing, Closing, Holding, InUse, Events, HandleNewRpc, ClosedQueue, queue_handler, invoke_user_callback, clone
  <2>4. Holding'
    BY <1>9 DEF TypeOK, Closing, Holding, Owning, Events, HandleNewRpc, ClosedQueue, queue_handler, invoke_user_callback, clone
  <2>5. Owning'
    BY <1>9, MakeTag, GetTag DEF TypeOK, Closing, Holding, Owning, Events, NewRpcOps, HandleNewRpc, ClosedQueue, queue_handler, invoke_user_callback, clone
  <2>6. Listening'
    BY <1>9 DEF TypeOK, Initializing, Closing, Holding, Owning, Events, Listening, Listens, HandleNewRpc, ClosedQueue, queue_handler, invoke_user_callback, clone
  <2>7. FaultsExplained'
    BY <1>9 DEF TypeOK, Initializing, Closing, Holding, FaultsExplained, InUse, Events, HandleNewRpc, ClosedQueue, queue_handler, invoke_user_callback, clone
  <2> QED
    BY <2>1, <2>2, <2>3, <2>4, <2>5, <2>6, <2>7
<1>10. ASSUME HandleErase PROVE IInv'
  <2>1. TypeOK'
    BY <1>10, TagsTyped DEF TypeOK, Labels, HandleErase
  <2>2. Initializing'
    BY <1>10 DEF TypeOK, Initializing, Closing, Owning, Holding, HandleErase
  <2>3. Closing'
    BY <1>10 DEF TypeOK, Initializing, Closing, Holding, InUse, Events, HandleErase
  <2>4. Holding'
    BY <1>10 DEF TypeOK, Closing, Holding, Owning, Events, HandleErase
  <2>5. Owning'
    BY <1>10, GetTag DEF TypeOK, Closing, Holding, Owning, Events, NewRpcOps, HandleErase
  <2>6. Listening'
    BY <1>10 DEF TypeOK, Initializing, Closing, Holding, Owning, Events, Listening, Listens, HandleErase
  <2>7. FaultsExplained'
    BY <1>10 DEF TypeOK, Initializing, Closing, Holding, FaultsExplained, InUse, Events, HandleErase
  <2> QED
    BY <2>1, <2>2, <2>3, <2>4, <2>5, <2>6, <2>7
<1>11. ASSUME RunExit PROVE IInv'
  <2>1. TypeOK'
    BY <1>11 DEF TypeOK, RunExit
  <2>2. Initializing'
    BY <1>11 DEF TypeOK, Initializing, Closing, Owning, Holding, RunExit
  <2>3. Closing'
    BY <1>11 DEF TypeOK, Initializing, Closing, Holding, InUse, Events, RunExit
  <2>4. Holding'
    BY <1>11 DEF TypeOK, Closing, Holding, Owning, Events, RunExit
  <2>5. Owning'
    BY <1>11 DEF TypeOK, Closing, Holding, Owning, Events, NewRpcOps, RunExit
  <2>6. Listening'
    BY <1>11 DEF TypeOK, Initializing, Closing, Holding, Owning, Events, Listening, Listens, RunExit
  <2>7. FaultsExplained'
    BY <1>11 DEF TypeOK, Initializing, Closing, Holding, FaultsExplained, InUse, Events, RunExit
  <2> QED
    BY <2>1, <2>2, <2>3, <2>4, <2>5, <2>6, <2>7
<1>12. ASSUME NEW a \in Addrs, CallArrives(a) PROVE IInv'
  <2>1. TypeOK'
    BY <1>12 DEF TypeOK, CallArrives
  <2>2. Initializing'
    BY <1>12 DEF TypeOK, Initializing, Closing, Owning, Holding, CallArrives
  <2>3. Closing'
    BY <1>12 DEF TypeOK, Initializing, Closing, Holding, InUse, Events, CallArrives
  <2>4. Holding'
    BY <1>12 DEF TypeOK, Closing, Holding, Owning, Events, CallArrives
  <2>5. Owning'
    BY <1>12 DEF TypeOK, Closing, Holding, Owning, Events, NewRpcOps, CallArrives
  <2>6. Listening'
    BY <1>12 DEF TypeOK, Initializing, Closing, Holding, Owning, Events, Listening, Listens, CallArrives
  <2>7. FaultsExplained'
    BY <1>12 DEF TypeOK, Initializing, Closing, Holding, FaultsExplained, InUse, Events, CallArrives
  <2> QED
    BY <2>1, <2>2, <2>3, <2>4, <2>5, <2>6, <2>7
<1>13. ASSUME NEW a \in Addrs, ClientLeaves(a) PROVE IInv'
  <2>1. TypeOK'
    BY <1>13 DEF TypeOK, ClientLeaves
  <2>2. Initializing'
    BY <1>13 DEF TypeOK, Initializing, Closing, Owning, Holding, ClientLeaves
  <2>3. Closing'
    BY <1>13 DEF TypeOK, Initializing, Closing, Holding, InUse, Events, ClientLeaves
  <2>4. Holding'
    BY <1>13 DEF TypeOK, Closing, Holding, Owning, Events, ClientLeaves
  <2>5. Owning'
    BY <1>13 DEF TypeOK, Closing, Holding, Owning, Events, NewRpcOps, ClientLeaves
  <2>6. Listening'
    BY <1>13 DEF TypeOK, Initializing, Closing, Holding, Owning, Events, Listening, Listens, ClientLeaves
  <2>7. FaultsExplained'
    BY <1>13 DEF TypeOK, Initializing, Closing, Holding, FaultsExplained, InUse, Events, ClientLeaves
  <2> QED
    BY <2>1, <2>2, <2>3, <2>4, <2>5, <2>6, <2>7
<1>14. ASSUME UNCHANGED vars PROVE IInv'
  <2>1. TypeOK'
    BY <1>14 DEF TypeOK, vars
  <2>2. Initializing'
    BY <1>14 DEF TypeOK, Initializing, Closing, Owning, Holding, vars
  <2>3. Closing'
    BY <1>14 DEF TypeOK, Initializing, Closing, Holding, InUse, Events, vars
  <2>4. Holding'
    BY <1>14 DEF TypeOK, Closing, Holding, Owning, Events, vars
  <2>5. Owning'
    BY <1>14 DEF TypeOK, Closing, Holding, Owning, Events, NewRpcOps, vars
  <2>6. Listening'
    BY <1>14 DEF TypeOK, Initializing, Closing, Holding, Owning, Events, Listening, Listens, vars
  <2>7. FaultsExplained'
    BY <1>14 DEF TypeOK, Initializing, Closing, Holding, FaultsExplained, InUse, Events, vars
  <2> QED
    BY <2>1, <2>2, <2>3, <2>4, <2>5, <2>6, <2>7
<1> QED
  BY <1>1, <1>2, <1>3, <1>4, <1>5, <1>6, <1>7, <1>8, <1>9, <1>10, <1>11, <1>12, <1>13, <1>14 DEF Next, RunThread

\* The invariant holds in every state of the server.
LEMMA AsyncInvariant == Spec => []IInv
  BY AsyncInit, AsyncStep, PTL DEF Spec

----------------------------------------------------------------------------
\* The tagger holds exactly the tags of the operations gRPC has to report, so
\* get_tag finds the tag of every event and no tag leaks, although addresses of
\* handlers are reused and calls are finished by other threads.
THEOREM TagsAreExact == Spec => []TagsExact
<1>1. ASSUME IInv PROVE TagsExact
  <2> SUFFICES ASSUME upc # "destroyed"
               PROVE  tags = {Tag(a, "ServerNewRpc") : a \in {b \in Addrs : op[b] \in NewRpcOps}}
                        \cup {Tag(a, "ServerDone")   : a \in {b \in Addrs : op[b] = "finished"}}
    BY DEF TagsExact
  <2>1. \A t \in tags : \E a \in Addrs, l \in Labels : t = Tag(a, l)
    BY <1>1 DEF IInv, TypeOK, Tag
  <2>2. \A a \in Addrs : /\ Tag(a, "ServerNewRpc") \in tags <=> op[a] \in NewRpcOps
                         /\ Tag(a, "ServerDone") \in tags <=> op[a] = "finished"
    BY <1>1 DEF IInv, Owning
  <2> QED
    BY <2>1, <2>2 DEF Labels
<1> QED
  BY <1>1, AsyncInvariant, PTL

\* The handler of every event and of every writer a thread keeps is in data_,
\* unless the destructor took it and its client had left.
THEOREM HandlersStayAlive == Spec => []HandlersAlive
<1>1. IInv => HandlersAlive
  BY DEF IInv, TypeOK, Owning, Holding, Closing, HandlersAlive, InUse
<1> QED
  BY <1>1, AsyncInvariant, PTL

\* A running server listens for each registered function with exactly one
\* handler: no function goes deaf, and requests do not pile up.
THEOREM EveryFunctionListens == Spec => []AlwaysListening
<1>1. ASSUME IInv PROVE AlwaysListening
  <2> SUFFICES ASSUME server = "up", NEW f \in Functions
               PROVE  Cardinality({a \in Addrs : Listens(a, f)})
                        = IF \E a \in Addrs : data[a] = f THEN 1 ELSE 0
    BY DEF AlwaysListening, Listens
  <2>1. CASE \E a \in Addrs : data[a] = f
    <3>1. PICK a \in Addrs : Listens(a, f)
      BY <1>1, <2>1 DEF IInv, Listening
    <3>2. {b \in Addrs : Listens(b, f)} = {a}
      BY <1>1, <3>1 DEF IInv, Listening
    <3> QED
      BY <2>1, <3>2, FS_Singleton
  <2>2. CASE ~ \E a \in Addrs : data[a] = f
    <3>1. {a \in Addrs : Listens(a, f)} = {}
      BY <2>2 DEF Listens
    <3> QED
      BY <2>2, <3>1, FS_EmptySet
  <2> QED
    BY <2>1, <2>2
<1> QED
  BY <1>1, AsyncInvariant, PTL

\* The process dies only if it is destroyed while it is initialized, if its
\* port could not be used, or if a client left a call in progress.
THEOREM FaultsAreExplained == Spec => []FaultsExplained
  BY AsyncInvariant, PTL DEF IInv

\* Every variable of the server keeps its type.
THEOREM AsyncTypeCorrect == Spec => []TypeOK
  BY AsyncInvariant, PTL DEF IInv
=============================================================================
