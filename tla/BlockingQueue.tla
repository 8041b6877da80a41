--------------------------- MODULE BlockingQueue ---------------------------
(***************************************************************************)
(* grpcw::util::BlockingQueue and its copy ltb::util::BlockingQueue:       *)
(* producers push and notify after unlocking, consumers wait on the        *)
(* condition variable until the queue is not empty.  clear exists only in  *)
(* the first, clear_all_and_push_back only in the second.                  *)
(* The n-th value pushed is the number n.                                  *)
(***************************************************************************)
EXTENDS Naturals, Sequences, FiniteSets

CONSTANTS
    Producers, Consumers,
    MaxPush         \* bound on the values pushed

ASSUME Assumptions ==
    /\ MaxPush \in Nat
    /\ IsFiniteSet(Producers) /\ IsFiniteSet(Consumers)

VARIABLES
    queue_,
    pushed,         \* how many values were pushed
    got,            \* the values pop_front returned, in the order of its locked sections
    notifying,      \* producers between the unlock and notify_one
    ready, waiting  \* consumers in pop_front: about to take the lock, or asleep

vars == <<queue_, pushed, got, notifying, ready, waiting>>

empty == queue_ = << >>
size  == Len(queue_)

\* push_back and emplace_back: the locked part ...
Mutant_PushFront(p) ==
    /\ p \notin notifying /\ pushed < MaxPush
    /\ pushed' = pushed + 1
    /\ queue_' = <<pushed + 1>> \o queue_
    /\ notifying' = notifying \cup {p}
    /\ UNCHANGED <<got, ready, waiting>>
Mutant_PushQuietly(p) ==
    /\ p \notin notifying /\ pushed < MaxPush
    /\ pushed' = pushed + 1
    /\ queue_' = Append(queue_, pushed + 1)
    /\ notifying' = IF queue_ = << >> THEN notifying \cup {p} ELSE notifying
    /\ UNCHANGED <<got, ready, waiting>>
push_back(p) ==
    /\ p \notin notifying /\ pushed < MaxPush
    /\ pushed' = pushed + 1
    /\ queue_' = Append(queue_, pushed + 1)
    /\ notifying' = notifying \cup {p}
    /\ UNCHANGED <<got, ready, waiting>>

\* clear_all_and_push_back and clear_all_and_emplace_back: the locked part.
clear_all_and_push_back(p) ==
    /\ p \notin notifying /\ pushed < MaxPush
    /\ pushed' = pushed + 1
    /\ queue_' = <<pushed + 1>>
    /\ notifying' = notifying \cup {p}
    /\ UNCHANGED <<got, ready, waiting>>

\* ... and notify_one.
NotifyOne(p) ==
    /\ p \in notifying
    /\ notifying' = notifying \ {p}
    /\ \/ waiting = {} /\ UNCHANGED <<ready, waiting>>
       \/ \E c \in waiting : ready' = ready \cup {c} /\ waiting' = waiting \ {c}
    /\ UNCHANGED <<queue_, pushed, got>>

\* A consumer calls pop_front.
CallPop(c) ==
    /\ c \notin ready \cup waiting
    /\ ready' = ready \cup {c}
    /\ UNCHANGED <<queue_, pushed, got, notifying, waiting>>

Wait(c) ==
    /\ c \in ready /\ empty
    /\ ready' = ready \ {c} /\ waiting' = waiting \cup {c}
    /\ UNCHANGED <<queue_, pushed, got, notifying>>

SpuriousWakeup(c) ==
    /\ c \in waiting
    /\ ready' = ready \cup {c} /\ waiting' = waiting \ {c}
    /\ UNCHANGED <<queue_, pushed, got, notifying>>

pop_front(c) ==
    /\ c \in ready /\ ~empty
    /\ got' = Append(got, Head(queue_))
    /\ queue_' = Tail(queue_)
    /\ ready' = ready \ {c}
    /\ UNCHANGED <<pushed, notifying, waiting>>

\* Removes all values but the last, and returns a copy of that one, which stays
\* in the queue; with a single value the queue does not change.  The code does
\* not check for an empty queue, whose front() is undefined: that it holds a
\* value is a precondition on the caller.
pop_all_but_most_recent ==
    /\ size > 1
    /\ queue_' = <<queue_[size]>>
    /\ UNCHANGED <<pushed, got, notifying, ready, waiting>>

clear ==
    /\ size > 0
    /\ queue_' = << >>
    /\ UNCHANGED <<pushed, got, notifying, ready, waiting>>

Init ==
    /\ queue_ = << >> /\ pushed = 0 /\ got = << >>
    /\ notifying = {} /\ ready = {} /\ waiting = {}

Consume(c) == Wait(c) \/ pop_front(c)

Next ==
    \/ \E p \in Producers : push_back(p) \/ clear_all_and_push_back(p) \/ NotifyOne(p)
    \/ \E c \in Consumers : CallPop(c) \/ Consume(c) \/ SpuriousWakeup(c)
    \/ pop_all_but_most_recent \/ clear

Spec == Init /\ [][Next]_vars

\* A producer that pushed notifies, and a consumer that was woken runs.
FairSpec ==
    /\ Spec
    /\ \A p \in Producers : WF_vars(NotifyOne(p))
    /\ \A c \in Consumers : WF_vars(Consume(c))

----------------------------------------------------------------------------
(* Properties.                                                             *)

\* The type invariant.
TypeOK ==
    /\ queue_ \in Seq(1 .. MaxPush) /\ got \in Seq(1 .. MaxPush)
    /\ pushed \in 0 .. MaxPush
    /\ notifying \subseteq Producers
    /\ ready \subseteq Consumers /\ waiting \subseteq Consumers
    /\ ready \cap waiting = {}

\* No consumer sleeps while there is a value for it: each value beyond those
\* that woken consumers will take has a notification on its way, since
\* push_back and emplace_back notify once per value (lines 64, 74).
NoLostWakeup ==
    waiting # {} => Len(queue_) <= Cardinality(notifying) + Cardinality(ready)

\* The queue implements the first-in first-out queue.
Fifo == INSTANCE FifoQueue WITH Items <- 1 .. MaxPush, items <- queue_, delivered <- got
FifoSpec == Fifo!Spec

\* A waiting consumer is not left asleep next to a value.
ConsumersServed == (waiting # {} /\ queue_ # << >>) ~> (queue_ = << >> \/ waiting = {})
=============================================================================
