------------------------ MODULE BlockingQueueProofs ------------------------
(***************************************************************************)
(* The queue delivers values in the order they were pushed and leaves no   *)
(* consumer asleep next to a value, for any number of producers, consumers *)
(* and values.                                                             *)
(***************************************************************************)
EXTENDS BlockingQueue, FiniteSetTheorems, SequenceTheorems, TLAPS

\* Every step keeps the types.
LEMMA QueueTypeStep ==
    ASSUME TypeOK, [Next]_vars
    PROVE  TypeOK'
<1> USE Assumptions DEF TypeOK, empty, size
<1>1. ASSUME NEW p \in Producers, push_back(p) PROVE TypeOK'
  <2>1. pushed + 1 \in 1 .. MaxPush
    BY <1>1 DEF push_back
  <2> QED
    BY <1>1, <2>1, AppendProperties DEF push_back
<1>2. ASSUME NEW p \in Producers, clear_all_and_push_back(p) PROVE TypeOK'
  <2>1. pushed + 1 \in 1 .. MaxPush
    BY <1>2 DEF clear_all_and_push_back
  <2>2. <<pushed + 1>> \in Seq(1 .. MaxPush)
    BY <2>1
  <2> QED
    BY <1>2, <2>1, <2>2 DEF clear_all_and_push_back
<1>3. ASSUME NEW p \in Producers, NotifyOne(p) PROVE TypeOK'
  BY <1>3 DEF NotifyOne
<1>4. ASSUME NEW c \in Consumers, CallPop(c) \/ Wait(c) \/ SpuriousWakeup(c) PROVE TypeOK'
  BY <1>4 DEF CallPop, Wait, SpuriousWakeup
<1>5. ASSUME NEW c \in Consumers, pop_front(c) PROVE TypeOK'
  <2>1. Head(queue_) \in 1 .. MaxPush /\ Tail(queue_) \in Seq(1 .. MaxPush)
    BY <1>5, HeadTailProperties DEF pop_front
  <2> QED
    BY <1>5, <2>1, AppendProperties DEF pop_front
<1>6. ASSUME pop_all_but_most_recent PROVE TypeOK'
  <2>1. queue_[Len(queue_)] \in 1 .. MaxPush
    BY <1>6, ElementOfSeq, LenProperties DEF pop_all_but_most_recent
  <2>2. <<queue_[Len(queue_)]>> \in Seq(1 .. MaxPush)
    BY <2>1
  <2> QED
    BY <1>6, <2>2 DEF pop_all_but_most_recent
<1>7. ASSUME clear PROVE TypeOK'
  BY <1>7 DEF clear
<1>8. ASSUME UNCHANGED vars PROVE TypeOK'
  BY <1>8 DEF vars
<1> QED
  BY <1>1, <1>2, <1>3, <1>4, <1>5, <1>6, <1>7, <1>8 DEF Next, Consume

\* Every variable of the queue keeps its type, the values in the queue and those
\* handed out included, and no consumer is both awake and asleep.
THEOREM QueueTypeCorrect == Spec => []TypeOK
<1>1. Init => TypeOK
  BY Assumptions DEF Init, TypeOK
<1> QED
  BY <1>1, QueueTypeStep, PTL DEF Spec

----------------------------------------------------------------------------
\* The sets of producers and consumers that are counted are finite.
LEMMA CountsAreNaturals ==
    ASSUME TypeOK
    PROVE  /\ IsFiniteSet(notifying) /\ Cardinality(notifying) \in Nat
           /\ IsFiniteSet(ready) /\ Cardinality(ready) \in Nat
           /\ Len(queue_) \in Nat
  BY Assumptions, FS_Subset, FS_CardinalityType, LenProperties DEF TypeOK

\* A producer's notification pays for the value it pushed, and a woken consumer
\* for the value it will take.
LEMMA NoLostWakeupStep ==
    ASSUME TypeOK, NoLostWakeup, [Next]_vars
    PROVE  NoLostWakeup'
<1> USE DEF NoLostWakeup
<1>0. /\ IsFiniteSet(notifying) /\ Cardinality(notifying) \in Nat
      /\ IsFiniteSet(ready) /\ Cardinality(ready) \in Nat
      /\ Len(queue_) \in Nat
  BY CountsAreNaturals
<1>1. ASSUME NEW p \in Producers, push_back(p) PROVE NoLostWakeup'
  <2>1. Len(queue_') = Len(queue_) + 1
    BY <1>1, Assumptions, AppendProperties DEF push_back, TypeOK
  <2>2. Cardinality(notifying') = Cardinality(notifying) + 1
    BY <1>0, <1>1, FS_AddElement DEF push_back
  <2> QED
    BY <1>0, <1>1, <2>1, <2>2 DEF push_back
<1>2. ASSUME NEW p \in Producers, clear_all_and_push_back(p) PROVE NoLostWakeup'
  <2>1. Len(queue_') = 1
    BY <1>2 DEF clear_all_and_push_back
  <2>2. Cardinality(notifying') = Cardinality(notifying) + 1
    BY <1>0, <1>2, FS_AddElement DEF clear_all_and_push_back
  <2> QED
    BY <1>0, <1>2, <2>1, <2>2 DEF clear_all_and_push_back
<1>3. ASSUME NEW p \in Producers, NotifyOne(p) PROVE NoLostWakeup'
  <2>1. CASE waiting = {} /\ UNCHANGED <<ready, waiting>>
    BY <1>3, <2>1 DEF NotifyOne
  <2>2. ASSUME NEW c \in waiting, ready' = ready \cup {c}, waiting' = waiting \ {c}
        PROVE  NoLostWakeup'
    <3>1. Cardinality(notifying') = Cardinality(notifying) - 1
      BY <1>0, <1>3, FS_RemoveElement DEF NotifyOne
    <3>2. Cardinality(ready') = Cardinality(ready) + 1
      BY <1>0, <2>2, FS_AddElement DEF TypeOK
    <3> QED
      BY <1>0, <1>3, <2>2, <3>1, <3>2 DEF NotifyOne
  <2> QED
    BY <1>3, <2>1, <2>2 DEF NotifyOne
<1>4. ASSUME NEW c \in Consumers, CallPop(c) PROVE NoLostWakeup'
  <2>1. Cardinality(ready') = Cardinality(ready) + 1
    BY <1>0, <1>4, FS_AddElement DEF CallPop
  <2> QED
    BY <1>0, <1>4, <2>1 DEF CallPop
<1>5. ASSUME NEW c \in Consumers, Wait(c) PROVE NoLostWakeup'
  <2>1. Cardinality(ready') \in Nat
    BY <1>0, <1>5, FS_RemoveElement, FS_CardinalityType DEF Wait
  <2> QED
    BY <1>0, <1>5, <2>1 DEF Wait, empty
<1>6. ASSUME NEW c \in Consumers, SpuriousWakeup(c) PROVE NoLostWakeup'
  <2>1. Cardinality(ready') = Cardinality(ready) + 1
    BY <1>0, <1>6, FS_AddElement DEF SpuriousWakeup, TypeOK
  <2> QED
    BY <1>0, <1>6, <2>1 DEF SpuriousWakeup
<1>7. ASSUME NEW c \in Consumers, pop_front(c) PROVE NoLostWakeup'
  <2>1. Len(queue_') = Len(queue_) - 1
    BY <1>7, HeadTailProperties DEF pop_front, empty, TypeOK
  <2>2. Cardinality(ready') = Cardinality(ready) - 1
    BY <1>0, <1>7, FS_RemoveElement DEF pop_front
  <2> QED
    BY <1>0, <1>7, <2>1, <2>2 DEF pop_front
<1>8. ASSUME pop_all_but_most_recent PROVE NoLostWakeup'
  <2>1. Len(queue_') = 1 /\ Len(queue_) > 1
    BY <1>8 DEF pop_all_but_most_recent, size
  <2> QED
    BY <1>0, <1>8, <2>1 DEF pop_all_but_most_recent
<1>9. ASSUME clear PROVE NoLostWakeup'
  <2>1. Len(queue_') = 0
    BY <1>9 DEF clear
  <2> QED
    BY <1>0, <1>9, <2>1 DEF clear
<1>10. ASSUME UNCHANGED vars PROVE NoLostWakeup'
  BY <1>10 DEF vars
<1> QED
  BY <1>1, <1>2, <1>3, <1>4, <1>5, <1>6, <1>7, <1>8, <1>9, <1>10 DEF Next, Consume

\* No consumer sleeps next to a value that no notification and no woken consumer
\* accounts for, with any number of producers and consumers and with clear,
\* pop_all_but_most_recent and clear_all_and_push_back between them (line 64).
THEOREM NoConsumerForgotten == Spec => []NoLostWakeup
<1>1. Init => NoLostWakeup
  BY DEF Init, NoLostWakeup
<1> QED
  BY <1>1, QueueTypeCorrect, NoLostWakeupStep, PTL DEF Spec

----------------------------------------------------------------------------
\* The part of a sequence from its last element on is that element.
LEMMA LastOnly ==
    ASSUME NEW S, NEW s \in Seq(S), s # << >>
    PROVE  SubSeq(s, Len(s), Len(s)) = <<s[Len(s)]>>
<1>1. Len(s) \in 1 .. Len(s)
  BY EmptySeq, LenProperties
<1>2. SubSeq(s, Len(s), Len(s)) = <<s[Len(s)]>> \o SubSeq(s, Len(s) + 1, Len(s))
  BY <1>1, SubSeqRecursiveFirst
<1>3. SubSeq(s, Len(s) + 1, Len(s)) = << >>
  BY <1>1, SubSeqEmpty
<1>4. <<s[Len(s)]>> \in Seq(S)
  BY <1>1, ElementOfSeq
<1> QED
  BY <1>2, <1>3, <1>4, ConcatEmptySeq

\* Every step of the queue is a step of the first-in first-out queue, or none.
LEMMA FifoStep ==
    ASSUME TypeOK, [Next]_vars
    PROVE  [Fifo!Next]_<<queue_, got>>
<1>1. ASSUME NEW p \in Producers, push_back(p) PROVE Fifo!Put
  BY <1>1, Assumptions DEF push_back, Fifo!Put, TypeOK
<1>2. ASSUME NEW p \in Producers, clear_all_and_push_back(p) PROVE Fifo!Replace
  BY <1>2, Assumptions DEF clear_all_and_push_back, Fifo!Replace, TypeOK
<1>3. ASSUME NEW p \in Producers, NotifyOne(p) PROVE UNCHANGED <<queue_, got>>
  BY <1>3 DEF NotifyOne
<1>4. ASSUME NEW c \in Consumers, CallPop(c) \/ Wait(c) \/ SpuriousWakeup(c)
      PROVE  UNCHANGED <<queue_, got>>
  BY <1>4 DEF CallPop, Wait, SpuriousWakeup
<1>5. ASSUME NEW c \in Consumers, pop_front(c) PROVE Fifo!Take
  BY <1>5 DEF pop_front, empty, Fifo!Take
<1>6. ASSUME pop_all_but_most_recent PROVE Fifo!DropOldest
  <2>1. Len(queue_) - 1 \in 1 .. Len(queue_) /\ queue_ # << >>
    BY <1>6, LenProperties DEF pop_all_but_most_recent, size, TypeOK
  <2>2. queue_' = SubSeq(queue_, (Len(queue_) - 1) + 1, Len(queue_))
    BY <1>6, <2>1, LastOnly, LenProperties DEF pop_all_but_most_recent, size, TypeOK
  <2> QED
    BY <1>6, <2>1, <2>2 DEF pop_all_but_most_recent, Fifo!DropOldest
<1>7. ASSUME clear PROVE Fifo!DropOldest
  <2>1. Len(queue_) \in 1 .. Len(queue_)
    BY <1>7, LenProperties DEF clear, size, TypeOK
  <2>2. queue_' = SubSeq(queue_, Len(queue_) + 1, Len(queue_))
    BY <1>7, <2>1, SubSeqEmpty DEF clear
  <2> QED
    BY <1>7, <2>1, <2>2 DEF clear, Fifo!DropOldest
<1>8. ASSUME UNCHANGED vars PROVE UNCHANGED <<queue_, got>>
  BY <1>8 DEF vars
<1> QED
  BY <1>1, <1>2, <1>3, <1>4, <1>5, <1>6, <1>7, <1>8 DEF Next, Consume, Fifo!Next

\* The queue implements the first-in first-out queue: whatever the threads do,
\* values leave in the order they came, each at most once, and only the oldest
\* are ever dropped (lines 82 and 92).
THEOREM QueueIsFifo == Spec => FifoSpec
<1>1. Init => Fifo!Init
  BY DEF Init, Fifo!Init
<1> QED
  BY <1>1, QueueTypeCorrect, FifoStep, PTL DEF Spec, FifoSpec, Fifo!Spec
=============================================================================
