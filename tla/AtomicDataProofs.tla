-------------------------- MODULE AtomicDataProofs --------------------------
(***************************************************************************)
(* What the three tests of AtomicData assert holds under every schedule,   *)
(* for any number of threads and any length of the sequences.              *)
(***************************************************************************)
EXTENDS AtomicDataTests, SequenceTheorems, TLAPS

Labels == {"start", "second", "notify", "notify_last", "join", "done"}

\* The threads' labels, and the fields of the data of the test that runs.
Typed ==
    /\ test \in {"wait_timeout", "notify_all", "interleaved"}
    /\ pc \in [Threads -> Labels]
    /\ results \in Seq(BOOLEAN)
    /\ test = "wait_timeout" => data \in [stop_waiting : BOOLEAN, update_happened : BOOLEAN]
    /\ test = "notify_all"   => data \in [write_away : BOOLEAN, num_threads : Nat]
    /\ test = "interleaved"  =>
         data \in [current_number : Nat, all_data : Seq(Nat), odds : Seq(Nat), even : Seq(Nat),
                   writing_odds : BOOLEAN]

\* A thread of the third test has left its loop.
Stopped(t) == pc[t] \in {"notify_last", "join", "done"}

\* Who has left the loop, by how far the numbers have come: the thread that
\* reaches max_number leaves first, and the other writes once more.
Leaving ==
    test = "interleaved" =>
        LET n == data.current_number IN
        /\ n <= max_number + 1
        /\ \A t \in {main, helper} :
             Stopped(t) <=> n = max_number + 1 \/ (n = max_number /\ ~its_turn(t))

\* The three lists when n numbers have been written, element by element.
InOrder(n, all, odds, even) ==
    /\ Len(all) = n /\ \A i \in 1..n : all[i] = i - 1
    /\ Len(even) = (n + 1) \div 2 /\ \A i \in 1..((n + 1) \div 2) : even[i] = 2 * (i - 1)
    /\ Len(odds) = n \div 2 /\ \A i \in 1..(n \div 2) : odds[i] = 2 * i - 1

Numbers ==
    test = "interleaved" =>
        /\ data.writing_odds <=> data.current_number % 2 = 1
        /\ InOrder(data.current_number, data.all_data, data.odds, data.even)

\* The main thread of the third test ends after the one it has started.
EndsLast == test = "interleaved" /\ At(main, "done") => At(helper, "done")

IInv == Typed /\ Leaving /\ Numbers /\ EndsLast /\ TimeoutIsTruthful

----------------------------------------------------------------------------
\* A list with one more element: the new one is the last.
LEMMA NextNumber ==
    ASSUME NEW s \in Seq(Nat), NEW x \in Nat, NEW k \in Nat, Len(s) = k
    PROVE  /\ Append(s, x) \in Seq(Nat) /\ Len(Append(s, x)) = k + 1
           /\ \A i \in 1..(k + 1) : Append(s, x)[i] = IF i <= k THEN s[i] ELSE x
<1>1. Append(s, x)[k + 1] = x
  BY AppendProperties
<1>2. \A i \in 1..k : Append(s, x)[i] = s[i]
  BY AppendProperties
<1>3. \A i \in 1..(k + 1) : (i \in 1..k /\ i <= k) \/ (i = k + 1 /\ ~(i <= k))
  OBVIOUS
<1> QED
  BY <1>1, <1>2, <1>3, AppendProperties

\* The next number, odd or even, keeps the lists in order when it is put at the
\* end of its own.
LEMMA NextInOrder ==
    ASSUME NEW n \in Nat, NEW all \in Seq(Nat), NEW odds \in Seq(Nat), NEW even \in Seq(Nat),
           InOrder(n, all, odds, even)
    PROVE  /\ n % 2 = 1    => InOrder(n + 1, Append(all, n), Append(odds, n), even)
           /\ ~(n % 2 = 1) => InOrder(n + 1, Append(all, n), odds, Append(even, n))
<1> DEFINE h == n \div 2
<1>1. /\ h \in Nat
      /\ n % 2 = 1 => n = 2 * h + 1 /\ (n + 1) \div 2 = h + 1 /\ (n + 1 + 1) \div 2 = h + 1
      /\ ~(n % 2 = 1) => n = 2 * h /\ (n + 1) \div 2 = h /\ (n + 1 + 1) \div 2 = h + 1
  OBVIOUS
<1>2. /\ Len(all) = n /\ \A i \in 1..n : all[i] = i - 1
      /\ Len(odds) = h /\ \A i \in 1..h : odds[i] = 2 * i - 1
      /\ Len(even) = (n + 1) \div 2 /\ \A i \in 1..((n + 1) \div 2) : even[i] = 2 * (i - 1)
  BY DEF InOrder
<1> HIDE DEF h
<1>3. Len(Append(all, n)) = n + 1 /\ \A i \in 1..(n + 1) : Append(all, n)[i] = i - 1
  <2>1. /\ Len(Append(all, n)) = n + 1
        /\ \A i \in 1..(n + 1) : Append(all, n)[i] = IF i <= n THEN all[i] ELSE n
    BY <1>2, NextNumber
  <2> QED
    BY <1>2, <2>1
<1>4. ASSUME n % 2 = 1
      PROVE  Len(Append(odds, n)) = h + 1 /\ \A i \in 1..(h + 1) : Append(odds, n)[i] = 2 * i - 1
  <2>1. h \in Nat /\ Len(odds) = h /\ n = 2 * h + 1 /\ \A i \in 1..h : odds[i] = 2 * i - 1
    BY <1>1, <1>2, <1>4
  <2>2. /\ Len(Append(odds, n)) = h + 1
        /\ \A i \in 1..(h + 1) : Append(odds, n)[i] = IF i <= h THEN odds[i] ELSE n
    BY <2>1, NextNumber
  <2>3. ASSUME NEW i \in 1..(h + 1) PROVE Append(odds, n)[i] = 2 * i - 1
    <3>1. CASE i <= h
      BY <2>1, <2>2, <3>1
    <3>2. CASE ~(i <= h)
      <4>1. i = h + 1
        BY <2>1, <3>2
      <4>2. n = 2 * i - 1
        BY <2>1, <4>1
      <4>3. Append(odds, n)[i] = n
        BY <2>2, <3>2
      <4> QED
        BY <4>2, <4>3
    <3> QED
      BY <3>1, <3>2
  <2> QED
    BY <2>2, <2>3
<1>5. ASSUME ~(n % 2 = 1)
      PROVE  Len(Append(even, n)) = h + 1 /\ \A i \in 1..(h + 1) : Append(even, n)[i] = 2 * (i - 1)
  <2>1. h \in Nat /\ Len(even) = h /\ n = 2 * h /\ \A i \in 1..h : even[i] = 2 * (i - 1)
    BY <1>1, <1>2, <1>5
  <2>2. /\ Len(Append(even, n)) = h + 1
        /\ \A i \in 1..(h + 1) : Append(even, n)[i] = IF i <= h THEN even[i] ELSE n
    BY <2>1, NextNumber
  <2>3. ASSUME NEW i \in 1..(h + 1) PROVE Append(even, n)[i] = 2 * (i - 1)
    <3>1. CASE i <= h
      BY <2>1, <2>2, <3>1
    <3>2. CASE ~(i <= h)
      <4>1. i = h + 1
        BY <2>1, <3>2
      <4>2. n = 2 * (i - 1)
        BY <2>1, <4>1
      <4>3. Append(even, n)[i] = n
        BY <2>2, <3>2
      <4> QED
        BY <4>2, <4>3
    <3> QED
      BY <3>1, <3>2
  <2> QED
    BY <2>2, <2>3
<1>6. CASE n % 2 = 1
  BY <1>1, <1>2, <1>3, <1>4, <1>6 DEF InOrder
<1>7. CASE ~(n % 2 = 1)
  BY <1>1, <1>2, <1>3, <1>5, <1>7 DEF InOrder, h
<1> QED
  BY <1>6, <1>7

\* A list is the function of its elements.
LEMMA ListIsFunction ==
    ASSUME NEW s \in Seq(Nat), NEW k \in Nat, Len(s) = k
    PROVE  s = [i \in 1..k |-> s[i]]
  BY LenProperties

\* One more result: a call that returned true is among them if it was before, or
\* if the new one did.
LEMMA NextResult ==
    ASSUME NEW s \in Seq(BOOLEAN), NEW r \in BOOLEAN
    PROVE  /\ Append(s, r) \in Seq(BOOLEAN)
           /\ (\E i \in DOMAIN Append(s, r) : Append(s, r)[i]) <=> (\E i \in DOMAIN s : s[i]) \/ r
<1>1. /\ Append(s, r) \in Seq(BOOLEAN) /\ Len(Append(s, r)) = Len(s) + 1 /\ Len(s) \in Nat
      /\ DOMAIN s = 1..Len(s) /\ DOMAIN Append(s, r) = 1..(Len(s) + 1)
  BY AppendProperties, LenProperties
<1>2. /\ \A i \in 1..Len(s) : Append(s, r)[i] = s[i]
      /\ Append(s, r)[Len(s) + 1] = r
  BY AppendProperties
<1>3. 1..(Len(s) + 1) = (1..Len(s)) \cup {Len(s) + 1}
  BY <1>1
<1> QED
  BY <1>1, <1>2, <1>3, Zenon

\* A test starts with its data and with every thread at its start.
LEMMA TestsInit == Init => IInv
<1> SUFFICES ASSUME Init PROVE IInv
  OBVIOUS
<1> USE TestAssumptions DEF Init, TestData, Threads
<1>1. Typed
  BY DEF Typed, Labels
<1>2. Leaving /\ Numbers
  BY DEF Leaving, Stopped, its_turn, Numbers, InOrder
<1>3. EndsLast
  BY DEF EndsLast, At
<1>4. TimeoutIsTruthful
  BY DEF TimeoutIsTruthful
<1> QED
  BY <1>1, <1>2, <1>3, <1>4 DEF IInv

\* Every step of every thread of the three tests preserves the invariant.
LEMMA TestsStep ==
    ASSUME IInv, [Next]_vars
    PROVE  IInv'
<1> USE TestAssumptions DEF IInv, Threads, Labels, At, Goto
<1>1. CASE HelperStops
  <2> USE <1>1 DEF HelperStops, use_safely
  <2>1. Typed'
    BY DEF Typed
  <2>2. Leaving' /\ Numbers' /\ EndsLast'
    BY DEF Leaving, Numbers, EndsLast
  <2>3. TimeoutIsTruthful'
    BY DEF Typed, TimeoutIsTruthful
  <2> QED
    BY <2>1, <2>2, <2>3
<1>2. CASE TimedWait
  <2>1. Leaving' /\ Numbers' /\ EndsLast'
    BY <1>2 DEF TimedWait, Leaving, Numbers, EndsLast
  <2>2. CASE Sleep(main, stop_waiting) /\ UNCHANGED <<pc, results>>
    BY <1>2, <2>1, <2>2 DEF TimedWait, Sleep, Typed, TimeoutIsTruthful
  <2>3. ASSUME NEW r \in BOOLEAN, results' = Append(results, r),
               data' = IF r THEN update_happened ELSE data
        PROVE  Typed' /\ TimeoutIsTruthful'
    <3>1. results' \in Seq(BOOLEAN)
      BY <2>3, NextResult DEF Typed
    <3>2. test = "wait_timeout" /\ test' = test
      BY <1>2 DEF TimedWait
    <3>3. data' \in [stop_waiting : BOOLEAN, update_happened : BOOLEAN]
      BY <2>3, <3>2 DEF Typed, update_happened
    <3>4. pc' \in [Threads -> Labels]
      BY <1>2 DEF TimedWait, Typed
    <3>5. data'.update_happened <=> data.update_happened \/ r
      BY <2>3, <3>2 DEF Typed, update_happened
    <3>6. (\E i \in DOMAIN results' : results'[i]) <=> (\E i \in DOMAIN results : results[i]) \/ r
      BY <2>3, NextResult DEF Typed
    <3>7. TimeoutIsTruthful'
      BY <3>2, <3>5, <3>6 DEF TimeoutIsTruthful
    <3> QED
      BY <3>1, <3>2, <3>3, <3>4, <3>7 DEF Typed
  <2> QED
    BY <1>2, <2>1, <2>2, <2>3 DEF TimedWait, wait_to_use_safely, wait_for_expires
<1>3. ASSUME NEW t \in Workers, WorkerCounts(t) PROVE IInv'
  <2>1. Leaving' /\ Numbers' /\ EndsLast' /\ TimeoutIsTruthful'
    BY <1>3 DEF WorkerCounts, Leaving, Numbers, EndsLast, TimeoutIsTruthful
  <2>2. CASE Sleep(t, write_away) /\ UNCHANGED pc
    BY <1>3, <2>1, <2>2 DEF WorkerCounts, Sleep, Typed
  <2>3. CASE wait_to_use_safely(t, write_away, one_counted) /\ Goto(t, "done")
    BY <1>3, <2>1, <2>3 DEF WorkerCounts, wait_to_use_safely, one_counted, Typed
  <2> QED
    BY <1>3, <2>2, <2>3 DEF WorkerCounts
<1>4. CASE MainReleases \/ NotifyAll
  <2>1. test = "notify_all" /\ test' = test /\ results' = results
    BY <1>4 DEF MainReleases, NotifyAll
  <2>2. Typed'
    BY <1>4 DEF MainReleases, NotifyAll, use_safely, Typed
  <2> QED
    BY <2>1, <2>2 DEF Leaving, Numbers, EndsLast, TimeoutIsTruthful
<1>5. ASSUME NEW t \in Threads, NotifyOne(t) PROVE IInv'
  <2>1. Typed'
    BY <1>5 DEF NotifyOne, Typed
  <2>2. Numbers' /\ TimeoutIsTruthful'
    BY <1>5 DEF NotifyOne, Numbers, TimeoutIsTruthful
  <2>3. ASSUME test = "interleaved" PROVE Leaving' /\ EndsLast'
    <3>1. /\ pc' = [pc EXCEPT ![t] = IF pc[t] = "notify" THEN "start"
                                     ELSE IF t = main THEN "join" ELSE "done"]
          /\ pc[t] \in {"notify", "notify_last"} /\ data' = data /\ test' = test
      BY <1>5, <2>3 DEF NotifyOne
    <3>2. \A u \in {main, helper} : Stopped(u)' <=> Stopped(u)
      BY <3>1 DEF Stopped, Typed
    <3>3. Leaving'
      BY <2>3, <3>1, <3>2 DEF Leaving, its_turn
    <3>4. EndsLast'
      BY <2>3, <3>1 DEF EndsLast, Typed
    <3> QED
      BY <3>3, <3>4
  <2>4. ASSUME test # "interleaved" PROVE Leaving' /\ EndsLast'
    BY <1>5, <2>4 DEF NotifyOne, Leaving, EndsLast
  <2> QED
    BY <2>1, <2>2, <2>3, <2>4
<1>6. CASE Join
  <2>1. Typed'
    BY <1>6 DEF Join, Typed
  <2>2. Numbers' /\ TimeoutIsTruthful'
    BY <1>6 DEF Join, Numbers, TimeoutIsTruthful
  <2>3. Leaving' /\ EndsLast'
    BY <1>6 DEF Join, Joined, Typed, Leaving, Stopped, its_turn, EndsLast
  <2> QED
    BY <2>1, <2>2, <2>3
<1>7. CASE Bystander \/ Wakeup \/ UNCHANGED vars
  <2>1. UNCHANGED <<data, test, pc, results>>
    BY <1>7 DEF Bystander, lock, Unlock, Wakeup, SpuriousWakeup, vars, atomicData
  <2> QED
    BY <2>1 DEF Typed, Leaving, Stopped, its_turn, Numbers, EndsLast,
                   TimeoutIsTruthful
<1>8. ASSUME NEW t \in Threads, WriteNumber(t) PROVE IInv'
  <2>1. TimeoutIsTruthful' /\ test = "interleaved" /\ test' = test
    BY <1>8 DEF WriteNumber, TimeoutIsTruthful
  <2>2. CASE Sleep(t, its_turn(t)) /\ UNCHANGED pc
    BY <1>8, <2>1, <2>2 DEF WriteNumber, Sleep, Typed, Leaving, Stopped, its_turn, Numbers,
                               EndsLast
  <2>3. ASSUME wait_to_use_safely(t, its_turn(t),
                                  emplace_back(IF t = helper THEN "odds" ELSE "even")),
               Goto(t, IF stop_loop(data') THEN "notify_last" ELSE "notify")
        PROVE  IInv'
    <3> DEFINE n == data.current_number
    <3>1. /\ data \in [current_number : Nat, all_data : Seq(Nat), odds : Seq(Nat),
                       even : Seq(Nat), writing_odds : BOOLEAN]
          /\ t \in {main, helper} /\ pc[t] = "start" /\ main # helper
          /\ data.writing_odds <=> t = helper
      BY <1>8, <2>3 DEF WriteNumber, Typed, wait_to_use_safely, its_turn
    <3>2. /\ data'.current_number = n + 1
          /\ data'.all_data = Append(data.all_data, n)
          /\ data'.writing_odds = ~data.writing_odds
          /\ t = helper => data'.odds = Append(data.odds, n) /\ data'.even = data.even
          /\ t # helper => data'.even = Append(data.even, n) /\ data'.odds = data.odds
      BY <2>3, <3>1 DEF wait_to_use_safely, emplace_back
    <3>3. Typed'
      <4>1. /\ Append(data.all_data, n) \in Seq(Nat) /\ Append(data.odds, n) \in Seq(Nat)
            /\ Append(data.even, n) \in Seq(Nat) /\ n + 1 \in Nat
        BY <3>1, AppendProperties
      <4>2. data' = emplace_back(IF t = helper THEN "odds" ELSE "even")
        BY <2>3 DEF wait_to_use_safely
      <4>3. data' \in [current_number : Nat, all_data : Seq(Nat), odds : Seq(Nat),
                       even : Seq(Nat), writing_odds : BOOLEAN]
        <5>1. CASE t = helper
          BY <3>1, <4>1, <4>2, <5>1 DEF emplace_back
        <5>2. CASE t # helper
          BY <3>1, <4>1, <4>2, <5>2 DEF emplace_back
        <5> QED
          BY <5>1, <5>2
      <4> QED
        BY <1>8, <2>1, <2>3, <4>3 DEF WriteNumber, Typed
    <3>4. n \in Nat /\ (data.writing_odds <=> n % 2 = 1)
      BY <2>1, <3>1 DEF Numbers
    <3>5. Leaving' /\ EndsLast'
      <4>1. /\ pc' = [pc EXCEPT ![t] = IF n + 1 >= max_number THEN "notify_last" ELSE "notify"]
        BY <2>3, <3>2 DEF stop_loop
      <4>2. n <= max_number
        BY <2>1, <3>1, <3>4 DEF Leaving, Stopped, its_turn
      <4>3. Stopped(t)' <=> n + 1 >= max_number
        BY <3>1, <3>4, <4>1 DEF Stopped, Typed
      <4>4. ASSUME NEW u \in {main, helper}, u # t
            PROVE  (Stopped(u)' <=> n = max_number) /\ its_turn(u)'
        <5>1. ~its_turn(u) /\ its_turn(u)'
          <6>1. u = helper <=> ~(t = helper)
            BY <3>1, <4>4
          <6> QED
            BY <3>1, <3>2, <6>1, Zenon DEF its_turn
        <5>2. Stopped(u)' <=> Stopped(u)
          BY <4>1, <4>4 DEF Stopped, Typed
        <5> QED
          BY <2>1, <3>4, <4>2, <5>1, <5>2 DEF Leaving
      <4>5. ~its_turn(t)'
        BY <3>1, <3>2 DEF its_turn
      <4>6. \A u \in {main, helper} :
              Stopped(u)' <=> n + 1 = max_number + 1 \/ (n + 1 = max_number /\ ~its_turn(u)')
        BY <3>4, <4>2, <4>3, <4>4, <4>5
      <4>7. Leaving'
        BY <2>1, <3>2, <3>4, <4>2, <4>6 DEF Leaving
      <4>8. EndsLast'
        BY <2>1, <3>1, <4>1 DEF EndsLast, Typed
      <4> QED
        BY <4>7, <4>8
    <3>6. Numbers'
      <4>1. InOrder(n, data.all_data, data.odds, data.even)
        BY <2>1 DEF Numbers
      <4>2. InOrder(n + 1, data'.all_data, data'.odds, data'.even)
        <5>1. /\ n \in Nat /\ data.all_data \in Seq(Nat) /\ data.odds \in Seq(Nat)
              /\ data.even \in Seq(Nat)
          BY <3>1
        <5>2. n % 2 = 1 <=> t = helper
          BY <3>1, <3>4, Zenon
        <5> HIDE DEF n
        <5>3. /\ t = helper => InOrder(n + 1, Append(data.all_data, n), Append(data.odds, n), data.even)
              /\ t # helper => InOrder(n + 1, Append(data.all_data, n), data.odds, Append(data.even, n))
          BY <4>1, <5>1, <5>2, NextInOrder
        <5> QED
          BY <3>2, <5>3
      <4>3. (n + 1) % 2 = 1 <=> ~(n % 2 = 1)
        BY <3>4
      <4>4. data'.writing_odds <=> (n + 1) % 2 = 1
        BY <3>1, <3>2, <3>4, <4>3, Zenon
      <4> QED
        BY <3>2, <4>2, <4>4 DEF Numbers
    <3> QED
      BY <2>1, <3>3, <3>5, <3>6
  <2> QED
    BY <1>8, <2>2, <2>3 DEF WriteNumber
<1> QED
  BY <1>1, <1>2, <1>3, <1>4, <1>5, <1>6, <1>7, <1>8 DEF Next, Step, Finished

\* The invariant holds throughout every test.
LEMMA TestsInvariant == Spec => []IInv
<1>1. Init => IInv
  BY TestsInit
<1>2. IInv /\ [Next]_vars => IInv'
  BY TestsStep
<1> QED
  BY <1>1, <1>2, PTL DEF Spec

(***************************************************************************)
(* However the two threads of the interleaved test are scheduled, woken    *)
(* for no reason or kept from the mutex, the numbers come in order, the    *)
(* odd ones from the helper and the even ones from main, and both write    *)
(* their last number before the test ends.                                 *)
(***************************************************************************)
THEOREM NumbersAreOrdered == Spec => []TakeTurns
<1>1. IInv => TakeTurns
  <2> SUFFICES ASSUME IInv, test = "interleaved" PROVE TakeTurns
    BY DEF TakeTurns
  <2> DEFINE n == data.current_number
  <2>1. /\ n \in Nat /\ data.all_data \in Seq(Nat) /\ data.even \in Seq(Nat)
        /\ data.odds \in Seq(Nat)
    BY DEF IInv, Typed
  <2>2. (data.writing_odds <=> n % 2 = 1) /\ InOrder(n, data.all_data, data.odds, data.even)
    BY DEF IInv, Numbers
  <2>3. /\ n <= max_number + 1
        /\ At(main, "done") => n = max_number + 1
    <3>1. ASSUME At(main, "done") PROVE n = max_number + 1
      <4>1. Stopped(main) /\ Stopped(helper)
        BY <3>1 DEF IInv, EndsLast, Stopped, At
      <4>2. ~(~its_turn(main) /\ ~its_turn(helper))
        BY TestAssumptions DEF its_turn
      <4> QED
        BY <4>1, <4>2 DEF IInv, Leaving
    <3> QED
      BY <3>1 DEF IInv, Leaving
  <2> HIDE DEF n
  <2>4. data.all_data = [i \in 1..n |-> i - 1]
    <3>1. n \in Nat /\ Len(data.all_data) = n /\ \A i \in 1..n : data.all_data[i] = i - 1
      BY <2>1, <2>2 DEF InOrder
    <3>2. data.all_data = [i \in 1..n |-> data.all_data[i]]
      BY <2>1, <3>1, ListIsFunction
    <3> QED
      BY <3>1, <3>2, Zenon
  <2>5. data.even = [i \in 1..((n + 1) \div 2) |-> 2 * (i - 1)]
    <3>1. ((n + 1) \div 2) \in Nat /\ Len(data.even) = ((n + 1) \div 2) /\ \A i \in 1..((n + 1) \div 2) : data.even[i] = 2 * (i - 1)
      BY <2>1, <2>2 DEF InOrder
    <3>2. data.even = [i \in 1..((n + 1) \div 2) |-> data.even[i]]
      BY <2>1, <3>1, ListIsFunction
    <3> QED
      BY <3>1, <3>2, Zenon
  <2>6. data.odds = [i \in 1..(n \div 2) |-> 2 * i - 1]
    <3>1. (n \div 2) \in Nat /\ Len(data.odds) = (n \div 2) /\ \A i \in 1..(n \div 2) : data.odds[i] = 2 * i - 1
      BY <2>1, <2>2 DEF InOrder
    <3>2. data.odds = [i \in 1..(n \div 2) |-> data.odds[i]]
      BY <2>1, <3>1, ListIsFunction
    <3> QED
      BY <3>1, <3>2, Zenon
  <2> QED
    BY <2>2, <2>3, <2>4, <2>5, <2>6 DEF TakeTurns, n
<1> QED
  BY <1>1, TestsInvariant, PTL

\* A call of wait_for that expires as it is notified still returns whether it has
\* applied its function.
THEOREM ReturnValueIsTruthful == Spec => []TimeoutIsTruthful
  BY TestsInvariant, PTL DEF IInv
=============================================================================
