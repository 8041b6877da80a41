-------------------------- MODULE AtomicDataTests --------------------------
(***************************************************************************)
(* AtomicData as its three test cases use it, under every schedule: a wait *)
(* with a timeout, threads released by notify_all, and two threads that    *)
(* take turns with notify_one.  A bystander may also hold lock() for a     *)
(* while.  Time is not modelled: a wait_for may expire at any moment.      *)
(***************************************************************************)
EXTENDS AtomicData, Integers, Sequences

CONSTANTS
    main, helper,   \* the test's own thread, and the one it starts
    bystander,      \* a thread that uses lock()
    Workers,        \* the threads of the notify_all test
    max_number

ASSUME TestAssumptions ==
    /\ main \notin Workers /\ helper \in Workers /\ bystander \notin Workers
    /\ max_number \in Nat \ {0}

VARIABLES
    test,       \* the test case that runs
    pc,         \* per thread: where it is
    results     \* what the two calls of wait_for returned

vars == <<atomicData, test, pc, results>>

Threads == {main} \cup Workers
At(t, l) == pc[t] = l
Goto(t, l) == pc' = [pc EXCEPT ![t] = l]

----------------------------------------------------------------------------
(* atomic_data_wait_timeout                                                *)

stop_waiting    == data.stop_waiting
update_happened == [data EXCEPT !.update_happened = TRUE]

HelperStops ==
    /\ test = "wait_timeout" /\ At(helper, "start") /\ Goto(helper, "notify")
    /\ use_safely([data EXCEPT !.stop_waiting = TRUE])
    /\ UNCHANGED <<test, results>>

\* Both calls of wait_for by the main thread, the first and the second.
TimedWait ==
    /\ test = "wait_timeout" /\ pc[main] \in {"start", "second"}
    /\ \/ /\ Sleep(main, stop_waiting)
          /\ UNCHANGED <<pc, results>>
       \/ /\ wait_to_use_safely(main, stop_waiting, update_happened)
          /\ results' = Append(results, TRUE)
          /\ Goto(main, IF At(main, "start") THEN "second" ELSE "join")
       \/ /\ \E r \in BOOLEAN : /\ wait_for_expires(main, stop_waiting, update_happened, r)
                                /\ results' = Append(results, r)
          /\ Goto(main, IF At(main, "start") THEN "second" ELSE "join")
    /\ UNCHANGED test

----------------------------------------------------------------------------
(* atomic_data_notify_all                                                  *)

write_away  == data.write_away
one_counted == [data EXCEPT !.num_threads = @ + 1]

WorkerCounts(t) ==
    /\ test = "notify_all" /\ At(t, "start")
    /\ \/ Sleep(t, write_away) /\ UNCHANGED pc
       \/ /\ wait_to_use_safely(t, write_away, one_counted)
          /\ Goto(t, "done")
    /\ UNCHANGED <<test, results>>

MainReleases ==
    /\ test = "notify_all" /\ At(main, "start") /\ Goto(main, "notify")
    /\ use_safely([data EXCEPT !.write_away = TRUE])
    /\ UNCHANGED <<test, results>>

NotifyAll ==
    /\ test = "notify_all" /\ At(main, "notify") /\ Goto(main, "join")
    /\ notify_all(waiting')
    /\ UNCHANGED <<data, holder, test, results>>

----------------------------------------------------------------------------
(* interleaved_atomic_data: the helper writes odd numbers, main even ones. *)

its_turn(t) == data.writing_odds <=> t = helper

\* all_data and the list of the thread get current_number++, and it is the
\* other one's turn.
emplace_back(list) ==
    [data EXCEPT !.all_data = Append(@, data.current_number),
                 ![list] = Append(@, data.current_number),
                 !.current_number = @ + 1,
                 !.writing_odds = ~@]

stop_loop(d) == d.current_number >= max_number

WriteNumber(t) ==
    /\ test = "interleaved" /\ t \in {main, helper} /\ At(t, "start")
    /\ \/ Sleep(t, its_turn(t)) /\ UNCHANGED pc
       \/ /\ wait_to_use_safely(t, its_turn(t), emplace_back(IF t = helper THEN "odds" ELSE "even"))
          /\ Goto(t, IF stop_loop(data') THEN "notify_last" ELSE "notify")
    /\ UNCHANGED <<test, results>>

\* The end of a round of the loops, and of the helper of the first test.
NotifyOne(t) ==
    /\ test # "notify_all" /\ pc[t] \in {"notify", "notify_last"}
    /\ notify_one(waiting')
    /\ Goto(t, IF At(t, "notify") /\ test = "interleaved" THEN "start"
               ELSE IF t = main THEN "join" ELSE "done")
    /\ UNCHANGED <<data, holder, test, results>>

----------------------------------------------------------------------------
Joined == IF test = "notify_all" THEN Workers ELSE {helper}

Join ==
    /\ At(main, "join") /\ \A t \in Joined : At(t, "done")
    /\ Goto(main, "done")
    /\ UNCHANGED <<data, waiting, holder, test, results>>

Bystander ==
    /\ \/ ~At(main, "done") /\ lock(bystander)
       \/ Unlock(bystander)
    /\ UNCHANGED <<test, pc, results>>

Wakeup == /\ \E t \in Threads : SpuriousWakeup(t)
          /\ UNCHANGED <<test, pc, results>>

Finished == At(main, "done") /\ holder = None /\ UNCHANGED vars

TestData(tc) ==
    CASE tc = "wait_timeout" -> [stop_waiting |-> FALSE, update_happened |-> FALSE]
      [] tc = "notify_all"   -> [write_away |-> FALSE, num_threads |-> 0]
      [] tc = "interleaved"  -> [current_number |-> 0, all_data |-> <<>>, odds |-> <<>>,
                                 even |-> <<>>, writing_odds |-> FALSE]

Init ==
    /\ test \in {"wait_timeout", "notify_all", "interleaved"}
    /\ data = TestData(test)
    /\ waiting = {} /\ holder = None /\ results = <<>>
    /\ pc = [t \in Threads |-> "start"]

Step(t) == \/ t = helper /\ HelperStops
           \/ t = main /\ (TimedWait \/ MainReleases \/ NotifyAll \/ Join)
           \/ t \in Workers /\ WorkerCounts(t)
           \/ WriteNumber(t) \/ NotifyOne(t)

Next == (\E t \in Threads : Step(t)) \/ Bystander \/ Wakeup \/ Finished

\* Threads run; the mutex is handed to a thread that asks for it again and
\* again, however often the bystander takes it.
Spec == /\ Init /\ [][Next]_vars
        /\ \A t \in Threads : SF_vars(Step(t))
        /\ WF_vars(Unlock(bystander) /\ Bystander)

----------------------------------------------------------------------------
(* Properties.                                                             *)

\* "shared_data should be correctly ordered despite being modified by separate
\* threads" (lines 150-157), at every moment and not only at the end.
TakeTurns ==
    test = "interleaved" =>
        LET d == data
            n == d.current_number
        IN  /\ d.all_data = [i \in 1..n |-> i - 1]
            /\ d.even = [i \in 1..((n + 1) \div 2) |-> 2 * (i - 1)]
            /\ d.odds = [i \in 1..(n \div 2) |-> 2 * i - 1]
            /\ d.writing_odds <=> n % 2 = 1
            /\ n <= max_number + 1
            /\ At(main, "done") => n = max_number + 1

\* Lines 53-70: a wait that timed out has not applied its function, one that
\* returned true has.
TimeoutIsTruthful ==
    test = "wait_timeout" =>
        (data.update_happened <=> \E i \in DOMAIN results : results[i])

\* No wakeup is lost: every test joins its threads and ends.
TestsEnd == <>At(main, "done")
=============================================================================
