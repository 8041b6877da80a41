---------------------------- MODULE AtomicData ----------------------------
(***************************************************************************)
(* ltb::util::AtomicData: data guarded by a mutex, with a condition        *)
(* variable to wait for a predicate on it.  A section under the mutex is   *)
(* one step; only lock() keeps the mutex from one step to the next.        *)
(***************************************************************************)
CONSTANT None

VARIABLES
    data,       \* data_
    waiting,    \* threads asleep on condition_
    holder      \* who holds lock_ through a ScopedLock, or None

atomicData == <<data, waiting, holder>>

mutex_free == holder = None

(***************************************************************************)
(* Below, predicate is the value of the caller's predicate on data, and    *)
(* func the data as the caller's function leaves it.                       *)
(***************************************************************************)
use_safely(func) ==
    /\ mutex_free
    /\ data' = func
    /\ UNCHANGED <<waiting, holder>>

\* The predicate holds when thread t looks at it: func is applied under the
\* same lock.
Mutant_ApplyUnchecked(t, predicate, func) ==
    /\ t \notin waiting /\ mutex_free
    /\ data' = func
    /\ UNCHANGED <<waiting, holder>>
wait_to_use_safely(t, predicate, func) ==
    /\ t \notin waiting /\ mutex_free /\ predicate
    /\ data' = func
    /\ UNCHANGED <<waiting, holder>>

\* It does not: t sleeps until it is notified (or wakes for no reason) and
\* looks again.
Sleep(t, predicate) ==
    /\ t \notin waiting /\ mutex_free /\ ~predicate
    /\ waiting' = waiting \cup {t}
    /\ UNCHANGED <<data, holder>>

\* wait_for's time is up: it looks a last time, and the answer is the return
\* value.
Mutant_ExpireBlindly(t, predicate, func, result) ==
    /\ mutex_free
    /\ waiting' = waiting \ {t}
    /\ result = FALSE /\ data' = func
    /\ UNCHANGED holder
wait_for_expires(t, predicate, func, result) ==
    /\ mutex_free
    /\ waiting' = waiting \ {t}
    /\ result = predicate
    /\ data' = IF result THEN func ELSE data
    /\ UNCHANGED holder

SpuriousWakeup(t) ==
    /\ t \in waiting
    /\ waiting' = waiting \ {t}
    /\ UNCHANGED <<data, holder>>

\* The threads left asleep by the two notifications.
notify_one(left) ==
    \/ waiting = {} /\ left = waiting
    \/ \E t \in waiting : left = waiting \ {t}

Mutant_NotifyAllAsOne(left) == notify_one(left)
notify_all(left) == left = {}

lock(t) ==
    /\ mutex_free
    /\ holder' = t
    /\ UNCHANGED <<data, waiting>>

Unlock(t) ==
    /\ holder = t
    /\ holder' = None
    /\ UNCHANGED <<data, waiting>>
=============================================================================
