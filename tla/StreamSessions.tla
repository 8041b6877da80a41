--------------------------- MODULE StreamSessions ---------------------------
(***************************************************************************)
(* What a streaming rpc promises its user, without addresses, tags and     *)
(* threads: every client has one session, which is opened once, closed     *)
(* once and never reopened; one operation at a time goes to open sessions, *)
(* and none of them is closed under it.                                    *)
(***************************************************************************)
CONSTANTS
    Calls,
    Ordered,    \* TRUE: only sessions whose client has left are closed
    Disciplined \* TRUE: nobody uses the rpc any more when it ends

VARIABLES
    session,    \* the session of each client
    presence,   \* the client is "away", "here" or "left"
    busy        \* the clients whose operation is in flight

sessions == <<session, presence, busy>>

Open == {c \in Calls : session[c] = "open"}

\* The next client is waited for; the one that was waited for has come, and its
\* session is opened.
Await(c) ==
    /\ session[c] = "none"
    /\ \A d \in Calls : session[d] = "pending" => presence[d] # "away"
    /\ session' = [d \in Calls |-> IF d = c THEN "pending"
                                   ELSE IF session[d] = "pending" THEN "open" ELSE session[d]]
    /\ UNCHANGED <<presence, busy>>

Arrive(c) ==
    /\ session[c] = "pending" /\ presence[c] = "away"
    /\ presence' = [presence EXCEPT ![c] = "here"]
    /\ UNCHANGED <<session, busy>>

Leave(c) ==
    /\ presence[c] = "here"
    /\ presence' = [presence EXCEPT ![c] = "left"]
    /\ UNCHANGED <<session, busy>>

\* An operation on the sessions of `to'; the last one sends the client away.
Operate(to) ==
    /\ busy = {} /\ to \subseteq Open
    /\ busy' = to
    /\ \/ UNCHANGED presence
       \/ presence' = [c \in Calls |-> IF c \in to /\ presence[c] = "here" THEN "left" ELSE presence[c]]
    /\ UNCHANGED session

Complete(c) ==
    /\ c \in busy /\ busy' = busy \ {c}
    /\ UNCHANGED <<session, presence>>

\* It failed, since the client has left.
Fail(c) ==
    /\ c \in busy /\ busy' = busy \ {c}
    /\ presence[c] = "left"
    /\ session' = [session EXCEPT ![c] = "closed"]
    /\ UNCHANGED presence

Close(c) ==
    /\ c \in Open \ busy
    /\ Ordered => presence[c] = "left"
    /\ session' = [session EXCEPT ![c] = "closed"]
    /\ UNCHANGED <<presence, busy>>

\* The rpc ends: nothing is in flight, and nobody is served any more.
End ==
    /\ Disciplined => busy = {} /\ \A c \in Open : presence[c] = "left"
    /\ session' = [c \in Calls |-> IF session[c] = "none" THEN "none" ELSE "closed"]
    /\ busy' = {}
    /\ UNCHANGED presence

Init ==
    /\ session = [c \in Calls |-> "none"] /\ presence = [c \in Calls |-> "away"]
    /\ busy = {}

Next ==
    \/ \E c \in Calls : Await(c) \/ Arrive(c) \/ Leave(c) \/ Complete(c) \/ Fail(c) \/ Close(c)
    \/ \E to \in SUBSET Calls : Operate(to)
    \/ End

Spec == Init /\ [][Next]_sessions
=============================================================================
