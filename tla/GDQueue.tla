------------------------------- MODULE GDQueue -------------------------------
(***************************************************************************)
(* What guaranteed delivery promises a subscriber: a message that was      *)
(* enqueued stays in the queue until the subscriber has been given it, may *)
(* be given it more than once, and is done with once and for all only      *)
(* after that.                                                             *)
(***************************************************************************)
CONSTANT GD          \* the messages

VARIABLES status,    \* "absent", "initialized" (queued) or "delivered"
          given      \* messages the subscriber has been given at least once

vars == <<status, given>>

Init ==
    /\ status = [m \in GD |-> "absent"]
    /\ given = {}

Enqueue(S) ==
    /\ \A m \in S : status[m] = "absent"
    /\ status' = [m \in GD |-> IF m \in S THEN "initialized" ELSE status[m]]
    /\ UNCHANGED given

Give(m) ==
    /\ status[m] # "absent"
    /\ given' = given \cup {m}
    /\ UNCHANGED status

Finish(m) ==
    /\ m \in given
    /\ status[m] = "initialized"
    /\ status' = [status EXCEPT ![m] = "delivered"]
    /\ UNCHANGED given

Next ==
    \/ \E S \in SUBSET GD : Enqueue(S)
    \/ \E m \in GD : Give(m) \/ Finish(m)

Spec == Init /\ [][Next]_vars
=============================================================================
