---------------------------- MODULE SubKeyQueues ----------------------------
(***************************************************************************)
(* What the backlog of a topic is to its subscribers: a bounded queue per  *)
(* sub_key.  A batch goes to a queue as a whole or, if there is no room    *)
(* for it, not at all; no message is in a queue twice; who retrieves gets  *)
(* all that waits for him and nothing waits for him afterwards.            *)
(***************************************************************************)
CONSTANTS SubKeys, Msgs,
          HasRoom(_, _)  \* may a queue take a batch?

VARIABLE queue  \* what waits for each sub_key

Init == queue = [k \in SubKeys |-> {}]

Store(K, M) ==
    /\ \A k \in K : queue[k] \cap M = {}
    /\ queue' = [k \in SubKeys |-> IF k \in K /\ HasRoom(queue[k], M)
                                   THEN queue[k] \cup M
                                   ELSE queue[k]]

Retrieve(K) ==
    queue' = [k \in SubKeys |-> IF k \in K THEN {} ELSE queue[k]]

Drop(k) == queue' = [queue EXCEPT ![k] = {}]

Next ==
    \/ \E K \in SUBSET SubKeys, M \in SUBSET Msgs : Store(K, M)
    \/ \E K \in SUBSET SubKeys : Retrieve(K)
    \/ \E k \in SubKeys : Drop(k)

Spec == Init /\ [][Next]_queue
=============================================================================
