---------------------------- MODULE InRAMBacklog ----------------------------
(***************************************************************************)
(* The InRAMBacklog of one server process, for one topic: non-GD messages  *)
(* that could not be handed over to a delivery task wait here until their  *)
(* subscriber retrieves them.                                              *)
(*                                                                         *)
(* Every operation runs under self.lock.  Those that loop take one step    *)
(* per turn, so that an exception leaves what the turns before it did.     *)
(* Lists of message IDs are sets: their order is never looked at, and IDs  *)
(* are unique, so what remains of a list is what it contains.              *)
(***************************************************************************)
EXTENDS Naturals, FiniteSets, Functions

CONSTANTS
    SubKeys,       \* subscribers of the topic
    Msgs,          \* non-GD messages
    Batches,       \* the sets of non-GD messages of one publication
    NoKey,         \* "no sub_key"
    MaxDepth,      \* the topic's max_depth_non_gd
    Expiring,      \* messages whose expiration time may come
    Unsubscribing  \* sub_keys that may be unsubscribed

ASSUME BacklogAssumption ==
    /\ IsFiniteSet(Msgs)
    /\ Batches \subseteq SUBSET Msgs
    /\ NoKey \notin SubKeys
    /\ MaxDepth \in Nat
    /\ Expiring \subseteq Msgs
    /\ Unsubscribing \subseteq SubKeys

VARIABLES
    refs,        \* topic_sub_key_to_msg_id[topic_id]
    data,        \* the keys of topic_msg_id_to_msg[topic_id]
    expiration,  \* msg_id_to_expiration: message -> sub_keys it is stored for
    due,         \* messages whose expiration time has come
    used,        \* messages published so far
    pending,     \* notifications on their way: [subs, msgs]
    op,          \* who holds self.lock
    todo,        \* (sub_key, message) pairs still to be deleted
    at,          \* the sub_key whose messages are being deleted
    stale        \* expired messages still to be processed

store == <<refs, data, expiration>>
env   == <<due, used, pending>>
loop  == <<op, todo, at, stale>>
vars  == <<store, env, loop>>

Ops == {"idle", "retrieve", "unsubscribe", "cleanup"}

TypeOK ==
    /\ DOMAIN refs \subseteq SubKeys
    /\ refs \in [DOMAIN refs -> SUBSET Msgs]
    /\ data \subseteq Msgs
    /\ DOMAIN expiration \subseteq Msgs
    /\ expiration \in [DOMAIN expiration -> SUBSET SubKeys]
    /\ due \subseteq Expiring
    /\ used \subseteq Msgs
    /\ pending \subseteq [subs : SUBSET SubKeys, msgs : Batches]
    /\ op \in Ops
    /\ todo \subseteq SubKeys \X Msgs
    /\ at \in SubKeys \cup {NoKey}
    /\ stale \subseteq Msgs

Init ==
    /\ refs = [k \in {} |-> {}]
    /\ data = {}
    /\ expiration = [m \in {} |-> {}]
    /\ due = {}
    /\ used = {}
    /\ pending = {}
    /\ op = "idle"
    /\ todo = {}
    /\ at = NoKey
    /\ stale = {}

\* topic_sub_key_dict.get(sub_key, [])
MsgIDs(k) == IF k \in DOMAIN refs THEN refs[k] ELSE {}

-----------------------------------------------------------------------------
(* Storing messages.                                                       *)

\* Mutant: the messages that are to be added are not counted.
AnyRoom(k, M) == Cardinality(MsgIDs(k)) <= MaxDepth

\* A queue with room for a whole batch of messages.
HasRoom(Q, M) == Cardinality(Q) + Cardinality(M) <= MaxDepth

\* The sub_key's list may take all of the messages.
MayContinue(k, M) == HasRoom(MsgIDs(k), M)

\* Mutants: the dictionary is keyed by message instead of by sub_key; messages
\* are kept even if there is no room for them in any list.
AddByMessage(K, M) ==
    /\ refs' = [x \in DOMAIN refs \cup M |-> IF x \in M THEN K ELSE refs[x]]
    /\ data' = data \cup M
    /\ UNCHANGED expiration
AddOverflown(K, M) ==
    LET may_continue == {k \in K : MayContinue(k, M)}
    IN  /\ refs' = [k \in DOMAIN refs \cup K |->
                        MsgIDs(k) \cup (IF k \in may_continue THEN M ELSE {})]
        /\ data' = data \cup M
        /\ expiration' = [m \in DOMAIN expiration \cup M |->
                            IF m \in M THEN may_continue ELSE expiration[m]]

\* add_messages.  Sub_keys without enough room get an entry all the same.
AddMessages(K, M) ==
    LET may_continue == {k \in K : MayContinue(k, M)}
        new == IF may_continue = {} THEN {} ELSE M
    IN  /\ refs' = [k \in DOMAIN refs \cup K |->
                        MsgIDs(k) \cup (IF k \in may_continue THEN M ELSE {})]
        /\ data' = data \cup new
        /\ expiration' = [m \in DOMAIN expiration \cup new |->
                            IF m \in new THEN may_continue ELSE expiration[m]]

\* AfterPublish: the messages are stored for the sub_keys that no server is
\* known for, before the servers of the others are notified.
AfterPublish(M, not_found, found) ==
    /\ M \cap used = {}
    /\ not_found \cap found = {}
    /\ \/ not_found = {} /\ UNCHANGED store
       \/ not_found # {} /\ op = "idle" /\ AddMessages(not_found, M)
    /\ used' = used \cup M
    /\ pending' = pending \cup (IF found = {} THEN {}
                                ELSE {[subs |-> found, msgs |-> M]})
    /\ UNCHANGED <<due, loop>>

\* The servers have been notified, those of the sub_keys in failed in vain.
NotifyPubSub(p, failed) ==
    /\ \/ failed = {} /\ UNCHANGED store
       \/ failed # {} /\ op = "idle" /\ AddMessages(failed, p.msgs)
    /\ pending' = pending \ {p}
    /\ UNCHANGED <<due, used, loop>>

\* The expiration_time of a message comes.
Expire(m) ==
    /\ m \in used \ due
    /\ due' = due \cup {m}
    /\ UNCHANGED <<store, used, pending, loop>>

-----------------------------------------------------------------------------
(* Retrieving and deleting messages.                                       *)

References(K) == {p \in SubKeys \X Msgs : p[1] \in K /\ p[2] \in MsgIDs(p[1])}

\* retrieve_messages_by_sub_keys, first loop.  With a reference to a message
\* that is gone it raises KeyError, and nothing happens.
RetrieveMessages(K) ==
    /\ op = "idle"
    /\ References(K) # {}
    /\ \A p \in References(K) : p[2] \in data
    /\ todo' = References(K)
    /\ op' = "retrieve"
    /\ UNCHANGED <<store, env, at, stale>>

\* unsubscribe, first loop.
Unsubscribe(K) ==
    /\ op = "idle"
    /\ References(K) # {}
    /\ todo' = References(K)
    /\ op' = "unsubscribe"
    /\ UNCHANGED <<store, env, at, stale>>

\* Messages are deleted one sub_key after another.
IsNext(k) == (\E p \in todo : p[1] = at) => k = at

\* Mutant: other subscribers' references do not keep a message.
NeverReferenced(r, m) == FALSE

Referenced(r, m) == \E k \in DOMAIN r : m \in r[k]

\* Mutant: the sub_key is kept with the messages it has left.
RefsWithout(k, m) == [refs EXCEPT ![k] = @ \ {m}]

\* The references after the deletion of one: the sub_key goes with its last
\* message, and with the first one if it is being unsubscribed.
RefsAfterDelete(k, m) ==
    IF op = "unsubscribe" \/ refs[k] = {m}
    THEN Restrict(refs, DOMAIN refs \ {k})
    ELSE [refs EXCEPT ![k] = @ \ {m}]

\* One turn of the second loop.  Deleting a message that is gone raises
\* KeyError, when the reference is already deleted.
DeleteReference(k, m) ==
    LET unused == ~Referenced(RefsAfterDelete(k, m), m)
        left == IF unused /\ m \notin data THEN {} ELSE todo \ {<<k, m>>}
    IN  /\ op \in {"retrieve", "unsubscribe"}
        /\ <<k, m>> \in todo
        /\ IsNext(k)
        /\ k \in DOMAIN refs
        /\ refs' = RefsAfterDelete(k, m)
        /\ data' = IF unused THEN data \ {m} ELSE data
        /\ expiration' = IF unused /\ m \in data
                         THEN Restrict(expiration, DOMAIN expiration \ {m})
                         ELSE expiration
        /\ todo' = left
        /\ op' = IF left = {} THEN "idle" ELSE op
        /\ at' = IF left = {} THEN NoKey ELSE k
        /\ UNCHANGED <<env, stale>>

\* The turn raises KeyError because an earlier one deleted the sub_key.
DeleteFailed(k, m) ==
    /\ op \in {"retrieve", "unsubscribe"}
    /\ <<k, m>> \in todo
    /\ IsNext(k)
    /\ k \notin DOMAIN refs
    /\ todo' = {}
    /\ op' = "idle"
    /\ at' = NoKey
    /\ UNCHANGED <<store, env, stale>>

-----------------------------------------------------------------------------
(* The cleanup task.                                                       *)

ExpiredMessages == DOMAIN expiration \cap due

\* run_cleanup_task, first loop.
StartCleanup ==
    /\ op = "idle"
    /\ ExpiredMessages # {}
    /\ stale' = ExpiredMessages
    /\ op' = "cleanup"
    /\ UNCHANGED <<store, env, todo, at>>

\* One turn of the second loop.  msg_ids_for_sub_key is a list, of which pop
\* takes an index, or an empty dict: popping the message by its ID raises
\* whichever it is, unless the topic has no sub_keys at all.
CleanupMessage(m) ==
    LET raises == DOMAIN refs # {} /\ expiration[m] # {}
        left == IF raises THEN {} ELSE stale \ {m}
    IN  /\ op = "cleanup"
        /\ m \in stale
        /\ expiration' = Restrict(expiration, DOMAIN expiration \ {m})
        /\ data' = data \ {m}
        /\ stale' = left
        /\ op' = IF left = {} THEN "idle" ELSE op
        /\ UNCHANGED <<refs, env, todo, at>>

-----------------------------------------------------------------------------
Next ==
    \/ \E M \in Batches, not_found, found \in SUBSET SubKeys :
        AfterPublish(M, not_found, found)
    \/ \E p \in pending : \E failed \in SUBSET p.subs : NotifyPubSub(p, failed)
    \/ \E m \in Expiring : Expire(m)
    \/ \E K \in SUBSET SubKeys : RetrieveMessages(K)
    \/ \E K \in SUBSET Unsubscribing : Unsubscribe(K)
    \/ \E p \in todo : DeleteReference(p[1], p[2]) \/ DeleteFailed(p[1], p[2])
    \/ StartCleanup
    \/ \E m \in stale : CleanupMessage(m)

Spec == Init /\ [][Next]_vars

-----------------------------------------------------------------------------
(* Properties.                                                             *)

\* A message that a sub_key waits for is still stored unless it has expired,
\* whoever else has retrieved it, unsubscribed or failed meanwhile: only the
\* last reference takes the message with it (pubsub/__init__.py:253-265).  An
\* expired one may be gone before its references are, which is when a retrieval
\* of all that its sub_key waits for raises KeyError.
UnexpiredKept == \A k \in DOMAIN refs : refs[k] \ due \subseteq data

\* No backlog queue of a sub_key is "longer than topic's max_depth_non_gd"
\* (pubsub/__init__.py:883), however the messages came to be stored.
DepthBounded == \A k \in DOMAIN refs : Cardinality(refs[k]) <= MaxDepth

\* What waits for a sub_key: nothing that is being retrieved.
Waiting(k) == {m \in MsgIDs(k) : op # "retrieve" \/ <<k, m>> \notin todo}

\* The three dictionaries are what their subscribers take for one queue each:
\* a retrieval returns, and deletes, all of it or fails and deletes nothing.
Queues == INSTANCE SubKeyQueues WITH queue <- [k \in SubKeys |-> Waiting(k)]

ImplementsQueues == Queues!Spec

\* What waits for a sub_key was published, and a notification on its way is not
\* about anything that its sub_keys have already been given to keep.
PendingApart ==
    /\ \A k \in DOMAIN refs : refs[k] \subseteq used
    /\ \A p \in pending :
        /\ p.msgs \subseteq used
        /\ \A k \in p.subs : MsgIDs(k) \cap p.msgs = {}
        /\ \A q \in pending : p # q => p.msgs \cap q.msgs = {}

\* A loop in progress: whoever retrieves deletes references that exist, to
\* messages that exist, and the cleanup deletes expired messages.
LoopInv ==
    /\ op \in {"idle", "cleanup"} => todo = {}
    /\ op = "retrieve" => \A p \in todo : p[2] \in MsgIDs(p[1]) \cap data
    /\ stale \subseteq due \cap DOMAIN expiration
    /\ op # "cleanup" => stale = {}

\* The inductive invariant behind UnexpiredKept, DepthBounded and
\* ImplementsQueues.
Inv ==
    /\ TypeOK
    /\ data = DOMAIN expiration
    /\ UnexpiredKept
    /\ DepthBounded
    /\ PendingApart
    /\ LoopInv

\* Messages that nobody waits for.
Orphans == {m \in data : ~Referenced(refs, m)}

\* Nothing but an unsubscription ever leaves a message behind that nobody waits
\* for: the backlog "keeps only a single copy of message for each sub_key", and
\* none without a sub_key (pubsub/__init__.py:202, 253-254, 370-371).
NothingLeaks == [][op # "unsubscribe" => Orphans' \subseteq Orphans]_vars
=============================================================================
