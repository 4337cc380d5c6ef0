------------------------------ MODULE SQLQueue ------------------------------
(***************************************************************************)
(* GD messages of one topic in SQL: publication under the topic's lock,    *)
(* subscription and its announcement to worker processes, retrieval and    *)
(* acknowledgement by clients that pull, expiration and cleanup.           *)
(*                                                                         *)
(* A transaction is one step, and fails as a whole.  Two constraints of    *)
(* the schema decide what can succeed: pubsub_endp_msg_queue has a unique  *)
(* index on the message, so that a message is in one queue at most, and    *)
(* its delivery_status may not be NULL, so that the messages of a topic    *)
(* cannot be moved to the queue of a new subscriber.                       *)
(***************************************************************************)
EXTENDS Naturals, Sequences, FiniteSets, SequencesExt, Lists

CONSTANTS
    Procs,       \* worker processes
    Subs,        \* subscriptions
    Msgs,        \* GD messages
    Batches,     \* the sets of messages published at once
    Nobody,      \* no process, no batch
    MaxDepth,    \* the topic's max_depth_gd
    CheckFreq,   \* the topic's gd_depth_check_freq
    BatchSize,   \* how many messages a client asks for
    Expiring,    \* messages whose expiration time may come
    Parked,      \* subscriptions that may have several messages in a backlog
    MaxOvertaken \* bound: subscriptions whose messages overtake each other

ASSUME QueueAssumption ==
    /\ IsFiniteSet(Msgs) /\ IsFiniteSet(Subs)
    /\ Batches \subseteq SUBSET Msgs
    /\ Nobody \notin Procs
    /\ MaxDepth \in Nat
    /\ CheckFreq \in Nat \ {0}
    /\ BatchSize \in Nat \ {0}
    /\ Expiring \subseteq Msgs
    /\ Parked \subseteq Subs
    /\ MaxOvertaken \in Nat

VARIABLES
    topic,    \* pubsub_message
    depth,    \* pubsub_topic.current_depth_gd
    queue,    \* pubsub_endp_msg_queue: message -> subscription and status
    subs,     \* pubsub_sub
    joining,  \* subscriptions whose transaction is under way
    past,     \* subscriptions deleted
    due,      \* messages whose expiration time has come
    listed,   \* process -> subscriptions_by_topic, a list
    made,     \* processes in which that list exists
    inbox,    \* process -> broker messages, in the order it will handle them
    checks,   \* process -> gd_depth_check_iter, modulo its frequency
    pub,      \* process -> the publication it is at
    lock,     \* who holds zato.pubsub.publish.<topic>
    held,     \* messages a client has and will acknowledge
    owed,     \* history: <<subscription, message>> ever enqueued
    handed,   \* history: message -> how many times clients were given it
    late,     \* history: messages that were due at some time
    cleared,  \* history: messages that were in a queue that was cleared
    joint,    \* history: subscriptions that were deleted together with others
    failed,   \* history: what failed, and if it was asked for what exists
    raised,   \* history: subscriptions whose unsubscribe raised in some process
    overtaken \* history: subscriptions one of whose messages overtook another

sql     == <<topic, depth, queue, subs, joining, past, due>>
ram     == <<listed, made, inbox, checks, pub, lock>>
missed  == <<raised, overtaken>>
history == <<owed, handed, late, cleared, joint, failed, missed>>
vars    == <<sql, ram, held, history>>

Status == {"initialized", "waiting", "delivered"}

\* What a process is at between the steps of Publish.handle.
None == [msgs |-> {}, live |-> FALSE, stage |-> "idle"]

TypeOK ==
    /\ topic \subseteq Msgs
    /\ depth \in Nat
    /\ DOMAIN queue \subseteq topic
    /\ queue \in [DOMAIN queue -> [sub : subs, status : Status]]
    /\ subs \cap past = {}
    /\ joining \subseteq Subs \ (subs \cup past)
    /\ due \subseteq Expiring
    /\ \A p \in Procs : Range(listed[p]) \subseteq Subs
    /\ made \subseteq Procs
    /\ checks \in [Procs -> 0..(CheckFreq - 1)]
    /\ pub \in [Procs -> [msgs : Batches \cup {{}}, live : BOOLEAN,
                          stage : {"idle", "wait", "locked"}]]
    /\ lock \in Procs \cup {Nobody}
    /\ \A p \in Procs : pub[p].stage = "locked" <=> lock = p
    /\ held \subseteq Msgs
    /\ handed \in [Msgs -> 0..2]
    /\ raised \cup overtaken \subseteq Subs

Init ==
    /\ topic = {} /\ depth = 0 /\ queue = [m \in {} |-> {}]
    /\ subs = {} /\ joining = {} /\ past = {} /\ due = {}
    /\ listed = [p \in Procs |-> <<>>]
    /\ made = {}
    /\ inbox = [p \in Procs |-> <<>>]
    /\ checks = [p \in Procs |-> 0]
    /\ pub = [p \in Procs |-> None]
    /\ lock = Nobody
    /\ held = {}
    /\ owed = {} /\ handed = [m \in Msgs |-> 0] /\ late = {}
    /\ cleared = {} /\ joint = {} /\ failed = {}
    /\ raised = {} /\ overtaken = {}

Announce(type, S) ==
    inbox' = [p \in Procs |-> Append(inbox[p], [type |-> type, subs |-> S])]

\* What is left of the queue when the rows in D are deleted.
Without(D) == [m \in DOMAIN queue \ D |-> queue[m]]

-----------------------------------------------------------------------------
(* Subscriptions.                                                          *)

Unexpired == topic \ due

\* move_messages_to_sub_queue: there must be nothing to move.
SubscribeStart(s) ==
    /\ s \notin subs \cup joining \cup past
    /\ \/ /\ Unexpired = {}
          /\ joining' = joining \cup {s}
          /\ UNCHANGED failed
       \/ /\ Unexpired # {}
          /\ failed' = failed \cup {[what |-> "subscribe", valid |-> TRUE]}
          /\ UNCHANGED joining
    /\ UNCHANGED <<topic, depth, queue, subs, past, due, ram, held,
                   owed, handed, late, cleared, joint, missed>>

\* _subscribe_impl commits, then tells all workers.
SubscribeCommit(s) ==
    /\ s \in joining
    /\ joining' = joining \ {s}
    /\ subs' = subs \cup {s}
    /\ Announce("create", {s})
    /\ UNCHANGED <<topic, depth, queue, past, due, listed, made, checks, pub,
                   lock, held, history>>

\* DeleteEndpointQueue: the rows of the subscriptions go with them.
DeleteSubscriptions(S) ==
    /\ S # {}
    /\ S \subseteq subs
    /\ subs' = subs \ S
    /\ past' = past \cup S
    /\ queue' = Without({m \in DOMAIN queue : queue[m].sub \in S})
    /\ joint' = IF Cardinality(S) > 1 THEN joint \cup S ELSE joint
    /\ Announce("delete", S)
    /\ UNCHANGED <<topic, depth, joining, due, listed, made, checks, pub, lock,
                   held, owed, handed, late, cleared, failed, missed>>

\* Mutant: the element after one that is removed is removed as well.
RemovedWithNext(l, S) ==
    SelectSeq(l, LAMBDA s : s \notin S /\ \A i \in 2..Len(l) : l[i] = s => l[i - 1] \notin S)

\* Positions of list l a loop over it removes elements of S from: it skips the
\* element after one that is removed, which leaves every other one of those that
\* follow each other.
Hit(l, S) ==
    {i \in 1..Len(l) :
        \E j \in 1..i : /\ (i - j) % 2 = 0
                        /\ \A n \in j..i : l[n] \in S
                        /\ j = 1 \/ l[j - 1] \notin S}

Removed(l, S) == Sublist(l, (1..Len(l)) \ Hit(l, S))

\* create_subscription and unsubscribe, in process p.  The latter first clears the
\* in-RAM backlog of this process, which raises KeyError if several messages of a
\* subscription are parked there, and nothing else is done.
HandleNews(p) ==
    /\ inbox[p] # <<>>
    /\ LET S == Head(inbox[p]).subs
       IN  \/ /\ Head(inbox[p]).type = "create"
              /\ \E s \in S : listed' = [listed EXCEPT ![p] = Append(@, s)]
              /\ made' = made \cup {p}
              /\ UNCHANGED raised
           \/ /\ Head(inbox[p]).type = "delete"
              /\ listed' = [listed EXCEPT ![p] = Removed(@, S)]
              /\ UNCHANGED <<made, raised>>
           \/ /\ Head(inbox[p]).type = "delete"
              /\ S \cap Parked # {}
              /\ raised' = raised \cup S
              /\ UNCHANGED <<listed, made>>
    /\ inbox' = [inbox EXCEPT ![p] = Tail(@)]
    /\ UNCHANGED <<sql, checks, pub, lock, held, owed, handed, late, cleared,
                   joint, failed, overtaken>>

\* The client spawns a greenlet for each message: one that waits for the lock of
\* PubSub may be overtaken by the next one.
Overtake(p, i) ==
    /\ i \in 1..(Len(inbox[p]) - 1)
    /\ inbox' = [inbox EXCEPT ![p] = [@ EXCEPT ![i] = inbox[p][i + 1],
                                              ![i + 1] = inbox[p][i]]]
    /\ overtaken' = overtaken \cup (inbox[p][i].subs \cap inbox[p][i + 1].subs)
    /\ Cardinality(overtaken') <= MaxOvertaken
    /\ UNCHANGED <<sql, listed, made, checks, pub, lock, held, owed, handed, late,
                   cleared, joint, failed, raised>>

-----------------------------------------------------------------------------
(* Publication.                                                            *)

Published == {m \in Msgs : m \in topic \/ \E p \in Procs : m \in pub[p].msgs}

\* The list of subscribers that is obtained is the one that later changes are
\* made to, unless there was none.
PublishStart(p, B) ==
    /\ pub[p] = None
    /\ B \cap Published = {}
    /\ B \cap late = {}
    /\ pub' = [pub EXCEPT ![p] = [msgs |-> B, live |-> p \in made,
                                  stage |-> "wait"]]
    /\ UNCHANGED <<sql, listed, made, inbox, checks, lock, held, history>>

\* Mutant: the size of the publication is not taken into account.
FitsNow(B) == depth <= MaxDepth

Fits(B) == depth + Cardinality(B) <= MaxDepth

\* The lock is taken, and the depth is checked if it is its turn.
PublishLock(p) ==
    /\ pub[p].stage = "wait"
    /\ lock = Nobody
    /\ LET n == (checks[p] + 1) % CheckFreq
       IN  /\ checks' = [checks EXCEPT ![p] = n]
           /\ \/ /\ n = 0 => Fits(pub[p].msgs)
                 /\ pub' = [pub EXCEPT ![p].stage = "locked"]
                 /\ lock' = p
              \/ /\ n = 0 /\ ~Fits(pub[p].msgs)
                 /\ pub' = [pub EXCEPT ![p] = None]
                 /\ UNCHANGED lock
    /\ UNCHANGED <<sql, listed, made, inbox, held, history>>

\* The lock is waited for so many seconds, and no longer.
LockTimeout(p) ==
    /\ pub[p].stage = "wait"
    /\ lock # Nobody
    /\ pub' = [pub EXCEPT ![p] = None]
    /\ UNCHANGED <<sql, listed, made, inbox, checks, lock, held, history>>

Targets(p) == IF pub[p].live THEN Range(listed[p]) ELSE {}

\* insert_queue_messages succeeds if no message gets into two queues and each
\* queue has a subscription.
MayInsert(p) == Cardinality(Targets(p)) <= 1 /\ Targets(p) \subseteq subs

Unlock(p) ==
    /\ pub' = [pub EXCEPT ![p] = None]
    /\ lock' = Nobody

PublishCommit(p) ==
    LET B == pub[p].msgs
        T == Targets(p)
    IN  /\ pub[p].stage = "locked"
        /\ MayInsert(p)
        /\ depth' = depth + Cardinality(B)
        /\ topic' = topic \cup B
        /\ queue' = IF T = {} THEN queue
                    ELSE [m \in DOMAIN queue \cup B |->
                             IF m \in B
                             THEN [sub |-> CHOOSE s \in T : TRUE,
                                   status |-> "initialized"]
                             ELSE queue[m]]
        /\ owed' = owed \cup (T \X B)
        /\ Unlock(p)
        /\ UNCHANGED <<subs, joining, past, due, listed, made, inbox, checks,
                       held, handed, late, cleared, joint, failed, missed>>

PublishFailed(p) ==
    /\ pub[p].stage = "locked"
    /\ ~MayInsert(p)
    /\ failed' = failed \cup {[what |-> "publish",
                                valid |-> Targets(p) \subseteq subs]}
    /\ Unlock(p)
    /\ UNCHANGED <<sql, listed, made, inbox, checks, held, owed, handed, late,
                   cleared, joint, missed>>

-----------------------------------------------------------------------------
(* Clients that pull.                                                      *)

Available(s) ==
    {m \in DOMAIN queue \ due : queue[m] = [sub |-> s, status |-> "initialized"]}

Mark(M, status) ==
    queue' = [m \in DOMAIN queue |-> IF m \in M
                                     THEN [queue[m] EXCEPT !.status = status]
                                     ELSE queue[m]]

\* Mutant: the rows that were read are not marked.
GetUnmarked(s) ==
    \E M \in SUBSET Available(s) :
        /\ M # {}
        /\ Cardinality(M) <= BatchSize
        /\ handed' = [m \in Msgs |-> IF m \in M THEN handed[m] + 1 ELSE handed[m]]
        /\ held' = held \cup M
        /\ UNCHANGED <<sql, ram, owed, late, cleared, joint, failed, missed>>

\* get_messages: SELECT FOR UPDATE and UPDATE, in one transaction.  The answer
\* may be lost on its way to the client.
GetMessages(s) ==
    \E M \in SUBSET Available(s), received \in BOOLEAN :
        /\ M # {}
        /\ Cardinality(M) <= BatchSize
        /\ Cardinality(M) < BatchSize => M = Available(s)
        /\ Mark(M, "waiting")
        /\ handed' = [m \in Msgs |-> IF m \in M THEN handed[m] + 1 ELSE handed[m]]
        /\ held' = IF received THEN held \cup M ELSE held
        /\ UNCHANGED <<topic, depth, subs, joining, past, due, ram, owed, late,
                       cleared, joint, failed, missed>>

\* acknowledge_delivery, once for all or some of the messages of a client.
AcknowledgeDelivery(s, M) ==
    /\ M # {}
    /\ M \subseteq held
    /\ Mark({m \in M \cap DOMAIN queue :
                queue[m] = [sub |-> s, status |-> "waiting"]}, "delivered")
    /\ held' = held \ M
    /\ UNCHANGED <<topic, depth, subs, joining, past, due, ram, history>>

-----------------------------------------------------------------------------
(* Expiration, cleanup and administration.                                 *)

Expire(m) ==
    /\ m \in (topic \cap Expiring) \ due
    /\ due' = due \cup {m}
    /\ late' = late \cup {m}
    /\ UNCHANGED <<topic, depth, queue, subs, joining, past, ram, held, owed,
                   handed, cleared, joint, failed, missed>>

\* zato.pubsub.message.update sets a new expiration time.
Update(m) ==
    /\ m \in topic \cap due
    /\ due' = due \ {m}
    /\ UNCHANGED <<topic, depth, queue, subs, joining, past, ram, held, history>>

\* Mutant: deleting messages leaves the rows that refer to them.
DeleteNoCascade ==
    /\ topic \cap due # {}
    /\ topic' = topic \ due
    /\ UNCHANGED <<depth, queue, subs, joining, past, due, ram, held, history>>

\* The rows of queues refer to those of the topic, and go with them.
DeleteExpired ==
    /\ topic \cap due # {}
    /\ topic' = topic \ due
    /\ queue' = Without(due)
    /\ UNCHANGED <<depth, subs, joining, past, due, ram, held, history>>

\* Mutant: whatever has a row is cleaned up.
FinishedAny == DOMAIN queue

Finished == {m \in DOMAIN queue : queue[m].status = "delivered"}

DeleteDelivered ==
    /\ Finished # {}
    /\ queue' = Without(Finished)
    /\ UNCHANGED <<topic, depth, subs, joining, past, due, ram, held, history>>

ClearEndpointQueue(s) ==
    LET rows == {m \in DOMAIN queue : queue[m].sub = s}
    IN  /\ rows # {}
        /\ queue' = Without(rows)
        /\ cleared' = cleared \cup rows
        /\ UNCHANGED <<topic, depth, subs, joining, past, due, ram, held, owed,
                       handed, late, joint, failed, missed>>

-----------------------------------------------------------------------------
Next ==
    \/ \E s \in Subs : \/ SubscribeStart(s) \/ SubscribeCommit(s)
                       \/ ClearEndpointQueue(s) \/ GetMessages(s)
                       \/ \E M \in SUBSET held : AcknowledgeDelivery(s, M)
    \/ \E p \in Procs : \/ HandleNews(p) \/ PublishLock(p) \/ LockTimeout(p)
                        \/ PublishCommit(p) \/ PublishFailed(p)
                        \/ \E B \in Batches : PublishStart(p, B)
    \/ \E m \in Msgs : Expire(m) \/ Update(m)
    \/ \E p \in Procs : \E i \in 1..Len(inbox[p]) : Overtake(p, i)
    \/ \E S \in SUBSET subs : DeleteSubscriptions(S)
    \/ DeleteExpired \/ DeleteDelivered

Spec == Init /\ [][Next]_vars

-----------------------------------------------------------------------------
(* Properties.                                                             *)

\* A message that got into a subscriber's queue stays available until a client
\* was given it, unless it expired, the queue was cleared or deleted.
NotLost ==
    \A sm \in owed :
        \/ sm[2] \in DOMAIN queue /\ queue[sm[2]] = [sub |-> sm[1],
                                                    status |-> "initialized"]
        \/ handed[sm[2]] > 0
        \/ sm[2] \in late \cup cleared
        \/ sm[1] \in past

\* A process that has handled all the news, in whatever order, publishes to every
\* subscription there is.  It publishes to none that was deleted alone, if the news
\* of that did not overtake those of its creation and unsubscribe did not raise,
\* although the list changes under the loop that removes from it and publishers use
\* the list at the same time (PubSub.unsubscribe).
SubscribersListed ==
    \A p \in Procs : inbox[p] = <<>> =>
        /\ subs \subseteq Range(listed[p])
        /\ Range(listed[p]) \cap past \subseteq joint \cup raised \cup overtaken

\* However many clients of a subscription call zato.pubsub.queue at a time, and
\* whatever they acknowledge, no message is given to two of them (get_messages
\* selects the rows for update).
HandedOnce == \A m \in Msgs : handed[m] <= 1

\* If every publication checks the depth, and does so under the topic's lock
\* (publish.py), publishers of several processes never exceed max_depth_gd.
DepthBounded == CheckFreq = 1 => depth <= MaxDepth

\* "Moves messages to each subscriber's queue": a publication does not fail
\* because of subscribers all of which exist.
EachSubscriberServed == [what |-> "publish", valid |-> TRUE] \notin failed
=============================================================================
