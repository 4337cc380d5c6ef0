------------------------------ MODULE Delivery ------------------------------
(***************************************************************************)
(* Delivery of pub/sub messages for one sub_key: the PubSubTools that may  *)
(* come to handle it, the DeliveryTask each of them starts, and the rows   *)
(* of the sub_key's queue in SQL.                                          *)
(*                                                                         *)
(* All the code runs in gevent greenlets, so a step of the model goes from *)
(* one switch point (a call to the endpoint, to SQL, to another server, a  *)
(* sleep, a contended lock) to the next.                                   *)
(***************************************************************************)
EXTENDS Naturals, Sequences, FiniteSets, SequencesExt

CONSTANTS
    GD,            \* messages published with guaranteed delivery, kept in SQL
    NonGD,         \* messages kept in RAM only
    NoMsg,         \* "no message is being delivered"
    Key,           \* Key[m]: (9 - priority, ext_pub_time, pub_time) as a number
    Batches,       \* the sets of messages that are published by one call
    Expirable,     \* GD messages whose expiration time may come
    Tools,         \* PubSubTools that may handle the sub_key, one per (re)start
    EndpointType,  \* "rest" (any endpoint with a fixed server) or "wsx"
    MaxFaults      \* how many times each kind of failure may happen

Msgs == GD \cup NonGD
Faults == {"deliver", "confirm", "notify", "crash", "stop"}

ASSUME DeliveryAssumption ==
    /\ GD \cap NonGD = {}
    /\ IsFiniteSet(Msgs)
    /\ NoMsg \notin Msgs
    /\ Key \in [Msgs -> Nat]
    /\ Batches \subseteq SUBSET Msgs
    /\ {} \notin Batches
    /\ Expirable \subseteq GD
    /\ EndpointType \in {"rest", "wsx"}
    /\ MaxFaults \in [Faults -> Nat]

VARIABLES
    row,           \* delivery_status of each GD message's row in the SQL queue
    expired,       \* GD messages whose expiration time has passed
    published,     \* messages published so far
    inflight,      \* batches whose notification has not reached a tool yet
    unanswered,    \* batches a tool was told of, the answer being lost
    backlog,       \* non-GD messages parked in the servers' InRAMBacklog
    given_up,      \* history: non-GD messages that were in the RAM of a tool
                   \* which lost the sub_key, or collected by a reconnection
    handed,        \* how often a message was accepted by the endpoint (2: more)
    faults,        \* failures that may still happen
    handles,       \* sub_key \in tool.sub_keys
    list,          \* the tool's delivery list, a SortedList
    lock,          \* what the holder of the tool's sub_key lock is doing
    pend,          \* messages the lock holder is about to add to the list
    keep_running,  \* DeliveryTask.keep_running
    pc,            \* where the task's greenlet is
    cur,           \* the message the task is delivering
    idx,           \* how many items the task's iterator has produced
    detached,      \* the iterator's sublist is not the list's any more
    walk           \* that sublist, once detached

sqlVars  == <<row, expired>>
envVars  == <<published, inflight, unanswered, backlog, given_up>>
toolVars == <<handles, list, lock, pend>>
taskVars == <<keep_running, pc, cur, idx, detached, walk>>
vars     == <<sqlVars, envVars, handed, faults, toolVars, taskVars>>

Statuses == {"absent", "initialized", "delivered"}
LockStates == {"free", "notify", "adding"}
PCs == {"none", "sleep", "deliver", "confirm", "remove", "ended", "died"}

TypeOK ==
    /\ row \in [GD -> Statuses]
    /\ expired \subseteq Expirable
    /\ published \subseteq Msgs
    /\ inflight \subseteq Batches
    /\ unanswered \subseteq Batches
    /\ backlog \subseteq NonGD
    /\ given_up \subseteq NonGD
    /\ handed \in [Msgs -> 0..2]
    /\ faults \in [Faults -> Nat]
    /\ handles \in [Tools -> BOOLEAN]
    /\ list \in [Tools -> Seq(Msgs)]
    /\ lock \in [Tools -> LockStates]
    /\ pend \in [Tools -> Seq(Msgs)]
    /\ keep_running \in [Tools -> BOOLEAN]
    /\ pc \in [Tools -> PCs]
    /\ cur \in [Tools -> Msgs \cup {NoMsg}]
    /\ idx \in [Tools -> Nat]
    /\ detached \in [Tools -> BOOLEAN]
    /\ walk \in [Tools -> Seq(Msgs)]

-----------------------------------------------------------------------------
(* sortedcontainers.SortedList, ordered by Message.__cmp__.  Messages with *)
(* the same key are equal to it, whatever their IDs are.                   *)

BisectLeft(l, m)  == Cardinality({i \in DOMAIN l : Key[l[i]] < Key[m]})
BisectRight(l, m) == Cardinality({i \in DOMAIN l : Key[l[i]] <= Key[m]})

\* Mutant: the list is appended to.
UnsortedAdd(l, m) == Append(l, m)

SortedListAdd(l, m) ==
    LET k == BisectRight(l, m)
    IN  SubSeq(l, 1, k) \o <<m>> \o SubSeq(l, k + 1, Len(l))

SortedListHas(l, m) == BisectLeft(l, m) < BisectRight(l, m)

\* Mutant: the item behind those that compare equal is removed.
RemoveBehind(l, m) ==
    LET k == BisectRight(l, m)
    IN  SubSeq(l, 1, k) \o SubSeq(l, k + 2, Len(l))

\* The leftmost item that compares equal is the one remove takes out.
SortedListRemove(l, m) ==
    LET k == BisectLeft(l, m)
    IN  SubSeq(l, 1, k) \o SubSeq(l, k + 2, Len(l))

\* The orders in which SQL may return the rows of S: by key, ties at will.
OrderedRows(S) ==
    {s \in SetToSeqs(S) :
        \A i, j \in 1..Len(s) : i < j => Key[s[i]] <= Key[s[j]]}

-----------------------------------------------------------------------------
Init ==
    /\ row = [m \in GD |-> "absent"]
    /\ expired = {}
    /\ published = {}
    /\ inflight = {}
    /\ unanswered = {}
    /\ backlog = {}
    /\ given_up = {}
    /\ handed = [m \in Msgs |-> 0]
    /\ faults = MaxFaults
    /\ handles = [t \in Tools |-> FALSE]
    /\ list = [t \in Tools |-> <<>>]
    /\ lock = [t \in Tools |-> "free"]
    /\ pend = [t \in Tools |-> <<>>]
    /\ keep_running = [t \in Tools |-> FALSE]
    /\ pc = [t \in Tools |-> "none"]
    /\ cur = [t \in Tools |-> NoMsg]
    /\ idx = [t \in Tools |-> 0]
    /\ detached = [t \in Tools |-> FALSE]
    /\ walk = [t \in Tools |-> <<>>]

Fault(f) ==
    /\ faults[f] > 0
    /\ faults' = [faults EXCEPT ![f] = @ - 1]

\* A tool is in the middle of a loop of list.add calls: no other greenlet of
\* its process runs until it is done.
Adding(t) == lock[t] = "adding"

Handled == \E t \in Tools : handles[t]

\* History: messages nobody can count on any more.
GiveUp(S) == given_up' = given_up \cup (S \cap NonGD)

\* A WebSocket gets its sub_key when it subscribes; other endpoints have a
\* subscription in SQL before any of their tasks starts.
Subscribed == EndpointType = "rest" \/ \E t \in Tools : pc[t] # "none"

-----------------------------------------------------------------------------
(* Publication.                                                            *)

\* Publish.handle: the queue rows of the GD messages are committed, then the
\* after-publish notification is spawned with the non-GD ones in it.
Publish(B) ==
    /\ Subscribed
    /\ B \cap published = {}
    /\ published' = published \cup B
    /\ row' = [m \in GD |-> IF m \in B THEN "initialized" ELSE row[m]]
    /\ inflight' = inflight \cup {B}
    /\ UNCHANGED <<expired, unanswered, backlog, given_up, handed, faults,
                   toolVars, taskVars>>

\* The expiration_time of a GD message comes.
Expire(m) ==
    /\ m \in published \ expired
    /\ expired' = expired \cup {m}
    /\ UNCHANGED <<row, envVars, handed, faults, toolVars, taskVars>>

\* Mutant: GD messages are stored in RAM as well.
StoreEverything(S) == S

\* Of the messages of a failed notification, those that are stored in RAM.
ToStoreInRAM(S) == S \cap NonGD

\* AfterPublish finds no server for the sub_key, or invoking it fails: non-GD
\* messages are stored in RAM, GD ones stay where they are.
NotifyFailed(B) ==
    /\ \/ ~Handled /\ UNCHANGED faults
       \/ Handled /\ Fault("notify")
    /\ inflight' = inflight \ {B}
    /\ backlog' = backlog \cup ToStoreInRAM(B)
    /\ UNCHANGED <<published, unanswered, given_up, sqlVars, handed, toolVars,
                   taskVars>>

\* The tool was told, but invoke raises in the publisher's server all the same
\* (a timeout, a lost connection): it stores what the tool has, or had, too.
AnswerLost(B) ==
    /\ unanswered' = unanswered \ {B}
    /\ backlog' = backlog \cup ToStoreInRAM(B)
    /\ UNCHANGED <<published, inflight, given_up, sqlVars, handed, faults,
                   toolVars, taskVars>>

-----------------------------------------------------------------------------
(* PubSubTool.                                                             *)

\* get_sql_messages_by_sub_key.  last_sql_run is None on every call, so it
\* narrows nothing down.
SQLMessages == {m \in GD : row[m] = "initialized" /\ m \notin expired}

\* Mutant: non-GD messages are added only if there are no GD ones.
OnlyFetched(fetched, non_gd) == fetched

\* What handle_new_messages adds: the rows fetched, then the non-GD messages.
ToAdd(fetched, non_gd) == fetched \o non_gd

\* handle_new_messages up to the point where SQL has answered.  The sub_key
\* lock is held from here to the last add.
HandleNewMessages(t, B) ==
    /\ handles[t]
    /\ lock[t] = "free"
    /\ inflight' = inflight \ {B}
    /\ \/ UNCHANGED <<unanswered, faults>>
       \/ Fault("notify") /\ unanswered' = unanswered \cup {B}
    /\ \E non_gd \in SetToSeqs(B \cap NonGD) :
        \/ /\ B \cap GD # {}
           /\ \E s \in OrderedRows(SQLMessages) :
                pend' = [pend EXCEPT ![t] = ToAdd(s, non_gd)]
           /\ lock' = [lock EXCEPT ![t] = "notify"]
        \/ /\ B \cap GD = {}
           /\ pend' = [pend EXCEPT ![t] = non_gd]
           /\ lock' = [lock EXCEPT ![t] = "adding"]
    /\ UNCHANGED <<published, backlog, given_up, sqlVars, handed, handles, list,
                   taskVars>>

\* The rows read reach the tool, which starts to add them ...
StartAdding(t) ==
    /\ lock[t] = "notify"
    /\ handles[t]
    /\ lock' = [lock EXCEPT ![t] = IF pend[t] = <<>> THEN "free" ELSE "adding"]
    /\ UNCHANGED <<sqlVars, envVars, handed, faults, handles, list, pend,
                   taskVars>>

\* ... unless the sub_key was removed meanwhile: delivery_lists[sub_key] raises
\* KeyError and the publisher's server stores the non-GD messages in its RAM.
AddingFailed(t) ==
    /\ lock[t] = "notify"
    /\ ~handles[t]
    /\ backlog' = backlog \cup ToStoreInRAM(Range(pend[t]))
    /\ pend' = [pend EXCEPT ![t] = <<>>]
    /\ lock' = [lock EXCEPT ![t] = "free"]
    /\ UNCHANGED <<published, inflight, unanswered, given_up, sqlVars, handed,
                   faults, handles, list, taskVars>>

AddMessage(t) ==
    /\ Adding(t)
    /\ list' = [list EXCEPT ![t] = SortedListAdd(@, Head(pend[t]))]
    /\ pend' = [pend EXCEPT ![t] = Tail(@)]
    /\ lock' = [lock EXCEPT ![t] = IF Len(pend[t]) = 1 THEN "free" ELSE @]
    /\ UNCHANGED <<sqlVars, envVars, handed, faults, handles, taskVars>>

\* add_sub_key_no_lock: a fresh list and a fresh task.
AddSubKey(t) ==
    /\ handles' = [handles EXCEPT ![t] = TRUE]
    /\ keep_running' = [keep_running EXCEPT ![t] = TRUE]
    /\ pc' = [pc EXCEPT ![t] = "sleep"]
    /\ UNCHANGED <<list, cur, idx, detached, walk>>

\* CreateDeliveryTask, on startup of the server and as the last step of a
\* migration.  Nothing is read from SQL.
CreateDeliveryTask(t) ==
    /\ EndpointType = "rest"
    /\ pc[t] = "none"
    /\ ~Handled
    /\ AddSubKey(t)
    /\ UNCHANGED <<sqlVars, envVars, handed, faults, lock, pend>>

\* _subscribe_impl of a WebSocket: its tool gets a new sub_key.
SubscribeWSX(t) ==
    /\ EndpointType = "wsx"
    /\ ~Subscribed
    /\ AddSubKey(t)
    /\ UNCHANGED <<sqlVars, envVars, handed, faults, lock, pend>>

\* AfterWSXReconnect, of a WebSocket that is back.  What waits in the backlogs
\* of all servers is collected, and deleted there; but invoke_all returns a
\* tuple, _parse_non_gd_messages calls items() on it, and that AttributeError
\* is the end of the service: no task is started, nothing is read from SQL.
\* With nothing to collect the service changes nothing at all.
AfterWSXReconnect ==
    /\ EndpointType = "wsx"
    /\ Subscribed
    /\ backlog # {}
    /\ backlog' = {}
    /\ GiveUp(backlog)
    /\ UNCHANGED <<published, inflight, unanswered, sqlVars, handed, faults,
                   toolVars, taskVars>>

\* Mutant: the task is stopped but stays with its tool.
StopTask(t) ==
    /\ keep_running' = [keep_running EXCEPT ![t] = FALSE]
    /\ UNCHANGED handles

\* remove_sub_key: the tool forgets the sub_key, its lock and its list, and the
\* task is stopped, if it was not before.  It still has the list.
DropSubKey(t) ==
    /\ handles' = [handles EXCEPT ![t] = FALSE]
    /\ keep_running' = [keep_running EXCEPT ![t] = FALSE]

\* A WebSocket disconnects: unregister_auth_client.
Disconnect(t) ==
    /\ EndpointType = "wsx"
    /\ handles[t]
    /\ ~Adding(t)
    /\ Fault("stop")
    /\ DropSubKey(t)
    /\ GiveUp(Range(list[t]))
    /\ UNCHANGED <<sqlVars, published, inflight, unanswered, backlog, handed,
                   list, lock, pend, pc, cur, idx, detached, walk>>

\* DeliveryTask.clear takes the sublists out of the SortedList, but a running
\* iterator still has its own.
ClearList(t) ==
    /\ list' = [list EXCEPT ![t] = <<>>]
    /\ \/ /\ pc[t] \in {"deliver", "confirm", "remove"}
          /\ detached' = [detached EXCEPT ![t] = TRUE]
          /\ walk' = [walk EXCEPT ![t] = list[t]]
       \/ /\ pc[t] \notin {"deliver", "confirm", "remove"}
          /\ UNCHANGED <<detached, walk>>

\* MigrateDeliveryServer up to the point where the new server is to be told:
\* task.stop, task.clear, remove_sub_key.
Migrate(t) ==
    /\ EndpointType = "rest"
    /\ handles[t]
    /\ ~Adding(t)
    /\ Fault("stop")
    /\ ClearList(t)
    /\ DropSubKey(t)
    /\ GiveUp(Range(list[t]))
    /\ UNCHANGED <<sqlVars, published, inflight, unanswered, backlog, handed,
                   lock, pend, pc, cur, idx>>

\* The process dies with everything it has in RAM.
Crash(t) ==
    /\ pc[t] \notin {"none", "ended", "died"}
    /\ Fault("crash")
    /\ handles' = [handles EXCEPT ![t] = FALSE]
    /\ keep_running' = [keep_running EXCEPT ![t] = FALSE]
    /\ list' = [list EXCEPT ![t] = <<>>]
    /\ lock' = [lock EXCEPT ![t] = "free"]
    /\ pend' = [pend EXCEPT ![t] = <<>>]
    /\ pc' = [pc EXCEPT ![t] = "died"]
    /\ cur' = [cur EXCEPT ![t] = NoMsg]
    /\ idx' = [idx EXCEPT ![t] = 0]
    /\ detached' = [detached EXCEPT ![t] = FALSE]
    /\ walk' = [walk EXCEPT ![t] = <<>>]
    /\ GiveUp(Range(list[t]) \cup Range(pend[t]))
    /\ UNCHANGED <<sqlVars, published, inflight, unanswered, backlog, handed>>

-----------------------------------------------------------------------------
(* DeliveryTask.  Its greenlet runs only when no list.add loop does.       *)

\* _run_delivery returns or raises: the greenlet goes on to where.
LeavePass(t, where) ==
    /\ pc' = [pc EXCEPT ![t] = where]
    /\ cur' = [cur EXCEPT ![t] = NoMsg]
    /\ idx' = [idx EXCEPT ![t] = 0]
    /\ detached' = [detached EXCEPT ![t] = FALSE]
    /\ walk' = [walk EXCEPT ![t] = <<>>]

\* The next turn of "for msg in self.delivery_list": a list iterator, which
\* counts positions in the sublist l whatever has been done to it meanwhile.
NextMessage(t, l) ==
    \/ /\ idx[t] < Len(l)
       /\ cur' = [cur EXCEPT ![t] = l[idx[t] + 1]]
       /\ idx' = [idx EXCEPT ![t] = @ + 1]
       /\ pc' = [pc EXCEPT ![t] = "deliver"]
       /\ UNCHANGED <<detached, walk>>
    \/ /\ idx[t] >= Len(l)
       /\ LeavePass(t, "sleep")

\* run: the sleep is over.  With nothing to deliver the task sleeps again.
StopLoop(t) ==
    /\ pc[t] = "sleep"
    /\ ~Adding(t)
    /\ ~keep_running[t]
    /\ pc' = [pc EXCEPT ![t] = "ended"]
    /\ UNCHANGED <<sqlVars, envVars, handed, faults, toolVars, keep_running,
                   cur, idx, detached, walk>>

StartDelivery(t) ==
    /\ pc[t] = "sleep"
    /\ ~Adding(t)
    /\ keep_running[t]
    /\ list[t] # <<>>
    /\ NextMessage(t, list[t])
    /\ UNCHANGED <<sqlVars, envVars, handed, faults, toolVars, keep_running>>

\* The endpoint's callback returns.
DeliverOK(t) ==
    /\ pc[t] = "deliver"
    /\ ~Adding(t)
    /\ handed' = [handed EXCEPT ![cur[t]] = IF @ = 2 THEN 2 ELSE @ + 1]
    /\ pc' = [pc EXCEPT ![t] = "confirm"]
    /\ UNCHANGED <<sqlVars, envVars, faults, toolVars, keep_running, cur, idx,
                   detached, walk>>

\* It raises SkipDelivery, or any other exception: the pass is over, also for
\* the messages behind this one.
DeliverFailed(t) ==
    /\ pc[t] = "deliver"
    /\ ~Adding(t)
    /\ Fault("deliver")
    /\ LeavePass(t, "sleep")
    /\ UNCHANGED <<sqlVars, envVars, handed, toolVars, keep_running>>

\* Mutant: the UPDATE is not restricted to the message's ID.
ConfirmEveryRow(c) == SQLMessages

\* The rows confirm_pubsub_msg_delivered updates.  A non-GD message has none.
ConfirmedRows(c) == {m \in GD : m = c}

\* confirm_pubsub_msg_delivered commits.
ConfirmOK(t) ==
    /\ pc[t] = "confirm"
    /\ ~Adding(t)
    /\ row' = [m \in GD |-> IF m \in ConfirmedRows(cur[t]) THEN "delivered"
                                                           ELSE row[m]]
    /\ pc' = [pc EXCEPT ![t] = "remove"]
    /\ UNCHANGED <<expired, envVars, handed, faults, toolVars, keep_running,
                   cur, idx, detached, walk>>

\* Mutant: an exception of the confirmation is not caught.
ConfirmFailedRaises(t) ==
    /\ pc[t] = "confirm"
    /\ ~Adding(t)
    /\ Fault("confirm")
    /\ LeavePass(t, "died")
    /\ UNCHANGED <<sqlVars, envVars, handed, toolVars, keep_running>>

\* It raises: that is only logged, the message stays in the list.
ConfirmFailed(t) ==
    /\ pc[t] = "confirm"
    /\ ~Adding(t)
    /\ Fault("confirm")
    /\ NextMessage(t, IF detached[t] THEN walk[t] ELSE list[t])
    /\ UNCHANGED <<sqlVars, envVars, handed, toolVars, keep_running>>

\* with self.delivery_lock: self.delivery_list.remove(msg), and the next turn
\* of the loop.  remove raises ValueError when nothing equal is in the list,
\* which ends the task for good.
RemoveDelivered(t) ==
    /\ pc[t] = "remove"
    /\ lock[t] = "free"
    /\ \/ /\ SortedListHas(list[t], cur[t])
          /\ list' = [list EXCEPT ![t] = SortedListRemove(@, cur[t])]
          /\ NextMessage(t, IF detached[t]
                            THEN walk[t]
                            ELSE SortedListRemove(list[t], cur[t]))
       \/ /\ ~SortedListHas(list[t], cur[t])
          /\ LeavePass(t, "died")
          /\ UNCHANGED list
    /\ UNCHANGED <<sqlVars, envVars, handed, faults, handles, lock, pend,
                   keep_running>>

-----------------------------------------------------------------------------
ToolStep(t) ==
    \/ StartAdding(t)
    \/ AddingFailed(t)
    \/ AddMessage(t)
    \/ CreateDeliveryTask(t)
    \/ SubscribeWSX(t)

TaskStep(t) ==
    \/ StopLoop(t)
    \/ StartDelivery(t)
    \/ DeliverOK(t)
    \/ DeliverFailed(t)
    \/ ConfirmOK(t)
    \/ ConfirmFailed(t)
    \/ RemoveDelivered(t)

Next ==
    \/ \E B \in Batches : Publish(B)
    \/ \E m \in Expirable : Expire(m)
    \/ \E B \in inflight : NotifyFailed(B)
    \/ \E B \in unanswered : AnswerLost(B)
    \/ \E t \in Tools, B \in inflight : HandleNewMessages(t, B)
    \/ \E t \in Tools : ToolStep(t)
    \/ AfterWSXReconnect
    \/ \E t \in Tools : TaskStep(t)
    \/ \E t \in Tools : Disconnect(t) \/ Migrate(t) \/ Crash(t)

Spec == Init /\ [][Next]_vars

\* Greenlets that can run are run by the hub, a notification that was sent is
\* handled or fails, a server that was stopped is replaced by the next one, and
\* a WebSocket for which messages wait comes back for them.  Nothing forces a
\* publication, a failure, a migration or a disconnection.
Fairness ==
    /\ \A B \in Batches :
        /\ WF_vars(~Handled /\ B \in inflight /\ NotifyFailed(B))
        /\ WF_vars(B \in unanswered /\ AnswerLost(B))
        /\ \A t \in Tools : WF_vars(B \in inflight /\ HandleNewMessages(t, B))
    /\ \A t \in Tools : WF_vars(ToolStep(t)) /\ WF_vars(TaskStep(t))
    /\ WF_vars(AfterWSXReconnect)

FairSpec == Spec /\ Fairness

-----------------------------------------------------------------------------
(* Properties.                                                             *)

\* Guaranteed delivery: whatever fails, is stopped, migrated or restarted, a
\* published GD message is still to be read from SQL, or the endpoint accepted
\* it before confirm_pubsub_msg_delivered marked its row (task.py:61-92).
GDNotLost ==
    \A m \in GD \cap published :
        \/ row[m] = "initialized"
        \/ row[m] = "delivered" /\ handed[m] > 0

\* Only what was published is ever in a queue, on its way or being delivered,
\* and exactly the published GD messages have a row.
OnlyPublished ==
    /\ \A B \in inflight \cup unanswered : B \subseteq published
    /\ backlog \subseteq published
    /\ list \in [Tools -> Seq(published)]
    /\ pend \in [Tools -> Seq(published)]
    /\ walk \in [Tools -> Seq(published)]
    /\ cur \in [Tools -> published \cup {NoMsg}]
    /\ \A m \in GD : row[m] = "absent" <=> m \notin published

\* A tool without a task is idle, a task past "deliver" has a message that the
\* endpoint accepted, and who adds messages has some to add.
Consistent ==
    \A t \in Tools :
        /\ pc[t] = "none" => ~handles[t] /\ lock[t] = "free"
        /\ pc[t] \in {"deliver", "confirm", "remove"} => cur[t] # NoMsg
        /\ pc[t] \in {"confirm", "remove"} => handed[cur[t]] > 0
        /\ Adding(t) => pend[t] # <<>>

\* The inductive invariant behind GDNotLost and ImplementsGDQueue.
Inv == TypeOK /\ OnlyPublished /\ Consistent /\ GDNotLost

\* The SQL queue and the tasks together keep the promise of GDQueue.
Queue == INSTANCE GDQueue WITH status <- row,
                               given <- {m \in GD : handed[m] > 0}

ImplementsGDQueue == Queue!Spec

\* A notification about m is under way.
Notified(m) == \E B \in inflight : m \in B

\* Where a non-GD message can be while nobody has accepted it.
Kept(m) ==
    \/ Notified(m)
    \/ m \in backlog
    \/ \E t \in Tools : m \in Range(pend[t])
    \/ \E t \in Tools : handles[t] /\ m \in Range(list[t])

\* The endpoint accepted a message that compares equal to m, m for example.
EqualAccepted(m) == \E n \in Msgs : Key[n] = Key[m] /\ handed[n] > 0

\* A non-GD message stays on its way, in a backlog or in the delivery list of
\* the tool in charge until the endpoint accepted it or one that compares equal
\* (remove takes out the leftmost of these, task.py:89, 176-180), or its tool
\* lost the sub_key, or a reconnection collected it: no failed or unanswered
\* notification, no confirmation that fails and no message of another key ever
\* takes its place.
NonGDNotLost ==
    \A m \in NonGD \cap published :
        Kept(m) \/ m \in given_up \/ EqualAccepted(m)

\* The bisections of SortedList.add and SortedList.remove are right only on a
\* list in the order of Message.__cmp__ (task.py:176-180).
ListsSorted ==
    \A t \in Tools : \A i, j \in 1..Len(list[t]) :
        i < j => Key[list[t][i]] <= Key[list[t][j]]

\* While its tool handles the sub_key, the task's greenlet is alive: remove
\* never raises the ValueError that would end it (task.py:88-89, 117-118).
TaskAlive == \A t \in Tools : handles[t] => pc[t] \notin {"ended", "died"}

\* A message whose notification is under way when a tool handles the sub_key,
\* and to which no other message compares equal, is accepted by the endpoint in
\* the end, however often delivery or confirmation failed before and although a
\* pass misses messages, or it expires (task.py:65-89).  Of messages with equal
\* keys one may be removed for another.
NotifiedDelivered ==
    \A m \in Msgs :
        (\A n \in Msgs \ {m} : Key[n] # Key[m])
            => (Handled /\ Notified(m) ~> handed[m] > 0 \/ m \in expired)

\* A GD message that waits in SQL is accepted by the endpoint in the end, or
\* expires, also when it was published while no tool handled the sub_key
\* (migrate.py:76-77 "The new task will pick it up when it is starting up").
StoredDelivered ==
    \A m \in GD : m \in published ~> handed[m] > 0 \/ m \in expired

\* A non-GD message that waits in RAM for a WebSocket is accepted by it once it
\* is back (internal/pubsub/__init__.py:170-172 "Collects all messages waiting
\* on other servers for that WebSocket [...] the collection process trigger's
\* that WebSocket's delivery task").
BackloggedDelivered == \A m \in NonGD : m \in backlog ~> handed[m] > 0
=============================================================================
