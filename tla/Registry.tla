------------------------------ MODULE Registry ------------------------------
(***************************************************************************)
(* What every server process believes about who delivers the messages of   *)
(* a sub_key: PubSub.sub_key_servers, kept in step by broker messages and  *)
(* completed by lookups, while tasks start, migrate between servers and    *)
(* die with their processes.                                               *)
(*                                                                         *)
(* A publisher that misses a sub_key looks it up in ODB and asks the       *)
(* server found there, holding PubSub.lock of its own process until the    *)
(* answer is there.  All that the other handlers do, they do under the     *)
(* same lock.  Redis hands messages over in order, but only to those who   *)
(* listen: what is published while a process is down it never sees.  Each  *)
(* message is handled in a greenlet of its own, and those that wait for    *)
(* the lock may overtake each other.                                       *)
(***************************************************************************)
EXTENDS Naturals, Sequences, FiniteSets, SequencesExt

CONSTANTS
    Servers,       \* names of servers
    Procs,         \* worker processes of all the servers
    ServerOf,      \* process -> its server
    First,         \* the first worker of each server
    BasePid,       \* process -> what its PID is based on, unique per server
    RESTKeys,      \* sub_keys of endpoints with a fixed delivery server
    WSXKeys,       \* sub_keys of WebSockets
    Nobody,        \* no server, no process, no info
    Gone,          \* "the WebSocket has disconnected"
    NoPid,         \* info without a PID
    MaxSubscriptions, \* bound: subscriptions
    MaxMigrations, \* bound: changes of a delivery server
    MaxOvertaken,  \* bound: overtakings among the messages about a sub_key
    MaxCrashes,    \* bound: crashes of servers
    MaxTroubles    \* bound: crashes and overtakings together

Keys == RESTKeys \cup WSXKeys

Pids == {<<BasePid[p], n>> : p \in Procs, n \in 0..MaxCrashes}
Infos == [server : Servers, pid : Pids \cup {NoPid}]

ASSUME RegistryAssumption ==
    /\ ServerOf \in [Procs -> Servers]
    /\ \A p, q \in Procs :
          ServerOf[p] = ServerOf[q] /\ BasePid[p] = BasePid[q] => p = q
    /\ First \subseteq Procs
    /\ \A p, q \in First : ServerOf[p] = ServerOf[q] => p = q
    /\ IsFiniteSet(RESTKeys)
    /\ RESTKeys \cap WSXKeys = {}
    /\ {Nobody, Gone} \cap (Servers \cup Procs) = {}
    /\ Nobody # Gone
    /\ Nobody \notin Infos
    /\ MaxSubscriptions \in Nat
    /\ MaxMigrations \in Nat
    /\ MaxOvertaken \in Nat
    /\ MaxCrashes \in Nat
    /\ MaxTroubles \in Nat

VARIABLES
    up,        \* processes that are running
    boot,      \* process -> number of times it was restarted
    announced, \* servers whose first worker stored its PID in shared memory
    reg,       \* process -> sub_key_servers
    inbox,     \* process -> broker messages, in the order it will handle them
    look,      \* process -> the lookup it waits for, with PubSub.lock held
    migs,      \* migrations under way
    tasks,     \* <<process, sub_key>> of running delivery tasks
    odb,       \* sub_key -> the delivery server stored in ODB
    deleted,   \* sub_keys whose subscription was deleted from ODB
    client,    \* sub_key -> the process that its WebSocket is connected to
    disturbed, \* history: sub_keys whose migration did not reach a process, or
               \* that were deleted or changed, or met a crash, while news or a
               \* migration were under way
    raised,    \* history: sub_keys whose unsubscribe raised in some process
    overtaken, \* sub_key -> number of its messages that were overtaken so far
    edits,     \* changes of delivery servers so far
    crashes    \* crashes so far

procs == <<up, boot, announced>>
moves == <<migs, tasks>>
db    == <<odb, deleted, client>>
aux   == <<disturbed, raised, overtaken, edits, crashes>>
vars  == <<procs, reg, inbox, look, moves, db, aux>>

Pid(p) == <<BasePid[p], boot[p]>>

\* SubKeyServer, of which the name of the server and the PID are looked at.
Info(p) == [server |-> ServerOf[p], pid |-> Pid(p)]

Workers(s) == {p \in Procs : ServerOf[p] = s}

Idle == [key |-> Nobody, server |-> Nobody, at |-> Nobody, answer |-> NoPid]

Locked(p) == look[p] # Idle

Messages ==
    [type : {"create", "stopping"}, key : RESTKeys] \cup
    [type : {"remove"}, key : WSXKeys] \cup
    [type : {"delete"}, key : Keys] \cup
    [type : {"set"}, key : Keys, info : Infos] \cup
    [type : {"change"}, key : RESTKeys, new : Servers]

TypeOK ==
    /\ up \subseteq Procs
    /\ boot \in [Procs -> 0..MaxCrashes]
    /\ announced \subseteq Servers
    /\ reg \in [Procs -> [Keys -> Infos \cup {Nobody}]]
    /\ inbox \in [Procs -> Seq(Messages)]
    /\ look \in [Procs -> [key : RESTKeys, server : Servers,
                           at : Procs \cup {Nobody},
                           answer : Pids \cup {NoPid}] \cup {Idle}]
    /\ migs \subseteq [at : Procs, key : RESTKeys, new : Servers,
                       todo : SUBSET Procs, failed : SUBSET Procs,
                       stage : {"notify", "start"}]
    /\ tasks \subseteq Procs \X Keys
    /\ odb \in [RESTKeys -> Servers \cup {Nobody}]
    /\ deleted \subseteq Keys
    /\ client \in [WSXKeys -> Procs \cup {Nobody, Gone}]
    /\ disturbed \subseteq RESTKeys
    /\ raised \subseteq Keys
    /\ overtaken \in [Keys -> 0..MaxOvertaken]
    /\ edits \in 0..MaxMigrations
    /\ crashes \in 0..MaxCrashes

-----------------------------------------------------------------------------
(* Broker messages.  Those who are down do not get any, and those whose    *)
(* handler would return at once are left out.                              *)

Broadcast(boxes, msg, to) ==
    [q \in Procs |-> IF q \in to \cap up THEN Append(boxes[q], msg)
                     ELSE boxes[q]]

CreateMsg(k) == [type |-> "create", key |-> k]
SetMsg(k, p) == [type |-> "set", key |-> k, info |-> Info(p)]
RemoveMsg(k) == [type |-> "remove", key |-> k]
ChangeMsg(k, new) == [type |-> "change", key |-> k, new |-> new]
DeleteMsg(k) == [type |-> "delete", key |-> k]
StoppingMsg(k) == [type |-> "stopping", key |-> k]

\* on_broker_msg_PUBSUB_SUB_KEY_SERVER_SET applies what p announces if neither
\* the server nor the PID is its own.
Others(p) == {q \in Procs : ServerOf[q] # ServerOf[p] /\ Pid(q) # Pid(p)}

\* Mutant: handlers do not wait for the lock.
ReceivesAnyTime(p, type) ==
    /\ p \in up
    /\ inbox[p] # <<>>
    /\ Head(inbox[p]).type = type

Receives(p, type) ==
    /\ p \in up
    /\ ~Locked(p)
    /\ inbox[p] # <<>>
    /\ Head(inbox[p]).type = type

Received(p) == [inbox EXCEPT ![p] = Tail(@)]

\* The client spawns a greenlet for each message: one that waits for the lock
\* may be overtaken by the next one.
Overtake(p, i) ==
    LET k == inbox[p][i].key
        same == inbox[p][i + 1].key = k
    IN  /\ p \in up
        /\ i \in 1..(Len(inbox[p]) - 1)
        /\ same => /\ overtaken[k] < MaxOvertaken
                   /\ crashes + overtaken[k] < MaxTroubles
        /\ inbox' = [inbox EXCEPT ![p] = [@ EXCEPT ![i] = inbox[p][i + 1],
                                                  ![i + 1] = inbox[p][i]]]
        /\ overtaken' = IF same THEN [overtaken EXCEPT ![k] = @ + 1] ELSE overtaken
        /\ UNCHANGED <<procs, reg, look, moves, db, disturbed, raised, edits, crashes>>

-----------------------------------------------------------------------------
Init ==
    /\ up = Procs
    /\ boot = [p \in Procs |-> 0]
    /\ announced = {}
    /\ reg = [p \in Procs |-> [k \in Keys |-> Nobody]]
    /\ inbox = [p \in Procs |-> <<>>]
    /\ look = [p \in Procs |-> Idle]
    /\ migs = {}
    /\ tasks = {}
    /\ odb = [k \in RESTKeys |-> Nobody]
    /\ deleted = {}
    /\ client = [k \in WSXKeys |-> Nobody]
    /\ disturbed = {}
    /\ raised = {}
    /\ overtaken = [k \in Keys |-> 0]
    /\ edits = 0
    /\ crashes = 0

(* Subscriptions.                                                          *)

Subscribed ==
    {k \in RESTKeys : odb[k] # Nobody} \cup {k \in WSXKeys : client[k] # Nobody}

MaySubscribe == Cardinality(Subscribed) < MaxSubscriptions

\* SubscribeServiceImpl._subscribe_impl: the row is committed, then all
\* workers are told.
Subscribe(k, s) ==
    /\ k \in RESTKeys
    /\ odb[k] = Nobody
    /\ MaySubscribe
    /\ odb' = [odb EXCEPT ![k] = s]
    /\ inbox' = Broadcast(inbox, CreateMsg(k), Workers(s))
    /\ UNCHANGED <<procs, reg, look, moves, deleted, client, aux>>

\* Mutant: the process of the task does not register it.
CreateUnregistered(p, k, boxes) ==
    /\ tasks' = tasks \cup {<<p, k>>}
    /\ reg' = reg
    /\ inbox' = Broadcast(boxes, SetMsg(k, p), Others(p))

\* CreateDeliveryTask in process p; boxes are the messages still to arrive.
CreateDeliveryTask(p, k, boxes) ==
    /\ tasks' = tasks \cup {<<p, k>>}
    /\ reg' = [reg EXCEPT ![p][k] = Info(p)]
    /\ inbox' = Broadcast(boxes, SetMsg(k, p), Others(p))

\* get_pubsub_pid gives up waiting for the first worker, which is stuck.
TimedOut(p) ==
    /\ p \notin First
    /\ ServerOf[p] \notin announced
    /\ \A f \in First : ServerOf[f] = ServerOf[p] => f \notin up \/ Locked(f)

\* create_subscription: the first worker of the delivery server starts the
\* task; the other ones wait until they know its PID from shared memory.
CreateSubscription(p) ==
    /\ Receives(p, "create")
    /\ LET k == Head(inbox[p]).key
       IN  \/ /\ p \in First
              /\ announced' = announced \cup {ServerOf[p]}
              /\ CreateDeliveryTask(p, k, Received(p))
           \/ /\ p \notin First
              /\ ServerOf[p] \in announced
              /\ \E f \in First : /\ ServerOf[f] = ServerOf[p]
                                  /\ reg' = [reg EXCEPT ![p][k] = Info(f)]
              /\ inbox' = Received(p)
              /\ UNCHANGED <<announced, tasks>>
           \/ /\ TimedOut(p)
              /\ inbox' = Received(p)
              /\ UNCHANGED <<announced, reg, tasks>>
    /\ UNCHANGED <<up, boot, look, migs, db, aux>>

\* Sub_keys that a process is down for, news are under way or a migration.
Unsettled ==
    {k \in RESTKeys : \/ up # Procs
                      \/ \E m \in migs : m.key = k
                      \/ \E p \in Procs : \E i \in 1..Len(inbox[p]) :
                            inbox[p][i].key = k}

\* DeleteEndpointQueue: the row is deleted, then all workers are told.
DeleteSubscription(k) ==
    /\ k \in Subscribed \ deleted
    /\ deleted' = deleted \cup {k}
    /\ inbox' = Broadcast(inbox, DeleteMsg(k), Procs)
    /\ disturbed' = disturbed \cup ({k} \cap Unsettled)
    /\ UNCHANGED <<procs, reg, look, moves, odb, client, raised, overtaken, edits, crashes>>

\* PubSub.unsubscribe clears the in-RAM backlog of this process first, which
\* raises KeyError if several messages of the sub_key are parked there, and
\* nothing else is done.  Otherwise it stops the task where sub_key_servers says
\* it is ours, and leaves sub_key_servers as it is.
Unsubscribe(p) ==
    /\ Receives(p, "delete")
    /\ LET k == Head(inbox[p]).key
       IN  \/ /\ tasks' = IF reg[p][k] = Info(p) THEN tasks \ {<<p, k>>} ELSE tasks
              /\ raised' = raised
           \/ /\ raised' = raised \cup {k}
              /\ tasks' = tasks
    /\ inbox' = Received(p)
    /\ UNCHANGED <<procs, reg, look, migs, db, disturbed, overtaken, edits, crashes>>

\* add_ws_client_pubsub_keys, in the process that the WebSocket is connected to.
SubscribeWSX(p, k) ==
    /\ p \in up
    /\ k \in WSXKeys
    /\ client[k] = Nobody
    /\ MaySubscribe
    /\ client' = [client EXCEPT ![k] = p]
    /\ tasks' = tasks \cup {<<p, k>>}
    /\ inbox' = Broadcast(inbox, SetMsg(k, p), Others(p))
    /\ UNCHANGED <<procs, reg, look, migs, odb, deleted, aux>>

-----------------------------------------------------------------------------
(* Handlers of broker messages.                                            *)

\* on_broker_msg_PUBSUB_SUB_KEY_SERVER_SET
SubKeyServerSet(p) ==
    /\ Receives(p, "set")
    /\ LET msg == Head(inbox[p])
       IN  reg' = [reg EXCEPT ![p][msg.key] = msg.info]
    /\ inbox' = Received(p)
    /\ UNCHANGED <<procs, look, moves, db, aux>>

\* Mutant: the sub_key is popped only if it is handled by this very server.
RemoveOwn(p) ==
    /\ Receives(p, "remove")
    /\ LET k == Head(inbox[p]).key
       IN  reg' = IF reg[p][k] # Nobody /\ reg[p][k].server = ServerOf[p]
                  THEN [reg EXCEPT ![p][k] = Nobody]
                  ELSE reg
    /\ inbox' = Received(p)
    /\ UNCHANGED <<procs, look, moves, db, aux>>

\* remove_ws_sub_key_server pops the sub_key, whatever it stands for.
WSXClientSubKeyServerRemove(p) ==
    /\ Receives(p, "remove")
    /\ reg' = [reg EXCEPT ![p][Head(inbox[p]).key] = Nobody]
    /\ inbox' = Received(p)
    /\ UNCHANGED <<procs, look, moves, db, aux>>

\* on_broker_msg_PUBSUB_DELIVERY_SERVER_CHANGE: the process that has the task
\* starts to migrate it.  The others ignore the message, or fail with KeyError.
DeliveryServerChange(p) ==
    /\ Receives(p, "change")
    /\ LET msg == Head(inbox[p])
           mine == /\ reg[p][msg.key] # Nobody
                   /\ reg[p][msg.key].pid = Pid(p)
                   /\ <<p, msg.key>> \in tasks
       IN  migs' = IF mine
                   THEN migs \cup {[at |-> p, key |-> msg.key, new |-> msg.new,
                                    todo |-> up, failed |-> {},
                                    stage |-> "notify"]}
                   ELSE migs
    /\ inbox' = Received(p)
    /\ UNCHANGED <<procs, reg, look, tasks, db, aux>>

\* NotifyDeliveryTaskStopping that had to wait for the lock: by now nobody
\* waits for its answer.
LateStopping(p) ==
    /\ Receives(p, "stopping")
    /\ reg' = [reg EXCEPT ![p][Head(inbox[p]).key] = Nobody]
    /\ inbox' = Received(p)
    /\ UNCHANGED <<procs, look, moves, db, aux>>

\* WebSocket.unregister_auth_client
DisconnectWSX(k) ==
    /\ k \in WSXKeys
    /\ client[k] \in up
    /\ inbox' = Broadcast(inbox, RemoveMsg(k), Procs)
    /\ tasks' = tasks \ {<<client[k], k>>}
    /\ client' = [client EXCEPT ![k] = Gone]
    /\ UNCHANGED <<procs, reg, look, migs, odb, deleted, aux>>

-----------------------------------------------------------------------------
(* Lookups: get_task_servers_by_sub_keys of a sub_key that is missing.     *)

\* The process knows of the subscription.
Knows(p, k) == CreateMsg(k) \notin Range(inbox[p])

\* add_missing_server_for_sub_key: any worker of the server may take the call.
\* Keys of WebSockets have no server in ODB: they stay missing.
LookUp(p, k) ==
    /\ p \in up
    /\ ~Locked(p)
    /\ k \in RESTKeys
    /\ Knows(p, k)
    /\ reg[p][k] = Nobody
    /\ odb[k] # Nobody
    /\ k \notin deleted
    /\ \E c \in Workers(odb[k]) :
          look' = [look EXCEPT ![p] = [key |-> k, server |-> odb[k], at |-> c,
                                       answer |-> NoPid]]
    /\ UNCHANGED <<procs, reg, inbox, moves, db, aux>>

\* Mutant: the whole of the information is returned instead of the PID.
GetServer(p) ==
    LET l == look[p]
    IN  /\ Locked(p)
        /\ l.at \in up
        /\ ~Locked(l.at)
        /\ look' = [look EXCEPT ![p].answer = reg[l.at][l.key],
                                ![p].at = Nobody]
        /\ UNCHANGED <<procs, reg, inbox, moves, db, aux>>

\* GetServerPIDForSubKey in process c, which needs the lock of that process.
GetServerPID(p) ==
    LET l == look[p]
        info == reg[l.at][l.key]
    IN  /\ Locked(p)
        /\ l.at \in up
        /\ ~Locked(l.at)
        /\ look' = [look EXCEPT ![p].answer =
                       IF info = Nobody THEN NoPid ELSE info.pid,
                    ![p].at = Nobody]
        /\ UNCHANGED <<procs, reg, inbox, moves, db, aux>>

\* The answer, or None in place of it, is registered with the name from ODB.
SetMissing(p) ==
    /\ Locked(p)
    /\ look[p].at \notin up
    /\ reg' = [reg EXCEPT ![p][look[p].key] =
                  [server |-> look[p].server, pid |-> look[p].answer]]
    /\ look' = [look EXCEPT ![p] = Idle]
    /\ UNCHANGED <<procs, inbox, moves, db, aux>>

-----------------------------------------------------------------------------
(* Migration.                                                              *)

\* UpdateEndpointQueue: ODB is changed first, then all workers are told.
ChangeServer(k, s) ==
    /\ k \in RESTKeys
    /\ odb[k] \in Servers \ {s}
    /\ k \notin deleted
    /\ edits < MaxMigrations
    /\ edits' = edits + 1
    /\ odb' = [odb EXCEPT ![k] = s]
    /\ inbox' = Broadcast(inbox, ChangeMsg(k, s), Workers(odb[k]))
    /\ disturbed' = disturbed \cup ({k} \cap Unsettled)
    /\ UNCHANGED <<procs, reg, look, moves, deleted, client, raised, overtaken, crashes>>

Becomes(m, n) == migs' = (migs \ {m}) \cup {n}

\* invoke_all: NotifyDeliveryTaskStopping in one process after another.  It
\* fails with KeyError where the sub_key is missing, and by timeout where the
\* lock is taken, but then it is carried out later on.
NotifyStopping(m, q) ==
    /\ m.stage = "notify"
    /\ q \in m.todo \cap up
    /\ LET known == reg[q][m.key] # Nobody
           ok == known /\ ~Locked(q)
       IN  /\ Becomes(m, [m EXCEPT !.todo = @ \ {q},
                                   !.failed = IF ok THEN @ ELSE @ \cup {q}])
           /\ reg' = IF ok THEN [reg EXCEPT ![q][m.key] = Nobody] ELSE reg
           /\ inbox' = IF Locked(q)
                       THEN [inbox EXCEPT ![q] = <<StoppingMsg(m.key)>> \o @]
                       ELSE inbox
           /\ disturbed' = IF ok THEN disturbed ELSE disturbed \cup {m.key}
    /\ UNCHANGED <<procs, look, tasks, db, raised, overtaken, edits, crashes>>

Notified(m) == m.stage = "notify" /\ m.todo \cap up = {}

\* Of the answers of a server one is looked at, and it may be any of them.
GiveUp(m) ==
    /\ Notified(m)
    /\ m.failed # {}
    /\ migs' = migs \ {m}
    /\ UNCHANGED <<procs, reg, inbox, look, tasks, db, aux>>

\* Mutant: the task goes on running.
LeaveTask(m) ==
    /\ Notified(m)
    /\ Becomes(m, [m EXCEPT !.stage = "start"])
    /\ UNCHANGED <<procs, reg, inbox, look, tasks, db, aux>>

\* task.stop, task.clear and remove_sub_key
StopTask(m) ==
    /\ Notified(m)
    /\ \A s \in {ServerOf[p] : p \in up} : ~(Workers(s) \subseteq m.failed)
    /\ tasks' = tasks \ {<<m.at, m.key>>}
    /\ Becomes(m, [m EXCEPT !.stage = "start"])
    /\ UNCHANGED <<procs, reg, inbox, look, db, aux>>

\* CreateDeliveryTask is invoked in any of the workers of the new server.
StartTask(m, q) ==
    /\ m.stage = "start"
    /\ q \in Workers(m.new) \cap up
    /\ ~Locked(q)
    /\ CreateDeliveryTask(q, m.key, inbox)
    /\ migs' = migs \ {m}
    /\ UNCHANGED <<procs, look, db, aux>>

StartFailed(m) ==
    /\ m.stage = "start"
    /\ Workers(m.new) \cap up = {}
    /\ migs' = migs \ {m}
    /\ UNCHANGED <<procs, reg, inbox, look, tasks, db, aux>>

-----------------------------------------------------------------------------
(* Crashes and restarts of servers.                                        *)

Crash(s) ==
    /\ crashes < MaxCrashes
    /\ \A k \in Keys : crashes + overtaken[k] < MaxTroubles
    /\ Workers(s) \subseteq up
    /\ crashes' = crashes + 1
    /\ up' = up \ Workers(s)
    /\ announced' = announced \ {s}
    /\ reg' = [p \in Procs |-> IF p \in Workers(s) THEN [k \in Keys |-> Nobody]
                               ELSE reg[p]]
    /\ inbox' = [p \in Procs |-> IF p \in Workers(s) THEN <<>> ELSE inbox[p]]
    /\ look' = [p \in Procs |-> IF p \in Workers(s) THEN Idle ELSE look[p]]
    /\ migs' = {m \in migs : m.at \notin Workers(s)}
    /\ tasks' = {t \in tasks : t[1] \notin Workers(s)}
    /\ client' = [k \in WSXKeys |-> IF client[k] \in Workers(s) THEN Gone
                                    ELSE client[k]]
    /\ disturbed' = disturbed \cup Unsettled
    /\ UNCHANGED <<boot, odb, deleted, raised, overtaken, edits>>

\* init_pubsub of one worker of the server: create_subscription for each
\* subscription in ODB.
Boot(p) ==
    /\ p \notin up
    /\ up' = up \cup {p}
    /\ boot' = [boot EXCEPT ![p] = @ + 1]
    /\ inbox' = [inbox EXCEPT ![p] = SetToSeq({CreateMsg(k) :
                       k \in {x \in RESTKeys \ deleted : odb[x] = ServerOf[p]}})]
    /\ UNCHANGED <<announced, reg, look, moves, db, aux>>

-----------------------------------------------------------------------------
Handle(p) ==
    \/ CreateSubscription(p)
    \/ Unsubscribe(p)
    \/ SubKeyServerSet(p)
    \/ WSXClientSubKeyServerRemove(p)
    \/ DeliveryServerChange(p)
    \/ LateStopping(p)

Lookup(p) == GetServerPID(p) \/ SetMissing(p)

Migration(m) ==
    \/ \E q \in Procs : NotifyStopping(m, q) \/ StartTask(m, q)
    \/ GiveUp(m)
    \/ StopTask(m)
    \/ StartFailed(m)

Next ==
    \/ \E k \in RESTKeys, s \in Servers : Subscribe(k, s) \/ ChangeServer(k, s)
    \/ \E p \in Procs, k \in Keys : SubscribeWSX(p, k) \/ LookUp(p, k)
    \/ \E k \in Keys : DisconnectWSX(k) \/ DeleteSubscription(k)
    \/ \E p \in Procs : Handle(p) \/ Lookup(p) \/ Boot(p)
    \/ \E p \in Procs : \E i \in 1..Len(inbox[p]) : Overtake(p, i)
    \/ \E m \in migs : Migration(m)
    \/ \E s \in Servers : Crash(s)

Spec == Init /\ [][Next]_vars

-----------------------------------------------------------------------------
(* Properties.                                                             *)

\* Everybody runs, and there is nothing left to be handled.
Quiet ==
    /\ up = Procs
    /\ \A p \in Procs : inbox[p] = <<>> /\ ~Locked(p)
    /\ migs = {}

\* Once all is quiet, those who have listened all along, and who apply what the
\* process of a task announces, know that process, for each sub_key that was not
\* disturbed: a lookup never overwrites what was announced while it waited for
\* its answer, and nothing of what was announced before a migration comes back.
Converged ==
    Quiet => \A t \in tasks : t[2] \notin disturbed =>
        \A p \in Others(t[1]) : boot[p] = 0 => reg[p][t[2]] = Info(t[1])

\* Once all is quiet, nobody takes a WebSocket that has disconnected for one
\* that is connected to a process that is still there, unless the news of its
\* connection was overtaken by those of its end.
Forgotten ==
    Quiet => \A k \in WSXKeys : client[k] = Gone /\ overtaken[k] = 0 =>
        \A p \in Procs : reg[p][k] \notin {Info(q) : q \in Procs}

\* PubSub.unsubscribe "Find and stop all delivery tasks if we are the server that
\* handles them": once all is quiet, no task runs for a sub_key of a REST endpoint
\* whose subscription was deleted, that was not disturbed, and for which
\* unsubscribe did not raise in any process.  The task is stopped by the one
\* process that it has started in or has migrated to, which knows that it is its
\* own.
Stopped ==
    Quiet => \A t \in tasks : t[2] \in RESTKeys \ (disturbed \cup raised) =>
        t[2] \notin deleted

\* A sub_key that was not disturbed has one task in one process, also during a
\* migration.
OneTask ==
    \A t, u \in tasks : t[2] = u[2] /\ t[2] \notin disturbed => t = u

\* Each handler runs once it can, calls are made and answered, and a migration
\* goes on.
FairSpec ==
    /\ Spec
    /\ \A p \in Procs : WF_vars(Handle(p)) /\ WF_vars(Lookup(p))
    /\ WF_vars(\E m \in migs : Migration(m))

\* get_server_pid_for_sub_key "Returns that PID or None if the information
\* could not be obtained": every lookup ends, and the lock it holds is released.
LookupEnds == \A p \in Procs : Locked(p) ~> ~Locked(p)
=============================================================================
