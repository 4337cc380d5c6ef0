-------------------------------- MODULE MDP --------------------------------
(***************************************************************************)
(* The Majordomo broker of zato-zmq: services with their pending requests, *)
(* a pool of internal workers that invoke Zato services, and workers that  *)
(* connect over ZeroMQ, send heartbeats, expire, reconnect and go away.    *)
(*                                                                         *)
(* Each message is handled in a greenlet of its own.  Of all that it does  *)
(* only the invocation of a service lets other greenlets run: turn says    *)
(* which one is running, and it runs until it invokes a service or ends,   *)
(* which it also does with an exception.  Sending does not wait: a ROUTER  *)
(* socket drops what it cannot deliver.                                    *)
(***************************************************************************)
EXTENDS Naturals, Sequences, FiniteSets, SequencesExt, Lists

CONSTANTS
    DictOrder,   \* the services, in the order in which a dictionary has them
    Requests,    \* requests of clients
    For,         \* request -> the service it asks for
    Connections, \* connections of ZeroMQ workers, each with an identity
    Serves,      \* connection -> the service its worker is for
    PoolInitial, PoolMult, PoolMax, \* workers_pool_initial, _mult and _max
    Nobody,      \* no greenlet, no request
    MaxFaults    \* bound: expirations, lost connections, failing services

Services == Range(DictOrder)

\* The first workers of a pool are not held against its limit.
PoolLimit == IF PoolInitial > PoolMax THEN PoolInitial ELSE PoolMax

\* Internal workers of a service are numbered as they are created.
Internal == Services \X (1..PoolLimit)

\* What a greenlet that is running is at.
Turns == [service : Services, at : {"dispatch", "loop"}]

ASSUME MDPAssumption ==
    /\ For \in [Requests -> Services]
    /\ Serves \in [Connections -> Services]
    /\ Connections \cap Internal = {}
    /\ Nobody \notin Requests \cup Turns
    /\ {PoolInitial, PoolMax} \subseteq Nat \ {0}
    /\ PoolMult \in Nat
    /\ MaxFaults \in Nat

VARIABLES
    known,      \* keys of Broker.services
    pending,    \* service -> pending_requests
    idle,       \* service -> Service.workers
    size,       \* service -> len_current_workers, 0 until it has been initialized
    workers,    \* keys of Broker.workers
    expired,    \* those of them whose expires_at has come
    turn,       \* the greenlet that is running
    invoking,   \* greenlets that wait for a service: its request and worker
    clients,    \* requests on their way to the broker
    state,      \* connection -> what its worker does
    toBroker,   \* connection -> what it has sent
    toWorker,   \* connection -> the request on its way to it, or being handled
    done,       \* history: request -> how many times it was handled
    tripped,    \* history: services a dispatch of which ended with an exception
    faults      \* expirations, lost connections and failures so far

tables  == <<known, pending, idle, size, workers, expired>>
network == <<clients, state, toBroker, toWorker>>
history == <<done, tripped, faults>>
vars    == <<tables, turn, invoking, network, history>>

-----------------------------------------------------------------------------

\* Where list l has elements of X, and what is left of it without them.
Positions(l, X) == {i \in 1..Len(l) : l[i] \in X}
Remaining(l, X) == Sublist(l, (1..Len(l)) \ Positions(l, X))

ServiceOf(w) == IF w \in Connections THEN Serves[w] ELSE w[1]

TypeOK ==
    /\ known \subseteq Services
    /\ pending \in [Services -> Seq(Requests)]
    /\ idle \in [Services -> Seq(Internal \cup Connections)]
    /\ size \in [Services -> 0..PoolLimit]
    /\ expired \subseteq workers
    /\ workers \subseteq Internal \cup Connections
    /\ \A s \in Services \ known : pending[s] = <<>> /\ idle[s] = <<>>
    /\ \A w \in workers : Cardinality(Positions(idle[ServiceOf(w)], {w})) = 1
    /\ turn = Nobody \/ (turn \in Turns /\ turn.service \in known)
    /\ invoking \subseteq [req : Requests, worker : Internal]
    /\ clients \subseteq Requests
    /\ state \in [Connections -> {"new", "up", "closed"}]
    /\ toWorker \in [Connections -> Requests \cup {Nobody}]
    /\ tripped \subseteq Services

Init ==
    /\ known = {} /\ workers = {} /\ expired = {}
    /\ pending = [s \in Services |-> <<>>]
    /\ idle = [s \in Services |-> <<>>]
    /\ size = [s \in Services |-> 0]
    /\ turn = Nobody
    /\ invoking = {}
    /\ clients = Requests
    /\ state = [c \in Connections |-> "new"]
    /\ toBroker = [c \in Connections |-> <<>>]
    /\ toWorker = [c \in Connections |-> Nobody]
    /\ done = [r \in Requests |-> 0] /\ tripped = {} /\ faults = 0

Fault == faults < MaxFaults /\ faults' = faults + 1

-----------------------------------------------------------------------------
(* Expired workers.                                                        *)

\* Known services in the order of the dictionary.
InOrder == SelectSeq(DictOrder, LAMBDA s : s \in known)

\* With several services the first one that does not list the worker raises
\* ValueError.  What comes before it in the dictionary has been cleaned up.
CleanedUp(w) == IF Head(InOrder) = ServiceOf(w)
                THEN [idle EXCEPT ![ServiceOf(w)] = Remaining(@, {w})]
                ELSE idle

\* cleanup_workers goes through.
CleanupAll ==
    /\ expired = {} \/ Cardinality(known) = 1
    /\ workers' = workers \ expired
    /\ expired' = {}
    /\ idle' = [s \in Services |-> Remaining(idle[s], expired)]

\* cleanup_workers raises at the first expired worker.
CleanupRaises ==
    /\ expired # {} /\ Cardinality(known) > 1
    /\ \E w \in expired : /\ workers' = workers \ {w}
                          /\ expired' = expired \ {w}
                          /\ idle' = CleanedUp(w)

\* send_heartbeats, in each iteration of the main loop.
SendHeartbeats ==
    /\ turn = Nobody
    /\ expired # {}
    /\ CleanupAll \/ CleanupRaises
    /\ UNCHANGED <<known, pending, size, turn, invoking, network, history>>

\* No heartbeat of a worker was received in time.  Internal workers live for a
\* hundred years.
Expire(w) ==
    /\ w \in (workers \cap Connections) \ expired
    /\ turn = Nobody
    /\ Fault
    /\ expired' = expired \cup {w}
    /\ UNCHANGED <<known, pending, idle, size, workers, turn, invoking, network, done,
                   tripped>>

-----------------------------------------------------------------------------
(* Dispatching of requests.                                                *)

\* add_workers: the pool grows by a factor, up to its limit.
Grown(s) == LET n == size[s] + size[s] * PoolMult
            IN  IF size[s] = 0 THEN PoolInitial
                ELSE IF n > PoolMax THEN PoolMax ELSE n

Added(s) == [k \in 1..(Grown(s) - size[s]) |-> <<s, size[s] + k>>]

HasMaxWorkers(s) == size[s] >= PoolMax

Continue(at) == turn' = [turn EXCEPT !.at = at]

\* dispatch_requests, until its loop.
Dispatch ==
    LET s == turn.service
    IN  /\ turn # Nobody /\ turn.at = "dispatch"
        /\ \/ /\ CleanupRaises
              /\ turn' = Nobody
              /\ tripped' = tripped \cup {s}
              /\ UNCHANGED size
           \/ /\ expired = {} \/ Cardinality(known) = 1
              /\ expired' = {}
              /\ LET left == Remaining(idle[s], expired)
                 IN  \/ /\ left # <<>>
                        /\ idle' = [idle EXCEPT ![s] = left]
                        /\ workers' = workers \ expired
                        /\ Continue("loop")
                        /\ UNCHANGED size
                     \/ /\ left = <<>> /\ HasMaxWorkers(s)
                        /\ idle' = [idle EXCEPT ![s] = left]
                        /\ workers' = workers \ expired
                        /\ turn' = Nobody
                        /\ UNCHANGED size
                     \/ /\ left = <<>> /\ ~HasMaxWorkers(s)
                        /\ idle' = [idle EXCEPT ![s] = Added(s)]
                        /\ workers' = (workers \ expired) \cup Range(Added(s))
                        /\ size' = [size EXCEPT ![s] = Grown(s)]
                        /\ Continue("loop")
              /\ UNCHANGED tripped
        /\ UNCHANGED <<known, pending, invoking, network, done, faults>>

\* Mutant: a request stays in the list while its service is being invoked.
DispatchPeek ==
    LET s == turn.service
        r == Head(pending[s])
        w == Head(idle[s])
    IN  /\ turn # Nobody /\ turn.at = "loop"
        /\ pending[s] # <<>> /\ idle[s] # <<>>
        /\ w \in workers \cap Internal
        /\ idle' = [idle EXCEPT ![s] = Tail(@)]
        /\ workers' = workers \ {w}
        /\ invoking' = invoking \cup {[req |-> r, worker |-> w]}
        /\ turn' = Nobody
        /\ UNCHANGED <<known, pending, size, expired, network, history>>

\* One pass of its loop.  A worker that is listed and does not exist raises
\* KeyError, and the request, already taken, is gone.
DispatchOne ==
    LET s == turn.service
        r == Head(pending[s])
        w == Head(idle[s])
    IN  /\ turn # Nobody /\ turn.at = "loop"
        /\ pending[s] # <<>> /\ idle[s] # <<>>
        /\ pending' = [pending EXCEPT ![s] = Tail(@)]
        /\ idle' = [idle EXCEPT ![s] = Tail(@)]
        /\ workers' = workers \ {w}
        /\ expired' = expired \ {w}
        /\ \/ /\ w \notin workers
              /\ turn' = Nobody
              /\ tripped' = tripped \cup {s}
              /\ UNCHANGED <<invoking, toWorker>>
           \/ /\ w \in workers \cap Internal
              /\ invoking' = invoking \cup {[req |-> r, worker |-> w]}
              /\ turn' = Nobody
              /\ UNCHANGED <<toWorker, tripped>>
           \/ /\ w \in workers \cap Connections
              /\ toWorker' = IF state[w] = "up" THEN [toWorker EXCEPT ![w] = r]
                             ELSE toWorker
              /\ UNCHANGED <<turn, invoking, tripped>>
        /\ UNCHANGED <<known, size, clients, state, toBroker, done, faults>>

DispatchEnd ==
    /\ turn # Nobody /\ turn.at = "loop"
    /\ pending[turn.service] = <<>> \/ idle[turn.service] = <<>>
    /\ turn' = Nobody
    /\ UNCHANGED <<tables, invoking, network, history>>

-----------------------------------------------------------------------------
(* Messages to the broker.                                                 *)

Dispatching(s) == turn' = [service |-> s, at |-> "dispatch"]

HandleClientMessage(r) ==
    LET s == For[r]
    IN  /\ turn = Nobody
        /\ r \in clients
        /\ clients' = clients \ {r}
        /\ known' = known \cup {s}
        /\ pending' = [pending EXCEPT ![s] = Append(@, r)]
        /\ Dispatching(s)
        /\ UNCHANGED <<idle, size, workers, expired, invoking, state, toBroker,
                       toWorker, history>>

Received(c, event) ==
    /\ turn = Nobody
    /\ toBroker[c] # <<>> /\ Head(toBroker[c]) = event
    /\ toBroker' = [toBroker EXCEPT ![c] = Tail(@)]

OnEventReady(c) ==
    /\ Received(c, "ready")
    /\ known' = known \cup {Serves[c]}
    /\ workers' = workers \cup {c}
    /\ idle' = [idle EXCEPT ![Serves[c]] = Append(@, c)]
    /\ Dispatching(Serves[c])
    /\ UNCHANGED <<pending, size, expired, invoking, clients, state, toWorker, history>>

\* The reply is passed on to the client.
OnEventReply(c) ==
    /\ Received(c, "reply")
    /\ UNCHANGED <<tables, turn, invoking, clients, state, toWorker, history>>

OnEventHeartbeat(c) ==
    /\ Received(c, "heartbeat")
    /\ expired' = expired \ {c}
    /\ UNCHANGED <<known, pending, idle, size, workers, turn, invoking, clients, state,
                   toWorker, history>>

OnEventDisconnect(c) ==
    /\ Received(c, "disconnect")
    /\ workers' = workers \ {c}
    /\ expired' = expired \ {c}
    /\ idle' = [s \in Services |-> Remaining(idle[s], {c})]
    /\ UNCHANGED <<known, pending, size, turn, invoking, clients, state, toWorker,
                   history>>

\* Mutant: a worker whose service fails is not put back.
InvokedNoFinally(x, ok) ==
    LET s == x.worker[1]
    IN  /\ turn = Nobody
        /\ x \in invoking
        /\ invoking' = invoking \ {x}
        /\ workers' = IF ok THEN workers \cup {x.worker} ELSE workers
        /\ idle' = IF ok THEN [idle EXCEPT ![s] = Append(@, x.worker)] ELSE idle
        /\ done' = [done EXCEPT ![x.req] = @ + 1]
        /\ turn' = IF ok THEN [service |-> s, at |-> "loop"] ELSE turn
        /\ UNCHANGED <<known, pending, size, expired, network, tripped, faults>>

\* Mutant: a greenlet ends after its own request.
InvokedOnce(x, ok) ==
    LET s == x.worker[1]
    IN  /\ turn = Nobody
        /\ x \in invoking
        /\ invoking' = invoking \ {x}
        /\ workers' = workers \cup {x.worker}
        /\ idle' = [idle EXCEPT ![s] = Append(@, x.worker)]
        /\ done' = [done EXCEPT ![x.req] = @ + 1]
        /\ UNCHANGED <<known, pending, size, expired, turn, network, tripped, faults>>

\* send_to_worker_zato: the service is over, and its worker back in the pool.
\* After an exception the greenlet does not go on with other requests.
Invoked(x, ok) ==
    LET s == x.worker[1]
    IN  /\ turn = Nobody
        /\ x \in invoking
        /\ invoking' = invoking \ {x}
        /\ workers' = workers \cup {x.worker}
        /\ idle' = [idle EXCEPT ![s] = Append(@, x.worker)]
        /\ done' = [done EXCEPT ![x.req] = @ + 1]
        /\ \/ /\ ok
              /\ turn' = [service |-> s, at |-> "loop"]
              /\ UNCHANGED <<tripped, faults>>
           \/ /\ ~ok /\ Fault
              /\ tripped' = tripped \cup {s}
              /\ UNCHANGED turn
        /\ UNCHANGED <<known, pending, size, expired, network>>

-----------------------------------------------------------------------------
(* ZeroMQ workers.                                                         *)

Say(c, events) == toBroker' = [toBroker EXCEPT ![c] = @ \o events]

Connect(c) ==
    /\ turn = Nobody
    /\ state[c] = "new"
    /\ state' = [state EXCEPT ![c] = "up"]
    /\ Say(c, <<"ready">>)
    /\ UNCHANGED <<tables, turn, invoking, clients, toWorker, history>>

\* Mutant: the worker says that it is ready before it has handled the request.
ReadyTwice(c) ==
    /\ turn = Nobody
    /\ state[c] = "up" /\ toWorker[c] # Nobody
    /\ done' = [done EXCEPT ![toWorker[c]] = @ + 1]
    /\ toWorker' = [toWorker EXCEPT ![c] = Nobody]
    /\ Say(c, <<"ready", "reply", "ready">>)
    /\ UNCHANGED <<tables, turn, invoking, clients, state, tripped, faults>>

HandleRequest(c) ==
    /\ turn = Nobody
    /\ state[c] = "up" /\ toWorker[c] # Nobody
    /\ done' = [done EXCEPT ![toWorker[c]] = @ + 1]
    /\ toWorker' = [toWorker EXCEPT ![c] = Nobody]
    /\ Say(c, <<"reply", "ready">>)
    /\ UNCHANGED <<tables, turn, invoking, clients, state, tripped, faults>>

\* A heartbeat matters to the broker only if it comes late.
NotifyHeartbeat(c) ==
    /\ turn = Nobody
    /\ state[c] = "up" /\ toBroker[c] = <<>>
    /\ c \in expired
    /\ Say(c, <<"heartbeat">>)
    /\ UNCHANGED <<tables, turn, invoking, clients, state, toWorker, history>>

NotifyDisconnect(c) ==
    /\ turn = Nobody
    /\ state[c] = "up" /\ toWorker[c] = Nobody
    /\ Fault
    /\ state' = [state EXCEPT ![c] = "closed"]
    /\ Say(c, <<"disconnect">>)
    /\ UNCHANGED <<tables, turn, invoking, clients, toWorker, done, tripped>>

\* A crash, or a reconnection, which drops the old connection without a word.
Drop(c) ==
    /\ turn = Nobody
    /\ state[c] = "up"
    /\ Fault
    /\ state' = [state EXCEPT ![c] = "closed"]
    /\ toWorker' = [toWorker EXCEPT ![c] = Nobody]
    /\ UNCHANGED <<tables, turn, invoking, clients, toBroker, done, tripped>>

-----------------------------------------------------------------------------
Next ==
    \/ SendHeartbeats \/ Dispatch \/ DispatchOne \/ DispatchEnd
    \/ \E r \in Requests : HandleClientMessage(r)
    \/ \E x \in invoking, ok \in BOOLEAN : Invoked(x, ok)
    \/ \E c \in Connections :
          \/ Expire(c) \/ OnEventReady(c) \/ OnEventReply(c) \/ OnEventHeartbeat(c)
          \/ OnEventDisconnect(c) \/ Connect(c) \/ HandleRequest(c)
          \/ NotifyHeartbeat(c) \/ NotifyDisconnect(c) \/ Drop(c)

Spec == Init /\ [][Next]_vars

-----------------------------------------------------------------------------
(* Properties.                                                             *)

InPool(s) == {w \in workers \cap Internal : w[1] = s}
Busy(s)   == {x \in invoking : x.worker[1] = s}

\* The pool of a service has as many internal workers as it was given: none is
\* ever lost, not even by a service that fails, and no two greenlets have the
\* same one (add_workers, send_to_worker_zato).
PoolKept ==
    \A s \in Services :
        /\ Cardinality(InPool(s)) + Cardinality(Busy(s)) = size[s]
        /\ \A x \in Busy(s) : x.worker \notin workers
        /\ \A x, y \in Busy(s) : x.worker = y.worker => x = y

\* A request waits only while an internal worker of its service is busy, whose
\* greenlet will find it in its loop: no wakeup is lost, although nothing but
\* greenlets that are about to end looks at pending_requests.  Excepted are
\* services a dispatch of which ended with an exception.
PickedUp ==
    turn = Nobody => \A s \in Services \ tripped : pending[s] # <<>> => Busy(s) # {}

\* No request is handled twice, whoever expires, reconnects or is late with a
\* heartbeat.
HandledOnce == \A r \in Requests : done[r] <= 1
============================================================================
