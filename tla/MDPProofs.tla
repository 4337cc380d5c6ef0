----------------------------- MODULE MDPProofs -----------------------------
(***************************************************************************)
(* Theorems about MDP, for any number of services, requests, connections,  *)
(* faults, and any sizes of pools.                                         *)
(***************************************************************************)
EXTENDS MDP, ListTheorems

-----------------------------------------------------------------------------
(* Lists.                                                                  *)

Kept(l, X) == (1..Len(l)) \ Positions(l, X)

\* Removing elements from a list leaves the others, each where it was.
LEMMA RemainingIsList ==
    ASSUME NEW S, NEW l \in Seq(S), NEW X
    PROVE  /\ Remaining(l, X) \in Seq(S)
           /\ Len(Remaining(l, X)) = Cardinality(Kept(l, X))
           /\ \A i \in Kept(l, X) : /\ Rank(Kept(l, X))[i] \in 1..Len(Remaining(l, X))
                                    /\ Remaining(l, X)[Rank(Kept(l, X))[i]] = l[i]
           /\ \A n \in 1..Len(Remaining(l, X)) :
                 \E i \in Kept(l, X) : n = Rank(Kept(l, X))[i] /\ Remaining(l, X)[n] = l[i]
<1>1. Kept(l, X) \in SUBSET (1..Len(l)) /\ Remaining(l, X) = Sublist(l, Kept(l, X))
  BY DEF Kept, Remaining
<1> DEFINE K == Kept(l, X)
<1> HIDE DEF K
<1>2. K \in SUBSET (1..Len(l)) /\ Remaining(l, X) = Sublist(l, K)
  BY <1>1 DEF K
<1>3. /\ Sublist(l, K) \in Seq(S)
      /\ Len(Sublist(l, K)) = Cardinality(K)
      /\ \A i \in K : Rank(K)[i] \in 1..Len(Sublist(l, K)) /\ Sublist(l, K)[Rank(K)[i]] = l[i]
      /\ \A n \in 1..Len(Sublist(l, K)) :
            \E i \in K : n = Rank(K)[i] /\ Sublist(l, K)[n] = l[i]
  BY <1>2, SublistIsList
<1> QED
  BY <1>2, <1>3, Zenon DEF K

-----------------------------------------------------------------------------
(* Types.                                                                  *)

\* Who may be in the list of a service.
Slots(s) == Connections \cup ({s} \X (1..PoolLimit))

Types ==
    /\ pending \in [Services -> Seq(Requests)]
    /\ idle \in [Services -> Seq(Internal \cup Connections)]
    /\ \A s \in Services : idle[s] \in Seq(Slots(s))
    /\ size \in [Services -> 0..PoolLimit]
    /\ workers \subseteq Internal \cup Connections
    /\ expired \subseteq Connections
    /\ turn \in Turns \cup {Nobody}
    /\ invoking \subseteq [req : Requests, worker : Internal]
    /\ clients \subseteq Requests
    /\ toWorker \in [Connections -> Requests \cup {Nobody}]
    /\ done \in [Requests -> Nat]

LEMMA Limit == /\ PoolLimit \in Nat \ {0}
               /\ PoolInitial <= PoolLimit /\ PoolMax <= PoolLimit
BY MDPAssumption DEF PoolLimit

\* Pools that may grow do, and no further than to workers_pool_max unless they
\* were given more workers from the start (add_workers).
LEMMA GrownPool ==
    ASSUME NEW s \in Services, size \in [Services -> 0..PoolLimit], size[s] < PoolMax
    PROVE  /\ Grown(s) \in 0..PoolLimit
           /\ size[s] <= Grown(s)
           /\ Grown(s) > 0
<1>1. size[s] \in Nat /\ size[s] < PoolMax
  BY Limit
<1>2. size[s] * PoolMult \in Nat
  BY <1>1, MDPAssumption
<1>3. size[s] + size[s] * PoolMult \in Nat /\ size[s] <= size[s] + size[s] * PoolMult
  BY <1>1, <1>2
<1> QED
  BY <1>1, <1>3, Limit, MDPAssumption DEF Grown

\* The workers that are added are the service's next ones.
LEMMA AddedWorkers ==
    ASSUME NEW s \in Services, size \in [Services -> 0..PoolLimit], size[s] < PoolMax
    PROVE  /\ Added(s) \in Seq(Slots(s))
           /\ Len(Added(s)) = Grown(s) - size[s]
           /\ Range(Added(s)) = {<<s, k>> : k \in (size[s] + 1)..Grown(s)}
           /\ \A w \in Range(Added(s)) : \E i \in 1..Len(Added(s)) : Added(s)[i] = w
<1> DEFINE n == Grown(s) - size[s]
           m == size[s]
<1>1. n \in Nat /\ m \in Nat /\ m + n = Grown(s) /\ m + n <= PoolLimit /\ PoolLimit \in Nat
  BY GrownPool, Limit
<1>2. Added(s) = [k \in 1..n |-> <<s, m + k>>]
  BY DEF Added
<1>3. \A k \in 1..n : <<s, m + k>> \in Slots(s)
  BY <1>1 DEF Slots
<1> HIDE DEF n, m
<1>4. Added(s) \in Seq(Slots(s)) /\ Len(Added(s)) = n /\ DOMAIN Added(s) = 1..n
  <2>1. Added(s) \in [1..n -> Slots(s)]
    BY <1>2, <1>3
  <2> QED
    BY <1>1, <2>1, FunctionIsList
<1>5. Range(Added(s)) = {<<s, m + k>> : k \in 1..n}
  BY <1>2 DEF Range
<1>6. {<<s, m + k>> : k \in 1..n} = {<<s, k>> : k \in (m + 1)..(m + n)}
  <2>1. \A k \in 1..n : m + k \in (m + 1)..(m + n)
    BY <1>1
  <2>2. \A k \in (m + 1)..(m + n) : k - m \in 1..n /\ k = m + (k - m)
    BY <1>1
  <2> QED
    BY <2>1, <2>2
<1>7. \A w \in Range(Added(s)) : \E i \in 1..Len(Added(s)) : Added(s)[i] = w
  BY <1>2, <1>4, <1>5
<1> QED
  BY <1>1, <1>4, <1>5, <1>6, <1>7 DEF n, m

LEMMA TypesInit == Init => Types
BY Limit, MDPAssumption DEF Init, Types, Slots

-----------------------------------------------------------------------------
(* What is done to lists of workers.                                       *)

\* List m is what is left of l without some connections.
Filtered(l, m) == m = l \/ \E X \in SUBSET Connections : m = Remaining(l, X)

\* Internal workers stay in the lists that connections are removed from.
LEMMA FilteredList ==
    ASSUME NEW S, NEW l \in Seq(S), NEW m, Filtered(l, m)
    PROVE  /\ m \in Seq(S)
           /\ \A w : In(w, l) /\ w \notin Connections => In(w, m)
<1>1. CASE m = l
  BY <1>1
<1>2. ASSUME NEW X \in SUBSET Connections, m = Remaining(l, X)
      PROVE  /\ m \in Seq(S)
             /\ \A w : In(w, l) /\ w \notin Connections => In(w, m)
  <2>1. /\ m \in Seq(S)
        /\ \A i \in Kept(l, X) : /\ Rank(Kept(l, X))[i] \in 1..Len(m)
                                 /\ m[Rank(Kept(l, X))[i]] = l[i]
    BY <1>2, RemainingIsList
  <2>2. \A i \in 1..Len(l) : l[i] \notin Connections => i \in Kept(l, X)
    BY DEF Kept, Positions
  <2>3. \A w : In(w, l) /\ w \notin Connections => In(w, m)
    BY <2>1, <2>2 DEF In
  <2> QED
    BY <2>1, <2>3
<1> QED
  BY <1>1, <1>2 DEF Filtered

\* The cleanup removes connections from lists, and from nowhere else.
LEMMA CleanupFilters ==
    ASSUME Types, CleanupAll \/ CleanupRaises
    PROVE  /\ idle' = [s \in Services |-> idle'[s]]
           /\ \A s \in Services : Filtered(idle[s], idle'[s])
           /\ workers' \subseteq workers
           /\ workers \ workers' \subseteq Connections
           /\ expired' \subseteq expired
<1>1. CASE CleanupAll
  BY <1>1 DEF CleanupAll, Filtered, Types
<1>2. CASE CleanupRaises
  <2>1. PICK w \in expired : /\ workers' = workers \ {w}
                             /\ expired' = expired \ {w}
                             /\ idle' = CleanedUp(w)
    BY <1>2 DEF CleanupRaises
  <2>2. {w} \in SUBSET Connections
    BY <2>1 DEF Types
  <2>3. CASE idle' = idle
    BY <2>1, <2>2, <2>3 DEF Types, Filtered
  <2>4. CASE idle' = [idle EXCEPT ![ServiceOf(w)] = Remaining(@, {w})]
    BY <2>1, <2>2, <2>4 DEF Types, Filtered
  <2> QED
    BY <2>1, <2>3, <2>4 DEF CleanedUp
<1> QED
  BY <1>1, <1>2

\* What a dispatch does before its loop.
LEMMA DispatchCases ==
    ASSUME Types, Dispatch
    PROVE  LET s == turn.service
           IN  /\ s \in Services
               /\ UNCHANGED <<known, pending, invoking, clients, state, toBroker, toWorker, done>>
               /\ \/ /\ CleanupRaises
                     /\ turn' = Nobody /\ tripped' = tripped \cup {s} /\ size' = size
                  \/ /\ Filtered(idle[s], Remaining(idle[s], expired))
                     /\ expired' = {}
                     /\ tripped' = tripped
                     /\ \/ /\ idle' = [idle EXCEPT ![s] = Remaining(idle[s], expired)]
                           /\ workers' = workers \ expired
                           /\ size' = size
                           /\ \/ /\ Remaining(idle[s], expired) # <<>>
                                 /\ turn' = [service |-> s, at |-> "loop"]
                              \/ /\ Remaining(idle[s], expired) = <<>>
                                 /\ size[s] >= PoolMax
                                 /\ turn' = Nobody
                        \/ /\ Remaining(idle[s], expired) = <<>>
                           /\ size[s] < PoolMax
                           /\ idle' = [idle EXCEPT ![s] = Added(s)]
                           /\ workers' = (workers \ expired) \cup Range(Added(s))
                           /\ size' = [size EXCEPT ![s] = Grown(s)]
                           /\ turn' = [service |-> s, at |-> "loop"]
<1> DEFINE s == turn.service
<1>1. turn \in Turns /\ s \in Services
  BY DEF Dispatch, Types, Turns
<1>2. [turn EXCEPT !.at = "loop"] = [service |-> s, at |-> "loop"]
  BY <1>1 DEF Turns
<1>3. Filtered(idle[s], Remaining(idle[s], expired))
  BY DEF Filtered, Types
<1>4. UNCHANGED <<known, pending, invoking, clients, state, toBroker, toWorker, done>>
  BY DEF Dispatch, network
<1>5. HasMaxWorkers(s) <=> ~(size[s] < PoolMax)
  BY <1>1, Limit, MDPAssumption DEF HasMaxWorkers, Types
<1>6. HasMaxWorkers(s) <=> size[s] >= PoolMax
  BY DEF HasMaxWorkers
<1> QED
  BY <1>1, <1>2, <1>3, <1>4, <1>5, <1>6 DEF Dispatch, Continue

-----------------------------------------------------------------------------
\* The types of the variables are kept by every step.
LEMMA TypesNext == Types /\ [Next]_vars => Types'
<1> SUFFICES ASSUME Types, [Next]_vars PROVE Types'
  OBVIOUS
<1>1. CASE UNCHANGED vars
  BY <1>1 DEF Types, vars, tables, network, history
<1>2. CASE SendHeartbeats
  <2>1. /\ idle' = [s \in Services |-> idle'[s]]
        /\ \A s \in Services : Filtered(idle[s], idle'[s])
        /\ workers' \subseteq workers
        /\ expired' \subseteq expired
    BY <1>2, CleanupFilters DEF SendHeartbeats
  <2>2. \A s \in Services : /\ idle'[s] \in Seq(Internal \cup Connections)
                            /\ idle'[s] \in Seq(Slots(s))
    BY <2>1, FilteredList DEF Types
  <2>3. UNCHANGED <<pending, size, turn, invoking, clients, toWorker, done>>
    BY <1>2 DEF SendHeartbeats, network, history
  <2>4. idle' \in [Services -> Seq(Internal \cup Connections)]
    BY <2>1, <2>2
  <2> QED
    BY <2>1, <2>2, <2>3, <2>4 DEF Types
<1>3. CASE Dispatch
  <2> DEFINE s == turn.service
  <2>1. s \in Services /\ UNCHANGED <<pending, invoking, clients, toWorker, done>>
    BY <1>3, DispatchCases
  <2>2. CASE CleanupRaises /\ turn' = Nobody /\ size' = size
    <3>1. /\ idle' = [t \in Services |-> idle'[t]]
          /\ \A t \in Services : Filtered(idle[t], idle'[t])
          /\ workers' \subseteq workers
          /\ expired' \subseteq expired
      BY <2>2, CleanupFilters
    <3>2. \A t \in Services : /\ idle'[t] \in Seq(Internal \cup Connections)
                              /\ idle'[t] \in Seq(Slots(t))
      BY <3>1, FilteredList DEF Types
    <3>3. idle' \in [Services -> Seq(Internal \cup Connections)]
      BY <3>1, <3>2
    <3> QED
      BY <2>1, <2>2, <3>1, <3>2, <3>3 DEF Types
  <2>3. CASE /\ Filtered(idle[s], Remaining(idle[s], expired))
             /\ expired' = {}
             /\ idle' = [idle EXCEPT ![s] = Remaining(idle[s], expired)]
             /\ workers' = workers \ expired
             /\ size' = size
             /\ turn' \in {Nobody, [service |-> s, at |-> "loop"]}
    <3>1. /\ Remaining(idle[s], expired) \in Seq(Internal \cup Connections)
          /\ Remaining(idle[s], expired) \in Seq(Slots(s))
      BY <2>1, <2>3, FilteredList DEF Types
    <3> QED
      BY <2>1, <2>3, <3>1 DEF Types, Turns
  <2>4. CASE /\ expired' = {}
             /\ size[s] < PoolMax /\ idle' = [idle EXCEPT ![s] = Added(s)]
             /\ workers' = (workers \ expired) \cup Range(Added(s))
             /\ size' = [size EXCEPT ![s] = Grown(s)]
             /\ turn' = [service |-> s, at |-> "loop"]
    <3>1. size \in [Services -> 0..PoolLimit]
      BY DEF Types
    <3>2. /\ Added(s) \in Seq(Slots(s))
          /\ Range(Added(s)) = {<<s, k>> : k \in (size[s] + 1)..Grown(s)}
          /\ Grown(s) \in 0..PoolLimit
      BY <2>1, <2>4, <3>1, AddedWorkers, GrownPool
    <3>3. Slots(s) \subseteq Internal \cup Connections
      BY <2>1 DEF Slots, Internal
    <3>4. Added(s) \in Seq(Internal \cup Connections)
      BY <3>2, <3>3
    <3>5. Range(Added(s)) \subseteq Internal
      BY <2>1, <3>1, <3>2, Limit DEF Internal
    <3> QED
      BY <2>1, <2>4, <3>2, <3>4, <3>5 DEF Types, Turns
  <2> QED
    BY <1>3, <2>2, <2>3, <2>4, DispatchCases
<1>4. CASE DispatchOne
  <2> DEFINE s == turn.service
  <2>1. s \in Services
    BY <1>4 DEF DispatchOne, Types, Turns
  <2>2. /\ Head(pending[s]) \in Requests /\ Tail(pending[s]) \in Seq(Requests)
        /\ Tail(idle[s]) \in Seq(Internal \cup Connections)
        /\ Tail(idle[s]) \in Seq(Slots(s))
    <3>1. /\ pending[s] \in Seq(Requests) /\ pending[s] # <<>>
          /\ idle[s] \in Seq(Internal \cup Connections)
          /\ idle[s] \in Seq(Slots(s)) /\ idle[s] # <<>>
      BY <1>4, <2>1 DEF DispatchOne, Types
    <3> QED
      BY <3>1, HeadTail
  <2>3. /\ pending' \in [Services -> Seq(Requests)]
        /\ idle' \in [Services -> Seq(Internal \cup Connections)]
        /\ \A t \in Services : idle'[t] \in Seq(Slots(t))
        /\ workers' \subseteq workers /\ expired' \subseteq expired
        /\ turn' \in {turn, Nobody}
        /\ UNCHANGED <<size, clients, done>>
    BY <1>4, <2>1, <2>2 DEF DispatchOne, Types
  <2>4. invoking' \subseteq [req : Requests, worker : Internal]
    BY <1>4, <2>1, <2>2 DEF DispatchOne, Types
  <2>5. toWorker' \in [Connections -> Requests \cup {Nobody}]
    BY <1>4, <2>1, <2>2 DEF DispatchOne, Types
  <2> QED
    BY <2>3, <2>4, <2>5 DEF Types
<1>5. CASE DispatchEnd
  BY <1>5 DEF Types, DispatchEnd, tables, network, history
<1>6. ASSUME NEW r \in Requests, HandleClientMessage(r) PROVE Types'
  <2>1. For[r] \in Services
    BY MDPAssumption
  <2> QED
    BY <1>6, <2>1 DEF Types, HandleClientMessage, Dispatching, Turns, history
<1>7. ASSUME NEW x \in invoking, NEW ok \in BOOLEAN, Invoked(x, ok) PROVE Types'
  <2> DEFINE s == x.worker[1]
  <2>1. /\ x.req \in Requests /\ x.worker \in Internal /\ s \in Services
        /\ x.worker \in Slots(s)
    BY DEF Types, Internal, Slots
  <2>2. /\ Append(idle[s], x.worker) \in Seq(Internal \cup Connections)
        /\ Append(idle[s], x.worker) \in Seq(Slots(s))
    BY <2>1 DEF Types
  <2>3. /\ idle' \in [Services -> Seq(Internal \cup Connections)]
        /\ \A t \in Services : idle'[t] \in Seq(Slots(t))
    BY <1>7, <2>1, <2>2 DEF Types, Invoked
  <2>4. turn' \in Turns \cup {Nobody} /\ done' \in [Requests -> Nat]
    BY <1>7, <2>1 DEF Types, Invoked, Turns
  <2> QED
    BY <1>7, <2>1, <2>3, <2>4 DEF Types, Invoked, network
<1>8. ASSUME NEW c \in Connections, OnEventReady(c) PROVE Types'
  <2>1. Serves[c] \in Services /\ c \in Slots(Serves[c])
    BY MDPAssumption DEF Slots
  <2>2. /\ Append(idle[Serves[c]], c) \in Seq(Internal \cup Connections)
        /\ Append(idle[Serves[c]], c) \in Seq(Slots(Serves[c]))
    BY <2>1 DEF Types
  <2> QED
    BY <1>8, <2>1, <2>2 DEF Types, OnEventReady, Dispatching, Turns, history
<1>9. ASSUME NEW c \in Connections, OnEventDisconnect(c) PROVE Types'
  <2>1. idle' = [s \in Services |-> Remaining(idle[s], {c})]
    BY <1>9 DEF OnEventDisconnect
  <2>2. \A s \in Services : Filtered(idle[s], idle'[s])
    BY <2>1 DEF Filtered
  <2>3. \A s \in Services : /\ idle'[s] \in Seq(Internal \cup Connections)
                            /\ idle'[s] \in Seq(Slots(s))
    BY <2>2, FilteredList DEF Types
  <2>4. idle' \in [Services -> Seq(Internal \cup Connections)]
    BY <2>1, <2>3
  <2> QED
    BY <1>9, <2>3, <2>4 DEF Types, OnEventDisconnect, history
<1>10. ASSUME NEW c \in Connections,
              \/ Expire(c) \/ OnEventReply(c) \/ OnEventHeartbeat(c) \/ Connect(c)
              \/ NotifyHeartbeat(c) \/ NotifyDisconnect(c)
       PROVE  Types'
  BY <1>10 DEF Types, Expire, OnEventReply, OnEventHeartbeat, Connect, NotifyHeartbeat,
               NotifyDisconnect, tables, network, history
<1>11. ASSUME NEW c \in Connections, HandleRequest(c) \/ Drop(c)
       PROVE  Types'
  <2>1. CASE HandleRequest(c)
    <3>1. toWorker[c] \in Requests
      BY <2>1 DEF HandleRequest, Types
    <3>2. done' \in [Requests -> Nat] /\ toWorker' \in [Connections -> Requests \cup {Nobody}]
      BY <2>1, <3>1 DEF HandleRequest, Types
    <3> QED
      BY <2>1, <3>2 DEF Types, HandleRequest, tables
  <2>2. CASE Drop(c)
    BY <2>2 DEF Types, Drop, tables
  <2> QED
    BY <1>11, <2>1, <2>2
<1> QED
  BY <1>1, <1>2, <1>3, <1>4, <1>5, <1>6, <1>7, <1>8, <1>9, <1>10, <1>11 DEF Next

-----------------------------------------------------------------------------
(* Pools of internal workers.                                              *)

\* Each internal worker that was created is in the pool or invokes a service.
Pool ==
    /\ \A s \in Services, k \in 1..PoolLimit :
          k <= size[s] <=> <<s, k>> \in workers \/ \E x \in invoking : x.worker = <<s, k>>
    /\ \A x \in invoking : x.worker \notin workers
    /\ \A x, y \in invoking : x.worker = y.worker => x = y

\* An internal worker is a service and a number.
LEMMA InternalPair ==
    ASSUME NEW w \in Internal
    PROVE  w = <<w[1], w[2]>> /\ w[1] \in Services /\ w[2] \in 1..PoolLimit
BY DEF Internal

\* Connections come and go.
LEMMA PoolQuiet ==
    ASSUME Types, Pool, invoking' = invoking, size' = size,
           workers' \cap Internal = workers \cap Internal
    PROVE  Pool'
<1>1. \A w \in Internal : w \in workers' <=> w \in workers
  OBVIOUS
<1>2. \A s \in Services, k \in 1..PoolLimit : <<s, k>> \in Internal
  BY DEF Internal
<1>3. \A x \in invoking : x.worker \in Internal
  BY DEF Types
<1> QED
  BY <1>1, <1>2, <1>3 DEF Pool

LEMMA PoolInit == Init => Pool
BY DEF Init, Pool

LEMMA PoolNext == Types /\ Pool /\ [Next]_vars => Pool'
<1> SUFFICES ASSUME Types, Pool, [Next]_vars PROVE Pool'
  OBVIOUS
<1>a. Connections \cap Internal = {}
  BY MDPAssumption
<1>1. CASE UNCHANGED vars
  <2>1. invoking' = invoking /\ size' = size /\ workers' = workers
    BY <1>1 DEF vars, tables
  <2> QED
    BY <2>1, PoolQuiet
<1>2. CASE SendHeartbeats
  <2>1. workers' \subseteq workers /\ workers \ workers' \subseteq Connections
    BY <1>2, CleanupFilters DEF SendHeartbeats
  <2>2. workers' \cap Internal = workers \cap Internal
    BY <1>a, <2>1
  <2>3. invoking' = invoking /\ size' = size
    BY <1>2 DEF SendHeartbeats
  <2> QED
    BY <2>2, <2>3, PoolQuiet
<1>3. CASE Dispatch
  <2> DEFINE s == turn.service
  <2>1. s \in Services /\ invoking' = invoking /\ expired \subseteq Connections
    BY <1>3, DispatchCases DEF Types
  <2>2. CASE CleanupRaises /\ size' = size
    <3>1. workers' \subseteq workers /\ workers \ workers' \subseteq Connections
      BY <2>2, CleanupFilters
    <3>2. workers' \cap Internal = workers \cap Internal
      BY <1>a, <3>1
    <3> QED
      BY <2>1, <2>2, <3>2, PoolQuiet
  <2>3. CASE workers' = workers \ expired /\ size' = size
    <3>1. workers' \cap Internal = workers \cap Internal
      BY <1>a, <2>1, <2>3
    <3> QED
      BY <2>1, <2>3, <3>1, PoolQuiet
  <2>4. CASE /\ workers' = (workers \ expired) \cup Range(Added(s))
             /\ size[s] < PoolMax /\ size' = [size EXCEPT ![s] = Grown(s)]
    <3>1. size \in [Services -> 0..PoolLimit] /\ PoolLimit \in Nat
      BY Limit DEF Types
    <3>2. /\ Range(Added(s)) = {<<s, k>> : k \in (size[s] + 1)..Grown(s)}
          /\ Grown(s) \in 0..PoolLimit
          /\ size[s] <= Grown(s)
      BY <2>1, <2>4, <3>1, AddedWorkers, GrownPool
    <3>3. \A t \in Services, k \in 1..PoolLimit :
             <<t, k>> \in workers' <=> <<t, k>> \in workers \/ (t = s /\ k > size[s] /\ k <= Grown(s))
      <4> TAKE t \in Services, k \in 1..PoolLimit
      <4>1. <<t, k>> \in Internal /\ <<t, k>> \notin expired
        BY <1>a, <2>1 DEF Internal
      <4>2. <<t, k>> \in Range(Added(s)) <=> t = s /\ k > size[s] /\ k <= Grown(s)
        BY <2>1, <3>1, <3>2
      <4> QED
        BY <2>4, <4>1, <4>2
    <3>4. \A t \in Services, k \in 1..PoolLimit :
             k <= size'[t] <=> <<t, k>> \in workers' \/ \E x \in invoking' : x.worker = <<t, k>>
      <4> TAKE t \in Services, k \in 1..PoolLimit
      <4>1. k <= size[t] <=> <<t, k>> \in workers \/ \E x \in invoking : x.worker = <<t, k>>
        BY DEF Pool
      <4>2. size'[t] = IF t = s THEN Grown(s) ELSE size[t]
        BY <2>1, <2>4, <3>1
      <4>3. k <= size'[t] <=> k <= size[t] \/ (t = s /\ k > size[s] /\ k <= Grown(s))
        BY <2>1, <3>1, <3>2, <4>2
      <4> QED
        BY <2>1, <3>3, <4>1, <4>3
    <3>5. \A x \in invoking' : x.worker \notin workers'
      <4> SUFFICES ASSUME NEW x \in invoking PROVE x.worker \notin workers'
        BY <2>1
      <4>1. PICK t \in Services, k \in 1..PoolLimit : x.worker = <<t, k>>
        <5>1. x.worker \in Internal
          BY DEF Types
        <5> QED
          BY <5>1, InternalPair
      <4>2. k <= size[t] /\ <<t, k>> \notin workers
        BY <4>1 DEF Pool
      <4>3. ~(t = s /\ k > size[s])
        BY <2>1, <3>1, <4>2
      <4> QED
        BY <3>3, <4>1, <4>2, <4>3
    <3> QED
      BY <2>1, <3>4, <3>5 DEF Pool
  <2> QED
    BY <1>3, <2>2, <2>3, <2>4, DispatchCases
<1>4. CASE DispatchOne
  <2> DEFINE w == Head(idle[turn.service])
             r == Head(pending[turn.service])
  <2>1. workers' = workers \ {w} /\ size' = size
    BY <1>4 DEF DispatchOne
  <2>2. CASE invoking' = invoking /\ w \notin workers \cap Internal
    <3>1. workers' \cap Internal = workers \cap Internal
      BY <2>1, <2>2
    <3> QED
      BY <2>1, <2>2, <3>1, PoolQuiet
  <2>3. CASE w \in workers \cap Internal /\ invoking' = invoking \cup {[req |-> r, worker |-> w]}
    <3>1. \A x \in invoking : x.worker # w
      BY <2>3 DEF Pool
    <3>2. \A x \in invoking' : x \in invoking \/ (x = [req |-> r, worker |-> w] /\ x.worker = w)
      BY <2>3
    <3>3. \A x \in invoking' : x.worker \notin workers'
      BY <2>1, <3>2 DEF Pool
    <3>4. \A x, y \in invoking' : x.worker = y.worker => x = y
      BY <3>1, <3>2 DEF Pool
    <3>5. \A v : (\E x \in invoking' : x.worker = v) <=> v = w \/ \E x \in invoking : x.worker = v
      <4>1. /\ [req |-> r, worker |-> w] \in invoking'
            /\ [req |-> r, worker |-> w].worker = w
            /\ invoking \subseteq invoking'
        BY <2>3
      <4> HIDE DEF w
      <4> QED
        BY <3>2, <4>1
    <3>6. \A v : (v \in workers' \/ \E x \in invoking' : x.worker = v)
                    <=> (v \in workers \/ \E x \in invoking : x.worker = v)
      BY <2>1, <2>3, <3>5
    <3> QED
      BY <2>1, <3>3, <3>4, <3>6 DEF Pool
  <2> QED
    BY <1>4, <1>a, <2>2, <2>3 DEF DispatchOne
<1>5. ASSUME NEW x \in invoking, NEW ok \in BOOLEAN, Invoked(x, ok) PROVE Pool'
  <2>1. /\ workers' = workers \cup {x.worker} /\ size' = size
        /\ invoking' = invoking \ {x}
    BY <1>5 DEF Invoked
  <2>2. \A v : (v \in workers' \/ \E y \in invoking' : y.worker = v)
                  <=> (v \in workers \/ \E y \in invoking : y.worker = v)
    BY <2>1
  <2>3. \A y \in invoking' : y.worker \notin workers'
    BY <2>1 DEF Pool
  <2>4. \A y, z \in invoking' : y.worker = z.worker => y = z
    BY <2>1 DEF Pool
  <2> QED
    BY <2>1, <2>2, <2>3, <2>4 DEF Pool
<1>6. CASE DispatchEnd \/ \E r \in Requests : HandleClientMessage(r)
  <2>1. invoking' = invoking /\ size' = size /\ workers' = workers
    BY <1>6 DEF DispatchEnd, HandleClientMessage, tables
  <2> QED
    BY <2>1, PoolQuiet
<1>7. ASSUME NEW c \in Connections,
             \/ Expire(c) \/ OnEventReady(c) \/ OnEventReply(c) \/ OnEventHeartbeat(c)
             \/ OnEventDisconnect(c) \/ Connect(c) \/ HandleRequest(c)
             \/ NotifyHeartbeat(c) \/ NotifyDisconnect(c) \/ Drop(c)
      PROVE  Pool'
  <2>1. /\ invoking' = invoking /\ size' = size
        /\ workers' \in {workers, workers \cup {c}, workers \ {c}}
    BY <1>7 DEF Expire, OnEventReady, OnEventReply, OnEventHeartbeat, OnEventDisconnect,
                Connect, HandleRequest, NotifyHeartbeat, NotifyDisconnect, Drop, tables
  <2>2. workers' \cap Internal = workers \cap Internal
    BY <1>a, <2>1
  <2> QED
    BY <2>1, <2>2, PoolQuiet
<1> QED
  BY <1>1, <1>2, <1>3, <1>4, <1>5, <1>6, <1>7 DEF Next

\* So there are as many of them as the size of the pool says.
LEMMA PoolSize == Types /\ Pool => PoolKept
<1> SUFFICES ASSUME Types, Pool, NEW s \in Services
             PROVE  /\ Cardinality(InPool(s)) + Cardinality(Busy(s)) = size[s]
                    /\ \A x \in Busy(s) : x.worker \notin workers
                    /\ \A x, y \in Busy(s) : x.worker = y.worker => x = y
  BY DEF PoolKept
<1>1. /\ \A x \in Busy(s) : x.worker \notin workers
      /\ \A x, y \in Busy(s) : x.worker = y.worker => x = y
  BY DEF Pool, Busy
<1> DEFINE W == {x.worker : x \in Busy(s)}
           n == size[s]
           f == [x \in Busy(s) |-> x.worker]
           g == [k \in 1..n |-> <<s, k>>]
<1>2. n \in Nat /\ n <= PoolLimit /\ PoolLimit \in Nat
  BY Limit DEF Types
<1>3. \A w : w \in InPool(s) \cup W <=> \E k \in 1..n : w = <<s, k>>
  <2>1. \A w : w \in InPool(s) \cup W =>
           \E k \in 1..PoolLimit : w = <<s, k>> /\ (<<s, k>> \in workers \/ \E x \in invoking : x.worker = <<s, k>>)
    <3>1. \A w \in InPool(s) \cup W :
             w \in Internal /\ w[1] = s /\ (w \in workers \/ \E x \in invoking : x.worker = w)
      BY DEF InPool, Busy, Types
    <3> HIDE DEF W
    <3> QED
      BY <3>1, InternalPair
  <2>2. \A k \in 1..PoolLimit : (<<s, k>> \in workers \/ \E x \in invoking : x.worker = <<s, k>>)
           => <<s, k>> \in InPool(s) \cup W
    <3> TAKE k \in 1..PoolLimit
    <3>1. <<s, k>> \in Internal /\ <<s, k>>[1] = s
      BY DEF Internal
    <3> QED
      BY <3>1 DEF InPool, Busy
  <2>3. \A k \in 1..PoolLimit : k <= n <=> <<s, k>> \in workers \/ \E x \in invoking : x.worker = <<s, k>>
    BY DEF Pool
  <2>4. \A k : k \in 1..n <=> k \in 1..PoolLimit /\ k <= n
    BY <1>2
  <2> HIDE DEF W, n
  <2>5. ASSUME NEW w, w \in InPool(s) \cup W PROVE \E k \in 1..n : w = <<s, k>>
    BY <2>1, <2>3, <2>4, <2>5
  <2>6. ASSUME NEW k \in 1..n PROVE <<s, k>> \in InPool(s) \cup W
    BY <2>2, <2>3, <2>4
  <2> QED
    BY <2>5, <2>6
<1>4. InPool(s) \cap W = {}
  BY <1>1 DEF InPool
<1>5. IsFiniteSet(InPool(s) \cup W) /\ Cardinality(InPool(s) \cup W) = n
  <2>1. g \in Bijection(1..n, InPool(s) \cup W)
    BY <1>3 DEF Bijection, Injection, Surjection, IsInjective
  <2>2. IsFiniteSet(1..n) /\ Cardinality(1..n) = n
    <3> HIDE DEF n
    <3> QED
      BY <1>2, FS_Interval
  <2> QED
    BY <2>1, <2>2, FS_Bijection DEF ExistsBijection
<1>6. IsFiniteSet(InPool(s)) /\ IsFiniteSet(W)
  BY <1>5, FS_Subset
<1>7. Cardinality(InPool(s) \cup W) = Cardinality(InPool(s)) + Cardinality(W)
  <2>1. Cardinality(InPool(s)) \in Nat /\ Cardinality(W) \in Nat /\ Cardinality({}) = 0
    BY <1>6, FS_CardinalityType, FS_EmptySet
  <2>2. Cardinality(InPool(s) \cup W) =
           Cardinality(InPool(s)) + Cardinality(W) - Cardinality(InPool(s) \cap W)
    BY <1>6, FS_Union
  <2>3. Cardinality(InPool(s) \cap W) = 0
    BY <1>4, <2>1
  <2> HIDE DEF W
  <2> QED
    BY <2>1, <2>2, <2>3
<1>8. Cardinality(W) = Cardinality(Busy(s))
  <2>1. f \in Bijection(Busy(s), W)
    BY <1>1 DEF Bijection, Injection, Surjection, IsInjective
  <2>2. f \in Injection(Busy(s), W) /\ f \in Surjection(Busy(s), W)
    BY <2>1 DEF Bijection
  <2> QED
    BY <1>6, <2>2, FS_Injection
<1> QED
  BY <1>1, <1>5, <1>7, <1>8

\* The pool of each service has as many internal workers as it was given, no more
\* than workers_pool_max, and no two greenlets have the same one, whatever fails,
\* expires or disconnects (add_workers, send_to_worker_zato).
THEOREM PoolSafety == Spec => []PoolKept
<1>1. Init => Types /\ Pool
  BY TypesInit, PoolInit
<1>2. Types /\ Pool /\ [Next]_vars => (Types /\ Pool)'
  BY TypesNext, PoolNext
<1> QED
  BY <1>1, <1>2, PoolSize, PTL DEF Spec

-----------------------------------------------------------------------------
(* Where a request is.                                                     *)

Queued(r)  == \E s \in Services : In(r, pending[s])
Running(r) == \E x \in invoking : x.req = r
Sent(r)    == \E c \in Connections : toWorker[c] = r

\* A request is once in the lists of pending requests, with one greenlet and with
\* one worker at most, and in one of these places only, until it was handled.
Distinct ==
    /\ \A s, t \in Services : \A i \in 1..Len(pending[s]), j \in 1..Len(pending[t]) :
          pending[s][i] = pending[t][j] => s = t /\ i = j
    /\ \A x, y \in invoking : x.req = y.req => x = y
    /\ \A c, d \in Connections : toWorker[c] = toWorker[d] /\ toWorker[c] # Nobody => c = d

OnePlace(r) ==
    /\ r \in clients => ~Queued(r) /\ ~Running(r) /\ ~Sent(r) /\ done[r] = 0
    /\ Queued(r) => ~Running(r) /\ ~Sent(r) /\ done[r] = 0
    /\ Running(r) => ~Sent(r) /\ done[r] = 0
    /\ Sent(r) => done[r] = 0
    /\ done[r] <= 1

InOnePlace == Distinct /\ \A r \in Requests : OnePlace(r)

\* The first pending request is taken.
LEMMA RequestTaken ==
    ASSUME Types, Distinct, NEW s \in Services, pending[s] # <<>>,
           pending' = [pending EXCEPT ![s] = Tail(@)]
    PROVE  /\ \A t, u \in Services : \A i \in 1..Len(pending'[t]), j \in 1..Len(pending'[u]) :
                 pending'[t][i] = pending'[u][j] => t = u /\ i = j
           /\ Head(pending[s]) \in Requests
           /\ Queued(Head(pending[s]))
           /\ \A r : Queued(r)' => Queued(r) /\ r # Head(pending[s])
<1>1. pending[s] \in Seq(Requests) /\ \A t \in Services : Len(pending[t]) \in Nat
  BY DEF Types
<1>2. /\ Len(pending[s]) \in Nat \ {0} /\ Head(pending[s]) = pending[s][1]
      /\ Head(pending[s]) \in Requests
      /\ Len(Tail(pending[s])) = Len(pending[s]) - 1
      /\ \A i \in 1..(Len(pending[s]) - 1) : Tail(pending[s])[i] = pending[s][i + 1]
  BY <1>1, HeadTail
<1> DEFINE from(t, i) == IF t = s THEN i + 1 ELSE i
<1>3. \A t \in Services : pending'[t] = IF t = s THEN Tail(pending[s]) ELSE pending[t]
  BY DEF Types
<1>4. \A t \in Services : \A i \in 1..Len(pending'[t]) :
         /\ from(t, i) \in 1..Len(pending[t])
         /\ pending'[t][i] = pending[t][from(t, i)]
         /\ t = s => from(t, i) # 1
  <2> TAKE t \in Services
  <2>1. CASE t = s
    <3>1. pending'[s] = Tail(pending[s])
      BY <1>3
    <3>2. \A i \in 1..Len(pending'[s]) :
             i + 1 \in 1..Len(pending[s]) /\ pending'[s][i] = pending[s][i + 1] /\ i + 1 # 1
      <4>1. \A n \in Nat \ {0} : \A i \in 1..(n - 1) : i + 1 \in 1..n /\ i + 1 # 1
        OBVIOUS
      <4>2. 1..Len(pending'[s]) = 1..(Len(pending[s]) - 1)
        BY <1>2, <3>1, Zenon
      <4>3. \A i \in 1..(Len(pending[s]) - 1) : pending'[s][i] = pending[s][i + 1]
        BY <1>2, <3>1, Zenon
      <4> QED
        BY <1>2, <4>1, <4>2, <4>3, Zenon
    <3> QED
      BY <2>1, <3>2
  <2>2. CASE t # s
    BY <1>3, <2>2
  <2> QED
    BY <2>1, <2>2
<1>5. \A t \in Services : \A i, j \in 1..Len(pending'[t]) : from(t, i) = from(t, j) => i = j
  <2>1. \A t \in Services : \A i \in 1..Len(pending'[t]) : i \in Int
    OBVIOUS
  <2> QED
    BY <2>1
<1> HIDE DEF from
<1>6. \A t, u \in Services : \A i \in 1..Len(pending'[t]), j \in 1..Len(pending'[u]) :
         pending'[t][i] = pending'[u][j] => t = u /\ i = j
  <2> SUFFICES ASSUME NEW t \in Services, NEW u \in Services, NEW i \in 1..Len(pending'[t]),
                      NEW j \in 1..Len(pending'[u]), pending'[t][i] = pending'[u][j]
               PROVE  t = u /\ i = j
    OBVIOUS
  <2>1. pending[t][from(t, i)] = pending[u][from(u, j)]
    BY <1>4
  <2>2. t = u /\ from(t, i) = from(u, j)
    BY <1>4, <2>1 DEF Distinct
  <2> QED
    BY <1>5, <2>2
<1>7. 1 \in 1..Len(pending[s])
  BY <1>2
<1>8. Queued(Head(pending[s]))
  BY <1>2, <1>7 DEF Queued, In
<1>9. ASSUME NEW r, Queued(r)' PROVE Queued(r) /\ r # Head(pending[s])
  <2>1. PICK t \in Services : \E i \in 1..Len(pending'[t]) : pending'[t][i] = r
    BY <1>9 DEF Queued, In
  <2>2. PICK i \in 1..Len(pending'[t]) : pending'[t][i] = r
    BY <2>1
  <2>3. from(t, i) \in 1..Len(pending[t]) /\ pending[t][from(t, i)] = r /\ (t = s => from(t, i) # 1)
    BY <1>4, <2>2
  <2>4. Queued(r)
    BY <2>3 DEF Queued, In
  <2>5. r # pending[s][1]
    BY <1>7, <2>3 DEF Distinct
  <2> QED
    BY <1>2, <2>4, <2>5
<1> QED
  BY <1>2, <1>6, <1>8, <1>9

\* A new request is added at the end.
LEMMA RequestAdded ==
    ASSUME Types, Distinct, NEW s \in Services, NEW r \in Requests, ~Queued(r),
           pending' = [pending EXCEPT ![s] = Append(@, r)]
    PROVE  /\ \A t, u \in Services : \A i \in 1..Len(pending'[t]), j \in 1..Len(pending'[u]) :
                 pending'[t][i] = pending'[u][j] => t = u /\ i = j
           /\ \A q : Queued(q)' => Queued(q) \/ q = r
<1>1. pending[s] \in Seq(Requests) /\ \A t \in Services : Len(pending[t]) \in Nat
  BY DEF Types
<1>2. /\ Len(Append(pending[s], r)) = Len(pending[s]) + 1
      /\ Append(pending[s], r)[Len(pending[s]) + 1] = r
      /\ \A i \in 1..Len(pending[s]) : Append(pending[s], r)[i] = pending[s][i]
  BY <1>1
<1>3. \A t \in Services : pending'[t] = IF t = s THEN Append(pending[s], r) ELSE pending[t]
  BY DEF Types
<1>4. \A t \in Services : \A i \in 1..Len(pending'[t]) :
         \/ i \in 1..Len(pending[t]) /\ pending'[t][i] = pending[t][i]
         \/ t = s /\ i = Len(pending[s]) + 1 /\ pending'[t][i] = r
  <2> TAKE t \in Services
  <2>1. CASE t = s
    BY <1>1, <1>2, <1>3, <2>1
  <2>2. CASE t # s
    BY <1>3, <2>2
  <2> QED
    BY <2>1, <2>2
<1>5. \A t \in Services : \A i \in 1..Len(pending[t]) : pending[t][i] # r
  BY DEF Queued, In
<1>6. \A t, u \in Services : \A i \in 1..Len(pending'[t]), j \in 1..Len(pending'[u]) :
         pending'[t][i] = pending'[u][j] => t = u /\ i = j
  BY <1>4, <1>5 DEF Distinct
<1>7. \A q : Queued(q)' => Queued(q) \/ q = r
  <2> SUFFICES ASSUME NEW q, Queued(q)' PROVE Queued(q) \/ q = r
    OBVIOUS
  <2>1. PICK t \in Services : \E i \in 1..Len(pending'[t]) : pending'[t][i] = q
    BY DEF Queued, In
  <2> QED
    BY <1>4, <2>1 DEF Queued, In
<1> QED
  BY <1>6, <1>7

LEMMA InOnePlaceInit == Init => InOnePlace
<1> SUFFICES ASSUME Init PROVE InOnePlace
  OBVIOUS
<1>1. \A s \in Services : Len(pending[s]) = 0
  BY DEF Init
<1>2. \A r : ~Queued(r)
  BY <1>1 DEF Queued, In
<1>3. \A r \in Requests : ~Sent(r)
  BY MDPAssumption DEF Init, Sent
<1>4. Distinct
  BY <1>1 DEF Init, Distinct
<1> QED
  BY <1>2, <1>3, <1>4 DEF Init, InOnePlace, OnePlace, Running

LEMMA InOnePlaceNext == Types /\ InOnePlace /\ [Next]_vars => InOnePlace'
<1> SUFFICES ASSUME Types, InOnePlace, [Next]_vars PROVE InOnePlace'
  OBVIOUS
<1>a. Distinct /\ \A r \in Requests : OnePlace(r)
  BY DEF InOnePlace
<1>b. \A r \in Requests : done[r] \in Nat /\ r # Nobody
  BY MDPAssumption DEF Types
<1>1. CASE UNCHANGED <<clients, pending, invoking, toWorker, done>>
  BY <1>1, <1>a DEF InOnePlace, Distinct, OnePlace, Queued, Running, Sent
<1>2. CASE DispatchOne
  <2> DEFINE s == turn.service
             r == Head(pending[s])
             w == Head(idle[s])
  <2>1. s \in Services /\ pending[s] # <<>> /\ pending' = [pending EXCEPT ![s] = Tail(@)]
        /\ done' = done /\ clients' = clients
    BY <1>2 DEF DispatchOne, Types, Turns
  <2>2. /\ \A t, u \in Services : \A i \in 1..Len(pending'[t]), j \in 1..Len(pending'[u]) :
              pending'[t][i] = pending'[u][j] => t = u /\ i = j
        /\ r \in Requests
        /\ Queued(r)
        /\ \A q : Queued(q)' => Queued(q) /\ q # r
    BY <1>a, <2>1, RequestTaken
  <2>3. r \notin clients /\ ~Running(r) /\ ~Sent(r) /\ done[r] = 0
    BY <1>a, <2>2 DEF OnePlace
  <2> HIDE DEF r, w
  <2>4. CASE invoking' = invoking /\ toWorker' = toWorker
    <3>1. Distinct'
      BY <1>a, <2>2, <2>4 DEF Distinct
    <3>2. \A q : Running(q)' = Running(q) /\ Sent(q)' = Sent(q)
      BY <2>4 DEF Running, Sent
    <3>3. \A q \in Requests : OnePlace(q)'
      BY <1>a, <2>1, <2>2, <3>2 DEF OnePlace
    <3> QED
      BY <3>1, <3>3 DEF InOnePlace
  <2>5. CASE invoking' = invoking \cup {[req |-> r, worker |-> w]} /\ toWorker' = toWorker
    <3>1. \A x \in invoking' : x \in invoking \/ (x = [req |-> r, worker |-> w] /\ x.req = r)
      BY <2>5
    <3>2. \A x \in invoking : x.req # r
      BY <2>3 DEF Running
    <3>3. \A x, y \in invoking' : x.req = y.req => x = y
      BY <1>a, <3>1, <3>2 DEF Distinct
    <3>4. Distinct'
      BY <1>a, <2>2, <2>5, <3>3 DEF Distinct
    <3>5. \A q : Running(q)' => Running(q) \/ q = r
      BY <3>1 DEF Running
    <3>6. \A q : Sent(q)' = Sent(q)
      BY <2>5 DEF Sent
    <3>7. \A q \in Requests : OnePlace(q)'
      BY <1>a, <2>1, <2>2, <2>3, <3>5, <3>6 DEF OnePlace
    <3> QED
      BY <3>4, <3>7 DEF InOnePlace
  <2>6. CASE /\ w \in Connections
             /\ toWorker' = [toWorker EXCEPT ![w] = r]
             /\ invoking' = invoking
    <3>1. \A c \in Connections : toWorker'[c] = IF c = w THEN r ELSE toWorker[c]
      BY <2>6 DEF Types
    <3>2. \A c \in Connections : toWorker[c] # r
      BY <2>3 DEF Sent
    <3>3. \A c, d \in Connections : toWorker'[c] = toWorker'[d] /\ toWorker'[c] # Nobody => c = d
      BY <1>a, <3>1, <3>2 DEF Distinct
    <3>4. Distinct'
      BY <1>a, <2>2, <2>6, <3>3 DEF Distinct
    <3>5. \A q : Sent(q)' => Sent(q) \/ q = r
      BY <3>1 DEF Sent
    <3>6. \A q : Running(q)' = Running(q)
      BY <2>6 DEF Running
    <3>7. \A q \in Requests : OnePlace(q)'
      BY <1>a, <2>1, <2>2, <2>3, <3>5, <3>6 DEF OnePlace
    <3> QED
      BY <3>4, <3>7 DEF InOnePlace
  <2> QED
    BY <1>2, <2>4, <2>5, <2>6 DEF DispatchOne, r, w
<1>3. ASSUME NEW r \in Requests, HandleClientMessage(r) PROVE InOnePlace'
  <2>1. /\ r \in clients /\ clients' = clients \ {r}
        /\ For[r] \in Services
        /\ pending' = [pending EXCEPT ![For[r]] = Append(@, r)]
        /\ UNCHANGED <<invoking, toWorker, done>>
    BY <1>3, MDPAssumption DEF HandleClientMessage, history
  <2>2. ~Queued(r) /\ ~Running(r) /\ ~Sent(r) /\ done[r] = 0
    BY <1>a, <2>1 DEF OnePlace
  <2>3. /\ \A t, u \in Services : \A i \in 1..Len(pending'[t]), j \in 1..Len(pending'[u]) :
              pending'[t][i] = pending'[u][j] => t = u /\ i = j
        /\ \A q : Queued(q)' => Queued(q) \/ q = r
    BY <1>a, <2>1, <2>2, RequestAdded
  <2>4. Distinct'
    BY <1>a, <2>1, <2>3 DEF Distinct
  <2>5. \A q : Running(q)' = Running(q) /\ Sent(q)' = Sent(q)
    BY <2>1 DEF Running, Sent
  <2>6. \A q \in Requests : OnePlace(q)'
    BY <1>a, <2>1, <2>2, <2>3, <2>5 DEF OnePlace
  <2> QED
    BY <2>4, <2>6 DEF InOnePlace
<1>4. ASSUME NEW x \in invoking, NEW ok \in BOOLEAN, Invoked(x, ok) PROVE InOnePlace'
  <2>1. /\ invoking' = invoking \ {x}
        /\ done' = [done EXCEPT ![x.req] = @ + 1]
        /\ UNCHANGED <<clients, pending, toWorker>>
        /\ x.req \in Requests
    BY <1>4 DEF Invoked, network, Types
  <2>2. x.req \notin clients /\ ~Queued(x.req) /\ ~Sent(x.req) /\ done[x.req] = 0
    BY <1>a, <2>1 DEF OnePlace, Running
  <2>3. \A q : Running(q)' => Running(q) /\ q # x.req
    BY <1>a, <2>1 DEF Running, Distinct
  <2>4. Distinct'
    BY <1>a, <2>1 DEF Distinct
  <2>5. \A q : Queued(q)' = Queued(q) /\ Sent(q)' = Sent(q)
    BY <2>1 DEF Queued, Sent
  <2>6. \A q \in Requests : done'[q] = IF q = x.req THEN 1 ELSE done[q]
    BY <2>1, <2>2 DEF Types
  <2>7. \A q \in Requests : OnePlace(q)'
    BY <1>a, <2>1, <2>2, <2>3, <2>5, <2>6 DEF OnePlace
  <2> QED
    BY <2>4, <2>7 DEF InOnePlace
<1>5. ASSUME NEW c \in Connections, toWorker' = [toWorker EXCEPT ![c] = Nobody],
             UNCHANGED <<clients, pending, invoking>>,
             \/ done' = done
             \/ toWorker[c] # Nobody /\ done' = [done EXCEPT ![toWorker[c]] = @ + 1]
      PROVE  InOnePlace'
  <2>1. \A d \in Connections : toWorker'[d] = IF d = c THEN Nobody ELSE toWorker[d]
    BY <1>5 DEF Types
  <2>2. Distinct'
    BY <1>5, <1>a, <2>1 DEF Distinct
  <2>3. \A q \in Requests : Sent(q)' => Sent(q) /\ q # toWorker[c]
    BY <1>a, <1>b, <2>1 DEF Sent, Distinct
  <2>4. \A q : Queued(q)' = Queued(q) /\ Running(q)' = Running(q)
    BY <1>5 DEF Queued, Running
  <2>5. CASE done' = done
    <3>1. \A q \in Requests : OnePlace(q)'
      BY <1>5, <1>a, <2>3, <2>4, <2>5 DEF OnePlace
    <3> QED
      BY <2>2, <3>1 DEF InOnePlace
  <2>6. CASE toWorker[c] # Nobody /\ done' = [done EXCEPT ![toWorker[c]] = @ + 1]
    <3> DEFINE r == toWorker[c]
    <3>1. r \in Requests /\ Sent(r)
      BY <2>6 DEF Types, Sent
    <3>2. r \notin clients /\ ~Queued(r) /\ ~Running(r) /\ done[r] = 0
      BY <1>a, <3>1 DEF OnePlace
    <3>3. \A q \in Requests : done'[q] = IF q = r THEN 1 ELSE done[q]
      BY <2>6, <3>1, <3>2 DEF Types
    <3> HIDE DEF r
    <3>4. \A q \in Requests : Sent(q)' => Sent(q) /\ q # r
      BY <2>3 DEF r
    <3>5. \A q \in Requests : OnePlace(q)'
      BY <1>5, <1>a, <2>4, <3>2, <3>3, <3>4 DEF OnePlace
    <3> QED
      BY <2>2, <3>5 DEF InOnePlace
  <2> QED
    BY <1>5, <2>5, <2>6
<1>6. CASE UNCHANGED vars \/ SendHeartbeats \/ Dispatch \/ DispatchEnd
  <2>1. UNCHANGED <<clients, pending, invoking, toWorker, done>>
    BY <1>6 DEF vars, tables, network, history, SendHeartbeats, Dispatch, DispatchEnd
  <2> QED
    BY <1>1, <2>1
<1>7. ASSUME NEW c \in Connections,
             \/ Expire(c) \/ OnEventReady(c) \/ OnEventReply(c) \/ OnEventHeartbeat(c)
             \/ OnEventDisconnect(c) \/ Connect(c) \/ HandleRequest(c)
             \/ NotifyHeartbeat(c) \/ NotifyDisconnect(c) \/ Drop(c)
      PROVE  InOnePlace'
  <2>1. CASE HandleRequest(c)
    BY <1>5, <2>1 DEF HandleRequest, tables
  <2>2. CASE Drop(c)
    BY <1>5, <2>2 DEF Drop, tables
  <2>3. CASE ~HandleRequest(c) /\ ~Drop(c)
    <3>1. UNCHANGED <<clients, pending, invoking, toWorker, done>>
      BY <1>7, <2>3 DEF Expire, OnEventReady, OnEventReply, OnEventHeartbeat,
            OnEventDisconnect, Connect, NotifyHeartbeat, NotifyDisconnect,
            tables, network, history
    <3> QED
      BY <1>1, <3>1
  <2> QED
    BY <2>1, <2>2, <2>3
<1> QED
  BY <1>2, <1>3, <1>4, <1>6, <1>7 DEF Next

\* No request is handled twice, whoever expires, reconnects or is late with a
\* heartbeat: what dispatch_requests takes from the list of pending requests is in
\* one place at a time until it has been handled.
THEOREM HandledSafety == Spec => []HandledOnce
<1>1. Init => Types /\ InOnePlace
  BY TypesInit, InOnePlaceInit
<1>2. Types /\ InOnePlace /\ [Next]_vars => (Types /\ InOnePlace)'
  BY TypesNext, InOnePlaceNext
<1>3. InOnePlace => HandledOnce
  BY DEF InOnePlace, OnePlace, HandledOnce
<1> QED
  BY <1>1, <1>2, <1>3, PTL DEF Spec

-----------------------------------------------------------------------------
(* Pending requests and the greenlets that will see them.                  *)

\* An internal worker in the pool is in the list of its service.
Listed == \A w \in workers \cap Internal : In(w, idle[w[1]])

\* The greenlet that is running works for service s.
AtWork(s) == turn # Nobody /\ turn.service = s

\* Without a pool there is one request at most, and there is a worker for it.
Served(s) == /\ Len(pending[s]) <= 1
             /\ turn.at = "loop" => pending[s] = <<>> \/ idle[s] # <<>>

Wake ==
    \A s \in Services \ tripped :
        IF AtWork(s) THEN size[s] > 0 \/ Served(s)
        ELSE pending[s] = <<>> \/ Busy(s) # {}

LEMMA ListedInit == Init => Listed
BY DEF Init, Listed

\* Removing connections from lists keeps internal workers.
LEMMA ListedFiltered ==
    ASSUME Types, Listed, \A s \in Services : Filtered(idle[s], idle'[s]),
           workers' \cap Internal \subseteq workers
    PROVE  Listed'
<1> SUFFICES ASSUME NEW w \in workers' \cap Internal PROVE In(w, idle'[w[1]])
  BY DEF Listed, In
<1>1. w[1] \in Services /\ w \notin Connections /\ In(w, idle[w[1]])
  BY InternalPair, MDPAssumption DEF Listed
<1>2. idle[w[1]] \in Seq(Internal \cup Connections) /\ Filtered(idle[w[1]], idle'[w[1]])
  BY <1>1 DEF Types
<1> QED
  BY <1>1, <1>2, FilteredList

LEMMA ListedNext == Types /\ Listed /\ [Next]_vars => Listed'
<1> SUFFICES ASSUME Types, Listed, [Next]_vars PROVE Listed'
  OBVIOUS
<1>a. Connections \cap Internal = {}
  BY MDPAssumption
<1>1. CASE idle' = idle /\ workers' = workers
  BY <1>1 DEF Listed, In
<1>2. CASE SendHeartbeats
  <2>1. /\ \A s \in Services : Filtered(idle[s], idle'[s])
        /\ workers' \subseteq workers
    BY <1>2, CleanupFilters DEF SendHeartbeats
  <2> QED
    BY <2>1, ListedFiltered
<1>3. CASE Dispatch
  <2> DEFINE s == turn.service
  <2>1. s \in Services /\ expired \subseteq Connections
    BY <1>3, DispatchCases DEF Types
  <2>2. CASE CleanupRaises
    <3>1. /\ \A t \in Services : Filtered(idle[t], idle'[t])
          /\ workers' \subseteq workers
      BY <2>2, CleanupFilters
    <3> QED
      BY <3>1, ListedFiltered
  <2>3. CASE /\ Filtered(idle[s], Remaining(idle[s], expired))
             /\ idle' = [idle EXCEPT ![s] = Remaining(idle[s], expired)]
             /\ workers' = workers \ expired
    <3>1. \A t \in Services : Filtered(idle[t], idle'[t])
      BY <2>1, <2>3 DEF Types, Filtered
    <3> QED
      BY <2>3, <3>1, ListedFiltered
  <2>4. CASE /\ Filtered(idle[s], Remaining(idle[s], expired))
             /\ Remaining(idle[s], expired) = <<>>
             /\ size[s] < PoolMax /\ idle' = [idle EXCEPT ![s] = Added(s)]
             /\ workers' = (workers \ expired) \cup Range(Added(s))
    <3> SUFFICES ASSUME NEW w \in workers' \cap Internal PROVE In(w, idle'[w[1]])
      BY DEF Listed, In
    <3>1. w[1] \in Services /\ w \notin Connections
      BY <1>a, InternalPair
    <3>2. size \in [Services -> 0..PoolLimit]
      BY DEF Types
    <3>3. /\ Range(Added(s)) = {<<s, k>> : k \in (size[s] + 1)..Grown(s)}
          /\ \A v \in Range(Added(s)) : \E i \in 1..Len(Added(s)) : Added(s)[i] = v
      BY <2>1, <2>4, <3>2, AddedWorkers
    <3>4. idle'[s] = Added(s) /\ \A t \in Services : t # s => idle'[t] = idle[t]
      BY <2>1, <2>4 DEF Types
    <3>5. CASE w \in Range(Added(s))
      <4>1. w[1] = s
        BY <3>3, <3>5
      <4> QED
        BY <3>3, <3>4, <3>5, <4>1 DEF In
    <3>6. CASE w \in workers
      <4>1. In(w, idle[w[1]])
        BY <3>6 DEF Listed
      <4>2. CASE w[1] = s
        <5>1. idle[s] \in Seq(Internal \cup Connections) /\ In(w, idle[s])
          BY <2>1, <4>1, <4>2 DEF Types
        <5>2. In(w, <<>>)
          BY <2>4, <3>1, <5>1, FilteredList
        <5> QED
          BY <5>2 DEF In
      <4>3. CASE w[1] # s
        BY <3>1, <3>4, <4>1, <4>3
      <4> QED
        BY <4>2, <4>3
    <3> QED
      BY <2>4, <3>5, <3>6
  <2> QED
    BY <1>3, <2>2, <2>3, <2>4, DispatchCases
<1>4. CASE DispatchOne
  <2> DEFINE s == turn.service
  <2>1. /\ s \in Services
        /\ idle[s] # <<>> /\ idle[s] \in Seq(Internal \cup Connections)
        /\ idle' = [idle EXCEPT ![s] = Tail(@)]
        /\ workers' = workers \ {Head(idle[s])}
    BY <1>4 DEF DispatchOne, Types, Turns
  <2>2. idle'[s] = Tail(idle[s]) /\ \A t \in Services : t # s => idle'[t] = idle[t]
    BY <2>1 DEF Types
  <2> SUFFICES ASSUME NEW w \in workers' \cap Internal PROVE In(w, idle'[w[1]])
    BY DEF Listed, In
  <2>3. w[1] \in Services /\ In(w, idle[w[1]]) /\ w # Head(idle[s])
    BY <2>1, InternalPair DEF Listed
  <2>4. CASE w[1] = s
    <3>1. In(w, idle[s])
      BY <2>3, <2>4
    <3>2. In(w, Tail(idle[s]))
      BY <2>1, <2>3, <3>1, TailElements
    <3> QED
      BY <2>2, <2>4, <3>2
  <2>5. CASE w[1] # s
    BY <2>2, <2>3, <2>5
  <2> QED
    BY <2>4, <2>5
<1>5. ASSUME NEW s \in Services, NEW v, idle' = [idle EXCEPT ![s] = Append(@, v)],
             workers' = workers \cup {v}, v \in Internal => v[1] = s
      PROVE  Listed'
  <2> SUFFICES ASSUME NEW w \in workers' \cap Internal PROVE In(w, idle'[w[1]])
    BY DEF Listed, In
  <2>1. w[1] \in Services
    BY InternalPair
  <2>2. /\ idle[s] \in Seq(Internal \cup Connections)
        /\ idle'[s] = Append(idle[s], v) /\ \A t \in Services : t # s => idle'[t] = idle[t]
    BY <1>5 DEF Types
  <2>3. In(v, idle'[s]) /\ \A u : In(u, idle[s]) => In(u, idle'[s])
    BY <2>2, AppendElements
  <2>4. w = v \/ In(w, idle[w[1]])
    BY <1>5 DEF Listed
  <2>5. CASE w[1] = s
    BY <2>3, <2>4, <2>5
  <2>6. CASE w[1] # s
    BY <1>5, <2>1, <2>2, <2>4, <2>6
  <2> QED
    BY <2>5, <2>6
<1>6. ASSUME NEW x \in invoking, NEW ok \in BOOLEAN, Invoked(x, ok) PROVE Listed'
  <2>1. x.worker \in Internal
    BY DEF Types
  <2>2. x.worker[1] \in Services
    BY <2>1, InternalPair
  <2> QED
    BY <1>5, <1>6, <2>2 DEF Invoked
<1>7. ASSUME NEW c \in Connections, OnEventReady(c) PROVE Listed'
  <2>1. Serves[c] \in Services /\ c \notin Internal
    BY MDPAssumption
  <2> QED
    BY <1>5, <1>7, <2>1 DEF OnEventReady
<1>8. ASSUME NEW c \in Connections, OnEventDisconnect(c) PROVE Listed'
  <2>1. \A s \in Services : Filtered(idle[s], idle'[s])
    BY <1>8 DEF OnEventDisconnect, Filtered
  <2>2. workers' \subseteq workers
    BY <1>8 DEF OnEventDisconnect
  <2> QED
    BY <2>1, <2>2, ListedFiltered
<1>9. CASE UNCHANGED vars \/ DispatchEnd \/ \E r \in Requests : HandleClientMessage(r)
  <2>1. idle' = idle /\ workers' = workers
    BY <1>9 DEF vars, tables, DispatchEnd, HandleClientMessage
  <2> QED
    BY <1>1, <2>1
<1>10. ASSUME NEW c \in Connections,
             \/ Expire(c) \/ OnEventReply(c) \/ OnEventHeartbeat(c) \/ Connect(c)
             \/ HandleRequest(c) \/ NotifyHeartbeat(c) \/ NotifyDisconnect(c) \/ Drop(c)
      PROVE  Listed'
  <2>1. idle' = idle /\ workers' = workers
    BY <1>10 DEF tables, Expire, OnEventReply, OnEventHeartbeat, Connect, HandleRequest,
                 NotifyHeartbeat, NotifyDisconnect, Drop
  <2> QED
    BY <1>1, <2>1
<1> QED
  BY <1>2, <1>3, <1>4, <1>6, <1>7, <1>8, <1>9, <1>10 DEF Next

\* A pool with no worker that is busy has one that is free.
LEMMA Available ==
    ASSUME Types, Pool, Listed, NEW s \in Services, size[s] > 0, Busy(s) = {}
    PROVE  \E w : In(w, idle[s]) /\ w \notin Connections
<1> DEFINE w == <<s, 1>>
<1>1. 1 \in 1..PoolLimit /\ 1 <= size[s]
  BY Limit DEF Types
<1>2. w \in Internal /\ w[1] = s
  BY <1>1 DEF Internal
<1>3. w \in workers \/ \E x \in invoking : x.worker = w
  BY <1>1 DEF Pool
<1>4. w \in workers
  BY <1>2, <1>3 DEF Busy
<1>5. In(w, idle[s])
  BY <1>2, <1>4 DEF Listed
<1> QED
  BY <1>2, <1>5, MDPAssumption

LEMMA WakeInit == Init => Wake
BY DEF Init, Wake, AtWork

\* Only services with a pool have busy workers.
LEMMA BusyPool ==
    ASSUME Types, Pool, NEW x \in invoking
    PROVE  x.worker[1] \in Services /\ size[x.worker[1]] > 0
<1>1. x.worker \in Internal
  BY DEF Types
<1>2. x.worker = <<x.worker[1], x.worker[2]>> /\ x.worker[1] \in Services /\ x.worker[2] \in 1..PoolLimit
  BY <1>1, InternalPair
<1> DEFINE s == x.worker[1]
           k == x.worker[2]
<1>3. s \in Services /\ k \in 1..PoolLimit /\ \E y \in invoking : y.worker = <<s, k>>
  BY <1>2
<1> HIDE DEF s, k
<1>4. k <= size[s]
  BY <1>3 DEF Pool
<1>5. size[s] \in Nat
  BY <1>3, MDPAssumption DEF Types
<1>6. size[s] > 0
  BY <1>3, <1>4, <1>5
<1> QED
  BY <1>3, <1>6 DEF s

\* No greenlet is running, before and after a step.
LEMMA WakeIdle ==
    ASSUME Wake, turn = Nobody, turn' = Nobody, pending' = pending, invoking' = invoking,
           tripped \subseteq tripped'
    PROVE  Wake'
BY DEF Wake, AtWork, Busy

LEMMA WakeNext == Types /\ Pool /\ Listed /\ Wake /\ [Next]_vars => Wake'
<1> SUFFICES ASSUME Types, Pool, Listed, Wake, [Next]_vars PROVE Wake'
  OBVIOUS
<1>a. Nobody \notin Turns /\ Connections \cap Internal = {}
  BY MDPAssumption
<1>1. CASE UNCHANGED vars
  BY <1>1 DEF vars, tables, history, Wake, AtWork, Served, Busy
<1>2. CASE SendHeartbeats
  <2>1. turn = Nobody /\ turn' = Nobody /\ pending' = pending /\ invoking' = invoking /\ tripped' = tripped
    BY <1>2 DEF SendHeartbeats, history
  <2> QED
    BY <2>1, WakeIdle
<1>3. CASE Dispatch
  <2>a. PICK s \in Services : s = turn.service
    BY <1>3, DispatchCases
  <2> DEFINE left == Remaining(idle[s], expired)
  <2>1. s \in Services /\ pending' = pending /\ invoking' = invoking /\ turn # Nobody
    BY <1>3, DispatchCases DEF Dispatch
  <2>2. turn' \in {Nobody, [service |-> s, at |-> "loop"]} /\ tripped \subseteq tripped'
    BY <1>3, <2>a, DispatchCases
  <2>3. \A t \in Services \ {s} : ~AtWork(t) /\ ~AtWork(t)'
    BY <2>2, <2>a DEF AtWork
  <2>4. \A t \in Services \ ({s} \cup tripped) : pending[t] = <<>> \/ Busy(t) # {}
    BY <2>3 DEF Wake
  <2>5. \A t \in Services \ ({s} \cup tripped') :
           IF AtWork(t)' THEN size'[t] > 0 \/ Served(t)' ELSE pending'[t] = <<>> \/ Busy(t)' # {}
    BY <2>1, <2>2, <2>3, <2>4 DEF Busy
  <2>6. CASE s \in tripped'
    BY <2>5, <2>6 DEF Wake
  <2>7. CASE /\ s \notin tripped' /\ left # <<>> /\ size' = size
             /\ idle' = [idle EXCEPT ![s] = left]
             /\ turn' = [service |-> s, at |-> "loop"]
    <3>1. s \notin tripped /\ AtWork(s)
      BY <2>1, <2>2, <2>7, <2>a DEF AtWork
    <3>2. size[s] > 0 \/ Len(pending[s]) <= 1
      BY <2>1, <3>1 DEF Wake, Served
    <3>3. idle'[s] = left
      BY <2>1, <2>7 DEF Types
    <3>4. size'[s] > 0 \/ Served(s)'
      BY <2>1, <2>7, <3>2, <3>3 DEF Served
    <3>5. AtWork(s)'
      <4>1. [service |-> s, at |-> "loop"] \in Turns
        BY <2>1 DEF Turns
      <4> QED
        BY <1>a, <2>7, <4>1 DEF AtWork
    <3> QED
      BY <2>5, <3>4, <3>5 DEF Wake
  <2>8. CASE /\ Filtered(idle[s], left)
             /\ left = <<>> /\ size[s] >= PoolMax /\ turn' = Nobody
    <3>1. size[s] > 0
      BY <2>1, <2>8, MDPAssumption DEF Types
    <3>2. Busy(s) # {}
      <4> SUFFICES ASSUME Busy(s) = {} PROVE FALSE
        OBVIOUS
      <4>1. PICK w : In(w, idle[s]) /\ w \notin Connections
        BY <2>1, <3>1, Available
      <4>2. idle[s] \in Seq(Internal \cup Connections)
        BY <2>1 DEF Types
      <4>3. In(w, <<>>)
        BY <2>8, <4>1, <4>2, FilteredList
      <4> QED
        BY <4>3 DEF In
    <3>3. ~AtWork(s)' /\ Busy(s)' # {}
      BY <2>1, <2>8, <3>2 DEF AtWork, Busy
    <3> QED
      BY <2>5, <3>3 DEF Wake
  <2>9. CASE /\ size[s] < PoolMax
             /\ size' = [size EXCEPT ![s] = Grown(s)] /\ turn' = [service |-> s, at |-> "loop"]
    <3>1. size \in [Services -> 0..PoolLimit]
      BY DEF Types
    <3>2. Grown(s) > 0
      BY <2>1, <2>9, <3>1, GrownPool
    <3>3. size'[s] > 0
      BY <2>1, <2>9, <3>1, <3>2
    <3>5. AtWork(s)'
      <4>1. [service |-> s, at |-> "loop"] \in Turns
        BY <2>1 DEF Turns
      <4> QED
        BY <1>a, <2>9, <4>1 DEF AtWork
    <3> QED
      BY <2>5, <3>3, <3>5 DEF Wake
  <2> QED
    BY <1>3, <2>6, <2>7, <2>8, <2>9, <2>a, DispatchCases
<1>4. CASE DispatchOne
  <2>a. PICK s \in Services : s = turn.service
    BY <1>4 DEF DispatchOne, Types, Turns
  <2>b. PICK w : w = Head(idle[s])
    OBVIOUS
  <2>c. PICK r : r = Head(pending[s])
    OBVIOUS
  <2> DEFINE x == [req |-> r, worker |-> w]
  <2>1. /\ s \in Services /\ turn # Nobody /\ turn.at = "loop"
        /\ pending[s] # <<>> /\ pending' = [pending EXCEPT ![s] = Tail(@)]
        /\ pending[s] \in Seq(Requests)
        /\ size' = size /\ tripped \subseteq tripped'
        /\ idle[s] # <<>> /\ idle[s] \in Seq(Slots(s))
    BY <1>4, <2>a DEF DispatchOne, Types, Turns
  <2>2. /\ turn' = Nobody \/ turn' = turn
        /\ invoking \subseteq invoking'
    BY <1>4 DEF DispatchOne
  <2>3. \A t \in Services \ {s} : ~AtWork(t) /\ ~AtWork(t)' /\ pending'[t] = pending[t]
    BY <2>1, <2>2, <2>a DEF AtWork, Types
  <2>4. \A t \in Services \ ({s} \cup tripped) : pending[t] = <<>> \/ Busy(t) # {}
    BY <2>3 DEF Wake
  <2>5. \A t \in Services : Busy(t) \subseteq Busy(t)'
    BY <2>2 DEF Busy
  <2>6. \A t \in Services \ ({s} \cup tripped') :
           IF AtWork(t)' THEN size'[t] > 0 \/ Served(t)' ELSE pending'[t] = <<>> \/ Busy(t)' # {}
    BY <2>1, <2>3, <2>4, <2>5
  <2>7. CASE s \in tripped'
    BY <2>6, <2>7 DEF Wake
  <2>8. CASE w \in workers \cap Internal /\ invoking' = invoking \cup {x} /\ turn' = Nobody
    <3>1. w \in Slots(s)
      BY <2>1, <2>b, HeadTail
    <3>2. w[1] = s
      BY <1>a, <2>8, <3>1 DEF Slots
    <3>3. x \in invoking' /\ x.worker[1] = s
      BY <2>8, <3>2
    <3>4. x \in Busy(s)'
      BY <3>3 DEF Busy
    <3>5. ~AtWork(s)'
      BY <2>8 DEF AtWork
    <3> QED
      BY <2>6, <3>4, <3>5 DEF Wake
  <2>9. CASE s \notin tripped' /\ turn' = turn
    <3>1. AtWork(s) /\ AtWork(s)' /\ s \notin tripped
      BY <2>1, <2>9, <2>a DEF AtWork
    <3>2. size[s] > 0 \/ Len(pending[s]) <= 1
      BY <2>1, <3>1 DEF Wake, Served
    <3>3. size'[s] > 0 \/ Served(s)'
      <4>1. CASE size[s] > 0
        BY <2>1, <4>1
      <4>2. CASE Len(pending[s]) <= 1
        <5>1. /\ Len(pending[s]) \in Nat \ {0} /\ Tail(pending[s]) \in Seq(Requests)
              /\ Len(Tail(pending[s])) = Len(pending[s]) - 1
          BY <2>1, HeadTail
        <5>2. \A n \in Nat \ {0} : n <= 1 => n - 1 = 0
          OBVIOUS
        <5>3. Tail(pending[s]) = <<>>
          <6>1. Len(Tail(pending[s])) = 0
            BY <4>2, <5>1, <5>2, Zenon
          <6>2. \A l \in Seq(Requests) : Len(l) = 0 => l = <<>>
            OBVIOUS
          <6> QED
            BY <5>1, <6>1, <6>2, Zenon
        <5>4. pending'[s] = <<>>
          BY <2>1, <5>3 DEF Types
        <5> QED
          BY <5>4 DEF Served
      <4> QED
        BY <3>2, <4>1, <4>2
    <3> QED
      BY <2>6, <3>1, <3>3 DEF Wake
  <2> QED
    BY <1>4, <2>7, <2>8, <2>9, <2>a, <2>b, <2>c DEF DispatchOne
<1>5. CASE DispatchEnd
  <2> DEFINE s == turn.service
  <2>1. /\ s \in Services /\ turn # Nobody /\ turn.at = "loop" /\ turn' = Nobody
        /\ pending[s] = <<>> \/ idle[s] = <<>>
        /\ pending' = pending /\ invoking' = invoking /\ tripped' = tripped
    BY <1>5 DEF DispatchEnd, Types, Turns, tables, history
  <2>2. \A t \in Services \ {s} : ~AtWork(t)
    BY DEF AtWork
  <2>3. s \notin tripped => pending[s] = <<>> \/ Busy(s) # {}
    <3> SUFFICES ASSUME s \notin tripped, Busy(s) = {}, idle[s] = <<>> PROVE pending[s] = <<>>
      BY <2>1
    <3>1. ~(size[s] > 0)
      <4> SUFFICES ASSUME size[s] > 0 PROVE FALSE
        OBVIOUS
      <4>1. PICK w : In(w, idle[s]) /\ w \notin Connections
        BY <2>1, Available
      <4> QED
        BY <4>1 DEF In
    <3>2. AtWork(s)
      BY <2>1 DEF AtWork
    <3>3. Served(s)
      BY <2>1, <3>1, <3>2 DEF Wake
    <3> QED
      BY <2>1, <3>3 DEF Served
  <2> HIDE DEF s
  <2>4. \A t \in Services \ tripped : pending[t] = <<>> \/ Busy(t) # {}
    BY <2>2, <2>3 DEF Wake
  <2> QED
    BY <2>1, <2>4 DEF Wake, AtWork, Busy
<1>6. ASSUME NEW s \in Services, turn = Nobody, turn' = [service |-> s, at |-> "dispatch"],
             UNCHANGED <<size, invoking, tripped>>,
             \A t \in Services \ {s} : pending'[t] = pending[t],
             pending[s] = <<>> => Len(pending'[s]) <= 1
      PROVE  Wake'
  <2>1. \A t \in Services \ tripped : pending[t] = <<>> \/ Busy(t) # {}
    BY <1>6 DEF Wake, AtWork
  <2>2. [service |-> s, at |-> "dispatch"] \in Turns
    BY <1>6 DEF Turns
  <2>3. AtWork(s)' /\ \A t \in Services \ {s} : ~AtWork(t)'
    BY <1>6, <1>a, <2>2 DEF AtWork
  <2>4. \A t \in Services \ (tripped \cup {s}) : pending'[t] = <<>> \/ Busy(t)' # {}
    BY <1>6, <2>1 DEF Busy
  <2>5. s \notin tripped => size[s] > 0 \/ Len(pending'[s]) <= 1
    <3>1. Busy(s) # {} => size[s] > 0
      BY BusyPool DEF Busy
    <3> QED
      BY <1>6, <2>1, <3>1
  <2>6. s \notin tripped => size'[s] > 0 \/ Served(s)'
    BY <1>6, <2>5 DEF Served
  <2> QED
    BY <1>6, <2>3, <2>4, <2>6 DEF Wake
<1>7. ASSUME NEW r \in Requests, HandleClientMessage(r) PROVE Wake'
  <2> DEFINE s == For[r]
  <2>1. /\ s \in Services /\ turn = Nobody /\ turn' = [service |-> s, at |-> "dispatch"]
        /\ UNCHANGED <<size, invoking, tripped>>
        /\ pending' = [pending EXCEPT ![s] = Append(@, r)]
    BY <1>7, MDPAssumption DEF HandleClientMessage, Dispatching, history
  <2>2. \A t \in Services \ {s} : pending'[t] = pending[t]
    BY <2>1 DEF Types
  <2>3. pending[s] = <<>> => Len(pending'[s]) <= 1
    <3>1. Len(Append(<<>>, r)) = 1
      OBVIOUS
    <3>2. pending'[s] = Append(pending[s], r)
      BY <2>1 DEF Types
    <3> QED
      BY <3>1, <3>2
  <2> QED
    BY <1>6, <2>1, <2>2, <2>3
<1>8. ASSUME NEW c \in Connections, OnEventReady(c) PROVE Wake'
  <2>1. /\ Serves[c] \in Services
        /\ turn = Nobody /\ turn' = [service |-> Serves[c], at |-> "dispatch"]
        /\ UNCHANGED <<size, invoking, tripped, pending>>
    BY <1>8, MDPAssumption DEF OnEventReady, Received, Dispatching, history
  <2> QED
    BY <1>6, <2>1
<1>9. ASSUME NEW x \in invoking, NEW ok \in BOOLEAN, Invoked(x, ok) PROVE Wake'
  <2> DEFINE s == x.worker[1]
  <2>1. /\ s \in Services /\ turn = Nobody /\ invoking' = invoking \ {x}
        /\ pending' = pending /\ size' = size
        /\ \/ tripped' = tripped /\ turn' = [service |-> s, at |-> "loop"]
           \/ tripped' = tripped \cup {s} /\ turn' = Nobody
    BY <1>9, BusyPool DEF Invoked
  <2>2. size[s] > 0
    BY BusyPool
  <2>3. \A t \in Services \ {s} : Busy(t) \subseteq Busy(t)'
    BY <2>1 DEF Busy
  <2>4. \A t \in Services \ tripped : pending[t] = <<>> \/ Busy(t) # {}
    BY <2>1 DEF Wake, AtWork
  <2> HIDE DEF s
  <2>5. \A t \in Services \ {s} : ~AtWork(t)'
    BY <2>1 DEF AtWork
  <2>6. \A t \in Services \ (tripped' \cup {s}) : pending'[t] = <<>> \/ Busy(t)' # {}
    BY <2>1, <2>3, <2>4
  <2>7. s \in tripped' \/ (AtWork(s)' /\ size'[s] > 0)
    <3>1. [service |-> s, at |-> "loop"] \in Turns
      BY <2>1 DEF Turns
    <3> QED
      BY <1>a, <2>1, <2>2, <3>1 DEF AtWork
  <2> QED
    BY <2>5, <2>6, <2>7 DEF Wake
<1>10. ASSUME NEW c \in Connections,
             \/ Expire(c) \/ OnEventReply(c) \/ OnEventHeartbeat(c) \/ OnEventDisconnect(c)
             \/ Connect(c) \/ HandleRequest(c) \/ NotifyHeartbeat(c)
             \/ NotifyDisconnect(c) \/ Drop(c)
      PROVE  Wake'
  <2>1. turn = Nobody /\ turn' = Nobody /\ pending' = pending /\ invoking' = invoking
        /\ tripped' = tripped
    BY <1>10 DEF Expire, OnEventReply, OnEventHeartbeat, OnEventDisconnect, Connect,
                 HandleRequest, NotifyHeartbeat, NotifyDisconnect, Drop, Received,
                 tables, network, history
  <2> QED
    BY <2>1, WakeIdle
<1> QED
  BY <1>1, <1>2, <1>3, <1>4, <1>5, <1>7, <1>8, <1>9, <1>10 DEF Next

\* No wakeup is lost: whenever no greenlet is running, a request that waits is
\* one of a service with a busy worker, whose greenlet will look at
\* pending_requests again (dispatch_requests, send_to_worker_zato).
THEOREM PickedUpSafety == Spec => []PickedUp
<1>1. Init => Types /\ Pool /\ Listed /\ Wake
  BY TypesInit, PoolInit, ListedInit, WakeInit
<1>2. Types /\ Pool /\ Listed /\ Wake /\ [Next]_vars => (Types /\ Pool /\ Listed /\ Wake)'
  BY TypesNext, PoolNext, ListedNext, WakeNext
<1>3. Wake => PickedUp
  BY DEF Wake, AtWork, PickedUp
<1> QED
  BY <1>1, <1>2, <1>3, PTL DEF Spec

-----------------------------------------------------------------------------
(* Lists of workers.                                                       *)

AllWorkers == Internal \cup Connections

\* Only services that are known have requests or workers.
KnownServices ==
    /\ known \subseteq Services
    /\ tripped \subseteq Services
    /\ \A s \in Services \ known : pending[s] = <<>> /\ idle[s] = <<>>
    /\ turn # Nobody => turn.service \in known
    /\ \A x \in invoking : x.worker[1] \in known

\* A worker that is known is in the list of its service; nobody is in a list
\* twice, in that of another service, or while he invokes a service.
Enlisted ==
    /\ \A s \in Services, w \in AllWorkers :
          /\ In(w, idle[s]) => ServiceOf(w) = s
          /\ Once(w, idle[s])
    /\ \A w \in workers : In(w, idle[ServiceOf(w)])
    /\ expired \subseteq workers
    /\ \A x \in invoking : ~In(x.worker, idle[x.worker[1]])

\* Nobody says that he is ready while he is in the list, or has a request, or
\* has said so and was not heard yet.
Sound(c) ==
    /\ Once("ready", toBroker[c])
    /\ In("ready", toBroker[c]) => toWorker[c] = Nobody /\ ~In(c, idle[Serves[c]])
    /\ toWorker[c] # Nobody => ~In(c, idle[Serves[c]])
    /\ state[c] = "new" => /\ toBroker[c] = <<>> /\ toWorker[c] = Nobody
                           /\ ~In(c, idle[Serves[c]])

Events == {"ready", "reply", "heartbeat", "disconnect"}

ReadyOnce ==
    /\ state \in [Connections -> {"new", "up", "closed"}]
    /\ toBroker \in [Connections -> Seq(Events)]
    /\ \A c \in Connections : Sound(c)

\* The service of a worker.
LEMMA ServiceOfWorker ==
    /\ \A w \in AllWorkers : ServiceOf(w) \in Services
    /\ \A w \in Internal : ServiceOf(w) = w[1] /\ w[1] \in Services
    /\ \A c \in Connections : ServiceOf(c) = Serves[c] /\ c \notin Internal
<1>1. Serves \in [Connections -> Services] /\ Connections \cap Internal = {}
  BY MDPAssumption
<1>2. \A w \in Internal : w[1] \in Services
  BY DEF Internal
<1> QED
  BY <1>1, <1>2 DEF ServiceOf, AllWorkers

\* Elements that are removed are gone, and the others stay.
LEMMA RemainingElements ==
    ASSUME NEW S, NEW l \in Seq(S), NEW X
    PROVE  /\ \A w : In(w, Remaining(l, X)) <=> In(w, l) /\ w \notin X
           /\ \A w : Once(w, l) => Once(w, Remaining(l, X))
<1>1. Kept(l, X) \in SUBSET (1..Len(l)) /\ Remaining(l, X) = Sublist(l, Kept(l, X))
  BY DEF Kept, Remaining
<1>2. /\ \A i \in Kept(l, X) : In(l[i], Remaining(l, X))
      /\ \A w : In(w, Remaining(l, X)) => \E i \in Kept(l, X) : l[i] = w
      /\ \A w : Once(w, l) => Once(w, Remaining(l, X))
  BY <1>1, SublistElements
<1>3. \A i : i \in Kept(l, X) <=> i \in 1..Len(l) /\ l[i] \notin X
  BY DEF Kept, Positions
<1> QED
  BY <1>2, <1>3, Zenon DEF In

\* The workers that are added are numbered on from those there were.
LEMMA AddedElements ==
    ASSUME NEW s \in Services, size \in [Services -> 0..PoolLimit], size[s] < PoolMax
    PROVE  /\ \A w : In(w, Added(s)) =>
                 \E k \in 1..PoolLimit : w = <<s, k>> /\ k > size[s] /\ k <= Grown(s)
           /\ \A w : Once(w, Added(s))
<1> DEFINE n == Grown(s) - size[s]
           m == size[s]
<1>1. n \in Nat /\ m \in Nat /\ m + n = Grown(s) /\ m + n <= PoolLimit /\ PoolLimit \in Nat
  BY GrownPool, Limit
<1>2. Added(s) = [k \in 1..n |-> <<s, m + k>>] /\ Len(Added(s)) = n
  BY AddedWorkers DEF Added
<1>3. \A k \in 1..n : m + k \in 1..PoolLimit /\ m + k > m /\ m + k <= m + n
  BY <1>1
<1>4. \A i, j \in 1..n : m + i = m + j => i = j
  BY <1>1
<1> HIDE DEF n, m
<1>5. \A w : In(w, Added(s)) => \E k \in 1..n : w = <<s, m + k>>
  BY <1>2 DEF In
<1>6. \A w : Once(w, Added(s))
  <2>1. \A i \in 1..n : Added(s)[i] = <<s, m + i>>
    BY <1>2
  <2>2. \A i, j \in 1..n : Added(s)[i] = Added(s)[j] => i = j
    BY <1>4, <2>1
  <2> QED
    BY <1>2, <2>2 DEF Once
<1>7. ASSUME NEW w, In(w, Added(s))
      PROVE  \E k \in 1..PoolLimit : w = <<s, k>> /\ k > m /\ k <= m + n
  <2>1. PICK k \in 1..n : w = <<s, m + k>>
    BY <1>5, <1>7
  <2> QED
    BY <1>3, <2>1
<1> QED
  BY <1>1, <1>6, <1>7 DEF m

-----------------------------------------------------------------------------
LEMMA KnownInit == Init => KnownServices
BY DEF Init, KnownServices

\* Nothing is left of nothing.
LEMMA FilteredEmpty ==
    ASSUME NEW m, Filtered(<<>>, m)
    PROVE  m = <<>>
<1>1. CASE m = <<>>
  BY <1>1
<1>2. ASSUME NEW X, m = Remaining(<<>>, X) PROVE m = <<>>
  <2>1. <<>> \in Seq(Connections)
    OBVIOUS
  <2>2. m \in Seq(Connections) /\ \A n \in 1..Len(m) : \E i \in Kept(<<>>, X) : n = n
    BY <1>2, <2>1, RemainingIsList
  <2>3. Kept(<<>>, X) = {}
    BY DEF Kept
  <2>4. 1..Len(m) = {}
    BY <2>2, <2>3
  <2> QED
    BY <2>2, <2>4
<1> QED
  BY <1>1, <1>2 DEF Filtered

LEMMA KnownNext == Types /\ KnownServices /\ [Next]_vars => KnownServices'
<1> SUFFICES ASSUME Types, KnownServices, [Next]_vars PROVE KnownServices'
  OBVIOUS
<1>a. Connections \cap Internal = {} /\ Nobody \notin Turns
  BY MDPAssumption
<1>1. ASSUME UNCHANGED <<known, pending, turn, invoking>>, tripped' \subseteq Services,
             \A s \in Services : Filtered(idle[s], idle'[s])
      PROVE  KnownServices'
  <2>1. \A s \in Services \ known : idle'[s] = <<>>
    BY <1>1, FilteredEmpty DEF KnownServices
  <2> QED
    BY <1>1, <2>1 DEF KnownServices
<1>2. ASSUME NEW s \in known, known' = known, tripped' \subseteq Services,
             \A t \in Services \ {s} : pending'[t] = pending[t] /\ Filtered(idle[t], idle'[t]),
             turn' # Nobody => turn'.service = s,
             \A x \in invoking' : x \in invoking \/ x.worker[1] = s
      PROVE  KnownServices'
  <2>1. \A t \in Services \ known : pending'[t] = <<>> /\ idle'[t] = <<>>
    BY <1>2, FilteredEmpty DEF KnownServices
  <2>2. \A x \in invoking' : x.worker[1] \in known
    BY <1>2 DEF KnownServices
  <2> QED
    BY <1>2, <2>1, <2>2 DEF KnownServices
<1>3. ASSUME NEW s \in Services, known' = known \cup {s}, tripped' = tripped,
             \A t \in Services \ {s} : pending'[t] = pending[t] /\ idle'[t] = idle[t],
             turn'.service = s, invoking' = invoking
      PROVE  KnownServices'
  BY <1>3 DEF KnownServices
<1>4. CASE UNCHANGED vars
  <2>1. UNCHANGED <<known, pending, turn, invoking, tripped, idle>>
    BY <1>4 DEF vars, tables, history
  <2> QED
    BY <2>1 DEF KnownServices
<1>5. CASE SendHeartbeats
  <2>1. /\ UNCHANGED <<known, pending, turn, invoking, tripped>>
        /\ \A s \in Services : Filtered(idle[s], idle'[s])
    BY <1>5, CleanupFilters DEF SendHeartbeats, history
  <2> QED
    BY <1>1, <2>1 DEF KnownServices
<1>6. CASE Dispatch
  <2> DEFINE s == turn.service
  <2>1. /\ s \in Services /\ s \in known /\ known' = known
        /\ pending' = pending /\ invoking' = invoking
        /\ turn' # Nobody => turn'.service = s
        /\ tripped' \subseteq tripped \cup {s}
    BY <1>6, DispatchCases DEF Dispatch, KnownServices
  <2>2. \A t \in Services \ {s} : Filtered(idle[t], idle'[t])
    <3>1. CASE CleanupRaises
      BY <3>1, CleanupFilters
    <3>2. CASE \E l : idle' = [idle EXCEPT ![s] = l]
      BY <3>2 DEF Types, Filtered
    <3> QED
      BY <1>6, <3>1, <3>2, DispatchCases
  <2> QED
    BY <1>2, <2>1, <2>2 DEF KnownServices
<1>7. CASE DispatchOne
  <2> DEFINE s == turn.service
             w == Head(idle[s])
             r == Head(pending[s])
  <2>1. /\ s \in Services /\ s \in known /\ known' = known
        /\ turn' # Nobody => turn' = turn
        /\ pending' = [pending EXCEPT ![s] = Tail(@)] /\ idle' = [idle EXCEPT ![s] = Tail(@)]
        /\ tripped' \subseteq tripped \cup {s}
        /\ idle[s] # <<>>
    BY <1>7 DEF DispatchOne, KnownServices, Types, Turns
  <2>2. \A t \in Services \ {s} : pending'[t] = pending[t] /\ Filtered(idle[t], idle'[t])
    BY <2>1 DEF Types, Filtered
  <2>3. \A x \in invoking' : x \in invoking \/ x.worker[1] = s
    <3>1. idle[s] \in Seq(Slots(s))
      BY <2>1 DEF Types
    <3>2. w \in Internal => w[1] = s
      BY <1>a, <2>1, <3>1, HeadTail DEF Slots
    <3>3. invoking' = invoking \/ (w \in Internal /\ invoking' = invoking \cup {[req |-> r, worker |-> w]})
      BY <1>7 DEF DispatchOne
    <3> HIDE DEF w, s, r
    <3> QED
      BY <3>2, <3>3
  <2> QED
    BY <1>2, <2>1, <2>2, <2>3 DEF KnownServices
<1>8. CASE DispatchEnd
  <2>1. UNCHANGED <<known, pending, invoking, tripped, idle>> /\ turn' = Nobody
    BY <1>8 DEF DispatchEnd, tables, history
  <2> QED
    BY <2>1 DEF KnownServices
<1>9. ASSUME NEW r \in Requests, HandleClientMessage(r) PROVE KnownServices'
  <2>1. For[r] \in Services
    BY MDPAssumption
  <2>2. /\ known' = known \cup {For[r]} /\ tripped' = tripped /\ invoking' = invoking
        /\ turn'.service = For[r] /\ idle' = idle
        /\ \A t \in Services \ {For[r]} : pending'[t] = pending[t]
    BY <1>9 DEF HandleClientMessage, Dispatching, history, Types
  <2> QED
    BY <1>3, <2>1, <2>2
<1>10. ASSUME NEW c \in Connections, OnEventReady(c) PROVE KnownServices'
  <2>1. Serves[c] \in Services
    BY MDPAssumption
  <2>2. /\ known' = known \cup {Serves[c]} /\ tripped' = tripped /\ invoking' = invoking
        /\ turn'.service = Serves[c] /\ pending' = pending
        /\ \A t \in Services \ {Serves[c]} : idle'[t] = idle[t]
    BY <1>10 DEF OnEventReady, Dispatching, history, Types
  <2> QED
    BY <1>3, <2>1, <2>2
<1>11. ASSUME NEW x \in invoking, NEW ok \in BOOLEAN, Invoked(x, ok) PROVE KnownServices'
  <2> DEFINE s == x.worker[1]
  <2>1. /\ s \in known /\ s \in Services /\ known' = known /\ pending' = pending
        /\ idle' = [idle EXCEPT ![s] = Append(@, x.worker)]
        /\ invoking' \subseteq invoking /\ tripped' \subseteq tripped \cup {s}
        /\ turn' # Nobody => turn'.service = s
    BY <1>11 DEF Invoked, KnownServices
  <2>2. \A t \in Services \ {s} : Filtered(idle[t], idle'[t])
    BY <2>1 DEF Types, Filtered
  <2> HIDE DEF s
  <2> QED
    BY <1>2, <2>1, <2>2 DEF KnownServices
<1>12. ASSUME NEW c \in Connections, OnEventDisconnect(c) PROVE KnownServices'
  <2>1. \A s \in Services : Filtered(idle[s], idle'[s])
    BY <1>12 DEF OnEventDisconnect, Filtered
  <2>2. UNCHANGED <<known, pending, turn, invoking, tripped>>
    BY <1>12 DEF OnEventDisconnect, Received, history
  <2> QED
    BY <1>1, <2>1, <2>2 DEF KnownServices
<1>13. ASSUME NEW c \in Connections,
             \/ Expire(c) \/ OnEventReply(c) \/ OnEventHeartbeat(c) \/ Connect(c)
             \/ HandleRequest(c) \/ NotifyHeartbeat(c) \/ NotifyDisconnect(c) \/ Drop(c)
       PROVE  KnownServices'
  <2>1. UNCHANGED <<known, pending, turn, invoking, tripped, idle>>
    BY <1>13 DEF Expire, OnEventReply, OnEventHeartbeat, Connect, HandleRequest, NotifyHeartbeat,
                 NotifyDisconnect, Drop, tables, history
  <2> QED
    BY <2>1 DEF KnownServices
<1> QED
  BY <1>4, <1>5, <1>6, <1>7, <1>8, <1>9, <1>10, <1>11, <1>12, <1>13 DEF Next

-----------------------------------------------------------------------------
LEMMA EnlistedInit == Init => Enlisted /\ ReadyOnce
<1> SUFFICES ASSUME Init PROVE Enlisted /\ ReadyOnce
  OBVIOUS
<1>1. \A s \in Services : idle[s] = <<>>
  BY DEF Init
<1>2. \A x : ~In(x, <<>>) /\ Once(x, <<>>)
  BY DEF In, Once
<1>3. Enlisted
  BY <1>1, <1>2 DEF Init, Enlisted
<1>4. \A c \in Connections : /\ Serves[c] \in Services /\ toBroker[c] = <<>>
                             /\ toWorker[c] = Nobody /\ state[c] = "new"
  BY MDPAssumption DEF Init
<1>5. ReadyOnce
  BY <1>1, <1>2, <1>4 DEF Init, ReadyOnce, Sound
<1> QED
  BY <1>3, <1>5

\* Workers that go away leave all lists, or those of other services.
LEMMA EnlistedRemoved ==
    ASSUME Types, Enlisted, NEW X, invoking' = invoking,
           workers' \subseteq workers \ X, expired' \subseteq workers',
           \A s \in Services : idle'[s] \in {idle[s], Remaining(idle[s], X)},
           X \cap Internal = {}
    PROVE  Enlisted'
<1>1. \A s \in Services, w \in AllWorkers : /\ In(w, idle'[s]) => In(w, idle[s])
                                            /\ In(w, idle[s]) /\ w \notin X => In(w, idle'[s])
                                            /\ Once(w, idle[s]) => Once(w, idle'[s])
  <2> TAKE s \in Services, w \in AllWorkers
  <2>1. idle[s] \in Seq(Internal \cup Connections)
    BY DEF Types
  <2>2. CASE idle'[s] = idle[s]
    BY <2>2
  <2>3. CASE idle'[s] = Remaining(idle[s], X)
    BY <2>1, <2>3, RemainingElements
  <2> QED
    BY <2>2, <2>3
<1>2. \A w \in workers' : In(w, idle'[ServiceOf(w)])
  <2> TAKE w \in workers'
  <2>1. w \in workers /\ w \notin X /\ w \in AllWorkers
    BY DEF Types, AllWorkers
  <2>2. In(w, idle[ServiceOf(w)]) /\ ServiceOf(w) \in Services
    BY <2>1, ServiceOfWorker DEF Enlisted
  <2> QED
    BY <1>1, <2>1, <2>2
<1>3. \A x \in invoking : ~In(x.worker, idle'[x.worker[1]])
  <2> TAKE x \in invoking
  <2>1. x.worker \in Internal /\ x.worker \in AllWorkers
    BY DEF Types, AllWorkers
  <2>2. x.worker[1] \in Services
    BY <2>1, ServiceOfWorker
  <2> QED
    BY <1>1, <2>1, <2>2 DEF Enlisted
<1> QED
  BY <1>1, <1>2, <1>3 DEF Enlisted

\* A worker that is in no list is added to that of his service.
LEMMA EnlistedAppended ==
    ASSUME Types, Enlisted, NEW v \in AllWorkers, NEW s, s = ServiceOf(v), ~In(v, idle[s]),
           idle' = [idle EXCEPT ![s] = Append(@, v)],
           workers' = workers \cup {v}, expired' = expired, invoking' \subseteq invoking,
           \A x \in invoking' : x.worker # v
    PROVE  Enlisted'
<1>1. s \in Services
  BY ServiceOfWorker
<1>2. idle'[s] = Append(idle[s], v) /\ \A t \in Services : t # s => idle'[t] = idle[t]
  BY <1>1 DEF Types
<1>3. /\ \A w : In(w, Append(idle[s], v)) <=> In(w, idle[s]) \/ w = v
      /\ \A w : Once(w, idle[s]) /\ (w # v \/ ~In(w, idle[s])) => Once(w, Append(idle[s], v))
  <2>1. idle[s] \in Seq(Internal \cup Connections)
    BY <1>1 DEF Types
  <2> QED
    BY <2>1, AppendElements
<1>4. \A t \in Services, w \in AllWorkers : /\ In(w, idle'[t]) <=> In(w, idle[t]) \/ (t = s /\ w = v)
                                            /\ Once(w, idle[t]) => Once(w, idle'[t])
  <2> TAKE t \in Services, w \in AllWorkers
  <2>1. CASE t = s
    BY <1>2, <1>3, <2>1
  <2>2. CASE t # s
    BY <1>2, <2>2
  <2> QED
    BY <2>1, <2>2
<1>5. \A w \in workers' : In(w, idle'[ServiceOf(w)])
  <2> TAKE w \in workers'
  <2>1. w \in AllWorkers /\ ServiceOf(w) \in Services
    BY ServiceOfWorker DEF Types, AllWorkers
  <2>2. w = v \/ In(w, idle[ServiceOf(w)])
    BY DEF Enlisted
  <2> QED
    BY <1>4, <2>1, <2>2
<1>6. \A x \in invoking' : ~In(x.worker, idle'[x.worker[1]])
  <2> TAKE x \in invoking'
  <2>1. x \in invoking /\ x.worker # v
    OBVIOUS
  <2>2. x.worker \in Internal /\ x.worker \in AllWorkers
    BY <2>1 DEF Types, AllWorkers
  <2>3. x.worker[1] \in Services
    BY <2>2, ServiceOfWorker
  <2> QED
    BY <1>4, <2>1, <2>2, <2>3 DEF Enlisted
<1> QED
  BY <1>4, <1>5, <1>6 DEF Enlisted

\* The first worker in a list is taken.
LEMMA EnlistedTaken ==
    ASSUME Types, Enlisted, NEW s \in Services, NEW v, idle[s] # <<>>, v = Head(idle[s]),
           idle' = [idle EXCEPT ![s] = Tail(@)],
           workers' = workers \ {v}, expired' = expired \ {v},
           \A x \in invoking' : x \in invoking \/ (x.worker = v /\ v \in Internal)
    PROVE  /\ Enlisted'
           /\ v \in AllWorkers /\ ServiceOf(v) = s /\ ~In(v, idle'[s])
           /\ \A t \in Services, w \in AllWorkers : In(w, idle'[t]) => In(w, idle[t])
<1>1. idle[s] \in Seq(AllWorkers)
  BY DEF Types, AllWorkers
<1>2. /\ In(v, idle[s])
      /\ \A w : In(w, Tail(idle[s])) => In(w, idle[s])
      /\ \A w : In(w, idle[s]) /\ w # v => In(w, Tail(idle[s]))
      /\ \A w : Once(w, idle[s]) => Once(w, Tail(idle[s]))
      /\ Once(v, idle[s]) => ~In(v, Tail(idle[s]))
  BY <1>1, TailElements
<1>3. v \in AllWorkers
  BY <1>1, HeadTail
<1>4. ServiceOf(v) = s
  BY <1>2, <1>3 DEF Enlisted
<1>5. idle'[s] = Tail(idle[s]) /\ \A t \in Services : t # s => idle'[t] = idle[t]
  BY DEF Types
<1>6. ~In(v, idle'[s])
  BY <1>2, <1>3, <1>5 DEF Enlisted
<1>7. \A t \in Services, w \in AllWorkers : /\ In(w, idle'[t]) => In(w, idle[t])
                                            /\ In(w, idle[t]) /\ w # v => In(w, idle'[t])
                                            /\ Once(w, idle[t]) => Once(w, idle'[t])
  <2> TAKE t \in Services, w \in AllWorkers
  <2>1. CASE t = s
    BY <1>2, <1>5, <2>1
  <2>2. CASE t # s
    BY <1>5, <2>2
  <2> QED
    BY <2>1, <2>2
<1>8. \A w \in workers' : In(w, idle'[ServiceOf(w)])
  <2> TAKE w \in workers'
  <2>1. w \in AllWorkers /\ ServiceOf(w) \in Services /\ w \in workers /\ w # v
    BY ServiceOfWorker DEF Types, AllWorkers
  <2> QED
    BY <1>7, <2>1 DEF Enlisted
<1>9. \A x \in invoking' : ~In(x.worker, idle'[x.worker[1]])
  <2> TAKE x \in invoking'
  <2>1. CASE x \in invoking
    <3>1. x.worker \in Internal /\ x.worker \in AllWorkers
      BY <2>1 DEF Types, AllWorkers
    <3>2. x.worker[1] \in Services
      BY <3>1, ServiceOfWorker
    <3> QED
      BY <1>7, <2>1, <3>1, <3>2 DEF Enlisted
  <2>2. CASE x.worker = v /\ v \in Internal
    BY <1>4, <1>6, <2>2, ServiceOfWorker
  <2> QED
    BY <2>1, <2>2
<1> QED
  BY <1>3, <1>4, <1>6, <1>7, <1>8, <1>9 DEF Enlisted

LEMMA EnlistedNext == Types /\ Pool /\ Enlisted /\ ReadyOnce /\ [Next]_vars => Enlisted'
<1> SUFFICES ASSUME Types, Pool, Enlisted, ReadyOnce, [Next]_vars PROVE Enlisted'
  OBVIOUS
<1>a. Connections \cap Internal = {}
  BY MDPAssumption
<1>b. expired \cap Internal = {} /\ expired \subseteq workers
  BY <1>a DEF Types, Enlisted
<1>1. ASSUME idle' = idle, workers' = workers, expired' \subseteq workers, invoking' = invoking
      PROVE  Enlisted'
  BY <1>1 DEF Enlisted, In, Once
<1>2. CASE UNCHANGED vars
  <2>1. idle' = idle /\ workers' = workers /\ expired' = expired /\ invoking' = invoking
    BY <1>2 DEF vars, tables
  <2> QED
    BY <1>1, <1>b, <2>1
<1>3. ASSUME CleanupRaises, invoking' = invoking PROVE Enlisted'
  <2>1. PICK w \in expired : /\ workers' = workers \ {w}
                             /\ expired' = expired \ {w}
                             /\ idle' = CleanedUp(w)
    BY <1>3 DEF CleanupRaises
  <2>2. \A s \in Services : idle'[s] \in {idle[s], Remaining(idle[s], {w})}
    BY <2>1 DEF CleanedUp, Types
  <2>3. /\ workers' \subseteq workers \ {w} /\ expired' \subseteq workers' /\ {w} \cap Internal = {}
    BY <1>b, <2>1
  <2> QED
    BY <1>3, <2>2, <2>3, EnlistedRemoved
<1>4. ASSUME workers' = workers \ expired, expired' = {}, invoking' = invoking,
             \A s \in Services : idle'[s] \in {idle[s], Remaining(idle[s], expired)}
      PROVE  Enlisted'
  <2>1. workers' \subseteq workers \ expired /\ expired' \subseteq workers'
    BY <1>4
  <2> QED
    BY <1>4, <1>b, <2>1, EnlistedRemoved
<1>5. CASE SendHeartbeats
  <2>1. invoking' = invoking
    BY <1>5 DEF SendHeartbeats
  <2>2. CASE CleanupAll
    BY <1>4, <2>1, <2>2 DEF CleanupAll
  <2> QED
    BY <1>3, <1>5, <2>1, <2>2 DEF SendHeartbeats
<1>6. CASE Dispatch
  <2>a. PICK s \in Services : s = turn.service
    BY <1>6, DispatchCases
  <2>1. invoking' = invoking
    BY <1>6, DispatchCases
  <2>2. CASE /\ idle' = [idle EXCEPT ![s] = Remaining(idle[s], expired)]
             /\ workers' = workers \ expired /\ expired' = {}
    <3>1. \A t \in Services : idle'[t] \in {idle[t], Remaining(idle[t], expired)}
      BY <2>2 DEF Types
    <3> QED
      BY <1>4, <2>1, <2>2, <3>1
  <2>3. CASE /\ Remaining(idle[s], expired) = <<>>
             /\ size[s] < PoolMax /\ idle' = [idle EXCEPT ![s] = Added(s)]
             /\ workers' = (workers \ expired) \cup Range(Added(s)) /\ expired' = {}
    <3>1. size \in [Services -> 0..PoolLimit] /\ PoolLimit \in Nat
      BY Limit DEF Types
    <3>2. /\ \A w : In(w, Added(s)) =>
                \E k \in 1..PoolLimit : w = <<s, k>> /\ k > size[s] /\ k <= Grown(s)
          /\ \A w : Once(w, Added(s))
          /\ \A w \in Range(Added(s)) : In(w, Added(s))
      <4>1. \A w \in Range(Added(s)) : \E i \in 1..Len(Added(s)) : Added(s)[i] = w
        BY <2>3, <3>1, AddedWorkers
      <4> QED
        BY <2>3, <3>1, <4>1, AddedElements DEF In
    <3>3. \A w : In(w, Added(s)) => w \in Internal /\ w[1] = s
      BY <3>2 DEF Internal
    <3>4. idle'[s] = Added(s) /\ \A t \in Services : t # s => idle'[t] = idle[t]
      BY <2>3 DEF Types
    <3>5. \A t \in Services, w \in AllWorkers : /\ In(w, idle'[t]) => ServiceOf(w) = t
                                                /\ Once(w, idle'[t])
      <4> TAKE t \in Services, w \in AllWorkers
      <4>1. CASE t = s
        BY <3>2, <3>3, <3>4, <4>1, ServiceOfWorker
      <4>2. CASE t # s
        BY <3>4, <4>2 DEF Enlisted
      <4> QED
        BY <4>1, <4>2
    <3>6. \A w \in workers' : In(w, idle'[ServiceOf(w)])
      <4> TAKE w \in workers'
      <4>1. CASE w \in Range(Added(s))
        BY <3>2, <3>3, <3>4, <4>1, ServiceOfWorker
      <4>2. CASE w \in workers \ expired
        <5>1. w \in AllWorkers /\ In(w, idle[ServiceOf(w)]) /\ ServiceOf(w) \in Services
          BY <4>2, ServiceOfWorker DEF Enlisted, Types, AllWorkers
        <5>2. ServiceOf(w) # s
          <6> SUFFICES ASSUME ServiceOf(w) = s PROVE FALSE
            OBVIOUS
          <6>1. idle[s] \in Seq(Internal \cup Connections) /\ In(w, idle[s])
            BY <5>1 DEF Types
          <6>2. In(w, <<>>)
            BY <2>3, <4>2, <6>1, RemainingElements
          <6> QED
            BY <6>2 DEF In
        <5> QED
          BY <3>4, <5>1, <5>2
      <4> QED
        BY <2>3, <4>1, <4>2
    <3>7. \A x \in invoking' : ~In(x.worker, idle'[x.worker[1]])
      <4> SUFFICES ASSUME NEW x \in invoking, In(x.worker, idle'[x.worker[1]]) PROVE FALSE
        BY <2>1
      <4>1. x.worker \in Internal
        BY DEF Types
      <4>2. x.worker[1] \in Services /\ ~In(x.worker, idle[x.worker[1]])
        BY <4>1, InternalPair DEF Enlisted
      <4>3. x.worker[1] = s /\ In(x.worker, Added(s))
        BY <3>4, <4>2
      <4>4. PICK k \in 1..PoolLimit : x.worker = <<s, k>> /\ k > size[s]
        BY <3>2, <4>3
      <4>5. k <= size[s]
        BY <4>4 DEF Pool
      <4> QED
        BY <3>1, <4>4, <4>5
    <3> QED
      BY <2>3, <3>5, <3>6, <3>7 DEF Enlisted
  <2> QED
    BY <1>3, <1>6, <2>1, <2>2, <2>3, <2>a, DispatchCases
<1>7. CASE DispatchOne
  <2>a. PICK s \in Services : s = turn.service
    BY <1>7 DEF DispatchOne, Types, Turns
  <2>b. PICK v : v = Head(idle[s])
    OBVIOUS
  <2>1. /\ idle[s] # <<>>
        /\ idle' = [idle EXCEPT ![s] = Tail(@)]
        /\ workers' = workers \ {v} /\ expired' = expired \ {v}
    BY <1>7, <2>a, <2>b DEF DispatchOne
  <2>2. \A x \in invoking' : x \in invoking \/ (x.worker = v /\ v \in Internal)
    BY <1>7, <2>a, <2>b DEF DispatchOne
  <2> QED
    BY <2>1, <2>2, <2>b, EnlistedTaken
<1>8. CASE DispatchEnd \/ \E r \in Requests : HandleClientMessage(r)
  <2>1. idle' = idle /\ workers' = workers /\ expired' = expired /\ invoking' = invoking
    BY <1>8 DEF DispatchEnd, HandleClientMessage, tables
  <2> QED
    BY <1>1, <1>b, <2>1
<1>9. ASSUME NEW x \in invoking, NEW ok \in BOOLEAN, Invoked(x, ok) PROVE Enlisted'
  <2>1. x.worker \in Internal /\ x.worker \in AllWorkers
    BY DEF Types, AllWorkers
  <2>2. ServiceOf(x.worker) = x.worker[1] /\ ~In(x.worker, idle[x.worker[1]])
    BY <2>1, ServiceOfWorker DEF Enlisted
  <2>3. \A y \in invoking' : y.worker # x.worker
    BY <1>9 DEF Invoked, Pool
  <2>4. /\ idle' = [idle EXCEPT ![x.worker[1]] = Append(@, x.worker)]
        /\ workers' = workers \cup {x.worker} /\ expired' = expired /\ invoking' \subseteq invoking
    BY <1>9 DEF Invoked
  <2> QED
    BY <2>1, <2>2, <2>3, <2>4, EnlistedAppended
<1>10. ASSUME NEW c \in Connections, OnEventReady(c) PROVE Enlisted'
  <2>1. toBroker[c] # <<>> /\ Head(toBroker[c]) = "ready"
    BY <1>10 DEF OnEventReady, Received
  <2>2. In("ready", toBroker[c])
    BY <2>1, TailElements DEF ReadyOnce, Sound
  <2>3. c \in AllWorkers /\ ServiceOf(c) = Serves[c] /\ ~In(c, idle[Serves[c]])
    BY <2>2, ServiceOfWorker DEF ReadyOnce, Sound, AllWorkers
  <2>4. \A x \in invoking : x.worker # c
    BY <1>a DEF Types
  <2>5. /\ idle' = [idle EXCEPT ![Serves[c]] = Append(@, c)]
        /\ workers' = workers \cup {c} /\ expired' = expired /\ invoking' = invoking
    BY <1>10 DEF OnEventReady
  <2> QED
    BY <2>3, <2>4, <2>5, EnlistedAppended
<1>11. ASSUME NEW c \in Connections, OnEventDisconnect(c) PROVE Enlisted'
  <2>1. \A s \in Services : idle'[s] = Remaining(idle[s], {c})
    BY <1>11 DEF OnEventDisconnect
  <2>2. /\ invoking' = invoking /\ workers' \subseteq workers \ {c}
        /\ expired' \subseteq workers' /\ {c} \cap Internal = {}
    BY <1>11, <1>a, <1>b DEF OnEventDisconnect
  <2> QED
    BY <2>1, <2>2, EnlistedRemoved
<1>12. ASSUME NEW c \in Connections,
             \/ Expire(c) \/ OnEventReply(c) \/ OnEventHeartbeat(c) \/ Connect(c)
             \/ HandleRequest(c) \/ NotifyHeartbeat(c) \/ NotifyDisconnect(c) \/ Drop(c)
       PROVE  Enlisted'
  <2>1. idle' = idle /\ workers' = workers /\ expired' \subseteq workers /\ invoking' = invoking
    BY <1>12, <1>b DEF Expire, OnEventReply, OnEventHeartbeat, Connect, HandleRequest,
                NotifyHeartbeat, NotifyDisconnect, Drop, tables
  <2> QED
    BY <1>1, <2>1
<1> QED
  BY <1>2, <1>5, <1>6, <1>7, <1>8, <1>9, <1>10, <1>11, <1>12 DEF Next

\* What a worker says comes last.
LEMMA SaidLast ==
    ASSUME NEW l \in Seq(Events), NEW v \in Events
    PROVE  /\ l \o <<v>> \in Seq(Events) /\ l \o <<v>> = Append(l, v)
           /\ l \o <<"reply", v>> \in Seq(Events)
           /\ l \o <<"reply", v>> = Append(Append(l, "reply"), v)
           /\ Append(l, "reply") \in Seq(Events)
BY DEF Events

LEMMA ReadyOnceNext == Types /\ Enlisted /\ ReadyOnce /\ [Next]_vars => ReadyOnce'
<1> SUFFICES ASSUME Types, Enlisted, ReadyOnce, [Next]_vars PROVE ReadyOnce'
  OBVIOUS
<1>a. Connections \cap Internal = {} /\ Connections \subseteq AllWorkers
  BY MDPAssumption DEF AllWorkers
<1>b. \A c \in Connections : Serves[c] \in Services
  BY MDPAssumption
<1>c. \A c \in Connections : toBroker[c] \in Seq(Events) /\ Sound(c)
  BY DEF ReadyOnce
<1>1. ASSUME UNCHANGED <<state, toBroker, toWorker>>,
             \A c \in Connections : In(c, idle'[Serves[c]]) => In(c, idle[Serves[c]])
      PROVE  ReadyOnce'
  BY <1>1, <1>c DEF ReadyOnce, Sound
<1>2. CASE UNCHANGED vars
  BY <1>1, <1>2 DEF vars, tables, network
<1>3. ASSUME \A s \in Services : Filtered(idle[s], idle'[s]),
             UNCHANGED <<state, toBroker, toWorker>>
      PROVE  ReadyOnce'
  <2>1. \A c \in Connections : In(c, idle'[Serves[c]]) => In(c, idle[Serves[c]])
    <3> TAKE c \in Connections
    <3>1. Filtered(idle[Serves[c]], idle'[Serves[c]]) /\ idle[Serves[c]] \in Seq(Internal \cup Connections)
      BY <1>3, <1>b DEF Types
    <3> QED
      BY <3>1, RemainingElements DEF Filtered
  <2> QED
    BY <1>1, <1>3, <2>1
<1>4. CASE SendHeartbeats
  <2>1. /\ \A s \in Services : Filtered(idle[s], idle'[s])
        /\ UNCHANGED <<state, toBroker, toWorker>>
    BY <1>4, CleanupFilters DEF SendHeartbeats, network
  <2> QED
    BY <1>3, <2>1
<1>5. CASE Dispatch
  <2>a. PICK s \in Services : s = turn.service
    BY <1>5, DispatchCases
  <2>1. UNCHANGED <<state, toBroker, toWorker>>
    BY <1>5, DispatchCases
  <2>2. CASE CleanupRaises
    BY <1>3, <2>1, <2>2, CleanupFilters
  <2>3. CASE /\ Filtered(idle[s], Remaining(idle[s], expired))
             /\ idle' = [idle EXCEPT ![s] = Remaining(idle[s], expired)]
    <3>1. \A t \in Services : Filtered(idle[t], idle'[t])
      BY <2>3 DEF Types, Filtered
    <3> QED
      BY <1>3, <2>1, <3>1
  <2>4. CASE size[s] < PoolMax /\ idle' = [idle EXCEPT ![s] = Added(s)]
    <3>1. size \in [Services -> 0..PoolLimit]
      BY DEF Types
    <3>2. \A c \in Connections : ~In(c, Added(s))
      <4>1. \A w : In(w, Added(s)) => \E k \in 1..PoolLimit : w = <<s, k>>
        BY <2>4, <3>1, AddedElements
      <4>2. \A w : In(w, Added(s)) => w \in Internal
        BY <4>1 DEF Internal
      <4> QED
        BY <1>a, <4>2
    <3>3. idle'[s] = Added(s) /\ \A t \in Services : t # s => idle'[t] = idle[t]
      BY <2>4 DEF Types
    <3> QED
      BY <1>1, <1>b, <2>1, <3>2, <3>3
  <2> QED
    BY <1>5, <2>2, <2>3, <2>4, <2>a, DispatchCases
<1>6. CASE DispatchOne
  <2>a. PICK s \in Services : s = turn.service
    BY <1>6 DEF DispatchOne, Types, Turns
  <2>b. PICK v : v = Head(idle[s])
    OBVIOUS
  <2>c. PICK r : r = Head(pending[s])
    OBVIOUS
  <2>1. /\ idle[s] # <<>>
        /\ idle' = [idle EXCEPT ![s] = Tail(@)]
        /\ workers' = workers \ {v} /\ expired' = expired \ {v}
        /\ state' = state /\ toBroker' = toBroker
    BY <1>6, <2>a, <2>b DEF DispatchOne
  <2>2. \A x \in invoking' : x \in invoking \/ (x.worker = v /\ v \in Internal)
    BY <1>6, <2>a, <2>b DEF DispatchOne
  <2>3. /\ v \in AllWorkers /\ ServiceOf(v) = s /\ ~In(v, idle'[s])
        /\ \A t \in Services, w \in AllWorkers : In(w, idle'[t]) => In(w, idle[t])
    BY <2>1, <2>2, <2>b, EnlistedTaken
  <2>4. \A c \in Connections : In(c, idle'[Serves[c]]) => In(c, idle[Serves[c]])
    BY <1>a, <1>b, <2>3
  <2>5. CASE toWorker' = toWorker
    BY <1>1, <2>1, <2>4, <2>5
  <2>6. CASE v \in Connections /\ state[v] = "up" /\ toWorker' = [toWorker EXCEPT ![v] = r]
    <3>1. ~In(v, idle'[Serves[v]]) /\ In(v, idle[Serves[v]])
      <4>1. idle[s] \in Seq(AllWorkers) /\ Serves[v] = s
        BY <2>3, <2>6, ServiceOfWorker DEF Types, AllWorkers
      <4> QED
        BY <2>1, <2>3, <2>b, <4>1, TailElements
    <3>2. Sound(v)'
      <4>1. ~In("ready", toBroker[v])
        BY <1>c, <2>6, <3>1 DEF Sound
      <4> QED
        BY <1>c, <2>1, <2>6, <3>1, <4>1 DEF Sound
    <3>3. \A c \in Connections : c # v => Sound(c)'
      <4>1. \A c \in Connections : c # v => toWorker'[c] = toWorker[c]
        BY <2>6 DEF Types
      <4> QED
        BY <1>c, <2>1, <2>4, <4>1 DEF Sound
    <3> QED
      BY <2>1, <3>2, <3>3 DEF ReadyOnce
  <2> QED
    BY <1>6, <2>5, <2>6, <2>a, <2>b, <2>c DEF DispatchOne
<1>7. CASE DispatchEnd \/ \E r \in Requests : HandleClientMessage(r)
  <2>1. UNCHANGED <<idle, state, toBroker, toWorker>>
    BY <1>7 DEF DispatchEnd, HandleClientMessage, tables, network
  <2> QED
    BY <1>1, <2>1
<1>8. ASSUME NEW x \in invoking, NEW ok \in BOOLEAN, Invoked(x, ok) PROVE ReadyOnce'
  <2>1. x.worker \in Internal
    BY DEF Types
  <2>2. UNCHANGED <<state, toBroker, toWorker>> /\ idle' = [idle EXCEPT ![x.worker[1]] = Append(@, x.worker)]
    BY <1>8 DEF Invoked, network
  <2>3. \A c \in Connections : In(c, idle'[Serves[c]]) => In(c, idle[Serves[c]])
    <3> TAKE c \in Connections
    <3>1. idle[Serves[c]] \in Seq(Internal \cup Connections) /\ c # x.worker
      BY <1>a, <1>b, <2>1 DEF Types
    <3>2. idle'[Serves[c]] \in {idle[Serves[c]], Append(idle[Serves[c]], x.worker)}
      BY <1>b, <2>2 DEF Types
    <3> QED
      BY <3>1, <3>2, AppendElements
  <2> QED
    BY <1>1, <2>2, <2>3
<1>9. ASSUME NEW c \in Connections, state' \in [Connections -> {"new", "up", "closed"}],
             \A d \in Connections \ {c} : /\ state'[d] = state[d] /\ toBroker'[d] = toBroker[d]
                                          /\ toWorker'[d] = toWorker[d]
                                          /\ In(d, idle'[Serves[d]]) => In(d, idle[Serves[d]]),
             NEW l \in Seq(Events), toBroker' = [toBroker EXCEPT ![c] = l],
             Sound(c)'
      PROVE  ReadyOnce'
  <2>1. toBroker' \in [Connections -> Seq(Events)]
    BY <1>9 DEF ReadyOnce
  <2>2. \A d \in Connections \ {c} : Sound(d)'
    BY <1>9, <1>c DEF Sound
  <2> QED
    BY <1>9, <2>1, <2>2 DEF ReadyOnce
<1>10. ASSUME NEW c \in Connections, NEW e, Received(c, e)
       PROVE  /\ toBroker[c] # <<>> /\ Tail(toBroker[c]) \in Seq(Events)
              /\ toBroker' = [toBroker EXCEPT ![c] = Tail(toBroker[c])]
              /\ toBroker'[c] = Tail(toBroker[c])
              /\ Once("ready", toBroker'[c])
              /\ In("ready", toBroker'[c]) => In("ready", toBroker[c]) /\ e # "ready"
              /\ state[c] # "new"
  <2>1. /\ toBroker[c] # <<>> /\ Head(toBroker[c]) = e
        /\ toBroker' = [toBroker EXCEPT ![c] = Tail(toBroker[c])]
    BY <1>10 DEF Received
  <2>2. toBroker'[c] = Tail(toBroker[c]) /\ Tail(toBroker[c]) \in Seq(Events)
    BY <1>c, <2>1, HeadTail DEF ReadyOnce
  <2>3. /\ In("ready", Tail(toBroker[c])) => In("ready", toBroker[c])
        /\ Once("ready", Tail(toBroker[c]))
        /\ e = "ready" => ~In("ready", Tail(toBroker[c]))
    BY <1>c, <2>1, TailElements DEF Sound
  <2>4. state[c] # "new"
    BY <1>c, <2>1 DEF Sound
  <2> QED
    BY <2>1, <2>2, <2>3, <2>4
<1>11. ASSUME NEW c \in Connections, OnEventReady(c) PROVE ReadyOnce'
  <2>1. Received(c, "ready") /\ state' = state /\ toWorker' = toWorker
        /\ idle' = [idle EXCEPT ![Serves[c]] = Append(@, c)]
    BY <1>11 DEF OnEventReady
  <2>2. /\ Tail(toBroker[c]) \in Seq(Events)
        /\ toBroker' = [toBroker EXCEPT ![c] = Tail(toBroker[c])]
        /\ Once("ready", toBroker'[c]) /\ ~In("ready", toBroker'[c])
        /\ state[c] # "new"
    BY <1>10, <2>1
  <2>3. toWorker[c] = Nobody
    <3>1. In("ready", toBroker[c])
      <4>1. toBroker[c] # <<>> /\ Head(toBroker[c]) = "ready"
        BY <2>1 DEF Received
      <4> QED
        BY <1>c, <4>1, TailElements
    <3> QED
      BY <1>c, <3>1 DEF Sound
  <2>4. Sound(c)'
    BY <2>1, <2>2, <2>3 DEF Sound
  <2>5. \A d \in Connections \ {c} : In(d, idle'[Serves[d]]) => In(d, idle[Serves[d]])
    <3> TAKE d \in Connections \ {c}
    <3>1. idle[Serves[d]] \in Seq(Internal \cup Connections)
      BY <1>b DEF Types
    <3>2. idle'[Serves[d]] \in {idle[Serves[d]], Append(idle[Serves[d]], c)}
      BY <1>b, <2>1 DEF Types
    <3> QED
      BY <3>1, <3>2, AppendElements
  <2>6. state' \in [Connections -> {"new", "up", "closed"}]
    BY <2>1 DEF ReadyOnce
  <2>7. \A d \in Connections \ {c} : /\ state'[d] = state[d] /\ toBroker'[d] = toBroker[d]
                                     /\ toWorker'[d] = toWorker[d]
                                     /\ In(d, idle'[Serves[d]]) => In(d, idle[Serves[d]])
    BY <2>1, <2>2, <2>5 DEF ReadyOnce
  <2> QED
    BY <1>9, <2>2, <2>4, <2>6, <2>7
<1>12. ASSUME NEW c \in Connections, OnEventReply(c) \/ OnEventHeartbeat(c) \/ OnEventDisconnect(c)
       PROVE  ReadyOnce'
  <2>1. /\ \E e : Received(c, e)
        /\ state' = state /\ toWorker' = toWorker
        /\ \A s \in Services : Filtered(idle[s], idle'[s])
    BY <1>12 DEF OnEventReply, OnEventHeartbeat, OnEventDisconnect, tables, Filtered
  <2>2. /\ Tail(toBroker[c]) \in Seq(Events)
        /\ toBroker' = [toBroker EXCEPT ![c] = Tail(toBroker[c])]
        /\ Once("ready", toBroker'[c]) /\ (In("ready", toBroker'[c]) => In("ready", toBroker[c]))
        /\ state[c] # "new"
    BY <1>10, <2>1
  <2>3. \A d \in Connections : In(d, idle'[Serves[d]]) => In(d, idle[Serves[d]])
    <3> TAKE d \in Connections
    <3>1. /\ Filtered(idle[Serves[d]], idle'[Serves[d]])
          /\ idle[Serves[d]] \in Seq(Internal \cup Connections)
      BY <1>b, <2>1 DEF Types
    <3> QED
      BY <3>1, RemainingElements DEF Filtered
  <2>4. Sound(c)'
    BY <1>c, <2>1, <2>2, <2>3 DEF Sound
  <2>6. state' \in [Connections -> {"new", "up", "closed"}]
    BY <2>1 DEF ReadyOnce
  <2>7. \A d \in Connections \ {c} : /\ state'[d] = state[d] /\ toBroker'[d] = toBroker[d]
                                     /\ toWorker'[d] = toWorker[d]
                                     /\ In(d, idle'[Serves[d]]) => In(d, idle[Serves[d]])
    BY <2>1, <2>2, <2>3 DEF ReadyOnce
  <2> QED
    BY <1>9, <2>2, <2>4, <2>6, <2>7
<1>13. ASSUME NEW c \in Connections, NEW l \in Seq(Events), toBroker' = [toBroker EXCEPT ![c] = l],
              idle' = idle, state' \in [Connections -> {"new", "up", "closed"}],
              \A d \in Connections \ {c} : state'[d] = state[d] /\ toWorker'[d] = toWorker[d],
              state'[c] # "new", Once("ready", l),
              In("ready", l) => toWorker'[c] = Nobody /\ ~In(c, idle[Serves[c]]),
              toWorker'[c] # Nobody => ~In(c, idle[Serves[c]])
       PROVE  ReadyOnce'
  <2>1. toBroker'[c] = l
    BY <1>13 DEF ReadyOnce
  <2>2. Sound(c)'
    BY <1>13, <2>1 DEF Sound
  <2>3. \A d \in Connections \ {c} : /\ state'[d] = state[d] /\ toBroker'[d] = toBroker[d]
                                     /\ toWorker'[d] = toWorker[d]
                                     /\ In(d, idle'[Serves[d]]) => In(d, idle[Serves[d]])
    BY <1>13 DEF ReadyOnce
  <2> QED
    BY <1>13, <1>9, <2>2, <2>3
<1>14. ASSUME NEW l \in Seq(Events), NEW e \in Events
       PROVE  /\ \A w : In(w, l \o <<e>>) <=> In(w, l) \/ w = e
              /\ \A w : Once(w, l) /\ (w # e \/ ~In(w, l)) => Once(w, l \o <<e>>)
              /\ \A w : In(w, l \o <<"reply", e>>) <=> In(w, l) \/ w \in {"reply", e}
              /\ ~In("ready", l) /\ Once("ready", l) => Once("ready", l \o <<"reply", e>>)
  <2>1. /\ l \o <<e>> = Append(l, e)
        /\ l \o <<"reply", e>> = Append(Append(l, "reply"), e)
        /\ Append(l, "reply") \in Seq(Events)
    BY SaidLast
  <2>2. /\ \A w : In(w, Append(l, e)) <=> In(w, l) \/ w = e
        /\ \A w : Once(w, l) /\ (w # e \/ ~In(w, l)) => Once(w, Append(l, e))
    BY AppendElements
  <2>3. /\ \A w : In(w, Append(l, "reply")) <=> In(w, l) \/ w = "reply"
        /\ \A w : Once(w, l) /\ (w # "reply" \/ ~In(w, l)) => Once(w, Append(l, "reply"))
    BY AppendElements
  <2>4. /\ \A w : In(w, Append(Append(l, "reply"), e)) <=> In(w, Append(l, "reply")) \/ w = e
        /\ \A w : Once(w, Append(l, "reply")) /\ (w # e \/ ~In(w, Append(l, "reply")))
                     => Once(w, Append(Append(l, "reply"), e))
    BY <2>1, AppendElements
  <2> QED
    BY <2>1, <2>2, <2>3, <2>4
<1>15. ASSUME NEW c \in Connections, Connect(c) PROVE ReadyOnce'
  <2> DEFINE l == toBroker[c] \o <<"ready">>
  <2>1. /\ state[c] = "new" /\ state' = [state EXCEPT ![c] = "up"] /\ toWorker' = toWorker
        /\ toBroker' = [toBroker EXCEPT ![c] = l] /\ idle' = idle
    BY <1>15 DEF Connect, Say, tables
  <2>2. toBroker[c] = <<>> /\ toWorker[c] = Nobody /\ ~In(c, idle[Serves[c]])
    BY <1>c, <2>1 DEF Sound
  <2>3. ~In("ready", toBroker[c])
    BY <2>2 DEF In
  <2>4. l \in Seq(Events) /\ Once("ready", l)
    BY <1>14, <1>c, <2>3, SaidLast DEF Sound, Events
  <2>5. /\ state' \in [Connections -> {"new", "up", "closed"}] /\ state'[c] # "new"
        /\ \A d \in Connections \ {c} : state'[d] = state[d] /\ toWorker'[d] = toWorker[d]
    BY <2>1 DEF ReadyOnce
  <2> HIDE DEF l
  <2> QED
    BY <1>13, <2>1, <2>2, <2>4, <2>5
<1>16. ASSUME NEW c \in Connections, HandleRequest(c) PROVE ReadyOnce'
  <2> DEFINE l == toBroker[c] \o <<"reply", "ready">>
  <2>1. /\ state[c] = "up" /\ state' = state /\ toWorker[c] # Nobody
        /\ toWorker' = [toWorker EXCEPT ![c] = Nobody]
        /\ toBroker' = [toBroker EXCEPT ![c] = l] /\ idle' = idle
    BY <1>16 DEF HandleRequest, Say, tables
  <2>2. ~In("ready", toBroker[c]) /\ ~In(c, idle[Serves[c]])
    BY <1>c, <2>1 DEF Sound
  <2>3. l \in Seq(Events) /\ Once("ready", l)
    BY <1>14, <1>c, <2>2, SaidLast DEF Sound, Events
  <2>4. /\ state' \in [Connections -> {"new", "up", "closed"}] /\ state'[c] # "new"
        /\ \A d \in Connections \ {c} : state'[d] = state[d] /\ toWorker'[d] = toWorker[d]
        /\ toWorker'[c] = Nobody
    BY <2>1 DEF ReadyOnce, Types
  <2> HIDE DEF l
  <2> QED
    BY <1>13, <2>1, <2>2, <2>3, <2>4
<1>17. ASSUME NEW c \in Connections, NotifyHeartbeat(c) \/ NotifyDisconnect(c) PROVE ReadyOnce'
  <2>a. PICK e \in {"heartbeat", "disconnect"} : Say(c, <<e>>)
    BY <1>17 DEF NotifyHeartbeat, NotifyDisconnect
  <2> DEFINE l == toBroker[c] \o <<e>>
  <2>1. /\ state[c] = "up" /\ state'[c] # "new" /\ toWorker' = toWorker
        /\ state' \in [Connections -> {"new", "up", "closed"}]
        /\ \A d \in Connections \ {c} : state'[d] = state[d]
        /\ toBroker' = [toBroker EXCEPT ![c] = l] /\ idle' = idle
    BY <1>17, <2>a DEF NotifyHeartbeat, NotifyDisconnect, Say, tables, ReadyOnce
  <2>2. l \in Seq(Events) /\ Once("ready", l) /\ (In("ready", l) => In("ready", toBroker[c]))
    BY <1>14, <1>c, SaidLast DEF Sound, Events
  <2>3. /\ In("ready", l) => toWorker'[c] = Nobody /\ ~In(c, idle[Serves[c]])
        /\ toWorker'[c] # Nobody => ~In(c, idle[Serves[c]])
    BY <1>c, <2>1, <2>2 DEF Sound
  <2> HIDE DEF l
  <2> QED
    BY <1>13, <2>1, <2>2, <2>3
<1>18. ASSUME NEW c \in Connections, Drop(c) PROVE ReadyOnce'
  <2>1. /\ state' = [state EXCEPT ![c] = "closed"] /\ toBroker' = toBroker /\ idle' = idle
        /\ toWorker' = [toWorker EXCEPT ![c] = Nobody]
    BY <1>18 DEF Drop, tables
  <2>2. /\ state' \in [Connections -> {"new", "up", "closed"}] /\ state'[c] # "new"
        /\ \A d \in Connections \ {c} : state'[d] = state[d] /\ toWorker'[d] = toWorker[d]
        /\ toWorker'[c] = Nobody
    BY <2>1 DEF ReadyOnce, Types
  <2>3. \A d \in Connections : Sound(d)'
    BY <1>c, <2>1, <2>2 DEF Sound
  <2> QED
    BY <2>1, <2>2, <2>3 DEF ReadyOnce
<1>19. ASSUME NEW c \in Connections, Expire(c) PROVE ReadyOnce'
  <2>1. UNCHANGED <<idle, state, toBroker, toWorker>>
    BY <1>19 DEF Expire, network
  <2> QED
    BY <1>1, <2>1
<1> QED
  BY <1>2, <1>4, <1>5, <1>6, <1>7, <1>8, <1>11, <1>12, <1>15, <1>16, <1>17, <1>18, <1>19 DEF Next

\* What TypeOK says of the lists follows.
LEMMA TypesOfLists == Types /\ KnownServices /\ Enlisted /\ ReadyOnce => TypeOK
<1> SUFFICES ASSUME Types, KnownServices, Enlisted, ReadyOnce PROVE TypeOK
  OBVIOUS
<1>1. ASSUME NEW w \in workers PROVE Cardinality(Positions(idle[ServiceOf(w)], {w})) = 1
  <2> DEFINE l == idle[ServiceOf(w)]
  <2>1. w \in AllWorkers /\ ServiceOf(w) \in Services
    BY ServiceOfWorker DEF Types, AllWorkers
  <2>2. In(w, l) /\ Once(w, l)
    BY <2>1 DEF Enlisted
  <2> HIDE DEF l
  <2>3. PICK i \in 1..Len(l) : l[i] = w
    BY <2>2 DEF In
  <2>4. Positions(l, {w}) = {i}
    BY <2>2, <2>3 DEF Once, Positions
  <2> QED
    BY <2>4, FS_Singleton DEF l
<1> QED
  BY <1>1 DEF TypeOK, Types, KnownServices, Enlisted, ReadyOnce

\* Every variable keeps its type; that includes that each worker the broker
\* knows of is in the list of its service, in no other, and there only once
\* (add_worker, on_event_ready, cleanup_workers, dispatch_requests).
THEOREM TypeCorrect == Spec => []TypeOK
<1> DEFINE Inv == Types /\ Pool /\ KnownServices /\ Enlisted /\ ReadyOnce
<1>1. Init => Inv
  BY TypesInit, PoolInit, KnownInit, EnlistedInit
<1>2. Inv /\ [Next]_vars => Inv'
  BY TypesNext, PoolNext, KnownNext, EnlistedNext, ReadyOnceNext
<1>3. Inv => TypeOK
  BY TypesOfLists
<1> QED
  BY <1>1, <1>2, <1>3, PTL DEF Spec

============================================================================
