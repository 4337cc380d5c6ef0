--------------------------- MODULE SQLQueueProofs ---------------------------
(***************************************************************************)
(* Theorems about SQLQueue, for any number of processes, subscriptions and *)
(* messages.                                                               *)
(***************************************************************************)
EXTENDS SQLQueue, ListTheorems

Stages == {"idle", "wait", "locked"}

\* What the proofs need to know of the types.
Types ==
    /\ topic \subseteq Msgs
    /\ depth \in Nat
    /\ subs \subseteq Subs
    /\ DOMAIN queue \subseteq topic
    /\ queue \in [DOMAIN queue -> [sub : subs, status : Status]]
    /\ due \subseteq late
    /\ checks \in [Procs -> Nat]
    /\ pub \in [Procs -> [msgs : SUBSET Msgs, live : BOOLEAN, stage : Stages]]
    /\ handed \in [Msgs -> Nat]
    /\ \A sm \in owed : sm[2] \in Msgs

\* The lock is the process's that says so.
Exclusion == \A p \in Procs : pub[p].stage = "locked" => lock = p

\* Messages about to be published have never been in the topic, and each one is
\* published by one process.
New ==
    /\ \A p \in Procs : pub[p].msgs \cap (topic \cup late) = {}
    /\ \A p, q \in Procs : p # q => pub[p].msgs \cap pub[q].msgs = {}

\* What clients have been given was in the topic once.
Seen == \A m \in Msgs : handed[m] > 0 => m \in topic \cup late

\* What clients have been given is not available any more.
Taken ==
    \A m \in Msgs : /\ handed[m] <= 1
                    /\ m \in DOMAIN queue /\ handed[m] > 0 => queue[m].status # "initialized"

\* There is room for what the process that holds the lock is about to publish.
Room ==
    CheckFreq = 1 =>
        /\ depth <= MaxDepth
        /\ \A p \in Procs : pub[p].stage = "locked" =>
              depth + Cardinality(pub[p].msgs) <= MaxDepth

Inv == Types /\ Exclusion /\ New /\ Seen /\ Taken /\ NotLost /\ Room

-----------------------------------------------------------------------------
\* Every set of messages has a size (Fits compares it with the limit).
LEMMA Sizes ==
    \A B \in SUBSET Msgs : Cardinality(B) \in Nat
BY FS_Subset, FS_CardinalityType, QueueAssumption

\* Init establishes the invariant.
LEMMA InitInv == Init => Inv
<1> SUFFICES ASSUME Init PROVE Inv
  OBVIOUS
<1>1. Types
  BY DEF Init, Types, None, Stages
<1>2. Exclusion /\ New
  BY DEF Init, Exclusion, New, None
<1>3. Seen /\ Taken /\ NotLost
  BY DEF Init, Seen, Taken, NotLost
<1>4. Room
  BY QueueAssumption DEF Init, Room, None
<1> QED
  BY <1>1, <1>2, <1>3, <1>4 DEF Inv

-----------------------------------------------------------------------------
(* Steps that leave alone what the invariant is about.                     *)

\* Subscriptions under way and news do not touch messages.
LEMMA QuietSteps ==
    ASSUME Inv,
           UNCHANGED <<topic, depth, queue, subs, past, due, checks, pub, lock, owed,
                       handed, late, cleared>>
    PROVE  Inv'
BY DEF Inv, Types, Exclusion, New, Seen, Taken, NotLost, Room, Stages

\* A new subscription changes no row.
LEMMA SubscribeStep ==
    ASSUME Inv, NEW s \in Subs, SubscribeCommit(s)
    PROVE  Inv'
<1>1. Types'
  BY DEF Inv, Types, SubscribeCommit, history
<1> QED
  BY <1>1 DEF Inv, Exclusion, New, Seen, Taken, NotLost, Room, SubscribeCommit, history
\* Deleted subscriptions take their rows along.
LEMMA DeleteSubscriptionsStep ==
    ASSUME Inv, NEW S \in SUBSET subs, DeleteSubscriptions(S)
    PROVE  Inv'
<1> DEFINE D == {m \in DOMAIN queue : queue[m].sub \in S}
<1>1. /\ queue' = [m \in DOMAIN queue \ D |-> queue[m]]
      /\ subs' = subs \ S
      /\ past' = past \cup S
      /\ UNCHANGED <<topic, depth, due, checks, pub, lock, owed, handed, late, cleared>>
  BY DEF DeleteSubscriptions, Without
<1>2. Types'
  BY <1>1 DEF Inv, Types
<1>3. NotLost'
  <2> SUFFICES ASSUME NEW sm \in owed, sm[2] \notin late \cup cleared, sm[1] \notin past',
                      ~(handed[sm[2]] > 0)
               PROVE  /\ sm[2] \in DOMAIN queue'
                      /\ queue'[sm[2]] = [sub |-> sm[1], status |-> "initialized"]
    BY <1>1 DEF NotLost
  <2>1. /\ sm[2] \in DOMAIN queue
        /\ queue[sm[2]] = [sub |-> sm[1], status |-> "initialized"]
    BY <1>1 DEF Inv, NotLost
  <2>2. sm[2] \notin D
    BY <1>1, <2>1
  <2> QED
    BY <1>1, <2>1, <2>2
<1>4. Exclusion' /\ New' /\ Seen' /\ Taken' /\ Room'
  BY <1>1 DEF Inv, Exclusion, New, Seen, Taken, Room
<1> QED
  BY <1>2, <1>3, <1>4 DEF Inv

\* Rows are deleted only of messages that expired, that clients were given or that
\* were in a queue that was cleared.
LEMMA DeleteRows ==
    ASSUME Inv, NEW D,
           queue' = Without(D),
           topic' \subseteq topic,
           topic \ topic' \subseteq due,
           DOMAIN queue \ D \subseteq topic',
           cleared \subseteq cleared',
           \A m \in D \cap DOMAIN queue : queue[m].status # "initialized" \/ m \in late \cup cleared',
           UNCHANGED <<depth, subs, past, due, checks, pub, lock, owed, handed, late>>
    PROVE  Inv'
<1>1. queue' = [m \in DOMAIN queue \ D |-> queue[m]]
  BY DEF Without
<1>2. Types'
  BY <1>1 DEF Inv, Types
<1>3. NotLost'
  <2> SUFFICES ASSUME NEW sm \in owed, sm[2] \notin late \cup cleared', sm[1] \notin past,
                      ~(handed[sm[2]] > 0)
               PROVE  /\ sm[2] \in DOMAIN queue'
                      /\ queue'[sm[2]] = [sub |-> sm[1], status |-> "initialized"]
    BY DEF NotLost
  <2>1. /\ sm[2] \in DOMAIN queue
        /\ queue[sm[2]] = [sub |-> sm[1], status |-> "initialized"]
    BY DEF Inv, NotLost
  <2>2. sm[2] \notin D
    BY <2>1
  <2> QED
    BY <1>1, <2>1, <2>2
<1>4. Exclusion' /\ New' /\ Room' /\ Seen'
  BY DEF Inv, Types, Exclusion, New, Room, Seen
<1>5. Taken'
  BY <1>1 DEF Inv, Types, Taken
<1> QED
  BY <1>2, <1>3, <1>4, <1>5 DEF Inv

\* Cleanup and clearing of a queue delete such rows only.
LEMMA CleanupSteps ==
    ASSUME Inv,
           DeleteExpired \/ DeleteDelivered \/ \E s \in Subs : ClearEndpointQueue(s)
    PROVE  Inv'
<1>1. CASE DeleteExpired
  <2>1. /\ queue' = Without(due)
        /\ topic' \subseteq topic
        /\ topic \ topic' \subseteq due
        /\ DOMAIN queue \ due \subseteq topic'
        /\ cleared \subseteq cleared'
        /\ UNCHANGED <<depth, subs, past, due, checks, pub, lock, owed, handed, late>>
    BY <1>1 DEF Inv, Types, DeleteExpired, ram, history
  <2>2. \A m \in due \cap DOMAIN queue :
           queue[m].status # "initialized" \/ m \in late \cup cleared'
    BY DEF Inv, Types
  <2> QED
    BY <2>1, <2>2, DeleteRows
<1>2. CASE DeleteDelivered
  <2>1. \A m \in Finished : queue[m].status # "initialized"
    BY DEF Finished
  <2>2. /\ queue' = Without(Finished)
        /\ topic' = topic
        /\ DOMAIN queue \ Finished \subseteq topic'
        /\ cleared \subseteq cleared'
        /\ UNCHANGED <<depth, subs, past, due, checks, pub, lock, owed, handed, late>>
    BY <1>2 DEF DeleteDelivered, ram, history, Inv, Types
  <2>3. \A m \in Finished \cap DOMAIN queue :
           queue[m].status # "initialized" \/ m \in late \cup cleared'
    BY <2>1
  <2> QED
    BY <2>2, <2>3, DeleteRows
<1>3. ASSUME NEW s \in Subs, ClearEndpointQueue(s)
      PROVE  Inv'
  <2> DEFINE R == {m \in DOMAIN queue : queue[m].sub = s}
  <2>1. /\ queue' = Without(R)
        /\ topic' = topic
        /\ DOMAIN queue \ R \subseteq topic'
        /\ cleared' = cleared \cup R
        /\ UNCHANGED <<depth, subs, past, due, checks, pub, lock, owed, handed, late>>
    BY <1>3 DEF ClearEndpointQueue, ram, Inv, Types
  <2> HIDE DEF R
  <2> QED
    BY <2>1, DeleteRows
<1> QED
  BY <1>1, <1>2, <1>3

\* Time passes, or a message gets a new expiration time.
LEMMA ExpirationSteps ==
    ASSUME Inv, NEW m \in Msgs, Expire(m) \/ Update(m)
    PROVE  Inv'
<1>1. /\ due' \subseteq late'
      /\ late \subseteq late'
      /\ late' \ late \subseteq topic
      /\ UNCHANGED <<topic, depth, queue, subs, past, checks, pub, lock, owed, handed,
                     cleared>>
  BY DEF Inv, Types, Expire, Update, ram, history
<1>2. Types'
  BY <1>1 DEF Inv, Types
<1>3. New'
  BY <1>1 DEF Inv, Types, New
<1>4. NotLost'
  BY <1>1 DEF Inv, NotLost
<1>5. Exclusion' /\ Seen' /\ Taken' /\ Room'
  BY <1>1 DEF Inv, Exclusion, Seen, Taken, Room
<1> QED
  BY <1>2, <1>3, <1>4, <1>5 DEF Inv

-----------------------------------------------------------------------------
(* Clients.                                                                *)

\* Marked rows keep their subscription, and the others all they have.
LEMMA Marked ==
    ASSUME Inv, NEW M \in SUBSET DOMAIN queue, NEW status \in Status,
           Mark(M, status)
    PROVE  /\ DOMAIN queue' = DOMAIN queue
           /\ queue' \in [DOMAIN queue -> [sub : subs, status : Status]]
           /\ \A m \in M : queue'[m].status = status
           /\ \A m \in DOMAIN queue \ M : queue'[m] = queue[m]
BY DEF Inv, Types, Mark

\* A client is given rows that nobody was given.
LEMMA GetStep ==
    ASSUME Inv, NEW s \in Subs, GetMessages(s)
    PROVE  Inv'
<1>1. PICK M \in SUBSET Available(s) :
         /\ Mark(M, "waiting")
         /\ handed' = [m \in Msgs |-> IF m \in M THEN handed[m] + 1 ELSE handed[m]]
         /\ UNCHANGED <<topic, depth, subs, past, due, checks, pub, lock, owed, late,
                        cleared>>
  BY DEF GetMessages, ram
<1>2. /\ M \subseteq DOMAIN queue
      /\ \A m \in M : queue[m].status = "initialized"
  BY DEF Available
<1>3. /\ DOMAIN queue' = DOMAIN queue
      /\ queue' \in [DOMAIN queue -> [sub : subs, status : Status]]
      /\ \A m \in M : queue'[m].status = "waiting"
      /\ \A m \in DOMAIN queue \ M : queue'[m] = queue[m]
  BY <1>1, <1>2, Marked DEF Status
<1>4. M \subseteq Msgs /\ M \subseteq topic
  BY <1>2 DEF Inv, Types
<1>5. \A m \in M : handed[m] = 0
  BY <1>2, <1>4 DEF Inv, Types, Taken
<1>6. Types'
  BY <1>1, <1>3 DEF Inv, Types
<1>7. Taken'
  BY <1>1, <1>3, <1>5 DEF Inv, Types, Taken
<1>8. NotLost'
  <2> SUFFICES ASSUME NEW sm \in owed, sm[2] \notin late \cup cleared, sm[1] \notin past,
                      ~(handed'[sm[2]] > 0)
               PROVE  /\ sm[2] \in DOMAIN queue'
                      /\ queue'[sm[2]] = [sub |-> sm[1], status |-> "initialized"]
    BY <1>1 DEF NotLost
  <2>0. sm[2] \in Msgs /\ ~(handed[sm[2]] > 0)
    BY <1>1 DEF Inv, Types
  <2>1. /\ sm[2] \in DOMAIN queue
        /\ queue[sm[2]] = [sub |-> sm[1], status |-> "initialized"]
    BY <2>0 DEF Inv, NotLost
  <2>2. sm[2] \notin M
    BY <1>1, <1>4, <1>5, <2>0
  <2> QED
    BY <1>3, <2>1, <2>2
<1>9. Seen'
  BY <1>1, <1>4 DEF Inv, Types, Seen
<1>10. Exclusion' /\ New' /\ Room'
  BY <1>1 DEF Inv, Exclusion, New, Room
<1> QED
  BY <1>6, <1>7, <1>8, <1>9, <1>10 DEF Inv

\* An acknowledgement changes rows that clients were given.
LEMMA AcknowledgeStep ==
    ASSUME Inv, NEW s \in Subs, NEW H \in SUBSET held, AcknowledgeDelivery(s, H)
    PROVE  Inv'
<1> DEFINE M == {m \in H \cap DOMAIN queue : queue[m] = [sub |-> s, status |-> "waiting"]}
<1>1. /\ Mark(M, "delivered")
      /\ UNCHANGED <<topic, depth, subs, past, due, checks, pub, lock, owed, handed, late,
                     cleared>>
  BY DEF AcknowledgeDelivery, ram, history
<1>2. /\ M \subseteq DOMAIN queue
      /\ \A m \in M : queue[m].status = "waiting"
  OBVIOUS
<1> HIDE DEF M
<1>3. /\ DOMAIN queue' = DOMAIN queue
      /\ queue' \in [DOMAIN queue -> [sub : subs, status : Status]]
      /\ \A m \in M : queue'[m].status = "delivered"
      /\ \A m \in DOMAIN queue \ M : queue'[m] = queue[m]
  BY <1>1, <1>2, Marked DEF Status
<1>4. Types'
  BY <1>1, <1>3 DEF Inv, Types
<1>5. Taken'
  BY <1>1, <1>3 DEF Inv, Types, Taken
<1>6. NotLost'
  <2> SUFFICES ASSUME NEW sm \in owed, sm[2] \notin late \cup cleared, sm[1] \notin past,
                      ~(handed[sm[2]] > 0)
               PROVE  /\ sm[2] \in DOMAIN queue'
                      /\ queue'[sm[2]] = [sub |-> sm[1], status |-> "initialized"]
    BY <1>1 DEF NotLost
  <2>1. /\ sm[2] \in DOMAIN queue
        /\ queue[sm[2]] = [sub |-> sm[1], status |-> "initialized"]
    BY DEF Inv, NotLost
  <2>2. sm[2] \notin M
    BY <1>2, <2>1
  <2> QED
    BY <1>3, <2>1, <2>2
<1>7. Exclusion' /\ New' /\ Seen' /\ Room'
  BY <1>1 DEF Inv, Exclusion, New, Seen, Room
<1> QED
  BY <1>4, <1>5, <1>6, <1>7 DEF Inv

-----------------------------------------------------------------------------
(* Publishers.                                                             *)

\* A publication begins with messages that nobody has published.
LEMMA StartStep ==
    ASSUME Inv, NEW p \in Procs, NEW B \in Batches, PublishStart(p, B)
    PROVE  Inv'
<1>1. /\ B \subseteq Msgs
      /\ B \cap (topic \cup late) = {}
      /\ \A q \in Procs : B \cap pub[q].msgs = {}
  BY QueueAssumption DEF PublishStart, Published
<1>2. /\ pub' = [pub EXCEPT ![p] = [msgs |-> B, live |-> p \in made, stage |-> "wait"]]
      /\ UNCHANGED <<topic, depth, queue, subs, past, due, checks, lock, owed, handed, late,
                     cleared>>
  BY DEF PublishStart, sql, history
<1>3. Types'
  <2>1. (p \in made) \in BOOLEAN
    OBVIOUS
  <2>2. pub' \in [Procs -> [msgs : SUBSET Msgs, live : BOOLEAN, stage : Stages]]
    BY <1>1, <1>2, <2>1 DEF Inv, Types, Stages
  <2> QED
    BY <1>2, <2>2 DEF Inv, Types
<1>4. /\ \A q \in Procs \ {p} : pub'[q] = pub[q]
      /\ pub'[p].msgs = B
      /\ pub'[p].stage = "wait"
  BY <1>2 DEF Inv, Types
<1>5. Exclusion' /\ Room'
  BY <1>2, <1>4 DEF Inv, Exclusion, Room
<1>6. New'
  BY <1>1, <1>2, <1>4 DEF Inv, New
<1>7. Seen' /\ Taken' /\ NotLost'
  BY <1>2 DEF Inv, Seen, Taken, NotLost
<1> QED
  BY <1>3, <1>5, <1>6, <1>7 DEF Inv

\* A publication that ends without a commit leaves nothing behind.
LEMMA EndStep ==
    ASSUME Inv, NEW p \in Procs,
           pub' = [pub EXCEPT ![p] = None],
           checks' \in [Procs -> Nat],
           lock' = lock \/ pub[p].stage = "locked",
           UNCHANGED <<topic, depth, queue, subs, past, due, owed, handed, late, cleared>>
    PROVE  Inv'
<1>1. /\ \A q \in Procs \ {p} : pub'[q] = pub[q]
      /\ pub'[p].msgs = {}
      /\ pub'[p].stage = "idle"
      /\ pub' \in [Procs -> [msgs : SUBSET Msgs, live : BOOLEAN, stage : Stages]]
  BY DEF Inv, Types, None, Stages
<1>2. Types'
  BY <1>1 DEF Inv, Types
<1>3. Exclusion' /\ Room'
  BY <1>1 DEF Inv, Exclusion, Room
<1>4. New'
  BY <1>1 DEF Inv, New
<1>5. Seen' /\ Taken' /\ NotLost'
  BY DEF Inv, Seen, Taken, NotLost
<1> QED
  BY <1>2, <1>3, <1>4, <1>5 DEF Inv

\* Whoever gets the lock has found that there is room.
LEMMA LockStep ==
    ASSUME Inv, NEW p \in Procs, PublishLock(p)
    PROVE  Inv'
<1> DEFINE n == (checks[p] + 1) % CheckFreq
<1>1. n \in Nat /\ (CheckFreq = 1 => n = 0)
  BY QueueAssumption DEF Inv, Types
<1>2. /\ checks' = [checks EXCEPT ![p] = n]
      /\ UNCHANGED <<topic, depth, queue, subs, past, due, owed, handed, late, cleared>>
  BY DEF PublishLock, sql, history
<1>3. checks' \in [Procs -> Nat]
  BY <1>1, <1>2 DEF Inv, Types
<1>4. CASE pub' = [pub EXCEPT ![p] = None] /\ lock' = lock
  BY <1>2, <1>3, <1>4, EndStep
<1>5. CASE /\ n = 0 => Fits(pub[p].msgs)
           /\ pub' = [pub EXCEPT ![p].stage = "locked"]
           /\ lock' = p
           /\ lock = Nobody
  <2>1. /\ \A q \in Procs \ {p} : pub'[q] = pub[q]
        /\ pub'[p].msgs = pub[p].msgs
        /\ pub' \in [Procs -> [msgs : SUBSET Msgs, live : BOOLEAN, stage : Stages]]
    BY <1>5 DEF Inv, Types, Stages
  <2>2. Types'
    BY <1>2, <1>3, <2>1 DEF Inv, Types
  <2>3. \A q \in Procs \ {p} : pub'[q].stage # "locked"
    BY <1>5, <2>1, QueueAssumption DEF Inv, Exclusion
  <2>4. Exclusion'
    BY <1>5, <2>3 DEF Exclusion
  <2>5. Room'
    BY <1>1, <1>2, <1>5, <2>1, <2>3 DEF Inv, Room, Fits
  <2>6. New'
    BY <1>2, <2>1 DEF Inv, New
  <2>7. Seen' /\ Taken' /\ NotLost'
    BY <1>2 DEF Inv, Seen, Taken, NotLost
  <2> QED
    BY <2>2, <2>4, <2>5, <2>6, <2>7 DEF Inv
<1> QED
  BY <1>4, <1>5 DEF PublishLock

\* What is committed is new to every queue.
LEMMA CommitStep ==
    ASSUME Inv, NEW p \in Procs, PublishCommit(p)
    PROVE  Inv'
<1> DEFINE B == pub[p].msgs
           T == Targets(p)
<1>1. /\ pub[p].stage = "locked"
      /\ T \subseteq subs
      /\ depth' = depth + Cardinality(B)
      /\ topic' = topic \cup B
      /\ owed' = owed \cup (T \X B)
      /\ pub' = [pub EXCEPT ![p] = None]
      /\ UNCHANGED <<subs, past, due, checks, handed, late, cleared>>
  BY DEF PublishCommit, MayInsert, Unlock
<1>2. /\ B \subseteq Msgs
      /\ B \cap (topic \cup late) = {}
      /\ B \cap DOMAIN queue = {}
      /\ Cardinality(B) \in Nat
  BY Sizes DEF Inv, Types, New
<1>3. /\ \A q \in Procs \ {p} : pub'[q] = pub[q]
      /\ pub'[p].msgs = {}
      /\ pub'[p].stage = "idle"
      /\ pub' \in [Procs -> [msgs : SUBSET Msgs, live : BOOLEAN, stage : Stages]]
  BY <1>1 DEF Inv, Types, None, Stages
<1>4. /\ DOMAIN queue \subseteq DOMAIN queue'
      /\ DOMAIN queue' \subseteq DOMAIN queue \cup B
      /\ \A m \in DOMAIN queue : queue'[m] = queue[m]
      /\ queue' \in [DOMAIN queue' -> [sub : subs, status : Status]]
      /\ \A s \in T, m \in B : /\ m \in DOMAIN queue'
                               /\ queue'[m] = [sub |-> s, status |-> "initialized"]
  <2>1. CASE T = {}
    BY <1>1, <2>1 DEF PublishCommit, Inv, Types
  <2>2. CASE T # {}
    <3> DEFINE c == CHOOSE s \in T : TRUE
    <3>1. c \in T /\ c \in subs
      BY <1>1, <2>2
    <3>2. \A s \in T : s = c
      <4>1. IsFiniteSet(T)
        BY <1>1, QueueAssumption, FS_Subset DEF Inv, Types
      <4>2. Cardinality(T) <= 1
        BY DEF PublishCommit, MayInsert
      <4>3. IsFiniteSet(T \ {c}) /\ Cardinality(T \ {c}) = Cardinality(T) - 1
        BY <3>1, <4>1, FS_RemoveElement
      <4>4. Cardinality(T) \in Nat /\ Cardinality(T \ {c}) \in Nat
        BY <4>1, <4>3, FS_CardinalityType
      <4>5. Cardinality(T \ {c}) = 0
        BY <4>2, <4>3, <4>4
      <4>6. T \ {c} = {}
        BY <4>3, <4>5, FS_EmptySet
      <4> QED
        BY <4>6
    <3>3. queue' = [m \in DOMAIN queue \cup B |->
                       IF m \in B THEN [sub |-> c, status |-> "initialized"] ELSE queue[m]]
      BY <2>2 DEF PublishCommit
    <3> HIDE DEF c, B, T
    <3> QED
      BY <1>2, <3>1, <3>2, <3>3 DEF Inv, Types, Status
  <2> QED
    BY <2>1, <2>2
<1> HIDE DEF T
<1>5. Types'
  <2>1. \A sm \in owed' : sm[2] \in Msgs
    BY <1>1, <1>2 DEF Inv, Types
  <2> QED
    BY <1>1, <1>2, <1>3, <1>4, <2>1 DEF Inv, Types
<1>6. Exclusion'
  BY <1>1, <1>3 DEF Inv, Exclusion
<1>7. New'
  BY <1>1, <1>3 DEF Inv, New
<1>8. Seen'
  BY <1>1 DEF Inv, Seen
<1>9. Taken'
  <2>1. \A m \in B : ~(handed[m] > 0)
    BY <1>2 DEF Inv, Seen
  <2> QED
    BY <1>1, <1>2, <1>4, <2>1 DEF Inv, Taken
<1>10. NotLost'
  BY <1>1, <1>4 DEF Inv, NotLost
<1>11. Room'
  BY <1>1, <1>2, <1>3 DEF Inv, Types, Exclusion, Room
<1> QED
  BY <1>5, <1>6, <1>7, <1>8, <1>9, <1>10, <1>11 DEF Inv

-----------------------------------------------------------------------------
\* Every step preserves the invariant.
LEMMA NextInv == Inv /\ [Next]_vars => Inv'
<1> SUFFICES ASSUME Inv, [Next]_vars PROVE Inv'
  OBVIOUS
<1>1. ASSUME NEW s \in Subs, SubscribeStart(s) PROVE Inv'
  BY <1>1, QuietSteps DEF SubscribeStart, ram
<1>2. ASSUME NEW s \in Subs, SubscribeCommit(s) PROVE Inv'
  BY <1>2, SubscribeStep
<1>3. ASSUME NEW S \in SUBSET subs, DeleteSubscriptions(S) PROVE Inv'
  BY <1>3, DeleteSubscriptionsStep
<1>4. ASSUME NEW p \in Procs, HandleNews(p) \/ \E i \in 1..Len(inbox[p]) : Overtake(p, i)
      PROVE  Inv'
  BY <1>4, QuietSteps DEF HandleNews, Overtake, sql
<1>5. ASSUME NEW p \in Procs, NEW B \in Batches, PublishStart(p, B) PROVE Inv'
  BY <1>5, StartStep
<1>6. ASSUME NEW p \in Procs, PublishLock(p) PROVE Inv'
  BY <1>6, LockStep
<1>7. ASSUME NEW p \in Procs, LockTimeout(p) PROVE Inv'
  <2>1. /\ pub' = [pub EXCEPT ![p] = None]
        /\ checks' \in [Procs -> Nat]
        /\ lock' = lock
        /\ UNCHANGED <<topic, depth, queue, subs, past, due, owed, handed, late, cleared>>
    BY <1>7 DEF LockTimeout, sql, history, Inv, Types
  <2> QED
    BY <2>1, EndStep
<1>8. ASSUME NEW p \in Procs, PublishCommit(p) PROVE Inv'
  BY <1>8, CommitStep
<1>9. ASSUME NEW p \in Procs, PublishFailed(p) PROVE Inv'
  <2>1. /\ pub' = [pub EXCEPT ![p] = None]
        /\ checks' \in [Procs -> Nat]
        /\ pub[p].stage = "locked"
        /\ UNCHANGED <<topic, depth, queue, subs, past, due, owed, handed, late, cleared>>
    BY <1>9 DEF PublishFailed, Unlock, sql, Inv, Types
  <2> QED
    BY <2>1, EndStep
<1>10. ASSUME NEW s \in Subs, GetMessages(s) PROVE Inv'
  BY <1>10, GetStep
<1>11. ASSUME NEW s \in Subs, NEW M \in SUBSET held, AcknowledgeDelivery(s, M) PROVE Inv'
  BY <1>11, AcknowledgeStep
<1>12. ASSUME NEW m \in Msgs, Expire(m) \/ Update(m) PROVE Inv'
  BY <1>12, ExpirationSteps
<1>13. CASE DeleteExpired \/ DeleteDelivered \/ \E s \in Subs : ClearEndpointQueue(s)
  BY <1>13, CleanupSteps
<1>14. CASE UNCHANGED vars
  BY <1>14, QuietSteps DEF vars, sql, ram, history
<1> QED
  BY <1>1, <1>2, <1>3, <1>4, <1>5, <1>6, <1>7, <1>8, <1>9, <1>10, <1>11, <1>12, <1>13, <1>14
     DEF Next

\* The invariant holds in every reachable state.
LEMMA Invariance == Spec => []Inv
<1>1. Inv /\ [Next]_vars => Inv'
  BY NextInv
<1> QED
  BY InitInv, <1>1, PTL DEF Spec

\* Whatever publishers, clients, cleanup and administrators do at a time, a message
\* that got into a subscriber's queue is available until a client was given it.
THEOREM QueueSafety == Spec => []NotLost
<1>1. Inv => NotLost
  BY DEF Inv
<1> QED
  BY Invariance, <1>1, PTL

\* No two clients are given the same message (get_messages, for any batch size).
THEOREM GivenOnce == Spec => []HandedOnce
<1>1. Inv => HandedOnce
  BY DEF Inv, Taken, HandedOnce
<1> QED
  BY Invariance, <1>1, PTL

\* However many processes publish, the topic's lock keeps the depth within
\* max_depth_gd if it is checked each time.
THEOREM DepthSafety == Spec => []DepthBounded
<1>1. Inv => DepthBounded
  BY DEF Inv, Room, DepthBounded
<1> QED
  BY Invariance, <1>1, PTL

-----------------------------------------------------------------------------
(* Types.                                                                  *)

\* What a process is told: one new subscription at a time, several that were deleted.
NewsMsgs == [type : {"create"}, subs : {{s} : s \in Subs}] \cup [type : {"delete"}, subs : SUBSET Subs]

\* The rest of the types, of which the proofs above need nothing.
MoreTypes ==
    /\ subs \cap past = {} /\ past \subseteq Subs
    /\ joining \subseteq Subs \ (subs \cup past)
    /\ due \subseteq Expiring
    /\ listed \in [Procs -> Seq(Subs)]
    /\ made \subseteq Procs
    /\ inbox \in [Procs -> Seq(NewsMsgs)]
    /\ checks \in [Procs -> 0..(CheckFreq - 1)]
    /\ pub \in [Procs -> [msgs : Batches \cup {{}}, live : BOOLEAN, stage : Stages]]
    /\ lock \in Procs \cup {Nobody}
    /\ \A p \in Procs : pub[p].stage = "locked" <=> lock = p
    /\ held \subseteq Msgs
    /\ raised \subseteq Subs /\ overtaken \subseteq Subs

\* A loop removes nothing but what it is told to, and not all of that.
LEMMA RemovedElements ==
    ASSUME NEW l \in Seq(Subs), NEW S
    PROVE  /\ Removed(l, S) \in Seq(Subs)
           /\ \A x : In(x, Removed(l, S)) => In(x, l)
           /\ \A x : In(x, l) /\ x \notin S => In(x, Removed(l, S))
           /\ \A x : Once(x, l) => Once(x, Removed(l, S))
           /\ \A x : Once(x, l) /\ S = {x} => ~In(x, Removed(l, S))
<1> DEFINE K == (1..Len(l)) \ Hit(l, S)
<1>1. K \in SUBSET (1..Len(l)) /\ Removed(l, S) = Sublist(l, K)
  BY DEF Removed
<1>2. \A i \in 1..Len(l) : i \notin K => l[i] \in S
  <2> SUFFICES ASSUME NEW i \in Hit(l, S) PROVE l[i] \in S
    OBVIOUS
  <2>1. PICK j \in 1..i : \A n \in j..i : l[n] \in S
    BY DEF Hit
  <2>2. i \in j..i
    BY DEF Hit
  <2> QED
    BY <2>1, <2>2
<1>3. ASSUME NEW x, Once(x, l), S = {x}, NEW i \in K, l[i] = x PROVE FALSE
  <2>1. i \in 1..Len(l) /\ i \in Nat /\ i \in 1..i /\ (i - i) % 2 = 0 /\ \A n \in i..i : n = i
    OBVIOUS
  <2>2. i = 1 \/ l[i - 1] \notin S
    <3>1. i # 1 => i - 1 \in 1..Len(l) /\ i - 1 # i
      BY <2>1
    <3> QED
      BY <1>3, <2>1, <3>1 DEF Once
  <2>3. i \in Hit(l, S)
    BY <1>3, <2>1, <2>2, Zenon DEF Hit
  <2> QED
    BY <2>3
<1> HIDE DEF K
<1>4. /\ Sublist(l, K) \in Seq(Subs)
      /\ \A i \in K : In(l[i], Sublist(l, K))
      /\ \A x : In(x, Sublist(l, K)) => \E i \in K : l[i] = x
      /\ \A x : Once(x, l) => Once(x, Sublist(l, K))
  BY <1>1, SublistElements
<1>5. ASSUME NEW x, In(x, l), x \notin S PROVE In(x, Sublist(l, K))
  <2>1. PICK i \in 1..Len(l) : l[i] = x
    BY <1>5, Zenon DEF In
  <2> QED
    BY <1>2, <1>4, <1>5, <2>1, Zenon
<1>6. \A x : In(x, Sublist(l, K)) => In(x, l)
  BY <1>1, <1>4, Zenon DEF In
<1>7. \A x : Once(x, l) /\ S = {x} => ~In(x, Sublist(l, K))
  BY <1>3, <1>4, Zenon
<1> QED
  BY <1>1, <1>4, <1>5, <1>6, <1>7, Zenon

\* What is announced gets to every process, behind all else.
LEMMA AnnounceTypes ==
    ASSUME inbox \in [Procs -> Seq(NewsMsgs)], NEW type, NEW S,
           [type |-> type, subs |-> S] \in NewsMsgs, Announce(type, S)
    PROVE  inbox' \in [Procs -> Seq(NewsMsgs)]
BY DEF Announce

\* The message a process handles is one of the two kinds.
LEMMA HeadNews ==
    ASSUME MoreTypes, NEW p \in Procs, inbox[p] # <<>>
    PROVE  /\ Head(inbox[p]) \in NewsMsgs
           /\ Head(inbox[p]).type = "create" => \E s \in Subs : Head(inbox[p]) = [type |-> "create", subs |-> {s}]
           /\ Head(inbox[p]).type = "delete" => Head(inbox[p]) = [type |-> "delete", subs |-> Head(inbox[p]).subs]
           /\ Head(inbox[p]).subs \subseteq Subs
<1>1. Head(inbox[p]) \in NewsMsgs
  BY HeadTail DEF MoreTypes
<1>2. \A m \in NewsMsgs : /\ m.type = "create" => \E s \in Subs : m = [type |-> "create", subs |-> {s}]
                          /\ m.type = "delete" => m = [type |-> "delete", subs |-> m.subs]
                          /\ m.subs \subseteq Subs
  BY DEF NewsMsgs
<1> QED
  BY <1>1, <1>2

\* One message overtakes another.
LEMMA OvertakeInbox ==
    ASSUME MoreTypes, NEW p \in Procs, NEW i, Overtake(p, i)
    PROVE  /\ i \in 1..(Len(inbox[p]) - 1) /\ inbox[p] \in Seq(NewsMsgs)
           /\ inbox'[p] = Swapped(inbox[p], i)
           /\ \A q \in Procs \ {p} : inbox'[q] = inbox[q]
           /\ inbox' \in [Procs -> Seq(NewsMsgs)]
           /\ overtaken' = overtaken \cup (inbox[p][i].subs \cap inbox[p][i + 1].subs)
           /\ overtaken' \subseteq Subs
<1> DEFINE l == inbox[p]
<1>1. i \in 1..(Len(l) - 1) /\ l \in Seq(NewsMsgs) /\ inbox \in [Procs -> Seq(NewsMsgs)]
  BY DEF Overtake, MoreTypes
<1>2. inbox' = [inbox EXCEPT ![p] = Swapped(l, i)]
  BY DEF Overtake, Swapped
<1>3. Swapped(l, i) \in Seq(NewsMsgs) /\ i \in 1..Len(l)
  BY <1>1, SwappedPositions
<1>4. l[i] \in NewsMsgs
  BY <1>1, <1>3
<1>5. l[i].subs \subseteq Subs
  BY <1>4 DEF NewsMsgs
<1>6. overtaken' = overtaken \cup (l[i].subs \cap l[i + 1].subs) /\ overtaken \subseteq Subs
  BY DEF Overtake, MoreTypes
<1> HIDE DEF l
<1>7. overtaken' \subseteq Subs
  BY <1>5, <1>6
<1>8. inbox' \in [Procs -> Seq(NewsMsgs)] /\ inbox'[p] = Swapped(l, i)
      /\ \A q \in Procs \ {p} : inbox'[q] = inbox[q]
  BY <1>1, <1>2, <1>3
<1> QED
  BY <1>1, <1>6, <1>7, <1>8 DEF l

LEMMA MoreTypesInit == Init => MoreTypes
<1> SUFFICES ASSUME Init PROVE MoreTypes
  OBVIOUS
<1>1. checks \in [Procs -> 0..(CheckFreq - 1)]
  BY QueueAssumption DEF Init
<1>2. listed \in [Procs -> Seq(Subs)] /\ inbox \in [Procs -> Seq(NewsMsgs)]
  BY DEF Init
<1>3. pub \in [Procs -> [msgs : Batches \cup {{}}, live : BOOLEAN, stage : Stages]]
  BY DEF Init, None, Stages
<1>4. \A p \in Procs : pub[p].stage = "locked" <=> lock = p
  BY QueueAssumption DEF Init, None
<1> QED
  BY <1>1, <1>2, <1>3, <1>4 DEF Init, MoreTypes

\* Subscriptions.
LEMMA SubscriptionTypes ==
    ASSUME Inv, MoreTypes,
           \/ \E s \in Subs : SubscribeStart(s) \/ SubscribeCommit(s)
           \/ \E S \in SUBSET subs : DeleteSubscriptions(S)
           \/ \E p \in Procs : HandleNews(p) \/ \E i \in 1..Len(inbox[p]) : Overtake(p, i)
    PROVE  MoreTypes'
<1>1. ASSUME NEW s \in Subs, SubscribeStart(s) PROVE MoreTypes'
  BY <1>1 DEF SubscribeStart, ram, missed, MoreTypes
<1>2. ASSUME NEW s \in Subs, SubscribeCommit(s) PROVE MoreTypes'
  <2>1. [type |-> "create", subs |-> {s}] \in NewsMsgs
    BY DEF NewsMsgs
  <2>2. inbox' \in [Procs -> Seq(NewsMsgs)]
    BY <1>2, <2>1, AnnounceTypes DEF SubscribeCommit, MoreTypes
  <2> QED
    BY <1>2, <2>2 DEF SubscribeCommit, history, missed, MoreTypes
<1>3. ASSUME NEW S \in SUBSET subs, DeleteSubscriptions(S) PROVE MoreTypes'
  <2>0. subs \subseteq Subs
    BY DEF Inv, Types
  <2>1. [type |-> "delete", subs |-> S] \in NewsMsgs
    BY <2>0 DEF NewsMsgs
  <2>2. inbox' \in [Procs -> Seq(NewsMsgs)]
    BY <1>3, <2>1, AnnounceTypes DEF DeleteSubscriptions, MoreTypes
  <2> QED
    BY <1>3, <2>0, <2>2 DEF DeleteSubscriptions, missed, MoreTypes
<1>4. ASSUME NEW p \in Procs, HandleNews(p) PROVE MoreTypes'
  <2>1. inbox[p] \in Seq(NewsMsgs) /\ inbox[p] # <<>> /\ listed[p] \in Seq(Subs)
    BY <1>4 DEF HandleNews, MoreTypes
  <2>2. Tail(inbox[p]) \in Seq(NewsMsgs) /\ Head(inbox[p]).subs \subseteq Subs
    BY <2>1, HeadTail, HeadNews
  <2>3. inbox' \in [Procs -> Seq(NewsMsgs)]
    BY <1>4, <2>2 DEF HandleNews, MoreTypes
  <2>4. \A s \in Head(inbox[p]).subs : Append(listed[p], s) \in Seq(Subs)
    BY <2>1, <2>2
  <2>5. Removed(listed[p], Head(inbox[p]).subs) \in Seq(Subs)
    BY <2>1, RemovedElements
  <2>6. made' \subseteq Procs /\ \E l \in Seq(Subs) : listed' = [listed EXCEPT ![p] = l]
    <3>1. CASE Head(inbox[p]).type = "create"
      <4>1. PICK s \in Head(inbox[p]).subs : listed' = [listed EXCEPT ![p] = Append(listed[p], s)]
        BY <1>4, <3>1 DEF HandleNews
      <4>2. made' = made \cup {p}
        BY <1>4, <3>1 DEF HandleNews
      <4> QED
        BY <2>4, <4>1, <4>2 DEF MoreTypes
    <3>2. CASE Head(inbox[p]).type # "create"
      <4>1. /\ made' = made
            /\ \/ listed' = [listed EXCEPT ![p] = Removed(listed[p], Head(inbox[p]).subs)]
               \/ listed' = [listed EXCEPT ![p] = listed[p]]
        BY <1>4, <3>2 DEF HandleNews, MoreTypes
      <4> QED
        BY <2>1, <2>5, <4>1 DEF MoreTypes
    <3> QED
      BY <3>1, <3>2
  <2>7. listed' \in [Procs -> Seq(Subs)]
    BY <2>6 DEF MoreTypes
  <2>8. raised' \subseteq Subs /\ overtaken' \subseteq Subs
    BY <1>4, <2>2 DEF HandleNews, MoreTypes
  <2> QED
    BY <1>4, <2>3, <2>6, <2>7, <2>8 DEF HandleNews, sql, MoreTypes
<1>5. ASSUME NEW p \in Procs, NEW i \in 1..Len(inbox[p]), Overtake(p, i) PROVE MoreTypes'
  <2>1. inbox' \in [Procs -> Seq(NewsMsgs)] /\ overtaken' \subseteq Subs
    BY <1>5, OvertakeInbox
  <2> QED
    BY <1>5, <2>1 DEF Overtake, sql, MoreTypes
<1> QED
  BY <1>1, <1>2, <1>3, <1>4, <1>5

\* Publishers.
LEMMA PublisherTypes ==
    ASSUME Inv, MoreTypes, NEW p \in Procs,
           \/ PublishLock(p) \/ LockTimeout(p) \/ PublishCommit(p) \/ PublishFailed(p)
           \/ \E B \in Batches : PublishStart(p, B)
    PROVE  MoreTypes'
<1> DEFINE Pubs == [msgs : Batches \cup {{}}, live : BOOLEAN, stage : Stages]
<1>0. pub \in [Procs -> Pubs] /\ None \in Pubs /\ None.stage = "idle" /\ Nobody \notin Procs
  BY QueueAssumption DEF MoreTypes, None, Stages
<1>1. /\ UNCHANGED <<subs, past, joining, due, listed, made, inbox, held, raised, overtaken>>
  BY DEF PublishLock, LockTimeout, PublishCommit, PublishFailed, PublishStart, sql, history, missed
<1>2. checks' \in [Procs -> 0..(CheckFreq - 1)]
  <2>1. CASE PublishLock(p)
    <3>1. (checks[p] + 1) % CheckFreq \in 0..(CheckFreq - 1)
      BY QueueAssumption DEF MoreTypes
    <3>2. checks' = [checks EXCEPT ![p] = (checks[p] + 1) % CheckFreq]
      BY <2>1 DEF PublishLock
    <3> QED
      BY <3>1, <3>2 DEF MoreTypes
  <2>2. CASE ~PublishLock(p)
    BY <2>2 DEF LockTimeout, PublishCommit, PublishFailed, PublishStart, MoreTypes
  <2> QED
    BY <2>1, <2>2
<1>3. ASSUME NEW x \in Pubs, pub' = [pub EXCEPT ![p] = x], lock' \in Procs \cup {Nobody},
             \/ x.stage # "locked" /\ pub[p].stage # "locked" /\ lock' = lock
             \/ x.stage # "locked" /\ pub[p].stage = "locked" /\ lock' = Nobody
             \/ x.stage = "locked" /\ lock = Nobody /\ lock' = p
      PROVE  MoreTypes'
  <2>1. pub' \in [Procs -> Pubs] /\ pub'[p] = x /\ \A q \in Procs \ {p} : pub'[q] = pub[q]
    BY <1>0, <1>3
  <2>2. \A q \in Procs : pub[q].stage = "locked" <=> lock = q
    BY DEF MoreTypes
  <2>3. ASSUME NEW q \in Procs PROVE pub'[q].stage = "locked" <=> lock' = q
    <3>1. CASE q = p
      BY <1>0, <1>3, <2>1, <2>2, <3>1
    <3>2. CASE q # p
      BY <1>0, <1>3, <2>1, <2>2, <3>2
    <3> QED
      BY <3>1, <3>2
  <2> QED
    BY <1>1, <1>2, <1>3, <2>1, <2>3 DEF MoreTypes
<1>4. lock \in Procs \cup {Nobody} /\ (pub[p].stage = "locked" <=> lock = p)
  BY DEF MoreTypes
<1>5. CASE \E B \in Batches : PublishStart(p, B)
  <2>1. PICK B \in Batches : PublishStart(p, B)
    BY <1>5
  <2>2. [msgs |-> B, live |-> p \in made, stage |-> "wait"] \in Pubs
    BY DEF Stages
  <2>3. pub[p] = None /\ lock' = lock
        /\ pub' = [pub EXCEPT ![p] = [msgs |-> B, live |-> p \in made, stage |-> "wait"]]
    BY <2>1 DEF PublishStart
  <2>4. pub[p].stage # "locked" /\ [msgs |-> B, live |-> p \in made, stage |-> "wait"].stage # "locked"
    BY <1>0, <2>3
  <2> HIDE DEF Pubs
  <2> QED
    BY <1>3, <1>4, <2>2, <2>3, <2>4
<1>6. CASE PublishLock(p)
  <2>1. [pub[p] EXCEPT !.stage = "locked"] \in Pubs
        /\ [pub[p] EXCEPT !.stage = "locked"].stage = "locked"
    BY <1>0 DEF Stages
  <2>2. /\ pub[p].stage = "wait" /\ lock = Nobody
        /\ \/ pub' = [pub EXCEPT ![p] = [pub[p] EXCEPT !.stage = "locked"]] /\ lock' = p
           \/ pub' = [pub EXCEPT ![p] = None] /\ lock' = lock
    BY <1>6 DEF PublishLock
  <2> HIDE DEF Pubs
  <2>3. CASE pub' = [pub EXCEPT ![p] = None] /\ lock' = lock
    BY <1>0, <1>3, <1>4, <2>2, <2>3
  <2>4. CASE pub' = [pub EXCEPT ![p] = [pub[p] EXCEPT !.stage = "locked"]] /\ lock' = p
    BY <1>3, <2>1, <2>2, <2>4
  <2> QED
    BY <2>2, <2>3, <2>4
<1>7. CASE LockTimeout(p)
  <2>1. pub[p].stage = "wait" /\ pub' = [pub EXCEPT ![p] = None] /\ lock' = lock
    BY <1>7 DEF LockTimeout
  <2> HIDE DEF Pubs
  <2> QED
    BY <1>0, <1>3, <1>4, <2>1
<1>8. CASE PublishCommit(p) \/ PublishFailed(p)
  <2>1. pub[p].stage = "locked" /\ pub' = [pub EXCEPT ![p] = None] /\ lock' = Nobody
    BY <1>8 DEF PublishCommit, PublishFailed, Unlock
  <2> HIDE DEF Pubs
  <2> QED
    BY <1>0, <1>3, <2>1
<1> QED
  BY <1>5, <1>6, <1>7, <1>8

\* Clients, expiration and cleanup.
LEMMA ClientTypes ==
    ASSUME Inv, MoreTypes,
           \/ \E s \in Subs : \/ ClearEndpointQueue(s) \/ GetMessages(s)
                              \/ \E M \in SUBSET held : AcknowledgeDelivery(s, M)
           \/ \E m \in Msgs : Expire(m) \/ Update(m)
           \/ DeleteExpired \/ DeleteDelivered
    PROVE  MoreTypes'
<1>1. ASSUME UNCHANGED <<subs, past, joining, ram, missed>>, held' \subseteq Msgs,
             due' \subseteq Expiring
      PROVE  MoreTypes'
  BY <1>1 DEF MoreTypes, ram, missed
<1>2. held \subseteq Msgs /\ due \subseteq Expiring
  BY DEF MoreTypes
<1>3. ASSUME NEW s \in Subs, GetMessages(s) PROVE MoreTypes'
  <2>1. \A M \in SUBSET Available(s) : M \subseteq Msgs
    BY DEF Available, Inv, Types
  <2>2. held' \subseteq Msgs
    BY <1>2, <1>3, <2>1 DEF GetMessages
  <2> QED
    BY <1>1, <1>2, <1>3, <2>2 DEF GetMessages
<1>4. ASSUME NEW s \in Subs, ClearEndpointQueue(s) PROVE MoreTypes'
  BY <1>1, <1>2, <1>4 DEF ClearEndpointQueue
<1>5. ASSUME NEW s \in Subs, NEW M \in SUBSET held, AcknowledgeDelivery(s, M) PROVE MoreTypes'
  BY <1>1, <1>2, <1>5 DEF AcknowledgeDelivery, history
<1>6. ASSUME NEW m \in Msgs, Expire(m) \/ Update(m) PROVE MoreTypes'
  BY <1>1, <1>2, <1>6 DEF Expire, Update, history
<1>7. CASE DeleteExpired \/ DeleteDelivered
  BY <1>1, <1>2, <1>7 DEF DeleteExpired, DeleteDelivered, history
<1> QED
  BY <1>3, <1>4, <1>5, <1>6, <1>7

LEMMA TypesHold == Spec => [](Inv /\ MoreTypes)
<1>1. Inv /\ MoreTypes /\ [Next]_vars => MoreTypes'
  <2> SUFFICES ASSUME Inv, MoreTypes, [Next]_vars PROVE MoreTypes'
    OBVIOUS
  <2>1. CASE UNCHANGED vars
    BY <2>1 DEF vars, sql, ram, history, missed, MoreTypes
  <2> QED
    BY <2>1, SubscriptionTypes, PublisherTypes, ClientTypes DEF Next
<1> QED
  BY <1>1, InitInv, MoreTypesInit, NextInv, PTL DEF Spec

\* The tables and what processes keep in RAM have their types; who has the lock is
\* the one that is about to publish.
THEOREM TypeCorrect == Spec => []TypeOK
<1>1. Inv /\ MoreTypes => TypeOK
  <2> SUFFICES ASSUME Inv, MoreTypes PROVE TypeOK
    OBVIOUS
  <2>1. \A p \in Procs : Range(listed[p]) \subseteq Subs
    BY DEF MoreTypes, Range
  <2>2. handed \in [Msgs -> 0..2]
    BY DEF Inv, Types, Taken
  <2> QED
    BY <2>1, <2>2 DEF Inv, Types, MoreTypes, Stages, TypeOK
<1> QED
  BY <1>1, TypesHold, PTL

-----------------------------------------------------------------------------
(* Who publishes to whom.                                                  *)

Created(s) == [type |-> "create", subs |-> {s}]
Deleted(s) == [type |-> "delete", subs |-> {s}]

\* Subscriptions that may stay listed: those that were deleted together with others,
\* whose news overtook each other, or whose unsubscribe raised.
Excused == joint \cup raised \cup overtaken

\* What a process knows, or will hear, of a subscription: nothing before there is
\* one; that it was created, unless it has it in its list already; and that it was
\* deleted alone, behind that, if it knows it at all.
Listing(p, s) ==
    /\ Once(s, listed[p]) /\ Once(Created(s), inbox[p])
    /\ In(Created(s), inbox[p]) => ~In(s, listed[p])
    /\ s \notin subs \cup past =>
          ~In(s, listed[p]) /\ \A m \in NewsMsgs : In(m, inbox[p]) => s \notin m.subs
    /\ s \in subs =>
          /\ In(s, listed[p]) \/ In(Created(s), inbox[p])
          /\ \A m \in NewsMsgs : In(m, inbox[p]) /\ s \in m.subs => m = Created(s)
    /\ s \in past \ Excused /\ (In(s, listed[p]) \/ In(Created(s), inbox[p])) =>
          After(Deleted(s), {Created(s)}, inbox[p])

\* An announcement is put behind what there is.
LEMMA Announced ==
    ASSUME MoreTypes, NEW p \in Procs, NEW type, NEW S, Announce(type, S)
    PROVE  inbox'[p] = Append(inbox[p], [type |-> type, subs |-> S])
BY DEF Announce

\* Another subscription is created.
LEMMA CommitListing ==
    ASSUME Inv, MoreTypes, NEW t \in Subs, SubscribeCommit(t),
           NEW p \in Procs, NEW s \in Subs, Listing(p, s)
    PROVE  Listing(p, s)'
<1> DEFINE l == inbox[p]
<1>1. /\ t \notin subs \cup past /\ subs' = subs \cup {t} /\ past' = past /\ Excused' = Excused
      /\ listed'[p] = listed[p]
      /\ inbox'[p] = Append(l, Created(t))
      /\ l \in Seq(NewsMsgs)
  BY Announced DEF SubscribeCommit, history, missed, MoreTypes, Created, Excused
<1>2. Created(s) = Created(t) => s = t
  BY DEF Created
<1>3. /\ \A x : In(x, Append(l, Created(t))) <=> In(x, l) \/ x = Created(t)
      /\ \A x : Once(x, l) /\ (x # Created(t) \/ ~In(x, l)) => Once(x, Append(l, Created(t)))
  BY <1>1, AppendElements
<1>4. Created(s) \in NewsMsgs /\ s \in Created(s).subs /\ (s # t => s \notin Created(t).subs)
  BY DEF Created, NewsMsgs
<1> HIDE DEF l
<1>5. CASE s = t
  <2>1. ~In(s, listed[p]) /\ ~In(Created(s), l)
    BY <1>1, <1>4, <1>5 DEF Listing, l
  <2>2. Once(s, listed[p]) /\ Once(Created(s), Append(l, Created(t)))
    BY <1>3, <2>1 DEF Listing, l
  <2>3. \A m \in NewsMsgs : In(m, l) => s \notin m.subs
    BY <1>1, <1>5 DEF Listing, l
  <2>4. s \in subs' /\ s \notin past'
    BY <1>1, <1>5
  <2> QED
    BY <1>1, <1>3, <1>5, <2>1, <2>2, <2>3, <2>4 DEF Listing, l
<1>6. CASE s # t
  <2>1. /\ In(Created(s), Append(l, Created(t))) <=> In(Created(s), l)
        /\ Once(Created(s), l) => Once(Created(s), Append(l, Created(t)))
        /\ \A m \in NewsMsgs : In(m, Append(l, Created(t))) /\ s \in m.subs => In(m, l)
    BY <1>2, <1>3, <1>4, <1>6
  <2>2. After(Deleted(s), {Created(s)}, l) => After(Deleted(s), {Created(s)}, Append(l, Created(t)))
    <3>1. Created(t) \notin {Created(s)}
      BY <1>2, <1>6
    <3>2. l \in Seq(NewsMsgs)
      BY <1>1
    <3> QED
      BY <3>1, <3>2, AfterAppend
  <2>3. s \in subs' <=> s \in subs
    BY <1>1, <1>6
  <2> QED
    BY <1>1, <2>1, <2>2, <2>3 DEF Listing, l
<1> QED
  BY <1>5, <1>6

\* Subscriptions are deleted.
LEMMA DeleteListing ==
    ASSUME Inv, MoreTypes, NEW S \in SUBSET subs, DeleteSubscriptions(S),
           NEW p \in Procs, NEW s \in Subs, Listing(p, s)
    PROVE  Listing(p, s)'
<1> DEFINE l == inbox[p]
           v == [type |-> "delete", subs |-> S]
<1>1. /\ subs' = subs \ S /\ past' = past \cup S
      /\ joint' = IF Cardinality(S) > 1 THEN joint \cup S ELSE joint
      /\ UNCHANGED <<raised, overtaken>>
      /\ listed'[p] = listed[p]
      /\ inbox'[p] = Append(l, v)
      /\ l \in Seq(NewsMsgs)
      /\ IsFiniteSet(S)
  <2>1. S \subseteq Subs
    BY DEF Inv, Types
  <2> QED
    BY <2>1, Announced, QueueAssumption, FS_Subset DEF DeleteSubscriptions, missed, MoreTypes
<1>2. v # Created(s) /\ v.subs = S
  BY DEF Created
<1>3. /\ \A x : In(x, Append(l, v)) <=> In(x, l) \/ x = v
      /\ \A x : Once(x, l) /\ (x # v \/ ~In(x, l)) => Once(x, Append(l, v))
  BY <1>1, AppendElements
<1>4. /\ After(Deleted(s), {Created(s)}, l) => After(Deleted(s), {Created(s)}, Append(l, v))
      /\ v = Deleted(s) => After(Deleted(s), {Created(s)}, Append(l, v))
  <2>1. v \notin {Created(s)} /\ l \in Seq(NewsMsgs)
    BY <1>1, <1>2
  <2> QED
    BY <2>1, AfterAppend
<1> HIDE DEF l, v
<1>5. Once(Created(s), Append(l, v)) /\ (In(Created(s), Append(l, v)) <=> In(Created(s), l))
  BY <1>2, <1>3 DEF Listing, l
<1>6. CASE s \in S
  <2>1. s \notin subs' /\ s \in past' /\ s \in subs
    BY <1>1, <1>6
  <2>2. s \notin Excused' => v = Deleted(s)
    <3> SUFFICES ASSUME s \notin joint' PROVE S = {s}
      BY DEF v, Deleted, Excused
    <3>1. ~(Cardinality(S) > 1)
      BY <1>1, <1>6
    <3>2. IsFiniteSet(S \ {s}) /\ Cardinality(S \ {s}) = Cardinality(S) - 1
      BY <1>1, <1>6, FS_RemoveElement
    <3>3. Cardinality(S) \in Nat /\ Cardinality(S \ {s}) \in Nat
      BY <1>1, <3>2, FS_CardinalityType
    <3>4. Cardinality(S \ {s}) = 0
      BY <3>1, <3>2, <3>3
    <3>5. S \ {s} = {}
      BY <3>2, <3>4, FS_EmptySet
    <3> QED
      BY <1>6, <3>5
  <2> QED
    BY <1>1, <1>4, <1>5, <2>1, <2>2 DEF Listing, l
<1>7. CASE s \notin S
  <2>1. /\ s \in subs' <=> s \in subs
        /\ s \in past' <=> s \in past
        /\ s \in Excused' <=> s \in Excused
    BY <1>1, <1>7 DEF Excused
  <2>2. \A m \in NewsMsgs : In(m, Append(l, v)) /\ s \in m.subs => In(m, l)
    BY <1>2, <1>3, <1>7
  <2> QED
    BY <1>1, <1>4, <1>5, <2>1, <2>2 DEF Listing, l
<1> QED
  BY <1>6, <1>7

\* News is handled.
LEMMA NewsListing ==
    ASSUME Inv, MoreTypes, NEW p \in Procs, HandleNews(p), NEW s \in Subs, Listing(p, s)
    PROVE  Listing(p, s)'
<1> DEFINE l == inbox[p]
           h == Head(inbox[p])
           rest == Tail(inbox[p])
           old == listed[p]
           now == listed'[p]
<1>1. /\ l \in Seq(NewsMsgs) /\ l # <<>> /\ old \in Seq(Subs)
      /\ inbox'[p] = rest
      /\ UNCHANGED <<subs, past>>
      /\ Excused \subseteq Excused'
  BY DEF HandleNews, MoreTypes, sql, Excused
<1>2. /\ In(h, l)
      /\ \A x : In(x, rest) => In(x, l)
      /\ \A x : In(x, l) /\ x # h => In(x, rest)
      /\ \A x : Once(x, l) => Once(x, rest)
      /\ Once(h, l) => ~In(h, rest)
  BY <1>1, TailElements
<1>3. After(Deleted(s), {Created(s)}, l) =>
         \/ After(Deleted(s), {Created(s)}, rest)
         \/ h = Deleted(s) /\ ~In(Created(s), rest)
  BY <1>1, AfterTail
<1>4. /\ h \in NewsMsgs
      /\ h.type = "create" => \E t \in Subs : h = Created(t)
      /\ h.type = "delete" => h = [type |-> "delete", subs |-> h.subs]
  BY <1>1, HeadNews DEF Created
<1>5. /\ Created(s) # Deleted(s)
      /\ Created(s).type = "create" /\ Created(s).subs = {s}
      /\ Deleted(s).type = "delete" /\ Deleted(s).subs = {s}
  BY DEF Created, Deleted
<1>6. \/ h.type = "create" /\ \E t \in h.subs : now = Append(old, t)
      \/ h.type = "delete" /\ now = Removed(old, h.subs)
      \/ h.type = "delete" /\ now = old /\ h.subs \subseteq Excused'
  BY DEF HandleNews, MoreTypes, Excused
<1>7. /\ Once(s, old) /\ Once(Created(s), l)
      /\ In(Created(s), l) => ~In(s, old)
      /\ s \notin subs \cup past => ~In(s, old) /\ \A m \in NewsMsgs : In(m, l) => s \notin m.subs
      /\ s \in subs =>
            /\ In(s, old) \/ In(Created(s), l)
            /\ \A m \in NewsMsgs : In(m, l) /\ s \in m.subs => m = Created(s)
      /\ s \in past \ Excused /\ (In(s, old) \/ In(Created(s), l)) =>
            After(Deleted(s), {Created(s)}, l)
  BY DEF Listing
<1>8. SUFFICES
      /\ Once(s, now) /\ Once(Created(s), rest)
      /\ In(Created(s), rest) => ~In(s, now)
      /\ s \notin subs \cup past => ~In(s, now) /\ \A m \in NewsMsgs : In(m, rest) => s \notin m.subs
      /\ s \in subs =>
            /\ In(s, now) \/ In(Created(s), rest)
            /\ \A m \in NewsMsgs : In(m, rest) /\ s \in m.subs => m = Created(s)
      /\ s \in past \ Excused' /\ (In(s, now) \/ In(Created(s), rest)) =>
            After(Deleted(s), {Created(s)}, rest)
  BY <1>1 DEF Listing
<1> HIDE DEF l, h, rest, old, now
<1>9. CASE h = Created(s)
  <2>1. now = Append(old, s)
    BY <1>5, <1>6, <1>9
  <2>2. /\ \A x : In(x, now) <=> In(x, old) \/ x = s
        /\ ~In(s, old) => Once(s, now)
    BY <1>1, <1>7, <2>1, AppendElements
  <2>3. In(Created(s), l) /\ ~In(s, old) /\ ~In(Created(s), rest) /\ h # Deleted(s)
    BY <1>2, <1>5, <1>7, <1>9
  <2>4. s \in subs \cup past
    BY <1>4, <1>5, <1>7, <1>9, <2>3
  <2>5. Once(Created(s), rest)
    BY <1>2, <1>7
  <2>6. s \in subs => \A m \in NewsMsgs : In(m, rest) /\ s \in m.subs => m = Created(s)
    BY <1>2, <1>7
  <2>7. s \in past \ Excused' => After(Deleted(s), {Created(s)}, rest)
    BY <1>1, <1>3, <1>7, <2>3
  <2> QED
    BY <2>2, <2>3, <2>4, <2>5, <2>6, <2>7
<1>10. CASE h # Created(s)
  <2>1. In(Created(s), rest) <=> In(Created(s), l)
    BY <1>2, <1>10
  <2>2. Once(Created(s), rest)
    BY <1>2, <1>7
  <2>3. CASE s \notin h.subs
    <3>1. Once(s, now) /\ (In(s, now) <=> In(s, old))
      <4>1. CASE \E t \in h.subs : now = Append(old, t)
        <5>1. PICK t \in h.subs : now = Append(old, t)
          BY <4>1
        <5>2. t # s
          BY <2>3
        <5> QED
          BY <1>1, <1>7, <5>1, <5>2, AppendElements
      <4>2. CASE now = Removed(old, h.subs)
        BY <1>1, <1>7, <2>3, <4>2, RemovedElements
      <4>3. CASE now = old
        BY <1>7, <4>3
      <4> QED
        BY <1>6, <4>1, <4>2, <4>3
    <3>2. h # Deleted(s)
      BY <1>5, <2>3
    <3>3. After(Deleted(s), {Created(s)}, l) => After(Deleted(s), {Created(s)}, rest)
      BY <1>3, <3>2
    <3> QED
      BY <1>1, <1>2, <1>7, <2>1, <2>2, <3>1, <3>3
  <2>4. CASE s \in h.subs
    <3>1. now = Removed(old, h.subs) \/ (now = old /\ s \in Excused')
      <4>1. h.type # "create"
        BY <1>4, <1>10, <2>4 DEF Created
      <4> QED
        BY <1>6, <2>4, <4>1
    <3>2. /\ In(s, now) => In(s, old)
          /\ Once(s, now)
          /\ h.subs = {s} => ~In(s, now) \/ s \in Excused'
      BY <1>1, <1>7, <3>1, RemovedElements
    <3>3. s \notin subs /\ s \in past
      BY <1>2, <1>4, <1>7, <1>10, <2>4
    <3>4. h = Deleted(s) => h.subs = {s}
      BY <1>5
    <3>5. s \in past \ Excused' /\ (In(s, now) \/ In(Created(s), rest)) =>
            After(Deleted(s), {Created(s)}, rest)
      BY <1>1, <1>3, <1>7, <2>1, <3>2, <3>4
    <3> QED
      BY <1>7, <2>1, <2>2, <3>2, <3>3, <3>5
  <2> QED
    BY <2>3, <2>4
<1> QED
  BY <1>9, <1>10

\* One message overtakes another.
LEMMA OvertakeListing ==
    ASSUME Inv, MoreTypes, NEW p \in Procs, NEW i, Overtake(p, i),
           NEW q \in Procs, NEW s \in Subs, Listing(q, s)
    PROVE  Listing(q, s)'
<1>1. /\ UNCHANGED <<subs, past, listed>>
      /\ Excused \subseteq Excused'
  BY DEF Overtake, sql, Excused
<1>2. CASE q # p
  <2>1. inbox'[q] = inbox[q]
    BY <1>2, OvertakeInbox
  <2> QED
    BY <1>1, <2>1 DEF Listing
<1>3. CASE q = p
  <2> DEFINE l == inbox[p]
  <2>1. /\ i \in 1..(Len(l) - 1) /\ l \in Seq(NewsMsgs)
        /\ inbox'[p] = Swapped(l, i)
        /\ l[i].subs \cap l[i + 1].subs \subseteq Excused'
    BY OvertakeInbox DEF Excused
  <2>2. /\ \A x : In(x, Swapped(l, i)) <=> In(x, l)
        /\ \A x : Once(x, l) => Once(x, Swapped(l, i))
        /\ \A x, T : After(x, T, l) /\ (l[i] \notin T \/ l[i + 1] # x) => After(x, T, Swapped(l, i))
    BY <2>1, SwappedElements
  <2>3. l[i] \notin {Created(s)} \/ l[i + 1] # Deleted(s) \/ s \in Excused'
    <3>1. Created(s).subs = {s} /\ Deleted(s).subs = {s}
      BY DEF Created, Deleted
    <3> QED
      BY <2>1, <3>1
  <2> HIDE DEF l
  <2>4. s \notin Excused' /\ After(Deleted(s), {Created(s)}, l) =>
           After(Deleted(s), {Created(s)}, Swapped(l, i))
    BY <2>2, <2>3
  <2> QED
    BY <1>1, <1>3, <2>1, <2>2, <2>4 DEF Listing, l
<1> QED
  BY <1>2, <1>3

Listings == \A p \in Procs, s \in Subs : Listing(p, s)

LEMMA ListsHold == Spec => [](Inv /\ MoreTypes /\ Listings)
<1>1. Init => Listings
  BY DEF Init, Listings, Listing, In, Once
<1>2. Inv /\ MoreTypes /\ Listings /\ [Next]_vars => Listings'
  <2> SUFFICES ASSUME Inv, MoreTypes, Listings, [Next]_vars,
                      NEW p \in Procs, NEW s \in Subs
               PROVE  Listing(p, s)'
    BY DEF Listings
  <2>0. Listing(p, s)
    BY DEF Listings
  <2>1. ASSUME UNCHANGED <<subs, past, joint, raised, overtaken, listed, inbox>>
        PROVE  Listing(p, s)'
    BY <2>0, <2>1 DEF Listing, Excused
  <2>2. ASSUME NEW t \in Subs, SubscribeStart(t) PROVE Listing(p, s)'
    BY <2>1, <2>2 DEF SubscribeStart, ram, missed
  <2>3. ASSUME NEW t \in Subs, SubscribeCommit(t) PROVE Listing(p, s)'
    BY <2>0, <2>3, CommitListing
  <2>4. ASSUME NEW S \in SUBSET subs, DeleteSubscriptions(S) PROVE Listing(p, s)'
    BY <2>0, <2>4, DeleteListing
  <2>5. ASSUME NEW q \in Procs, HandleNews(q) PROVE Listing(p, s)'
    <3>1. CASE q = p
      BY <2>0, <2>5, <3>1, NewsListing
    <3>2. CASE q # p
      <4>1. listed'[p] = listed[p] /\ inbox'[p] = inbox[p] /\ UNCHANGED <<subs, past>>
            /\ Excused \subseteq Excused'
        BY <2>5, <3>2 DEF HandleNews, MoreTypes, sql, Excused
      <4> QED
        BY <2>0, <4>1 DEF Listing
    <3> QED
      BY <3>1, <3>2
  <2>6. ASSUME NEW q \in Procs,
               \/ PublishLock(q) \/ LockTimeout(q) \/ PublishCommit(q) \/ PublishFailed(q)
               \/ \E B \in Batches : PublishStart(q, B)
        PROVE  Listing(p, s)'
    BY <2>1, <2>6 DEF PublishLock, LockTimeout, PublishCommit, PublishFailed, PublishStart,
                      sql, history, missed
  <2>7. ASSUME NEW t \in Subs,
               \/ ClearEndpointQueue(t) \/ GetMessages(t)
               \/ \E M \in SUBSET held : AcknowledgeDelivery(t, M)
        PROVE  Listing(p, s)'
    BY <2>1, <2>7 DEF ClearEndpointQueue, GetMessages, AcknowledgeDelivery, ram, history, missed
  <2>8. CASE \/ \E m \in Msgs : Expire(m) \/ Update(m)
             \/ DeleteExpired \/ DeleteDelivered
    BY <2>1, <2>8 DEF Expire, Update, DeleteExpired, DeleteDelivered, ram, history, missed
  <2>9. CASE UNCHANGED vars
    BY <2>1, <2>9 DEF vars, sql, ram, history, missed
  <2>10. ASSUME NEW q \in Procs, NEW i, Overtake(q, i) PROVE Listing(p, s)'
    BY <2>0, <2>10, OvertakeListing
  <2> QED
    BY <2>2, <2>3, <2>4, <2>5, <2>6, <2>7, <2>8, <2>9, <2>10 DEF Next
<1> QED
  BY <1>1, <1>2, TypesHold, PTL DEF Spec

\* A process that has handled all the news publishes to all subscriptions there are,
\* in whatever order it handled them, although unsubscribe removes elements from the
\* list that it iterates over.  It publishes to none that was deleted alone, unless
\* the news about it overtook each other or unsubscribe raised an exception.
THEOREM ListedSafety == Spec => []SubscribersListed
<1>1. Inv /\ MoreTypes /\ Listings => SubscribersListed
  <2> SUFFICES ASSUME Inv, MoreTypes, Listings, NEW p \in Procs, inbox[p] = <<>>
               PROVE  /\ subs \subseteq Range(listed[p])
                      /\ Range(listed[p]) \cap past \subseteq joint \cup raised \cup overtaken
    BY DEF SubscribersListed
  <2>1. \A x : ~In(x, inbox[p]) /\ ~After(Deleted(x), {Created(x)}, inbox[p])
    BY DEF In, After
  <2>2. \A s \in Subs : Listing(p, s)
    BY DEF Listings
  <2>3. \A x : In(x, listed[p]) <=> x \in Range(listed[p])
    BY DEF In, Range, MoreTypes
  <2>4. subs \subseteq Subs /\ past \subseteq Subs
    BY DEF Inv, Types, MoreTypes
  <2> QED
    BY <2>1, <2>2, <2>3, <2>4 DEF Listing, Excused
<1> QED
  BY <1>1, ListsHold, PTL

=============================================================================
