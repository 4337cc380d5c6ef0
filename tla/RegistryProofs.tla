--------------------------- MODULE RegistryProofs ---------------------------
(***************************************************************************)
(* Theorems about Registry, for any number of servers, processes,          *)
(* sub_keys, migrations and crashes.                                       *)
(***************************************************************************)
EXTENDS Registry, ListTheorems

-----------------------------------------------------------------------------
(* Messages.                                                               *)

Boxes == [Procs -> Seq(Messages)]

\* The type of a message says what it is.
LEMMA MessageTypes ==
    ASSUME NEW m \in Messages
    PROVE  /\ m.key \in Keys
           /\ m.type = "create" => m = CreateMsg(m.key) /\ m.key \in RESTKeys
           /\ m.type = "stopping" => m = StoppingMsg(m.key) /\ m.key \in RESTKeys
           /\ m.type = "remove" => m = RemoveMsg(m.key) /\ m.key \in WSXKeys
           /\ m.type = "delete" => m = DeleteMsg(m.key)
           /\ m.type = "set" => /\ m.info \in Infos
                                /\ m = [type |-> "set", key |-> m.key, info |-> m.info]
           /\ m.type = "change" => /\ m = ChangeMsg(m.key, m.new)
                                   /\ m.key \in RESTKeys /\ m.new \in Servers
BY DEF Messages, Keys, CreateMsg, StoppingMsg, RemoveMsg, DeleteMsg, ChangeMsg

\* Those who are told get the message at the end.
LEMMA BroadcastBoxes ==
    ASSUME NEW boxes \in Boxes, NEW m \in Messages, NEW to
    PROVE  /\ Broadcast(boxes, m, to) \in Boxes
           /\ \A q \in Procs : Broadcast(boxes, m, to)[q] =
                 IF q \in to \cap up THEN Append(boxes[q], m) ELSE boxes[q]
<1>1. \A q \in Procs : boxes[q] \in Seq(Messages) /\ Append(boxes[q], m) \in Seq(Messages)
  BY DEF Boxes
<1>2. Broadcast(boxes, m, to) =
         [q \in Procs |-> IF q \in to \cap up THEN Append(boxes[q], m) ELSE boxes[q]]
  BY DEF Broadcast
<1> QED
  BY <1>1, <1>2, Zenon DEF Boxes

\* Who handles a message takes it from the list.
LEMMA ReceivedBoxes ==
    ASSUME NEW p \in Procs, inbox \in Boxes, inbox[p] # <<>>
    PROVE  /\ Received(p) \in Boxes
           /\ Received(p)[p] = Tail(inbox[p])
           /\ \A q \in Procs : q # p => Received(p)[q] = inbox[q]
           /\ Head(inbox[p]) \in Messages
<1>1. inbox[p] \in Seq(Messages)
  BY DEF Boxes
<1>2. Tail(inbox[p]) \in Seq(Messages) /\ Head(inbox[p]) \in Messages
  BY <1>1, HeadTail
<1> QED
  BY <1>2 DEF Received, Boxes

\* One of them overtakes the one before it.
LEMMA OvertakeBoxes ==
    ASSUME NEW p \in Procs, inbox \in Boxes, NEW i, Overtake(p, i)
    PROVE  /\ p \in up /\ i \in 1..(Len(inbox[p]) - 1)
           /\ inbox' \in Boxes
           /\ inbox'[p] = Swapped(inbox[p], i)
           /\ \A q \in Procs : q # p => inbox'[q] = inbox[q]
           /\ UNCHANGED <<up, boot, announced, reg, look, migs, tasks, odb, deleted, client,
                         disturbed, raised, edits, crashes>>
<1>1. inbox[p] \in Seq(Messages)
  BY DEF Boxes
<1>2. /\ i \in 1..(Len(inbox[p]) - 1)
      /\ inbox' = [inbox EXCEPT ![p] = Swapped(inbox[p], i)]
  BY DEF Overtake, Swapped, Boxes
<1>3. Swapped(inbox[p], i) \in Seq(Messages)
  BY <1>1, <1>2, SwappedPositions
<1>4. inbox' \in Boxes /\ inbox'[p] = Swapped(inbox[p], i) /\ \A q \in Procs : q # p => inbox'[q] = inbox[q]
  BY <1>2, <1>3 DEF Boxes
<1> QED
  BY <1>2, <1>4 DEF Overtake, procs, moves, db

-----------------------------------------------------------------------------
(* Types.                                                                  *)

Lookups == [key : RESTKeys, server : Servers, at : Procs \cup {Nobody}, answer : Pids \cup {NoPid}]
Migs == [at : Procs, key : RESTKeys, new : Servers, todo : SUBSET Procs, failed : SUBSET Procs,
         stage : {"notify", "start"}]

\* A process was restarted after a crash each time.
Restarts == \A p \in Procs : boot[p] <= crashes /\ (p \notin up => boot[p] + 1 <= crashes)

Types == TypeOK /\ Restarts

LEMMA TypesInit == Init => Types
BY RegistryAssumption DEF Init, Types, TypeOK, Restarts, Keys

LEMMA InfoType ==
    ASSUME Types, NEW p \in Procs
    PROVE  Info(p) \in Infos /\ Pid(p) \in Pids
BY RegistryAssumption DEF Types, TypeOK, Info, Infos, Pid, Pids

\* What CreateDeliveryTask does to types.
LEMMA CreateTypes ==
    ASSUME Types, NEW p \in Procs, NEW k \in Keys, NEW boxes \in Boxes,
           CreateDeliveryTask(p, k, boxes)
    PROVE  /\ tasks' \subseteq Procs \X Keys
           /\ reg' \in [Procs -> [Keys -> Infos \cup {Nobody}]]
           /\ inbox' \in [Procs -> Seq(Messages)]
<1>1. Info(p) \in Infos
  BY InfoType
<1>2. SetMsg(k, p) \in Messages
  BY <1>1 DEF SetMsg, Messages
<1>3. inbox' \in Boxes
  BY <1>2, BroadcastBoxes DEF CreateDeliveryTask
<1>4. reg' \in [Procs -> [Keys -> Infos \cup {Nobody}]]
  BY <1>1 DEF CreateDeliveryTask, Types, TypeOK
<1> QED
  BY <1>3, <1>4 DEF CreateDeliveryTask, Types, TypeOK, Boxes

LEMMA HandleTypes ==
    ASSUME Types, NEW p \in Procs, Handle(p)
    PROVE  TypeOK'
<1> DEFINE m == Head(inbox[p])
<1>1. inbox \in Boxes /\ inbox[p] # <<>>
  BY DEF Types, TypeOK, Boxes, Handle, CreateSubscription, Unsubscribe, SubKeyServerSet,
         WSXClientSubKeyServerRemove, DeliveryServerChange, LateStopping, Receives
<1>2. Received(p) \in Boxes /\ m \in Messages
  BY <1>1, ReceivedBoxes
<1>3. /\ m.key \in Keys
      /\ m.type = "set" => m.info \in Infos
      /\ m.type = "change" => m.key \in RESTKeys /\ m.new \in Servers
  BY <1>2, MessageTypes
<1> HIDE DEF m
<1>4. CASE CreateSubscription(p)
  <2>1. CASE p \in First /\ announced' = announced \cup {ServerOf[p]}
             /\ CreateDeliveryTask(p, m.key, Received(p))
    <3>1. /\ tasks' \subseteq Procs \X Keys
          /\ reg' \in [Procs -> [Keys -> Infos \cup {Nobody}]]
          /\ inbox' \in [Procs -> Seq(Messages)]
      BY <1>2, <1>3, <2>1, CreateTypes
    <3>2. announced' \subseteq Servers
      BY <2>1, RegistryAssumption DEF Types, TypeOK
    <3> QED
      BY <1>4, <3>1, <3>2 DEF CreateSubscription, Types, TypeOK, db, aux
  <2>2. CASE /\ \E f \in First : reg' = [reg EXCEPT ![p][m.key] = Info(f)]
             /\ inbox' = Received(p)
             /\ UNCHANGED <<announced, tasks>>
    <3>1. PICK f \in First : reg' = [reg EXCEPT ![p][m.key] = Info(f)]
      BY <2>2
    <3>2. Info(f) \in Infos
      BY InfoType, RegistryAssumption
    <3>3. reg' \in [Procs -> [Keys -> Infos \cup {Nobody}]]
      BY <1>3, <3>1, <3>2 DEF Types, TypeOK
    <3> QED
      BY <1>2, <1>4, <2>2, <3>3 DEF CreateSubscription, Types, TypeOK, db, aux, Boxes
  <2>3. CASE inbox' = Received(p) /\ UNCHANGED <<announced, reg, tasks>>
    BY <1>2, <1>4, <2>3 DEF CreateSubscription, Types, TypeOK, db, aux, Boxes
  <2> QED
    BY <1>4, <2>1, <2>2, <2>3 DEF CreateSubscription, m
<1>5. CASE Unsubscribe(p)
  <2>1. /\ tasks' \subseteq tasks /\ inbox' = Received(p)
        /\ raised' = raised \/ raised' = raised \cup {m.key}
        /\ UNCHANGED <<procs, reg, look, migs, db, disturbed, overtaken, edits, crashes>>
    BY <1>5 DEF Unsubscribe, m
  <2> QED
    BY <1>2, <1>3, <2>1 DEF Types, TypeOK, procs, db, Boxes
<1>6. CASE SubKeyServerSet(p)
  <2>1. reg' = [reg EXCEPT ![p][m.key] = m.info] /\ m.type = "set"
    BY <1>6 DEF SubKeyServerSet, Receives, m
  <2>2. reg' \in [Procs -> [Keys -> Infos \cup {Nobody}]]
    BY <1>3, <2>1 DEF Types, TypeOK
  <2> QED
    BY <1>2, <1>6, <2>2 DEF SubKeyServerSet, Types, TypeOK, procs, moves, db, aux, Boxes
<1>7. CASE WSXClientSubKeyServerRemove(p) \/ LateStopping(p)
  <2>1. reg' = [reg EXCEPT ![p][m.key] = Nobody]
    BY <1>7 DEF WSXClientSubKeyServerRemove, LateStopping, m
  <2>2. reg' \in [Procs -> [Keys -> Infos \cup {Nobody}]]
    BY <1>3, <2>1 DEF Types, TypeOK
  <2> QED
    BY <1>2, <1>7, <2>2 DEF WSXClientSubKeyServerRemove, LateStopping, Types, TypeOK, procs, moves,
                            db, aux, Boxes
<1>8. CASE DeliveryServerChange(p)
  <2>1. /\ m.type = "change"
        /\ migs' \in {migs, migs \cup {[at |-> p, key |-> m.key, new |-> m.new, todo |-> up,
                                        failed |-> {}, stage |-> "notify"]}}
    BY <1>8 DEF DeliveryServerChange, Receives, m
  <2>2. migs' \subseteq Migs
    BY <1>3, <2>1 DEF Migs, Types, TypeOK
  <2> QED
    BY <1>2, <1>8, <2>2 DEF DeliveryServerChange, Types, TypeOK, procs, db, aux, Boxes, Migs
<1> QED
  BY <1>4, <1>5, <1>6, <1>7, <1>8 DEF Handle

LEMMA LookupTypes ==
    ASSUME Types, NEW p \in Procs, Lookup(p)
    PROVE  TypeOK'
<1>1. look[p] \in Lookups
  BY DEF Lookup, GetServerPID, SetMissing, Locked, Types, TypeOK, Lookups
<1>2. CASE GetServerPID(p)
  <2> DEFINE l == look[p]
             info == reg[l.at][l.key]
             answer == IF info = Nobody THEN NoPid ELSE info.pid
  <2>1. look' = [look EXCEPT ![p].answer = answer, ![p].at = Nobody] /\ l.at \in up
    BY <1>2 DEF GetServerPID
  <2>2. l.at \in Procs /\ l.key \in Keys
    BY <1>1, <2>1 DEF Lookups, Types, TypeOK, Keys
  <2>3. info \in Infos \cup {Nobody}
    BY <2>2 DEF Types, TypeOK
  <2>4. answer \in Pids \cup {NoPid}
    BY <2>3 DEF Infos
  <2> HIDE DEF answer
  <2> DEFINE first == [look EXCEPT ![p].answer = answer]
  <2>5. first \in [Procs -> Lookups \cup {Idle}] /\ first[p] \in Lookups
    BY <1>1, <2>4 DEF Lookups, Types, TypeOK
  <2>6. look' \in [Procs -> Lookups \cup {Idle}]
    <3>1. look' = [first EXCEPT ![p].at = Nobody]
      BY <2>1, Zenon
    <3> HIDE DEF first
    <3> QED
      BY <2>5, <3>1 DEF Lookups
  <2> QED
    BY <1>2, <2>6 DEF GetServerPID, Types, TypeOK, procs, moves, db, aux, Lookups
<1>3. CASE SetMissing(p)
  <2>1. reg' \in [Procs -> [Keys -> Infos \cup {Nobody}]]
    BY <1>1, <1>3 DEF SetMissing, Lookups, Types, TypeOK, Keys, Infos
  <2>2. look' \in [Procs -> Lookups \cup {Idle}]
    BY <1>3 DEF SetMissing, Lookups, Types, TypeOK
  <2> QED
    BY <1>3, <2>1, <2>2 DEF SetMissing, Types, TypeOK, procs, moves, db, aux, Lookups
<1> QED
  BY <1>2, <1>3 DEF Lookup

LEMMA MigrationTypes ==
    ASSUME Types, NEW m \in migs, Migration(m)
    PROVE  TypeOK'
<1>1. m \in Migs /\ migs \subseteq Migs
  BY DEF Types, TypeOK, Migs
<1>2. m.at \in Procs /\ m.key \in RESTKeys /\ m.key \in Keys /\ m.new \in Servers
  BY <1>1 DEF Migs, Keys
<1>3. ASSUME NEW q \in Procs, NotifyStopping(m, q) PROVE TypeOK'
  <2> DEFINE ok == reg[q][m.key] # Nobody /\ ~Locked(q)
             n == [m EXCEPT !.todo = @ \ {q}, !.failed = IF ok THEN @ ELSE @ \cup {q}]
  <2>1. n \in Migs
    BY <1>1 DEF Migs
  <2>2. migs' \subseteq Migs
    BY <1>1, <1>3, <2>1 DEF NotifyStopping, Becomes
  <2>3. reg' \in [Procs -> [Keys -> Infos \cup {Nobody}]]
    BY <1>2, <1>3 DEF NotifyStopping, Types, TypeOK
  <2>4. inbox' \in [Procs -> Seq(Messages)]
    <3>1. StoppingMsg(m.key) \in Messages
      BY <1>2 DEF StoppingMsg, Messages
    <3>2. inbox[q] \in Seq(Messages)
      BY DEF Types, TypeOK
    <3>3. <<StoppingMsg(m.key)>> \o inbox[q] \in Seq(Messages)
      BY <3>1, <3>2, ConsElements
    <3>4. inbox' \in {inbox, [inbox EXCEPT ![q] = <<StoppingMsg(m.key)>> \o inbox[q]]}
      BY <1>3 DEF NotifyStopping
    <3> QED
      BY <3>3, <3>4 DEF Types, TypeOK
  <2>5. disturbed' \subseteq RESTKeys
    BY <1>2, <1>3 DEF NotifyStopping, Types, TypeOK
  <2> QED
    BY <1>3, <2>2, <2>3, <2>4, <2>5 DEF NotifyStopping, Types, TypeOK, procs, db, Migs
<1>4. ASSUME NEW q \in Procs, StartTask(m, q) PROVE TypeOK'
  <2>1. CreateDeliveryTask(q, m.key, inbox) /\ inbox \in Boxes
    BY <1>4 DEF StartTask, Types, TypeOK, Boxes
  <2>2. /\ tasks' \subseteq Procs \X Keys
        /\ reg' \in [Procs -> [Keys -> Infos \cup {Nobody}]]
        /\ inbox' \in [Procs -> Seq(Messages)]
    BY <1>2, <2>1, CreateTypes
  <2> QED
    BY <1>4, <2>2 DEF StartTask, Types, TypeOK, procs, db, aux
<1>5. CASE GiveUp(m) \/ StartFailed(m)
  BY <1>5 DEF GiveUp, StartFailed, Types, TypeOK, procs, db, aux
<1>6. CASE StopTask(m)
  <2>1. [m EXCEPT !.stage = "start"] \in Migs
    BY <1>1 DEF Migs
  <2>2. migs' \subseteq Migs
    BY <1>1, <1>6, <2>1 DEF StopTask, Becomes
  <2> QED
    BY <1>6, <2>2 DEF StopTask, Types, TypeOK, procs, db, aux, Migs
<1> QED
  BY <1>3, <1>4, <1>5, <1>6 DEF Migration

LEMMA OvertakeTypes ==
    ASSUME Types, NEW p \in Procs, NEW i, Overtake(p, i)
    PROVE  TypeOK'
<1>1. inbox \in Boxes
  BY DEF Types, TypeOK, Boxes
<1>2. /\ i \in 1..(Len(inbox[p]) - 1) /\ inbox' \in Boxes
      /\ UNCHANGED <<up, boot, announced, reg, look, migs, tasks, odb, deleted, client,
                    disturbed, raised, edits, crashes>>
  BY <1>1, OvertakeBoxes
<1>3. inbox[p] \in Seq(Messages) /\ i \in 1..Len(inbox[p])
  BY <1>1, <1>2 DEF Boxes
<1>4. inbox[p][i].key \in Keys
  BY <1>3, MessageTypes
<1>5. overtaken' \in [Keys -> 0..MaxOvertaken]
  <2>1. \/ overtaken' = overtaken
        \/ /\ overtaken[inbox[p][i].key] < MaxOvertaken
           /\ overtaken' = [overtaken EXCEPT ![inbox[p][i].key] = @ + 1]
    BY DEF Overtake
  <2>2. overtaken \in [Keys -> 0..MaxOvertaken] /\ MaxOvertaken \in Nat
    BY RegistryAssumption DEF Types, TypeOK
  <2> QED
    BY <1>4, <2>1, <2>2
<1> QED
  BY <1>2, <1>5 DEF Types, TypeOK, Boxes

\* A process reads its subscriptions when it starts.
LEMMA BootBox ==
    ASSUME Types, NEW p \in Procs
    PROVE  LET S == {CreateMsg(k) : k \in {x \in RESTKeys \ deleted : odb[x] = ServerOf[p]}}
           IN  /\ SetToSeq(S) \in Seq(Messages)
               /\ \A m : In(m, SetToSeq(S)) => m \in S
               /\ \A m : Once(m, SetToSeq(S))
<1> DEFINE K == {x \in RESTKeys \ deleted : odb[x] = ServerOf[p]}
           S == {CreateMsg(k) : k \in K}
<1>1. IsFiniteSet(K)
  BY RegistryAssumption, FS_Subset
<1>2. IsFiniteSet(S)
  <2> DEFINE f == [k \in K |-> CreateMsg(k)]
  <2>1. f \in Surjection(K, S)
    BY DEF Surjection
  <2> HIDE DEF f, S, K
  <2> QED
    BY <1>1, <2>1, FS_Surjection
<1>3. S \subseteq Messages
  BY DEF CreateMsg, Messages
<1> HIDE DEF S
<1>4. /\ SetToSeq(S) \in Seq(S)
      /\ \A m : In(m, SetToSeq(S)) => m \in S
      /\ \A m : Once(m, SetToSeq(S))
  BY <1>2, SetElements
<1>5. SetToSeq(S) \in Seq(Messages)
  BY <1>3, <1>4
<1> QED
  BY <1>4, <1>5 DEF S

\* All variables keep their types.
LEMMA TypesNext == Types /\ [Next]_vars => Types'
<1> SUFFICES ASSUME Types, [Next]_vars PROVE Types'
  OBVIOUS
<1>a. ASSUME TypeOK', UNCHANGED <<up, boot, crashes>> PROVE Types'
  BY <1>a DEF Types, Restarts
<1>b. inbox \in Boxes
  BY DEF Types, TypeOK, Boxes
<1>1. CASE UNCHANGED vars
  <2>1. /\ UNCHANGED <<up, boot, announced, reg, inbox, look, migs, tasks, odb>>
        /\ UNCHANGED <<deleted, client, disturbed, raised, overtaken, edits, crashes>>
    BY <1>1 DEF vars, procs, moves, db, aux
  <2>2. TypeOK
    BY DEF Types
  <2>3. TypeOK'
    BY <2>1, <2>2, Zenon DEF TypeOK
  <2> QED
    BY <1>a, <2>1, <2>3
<1>2. ASSUME NEW k \in RESTKeys, NEW s \in Servers, Subscribe(k, s) PROVE Types'
  <2>1. CreateMsg(k) \in Messages
    BY DEF CreateMsg, Messages
  <2>2. inbox' \in Boxes
    BY <1>2, <1>b, <2>1, BroadcastBoxes DEF Subscribe
  <2>3. TypeOK' /\ UNCHANGED <<up, boot, crashes>>
    BY <1>2, <2>2 DEF Subscribe, Types, TypeOK, procs, moves, aux, Boxes
  <2> QED
    BY <1>a, <2>3
<1>3. ASSUME NEW k \in RESTKeys, NEW s \in Servers, ChangeServer(k, s) PROVE Types'
  <2>1. ChangeMsg(k, s) \in Messages
    BY DEF ChangeMsg, Messages
  <2>2. inbox' \in Boxes
    BY <1>3, <1>b, <2>1, BroadcastBoxes DEF ChangeServer
  <2>3. edits' \in 0..MaxMigrations
    BY <1>3, RegistryAssumption DEF ChangeServer, Types, TypeOK
  <2>4. TypeOK' /\ UNCHANGED <<up, boot, crashes>>
    BY <1>3, <2>2, <2>3 DEF ChangeServer, Types, TypeOK, procs, moves, Boxes
  <2> QED
    BY <1>a, <2>4
<1>4. ASSUME NEW p \in Procs, NEW k \in Keys, SubscribeWSX(p, k) PROVE Types'
  <2>1. Info(p) \in Infos
    BY InfoType
  <2>2. SetMsg(k, p) \in Messages
    BY <2>1 DEF SetMsg, Messages
  <2>3. inbox' \in Boxes
    BY <1>4, <1>b, <2>2, BroadcastBoxes DEF SubscribeWSX
  <2>4. /\ UNCHANGED <<up, boot, announced, reg, look, migs, odb, deleted, disturbed>>
        /\ UNCHANGED <<raised, overtaken, edits, crashes>>
    BY <1>4 DEF SubscribeWSX, procs, aux
  <2>5. /\ client' \in [WSXKeys -> Procs \cup {Nobody, Gone}]
        /\ tasks' \subseteq Procs \X Keys
    BY <1>4 DEF SubscribeWSX, Types, TypeOK
  <2>6. TypeOK'
    BY <2>3, <2>4, <2>5 DEF Types, TypeOK, Boxes
  <2> QED
    BY <1>a, <2>4, <2>6
<1>5. ASSUME NEW p \in Procs, NEW k \in Keys, LookUp(p, k) PROVE Types'
  <2>1. PICK c \in Workers(odb[k]) :
           look' = [look EXCEPT ![p] = [key |-> k, server |-> odb[k], at |-> c, answer |-> NoPid]]
    BY <1>5 DEF LookUp
  <2>2. k \in RESTKeys /\ odb[k] \in Servers /\ c \in Procs
    BY <1>5 DEF LookUp, Types, TypeOK, Workers
  <2>3. look' \in [Procs -> Lookups \cup {Idle}]
    BY <2>1, <2>2 DEF Lookups, Types, TypeOK
  <2>4. TypeOK' /\ UNCHANGED <<up, boot, crashes>>
    BY <1>5, <2>3 DEF LookUp, Types, TypeOK, procs, moves, db, aux, Lookups
  <2> QED
    BY <1>a, <2>4
<1>6. ASSUME NEW k \in Keys, DisconnectWSX(k) PROVE Types'
  <2>1. k \in WSXKeys
    BY <1>6 DEF DisconnectWSX
  <2>2. RemoveMsg(k) \in Messages
    BY <2>1 DEF RemoveMsg, Messages
  <2>3. inbox' \in Boxes
    BY <1>6, <1>b, <2>2, BroadcastBoxes DEF DisconnectWSX
  <2>4. TypeOK' /\ UNCHANGED <<up, boot, crashes>>
    BY <1>6, <2>3 DEF DisconnectWSX, Types, TypeOK, procs, aux, Boxes
  <2> QED
    BY <1>a, <2>4
<1>7. ASSUME NEW k \in Keys, DeleteSubscription(k) PROVE Types'
  <2>1. DeleteMsg(k) \in Messages
    BY DEF DeleteMsg, Messages
  <2>2. inbox' \in Boxes
    BY <1>7, <1>b, <2>1, BroadcastBoxes DEF DeleteSubscription
  <2>3. disturbed' \subseteq RESTKeys
    BY <1>7 DEF DeleteSubscription, Unsettled, Types, TypeOK
  <2>4. TypeOK' /\ UNCHANGED <<up, boot, crashes>>
    BY <1>7, <2>2, <2>3 DEF DeleteSubscription, Types, TypeOK, procs, moves, Boxes
  <2> QED
    BY <1>a, <2>4
<1>8. ASSUME NEW p \in Procs, Handle(p) PROVE Types'
  <2>1. UNCHANGED <<up, boot, crashes>>
    BY <1>8 DEF Handle, CreateSubscription, Unsubscribe, SubKeyServerSet,
                WSXClientSubKeyServerRemove, DeliveryServerChange, LateStopping, procs, aux
  <2> QED
    BY <1>8, <1>a, <2>1, HandleTypes
<1>9. ASSUME NEW p \in Procs, Lookup(p) PROVE Types'
  <2>1. UNCHANGED <<up, boot, crashes>>
    BY <1>9 DEF Lookup, GetServerPID, SetMissing, procs, aux
  <2> QED
    BY <1>9, <1>a, <2>1, LookupTypes
<1>10. ASSUME NEW m \in migs, Migration(m) PROVE Types'
  <2>1. UNCHANGED <<up, boot, crashes>>
    BY <1>10 DEF Migration, NotifyStopping, StartTask, GiveUp, StopTask, StartFailed, procs, aux
  <2> QED
    BY <1>10, <1>a, <2>1, MigrationTypes
<1>11. ASSUME NEW p \in Procs, Boot(p) PROVE Types'
  <2>1. inbox' \in Boxes
    BY <1>11, <1>b, BootBox DEF Boot, Boxes
  <2>2. /\ p \notin up /\ up' = up \cup {p} /\ crashes' = crashes
        /\ boot' = [boot EXCEPT ![p] = @ + 1]
    BY <1>11 DEF Boot, aux
  <2>3. boot' \in [Procs -> 0..MaxCrashes] /\ Restarts'
    <3>1. \A q \in Procs : /\ boot[q] \in Nat /\ boot[q] <= crashes /\ crashes <= MaxCrashes
                           /\ crashes \in Nat /\ MaxCrashes \in Nat
                           /\ q \notin up => boot[q] + 1 <= crashes
      BY RegistryAssumption DEF Types, TypeOK, Restarts
    <3>2. \A q \in Procs : boot'[q] = IF q = p THEN boot[q] + 1 ELSE boot[q]
      BY <2>2 DEF Types, TypeOK
    <3>3. \A q \in Procs : boot'[q] \in 0..MaxCrashes /\ boot'[q] <= crashes
      BY <2>2, <3>1, <3>2
    <3>4. Restarts'
      BY <2>2, <3>1, <3>2, <3>3 DEF Restarts
    <3> QED
      BY <2>2, <3>3, <3>4 DEF Types, TypeOK
  <2>4. TypeOK'
    BY <1>11, <2>1, <2>2, <2>3 DEF Boot, Types, TypeOK, moves, db, aux, Boxes
  <2> QED
    BY <2>3, <2>4 DEF Types
<1>12. ASSUME NEW s \in Servers, Crash(s) PROVE Types'
  <2>1. crashes \in Nat /\ crashes < MaxCrashes /\ crashes' = crashes + 1 /\ boot' = boot
        /\ up' = up \ Workers(s)
    BY <1>12, RegistryAssumption DEF Crash, Types, TypeOK
  <2>2. Restarts'
    <3>1. \A p \in Procs : boot[p] \in Nat /\ boot[p] <= crashes
      BY RegistryAssumption DEF Types, TypeOK, Restarts
    <3> QED
      BY <2>1, <3>1 DEF Restarts
  <2>3. inbox' \in [Procs -> Seq(Messages)] /\ crashes' \in 0..MaxCrashes
    BY <1>12, <2>1, RegistryAssumption DEF Crash, Types, TypeOK
  <2>4. reg' \in [Procs -> [Keys -> Infos \cup {Nobody}]]
    BY <1>12 DEF Crash, Types, TypeOK
  <2>5. look' \in [Procs -> Lookups \cup {Idle}]
    BY <1>12 DEF Crash, Types, TypeOK, Lookups
  <2>6. /\ client' \in [WSXKeys -> Procs \cup {Nobody, Gone}]
        /\ disturbed' \subseteq RESTKeys
        /\ tasks' \subseteq tasks /\ migs' \subseteq migs /\ announced' \subseteq announced
        /\ UNCHANGED <<odb, deleted, raised, overtaken, edits>>
    BY <1>12 DEF Crash, Types, TypeOK, Unsettled
  <2>7. TypeOK'
    BY <2>1, <2>3, <2>4, <2>5, <2>6 DEF Types, TypeOK, Lookups
  <2> QED
    BY <2>2, <2>7 DEF Types
<1>13. ASSUME NEW p \in Procs, NEW i, Overtake(p, i) PROVE Types'
  <2>1. UNCHANGED <<up, boot, crashes>>
    BY <1>13, <1>b, OvertakeBoxes
  <2> QED
    BY <1>13, <1>a, <2>1, OvertakeTypes
<1> QED
  BY <1>1, <1>2, <1>3, <1>4, <1>5, <1>6, <1>7, <1>8, <1>9, <1>10, <1>11, <1>12, <1>13 DEF Next

\* All variables keep their types: among others there are as many generations of
\* PIDs as there were restarts, and only sub_keys with a delivery server in ODB are
\* looked up or migrate.
THEOREM TypeCorrect == Spec => []TypeOK
<1>1. Types => TypeOK
  BY DEF Types
<1> QED
  BY <1>1, TypesInit, TypesNext, PTL DEF Spec

-----------------------------------------------------------------------------
(* What is done to lists of messages.                                      *)

\* A broadcast.
LEMMA Told ==
    ASSUME NEW boxes \in Boxes, NEW m \in Messages, NEW to, NEW q \in Procs
    PROVE  LET box == Broadcast(boxes, m, to)[q]
           IN  /\ \A x : In(x, box) <=> In(x, boxes[q]) \/ (x = m /\ q \in to \cap up)
               /\ \A x : Once(x, boxes[q]) /\ (x # m \/ ~In(x, boxes[q])) => Once(x, box)
<1>1. boxes[q] \in Seq(Messages)
  BY DEF Boxes
<1>2. CASE q \in to \cap up
  <2>1. Broadcast(boxes, m, to)[q] = Append(boxes[q], m)
    <3>1. Broadcast(boxes, m, to)[q] =
             IF q \in to \cap up THEN Append(boxes[q], m) ELSE boxes[q]
      BY BroadcastBoxes
    <3> QED
      BY <1>2, <3>1, Zenon
  <2> QED
    BY <1>1, <1>2, <2>1, AppendElements
<1>3. CASE q \notin to \cap up
  <2>1. Broadcast(boxes, m, to)[q] = boxes[q]
    BY <1>3, BroadcastBoxes
  <2> QED
    BY <1>3, <2>1
<1> QED
  BY <1>2, <1>3

\* A message is taken by process p.
LEMMA Taken ==
    ASSUME NEW p \in Procs, inbox \in Boxes, inbox[p] # <<>>, NEW q \in Procs
    PROVE  LET h == Head(inbox[p])
           IN  /\ In(h, inbox[p])
               /\ \A x : In(x, Received(p)[q]) => In(x, inbox[q])
               /\ \A x : In(x, inbox[q]) /\ (q # p \/ x # h) => In(x, Received(p)[q])
               /\ \A x : Once(x, inbox[q]) => Once(x, Received(p)[q])
               /\ Once(h, inbox[p]) => ~In(h, Received(p)[p])
<1>1. inbox[p] \in Seq(Messages)
  BY DEF Boxes
<1>2. Received(p)[p] = Tail(inbox[p]) /\ (q # p => Received(p)[q] = inbox[q])
  BY ReceivedBoxes
<1>3. /\ In(Head(inbox[p]), inbox[p])
      /\ \A x : In(x, Tail(inbox[p])) => In(x, inbox[p])
      /\ \A x : In(x, inbox[p]) /\ x # Head(inbox[p]) => In(x, Tail(inbox[p]))
      /\ \A x : Once(x, inbox[p]) => Once(x, Tail(inbox[p]))
      /\ Once(Head(inbox[p]), inbox[p]) => ~In(Head(inbox[p]), Tail(inbox[p]))
  BY <1>1, TailElements
<1>4. CASE q = p
  BY <1>2, <1>3, <1>4
<1>5. CASE q # p
  BY <1>2, <1>3, <1>5
<1> QED
  BY <1>4, <1>5

\* Process p handles a message and tells others of what it did.
LEMMA TakenTold ==
    ASSUME NEW p \in Procs, inbox \in Boxes, inbox[p] # <<>>, NEW m \in Messages, NEW to,
           NEW q \in Procs
    PROVE  LET h == Head(inbox[p])
               box == Broadcast(Received(p), m, to)[q]
           IN  /\ \A x : In(x, box) => In(x, inbox[q]) \/ (x = m /\ q \in to \cap up)
               /\ \A x : In(x, inbox[q]) /\ (q # p \/ x # h) => In(x, box)
               /\ q \in to \cap up => In(m, box)
               /\ \A x : Once(x, inbox[q]) /\ x # m => Once(x, box)
               /\ q = p /\ p \notin to /\ Once(h, inbox[p]) => ~In(h, box)
<1>1. Received(p) \in Boxes
  BY ReceivedBoxes
<1> DEFINE h == Head(inbox[p])
           box == Broadcast(Received(p), m, to)[q]
<1>2. /\ \A x : In(x, box) <=> In(x, Received(p)[q]) \/ (x = m /\ q \in to \cap up)
      /\ \A x : Once(x, Received(p)[q]) /\ (x # m \/ ~In(x, Received(p)[q])) => Once(x, box)
  BY <1>1, Told
<1>3. /\ \A x : In(x, Received(p)[q]) => In(x, inbox[q])
      /\ \A x : In(x, inbox[q]) /\ (q # p \/ x # h) => In(x, Received(p)[q])
      /\ \A x : Once(x, inbox[q]) => Once(x, Received(p)[q])
      /\ Once(h, inbox[p]) => ~In(h, Received(p)[p])
  BY Taken
<1> HIDE DEF h, box
<1>4. /\ \A x : In(x, box) => In(x, inbox[q]) \/ (x = m /\ q \in to \cap up)
      /\ \A x : In(x, inbox[q]) /\ (q # p \/ x # h) => In(x, box)
      /\ q \in to \cap up => In(m, box)
      /\ \A x : Once(x, inbox[q]) /\ x # m => Once(x, box)
  BY <1>2, <1>3
<1>5. q = p /\ p \notin to /\ Once(h, inbox[p]) => ~In(h, box)
  BY <1>2, <1>3
<1> QED
  BY <1>4, <1>5 DEF h, box

\* One message overtakes another.
LEMMA Overtaken ==
    ASSUME NEW p \in Procs, inbox \in Boxes, NEW i, Overtake(p, i), NEW q \in Procs
    PROVE  /\ \A x : In(x, inbox'[q]) <=> In(x, inbox[q])
           /\ \A x : Once(x, inbox[q]) => Once(x, inbox'[q])
<1>1. inbox[p] \in Seq(Messages)
  BY DEF Boxes
<1>2. /\ i \in 1..(Len(inbox[p]) - 1) /\ inbox'[p] = Swapped(inbox[p], i)
      /\ q # p => inbox'[q] = inbox[q]
  BY OvertakeBoxes
<1>3. /\ \A x : In(x, Swapped(inbox[p], i)) <=> In(x, inbox[p])
      /\ \A x : Once(x, inbox[p]) => Once(x, Swapped(inbox[p], i))
  BY <1>1, <1>2, SwappedElements
<1>4. CASE q = p
  BY <1>2, <1>3, <1>4
<1>5. CASE q # p
  BY <1>2, <1>5
<1> QED
  BY <1>4, <1>5

-----------------------------------------------------------------------------
(* Those who are down have nothing.                                        *)

Asleep ==
    /\ \A p \in Procs \ up : /\ inbox[p] = <<>> /\ look[p] = Idle
                             /\ \A k \in Keys : reg[p][k] = Nobody
    /\ \A p \in Procs, k \in Keys : <<p, k>> \in tasks => p \in up

\* Only those who are up do anything.
LEMMA AsleepSame ==
    ASSUME Types, Asleep, up' = up,
           \A p \in Procs \ up : inbox'[p] = inbox[p] /\ look'[p] = look[p] /\ reg'[p] = reg[p],
           \A p \in Procs, k \in Keys : <<p, k>> \in tasks' \ tasks => p \in up
    PROVE  Asleep'
BY DEF Asleep, Idle

LEMMA AsleepInit == Init => Asleep
BY DEF Init, Asleep

LEMMA AsleepNext == Types /\ Asleep /\ [Next]_vars => Asleep'
<1> SUFFICES ASSUME Types, Asleep, [Next]_vars PROVE Asleep'
  OBVIOUS
<1>a. inbox \in Boxes /\ reg \in [Procs -> [Keys -> Infos \cup {Nobody}]]
  BY DEF Types, TypeOK, Boxes
<1>b. ASSUME NEW m \in Messages, NEW to, NEW boxes \in Boxes, NEW p \in Procs \ up
      PROVE  Broadcast(boxes, m, to)[p] = boxes[p]
  BY <1>b, BroadcastBoxes
<1>1. CASE UNCHANGED vars
  BY <1>1, AsleepSame DEF vars, procs, moves
<1>2. ASSUME NEW k \in RESTKeys, NEW s \in Servers, Subscribe(k, s) PROVE Asleep'
  <2>1. CreateMsg(k) \in Messages
    BY DEF CreateMsg, Messages
  <2>2. \A p \in Procs \ up : inbox'[p] = inbox[p]
    BY <1>2, <1>a, <1>b, <2>1 DEF Subscribe
  <2> QED
    BY <1>2, <2>2, AsleepSame DEF Subscribe, procs, moves
<1>3. ASSUME NEW k \in RESTKeys, NEW s \in Servers, ChangeServer(k, s) PROVE Asleep'
  <2>1. ChangeMsg(k, s) \in Messages
    BY DEF ChangeMsg, Messages
  <2>2. \A p \in Procs \ up : inbox'[p] = inbox[p]
    BY <1>3, <1>a, <1>b, <2>1 DEF ChangeServer
  <2> QED
    BY <1>3, <2>2, AsleepSame DEF ChangeServer, procs, moves
<1>4. ASSUME NEW p \in Procs, NEW k \in Keys, SubscribeWSX(p, k) PROVE Asleep'
  <2>1. SetMsg(k, p) \in Messages
    BY InfoType DEF SetMsg, Messages
  <2>2. \A q \in Procs \ up : inbox'[q] = inbox[q]
    BY <1>4, <1>a, <1>b, <2>1 DEF SubscribeWSX
  <2>3. \A q \in Procs, j \in Keys : <<q, j>> \in tasks' \ tasks => q \in up
    BY <1>4 DEF SubscribeWSX
  <2> QED
    BY <1>4, <2>2, <2>3, AsleepSame DEF SubscribeWSX, procs
<1>5. ASSUME NEW p \in Procs, NEW k \in Keys, LookUp(p, k) PROVE Asleep'
  <2>1. \A q \in Procs \ up : look'[q] = look[q]
    BY <1>5 DEF LookUp, Types, TypeOK
  <2> QED
    BY <1>5, <2>1, AsleepSame DEF LookUp, procs, moves
<1>6. ASSUME NEW k \in Keys, DisconnectWSX(k) PROVE Asleep'
  <2>1. RemoveMsg(k) \in Messages
    BY <1>6 DEF RemoveMsg, Messages, DisconnectWSX
  <2>2. \A q \in Procs \ up : inbox'[q] = inbox[q]
    BY <1>6, <1>a, <1>b, <2>1 DEF DisconnectWSX
  <2> QED
    BY <1>6, <2>2, AsleepSame DEF DisconnectWSX, procs
<1>7. ASSUME NEW k \in Keys, DeleteSubscription(k) PROVE Asleep'
  <2>1. DeleteMsg(k) \in Messages
    BY DEF DeleteMsg, Messages
  <2>2. \A q \in Procs \ up : inbox'[q] = inbox[q]
    BY <1>7, <1>a, <1>b, <2>1 DEF DeleteSubscription
  <2> QED
    BY <1>7, <2>2, AsleepSame DEF DeleteSubscription, procs, moves
<1>8. ASSUME NEW p \in Procs, Handle(p) PROVE Asleep'
  <2>1. p \in up /\ inbox[p] # <<>>
    BY <1>8 DEF Handle, CreateSubscription, Unsubscribe, SubKeyServerSet,
                WSXClientSubKeyServerRemove, DeliveryServerChange, LateStopping, Receives
  <2>2. Received(p) \in Boxes /\ \A q \in Procs \ up : Received(p)[q] = inbox[q]
    BY <1>a, <2>1, ReceivedBoxes
  <2>3. CASE p \in First /\ CreateDeliveryTask(p, Head(inbox[p]).key, Received(p))
             /\ UNCHANGED <<up, look>>
    <3>1. Head(inbox[p]) \in Messages
      BY <1>a, <2>1, ReceivedBoxes
    <3>2. SetMsg(Head(inbox[p]).key, p) \in Messages
      BY <3>1, MessageTypes, InfoType DEF SetMsg, Messages
    <3>3. \A q \in Procs \ up : inbox'[q] = inbox[q]
      BY <1>b, <2>2, <2>3, <3>2 DEF CreateDeliveryTask
    <3>4. \A q \in Procs \ up : reg'[q] = reg[q]
      BY <1>a, <2>1, <2>3 DEF CreateDeliveryTask
    <3>5. \A q \in Procs, j \in Keys : <<q, j>> \in tasks' \ tasks => q \in up
      BY <2>1, <2>3 DEF CreateDeliveryTask
    <3> QED
      BY <2>3, <3>3, <3>4, <3>5, AsleepSame
  <2>4. CASE inbox' = Received(p) /\ UNCHANGED <<up, look>> /\ tasks' \subseteq tasks
             /\ \A q \in Procs \ {p} : reg'[q] = reg[q]
    BY <2>1, <2>2, <2>4, AsleepSame
  <2>5. CASE CreateSubscription(p) /\ ~(p \in First /\ CreateDeliveryTask(p, Head(inbox[p]).key, Received(p)))
    BY <1>a, <2>4, <2>5 DEF CreateSubscription
  <2>6. CASE \/ Unsubscribe(p) \/ SubKeyServerSet(p) \/ WSXClientSubKeyServerRemove(p)
             \/ DeliveryServerChange(p) \/ LateStopping(p)
    BY <1>a, <2>4, <2>6 DEF Unsubscribe, SubKeyServerSet, WSXClientSubKeyServerRemove,
                            DeliveryServerChange, LateStopping, procs, moves
  <2> QED
    BY <1>8, <2>3, <2>5, <2>6 DEF Handle, CreateSubscription
<1>9. ASSUME NEW p \in Procs, Lookup(p) PROVE Asleep'
  <2>1. p \in up
    BY <1>9 DEF Lookup, GetServerPID, SetMissing, Locked, Asleep
  <2>2. \A q \in Procs \ {p} : look'[q] = look[q] /\ reg'[q] = reg[q]
    BY <1>9, <1>a DEF Lookup, GetServerPID, SetMissing, Types, TypeOK
  <2>3. UNCHANGED <<up, inbox, tasks>>
    BY <1>9 DEF Lookup, GetServerPID, SetMissing, procs, moves
  <2> QED
    BY <2>1, <2>2, <2>3, AsleepSame
<1>10. ASSUME NEW m \in migs, Migration(m) PROVE Asleep'
  <2>1. ASSUME NEW q \in Procs, NotifyStopping(m, q) PROVE Asleep'
    <3>1. q \in up /\ \A p \in Procs \ {q} : inbox'[p] = inbox[p] /\ reg'[p] = reg[p]
      BY <1>a, <2>1 DEF NotifyStopping, Boxes
    <3> QED
      BY <2>1, <3>1, AsleepSame DEF NotifyStopping, procs
  <2>2. ASSUME NEW q \in Procs, StartTask(m, q) PROVE Asleep'
    <3>1. q \in up /\ m.key \in Keys /\ CreateDeliveryTask(q, m.key, inbox)
      BY <2>2 DEF StartTask, Types, TypeOK, Keys
    <3>2. SetMsg(m.key, q) \in Messages
      BY <3>1, InfoType DEF SetMsg, Messages
    <3>3. \A p \in Procs \ up : inbox'[p] = inbox[p]
      BY <1>a, <1>b, <3>1, <3>2 DEF CreateDeliveryTask
    <3>4. \A p \in Procs \ up : reg'[p] = reg[p]
      BY <1>a, <3>1 DEF CreateDeliveryTask
    <3>5. \A p \in Procs, j \in Keys : <<p, j>> \in tasks' \ tasks => p \in up
      BY <3>1 DEF CreateDeliveryTask
    <3> QED
      BY <2>2, <3>3, <3>4, <3>5, AsleepSame DEF StartTask, procs
  <2>3. CASE GiveUp(m) \/ StopTask(m) \/ StartFailed(m)
    BY <2>3, AsleepSame DEF GiveUp, StopTask, StartFailed, procs
  <2> QED
    BY <1>10, <2>1, <2>2, <2>3 DEF Migration
<1>11. ASSUME NEW p \in Procs, Boot(p) PROVE Asleep'
  BY <1>11, <1>a DEF Boot, Asleep, Boxes, moves, Idle
<1>12. ASSUME NEW s \in Servers, Crash(s) PROVE Asleep'
  <2>1. /\ up' = up \ Workers(s)
        /\ \A p \in Procs : p \in Workers(s) => /\ inbox'[p] = <<>> /\ look'[p] = Idle
                                                /\ \A k \in Keys : reg'[p][k] = Nobody
        /\ \A p \in Procs \ Workers(s) : inbox'[p] = inbox[p] /\ look'[p] = look[p] /\ reg'[p] = reg[p]
    BY <1>12 DEF Crash
  <2>2. \A p \in Procs, k \in Keys : <<p, k>> \in tasks' => <<p, k>> \in tasks /\ p \notin Workers(s)
    BY <1>12 DEF Crash
  <2> QED
    BY <2>1, <2>2 DEF Asleep, Idle
<1>13. ASSUME NEW p \in Procs, NEW i, Overtake(p, i) PROVE Asleep'
  BY <1>13, <1>a, OvertakeBoxes, AsleepSame
<1> QED
  BY <1>1, <1>2, <1>3, <1>4, <1>5, <1>6, <1>7, <1>8, <1>9, <1>10, <1>11, <1>12, <1>13 DEF Next

-----------------------------------------------------------------------------
(* The life of a sub_key with a delivery server in ODB.                    *)

Runs(p, k)   == <<p, k>> \in tasks
Migrating(k) == {m \in migs : m.key = k}
Asks(p, k)   == Locked(p) /\ look[p].key = k

SetInfo(k, info) == [type |-> "set", key |-> k, info |-> info]

\* Nobody has heard of a sub_key before there is a subscription.
Unborn(k) ==
    odb[k] = Nobody =>
        /\ \A p \in Procs : /\ ~Runs(p, k)
                            /\ \A m \in Messages : In(m, inbox[p]) => m.key # k
        /\ Migrating(k) = {}
        /\ k \notin deleted

\* A task is about to be created on the delivery server, and nothing else goes on.
Creating(k) ==
    \A p \in Procs : In(CreateMsg(k), inbox[p]) =>
        /\ ServerOf[p] = odb[k] /\ k \notin deleted
        /\ Migrating(k) = {}
        /\ ~Runs(p, k)
        /\ \A q \in Procs : ~In(ChangeMsg(k, odb[k]), inbox[q])
        /\ Once(CreateMsg(k), inbox[p])

\* A change is told to those who do not belong to the new server, once.
Changing(k) ==
    \A p \in Procs, s \in Servers : In(ChangeMsg(k, s), inbox[p]) =>
        /\ s = odb[k] /\ ServerOf[p] # s
        /\ up = Procs /\ k \notin deleted
        /\ Once(ChangeMsg(k, s), inbox[p])

\* What is announced is the task there is.
Announced(k) ==
    \A p \in Procs, info \in Infos : In(SetInfo(k, info), inbox[p]) =>
        /\ Migrating(k) = {} /\ k \notin deleted
        /\ \E q \in Procs : /\ Runs(q, k) /\ info = Info(q)
                            /\ ServerOf[q] = odb[k] /\ ServerOf[q] # ServerOf[p]

Deleting(k) ==
    \A p \in Procs : In(DeleteMsg(k), inbox[p]) => k \in deleted /\ up = Procs

NoneLate(k) ==
    \A p \in Procs : ~In(StoppingMsg(k), inbox[p])

\* A migration is the only one, goes from another server to the one in ODB, and its
\* task is where it was until it was stopped.
Moving(k) ==
    \A m \in Migrating(k) :
        /\ m.new = odb[k] /\ ServerOf[m.at] # odb[k]
        /\ up = Procs /\ k \notin deleted
        /\ m.failed = {}
        /\ ~In(ChangeMsg(k, odb[k]), inbox[m.at])
        /\ \A n \in Migrating(k) : n = m
        /\ m.stage = "notify" => Runs(m.at, k)
        /\ m.stage = "start" => \A p \in Procs : ~Runs(p, k)

\* First worker f will not create a task.
NotCreating(f, k) ==
    /\ ~In(CreateMsg(k), inbox[f])
    /\ f \in up \/ odb[k] # ServerOf[f] \/ k \in deleted

\* Process p knows that it has the task, which is where ODB says, unless p is about
\* to hear of a change.
Settled(p, k) ==
    /\ Migrating(k) = {}
    /\ reg[p][k] = Info(p) /\ ~Asks(p, k)
    /\ ServerOf[p] = odb[k] \/ In(ChangeMsg(k, odb[k]), inbox[p])

Running(k) ==
    \A p \in Procs : Runs(p, k) =>
        /\ \A q \in Procs : Runs(q, k) => q = p
        /\ \A f \in First : NotCreating(f, k)
        /\ Settled(p, k) \/ \E m \in Migrating(k) : m.at = p

KeyInv(k) ==
    /\ Unborn(k) /\ Creating(k) /\ Changing(k) /\ Announced(k) /\ Deleting(k)
    /\ NoneLate(k) /\ Moving(k) /\ Running(k)

\* Steps that leave a sub_key alone: its messages may be taken, but not those that
\* the process with the task waits for.
Frame(k) ==
    /\ up' = up /\ boot' = boot
    /\ odb'[k] = odb[k] /\ (k \in deleted' <=> k \in deleted)
    /\ Migrating(k)' = Migrating(k)
    /\ \A q \in Procs : \A m \in Messages : m.key = k =>
          /\ In(m, inbox'[q]) => In(m, inbox[q])
          /\ Once(m, inbox[q]) => Once(m, inbox'[q])
    /\ \A q \in Procs :
          /\ <<q, k>> \in tasks' => /\ Runs(q, k)
                                    /\ In(ChangeMsg(k, odb[k]), inbox[q]) => In(ChangeMsg(k, odb[k]), inbox'[q])
                                    /\ \/ Migrating(k) # {}
                                       \/ reg'[q][k] = reg[q][k] /\ (Asks(q, k)' => Asks(q, k))
          /\ Runs(q, k) => <<q, k>> \in tasks' \/ k \in deleted

\* Messages about a sub_key.
LEMMA AboutKey ==
    ASSUME NEW k \in RESTKeys
    PROVE  /\ CreateMsg(k) \in Messages /\ CreateMsg(k).key = k
           /\ DeleteMsg(k) \in Messages /\ DeleteMsg(k).key = k
           /\ StoppingMsg(k) \in Messages /\ StoppingMsg(k).key = k
           /\ \A s \in Servers : ChangeMsg(k, s) \in Messages /\ ChangeMsg(k, s).key = k
           /\ \A info \in Infos : SetInfo(k, info) \in Messages /\ SetInfo(k, info).key = k
           /\ CreateMsg(k) # DeleteMsg(k) /\ CreateMsg(k) # StoppingMsg(k)
           /\ DeleteMsg(k) # StoppingMsg(k)
           /\ \A s : /\ CreateMsg(k) # ChangeMsg(k, s) /\ DeleteMsg(k) # ChangeMsg(k, s)
                     /\ StoppingMsg(k) # ChangeMsg(k, s)
           /\ \A i : /\ CreateMsg(k) # SetInfo(k, i) /\ DeleteMsg(k) # SetInfo(k, i)
                     /\ StoppingMsg(k) # SetInfo(k, i)
           /\ \A s, i : ChangeMsg(k, s) # SetInfo(k, i)
BY DEF CreateMsg, DeleteMsg, StoppingMsg, ChangeMsg, SetInfo, Messages, Keys

LEMMA KeyFrame ==
    ASSUME Types, NEW k \in RESTKeys, KeyInv(k), Frame(k)
    PROVE  KeyInv(k)'
<1>1. /\ Unborn(k) /\ Creating(k) /\ Changing(k) /\ Announced(k) /\ Deleting(k)
      /\ NoneLate(k) /\ Moving(k) /\ Running(k)
  BY DEF KeyInv
<1>2. /\ up' = up /\ odb'[k] = odb[k] /\ (k \in deleted' <=> k \in deleted)
      /\ Migrating(k)' = Migrating(k)
      /\ \A q \in Procs : Info(q)' = Info(q)
  BY DEF Frame, Info, Pid
<1>3. \A q \in Procs : \A m \in Messages : m.key = k =>
          /\ In(m, inbox'[q]) => In(m, inbox[q])
          /\ Once(m, inbox[q]) => Once(m, inbox'[q])
  BY DEF Frame
<1>4. \A q \in Procs : (Runs(q, k)' => Runs(q, k)) /\ (Runs(q, k) => Runs(q, k)' \/ k \in deleted)
  BY DEF Frame, Runs
<1>5. odb[k] # Nobody => odb[k] \in Servers
  BY DEF Types, TypeOK
<1>6. /\ CreateMsg(k) \in Messages /\ CreateMsg(k).key = k
      /\ DeleteMsg(k) \in Messages /\ DeleteMsg(k).key = k
      /\ StoppingMsg(k) \in Messages /\ StoppingMsg(k).key = k
      /\ \A s \in Servers : ChangeMsg(k, s) \in Messages /\ ChangeMsg(k, s).key = k
      /\ \A info \in Infos : SetInfo(k, info) \in Messages /\ SetInfo(k, info).key = k
  BY AboutKey
<1>a. Unborn(k)'
  BY <1>1, <1>2, <1>3, <1>4 DEF Unborn
<1>b. Creating(k)'
  <2> SUFFICES ASSUME NEW p \in Procs, In(CreateMsg(k), inbox'[p])
               PROVE  /\ ServerOf[p] = odb[k] /\ k \notin deleted
                      /\ Migrating(k) = {}
                      /\ ~Runs(p, k)'
                      /\ \A q \in Procs : ~In(ChangeMsg(k, odb[k]), inbox'[q])
                      /\ Once(CreateMsg(k), inbox'[p])
    BY <1>2 DEF Creating, CreateMsg, ChangeMsg
  <2>1. In(CreateMsg(k), inbox[p])
    BY <1>3, <1>6
  <2>2. /\ ServerOf[p] = odb[k] /\ k \notin deleted
        /\ Migrating(k) = {}
        /\ ~Runs(p, k)
        /\ \A q \in Procs : ~In(ChangeMsg(k, odb[k]), inbox[q])
        /\ Once(CreateMsg(k), inbox[p])
    BY <1>1, <2>1 DEF Creating
  <2>3. odb[k] \in Servers
    BY <2>2, RegistryAssumption
  <2> QED
    BY <1>3, <1>4, <1>6, <2>2, <2>3
<1>c. Changing(k)'
  <2> SUFFICES ASSUME NEW p \in Procs, NEW s \in Servers, In(ChangeMsg(k, s), inbox'[p])
               PROVE  /\ s = odb[k] /\ ServerOf[p] # s
                      /\ up = Procs /\ k \notin deleted
                      /\ Once(ChangeMsg(k, s), inbox'[p])
    BY <1>2 DEF Changing, ChangeMsg
  <2> QED
    BY <1>1, <1>3, <1>6 DEF Changing
<1>d. Announced(k)'
  <2> SUFFICES ASSUME NEW p \in Procs, NEW info \in Infos, In(SetInfo(k, info), inbox'[p])
               PROVE  /\ Migrating(k) = {} /\ k \notin deleted
                      /\ \E q \in Procs : /\ Runs(q, k)' /\ info = Info(q)
                                          /\ ServerOf[q] = odb[k] /\ ServerOf[q] # ServerOf[p]
    BY <1>2 DEF Announced, SetInfo
  <2>1. In(SetInfo(k, info), inbox[p])
    BY <1>3, <1>6
  <2> QED
    BY <1>1, <1>4, <2>1 DEF Announced
<1>e. Deleting(k)' /\ NoneLate(k)'
  <2>1. \A p \in Procs : /\ In(DeleteMsg(k), inbox'[p]) => In(DeleteMsg(k), inbox[p])
                         /\ ~In(StoppingMsg(k), inbox'[p])
    BY <1>1, <1>3, <1>6 DEF NoneLate
  <2> QED
    BY <1>1, <1>2, <2>1 DEF Deleting, NoneLate, DeleteMsg, StoppingMsg
<1>f. Moving(k)'
  <2> SUFFICES ASSUME NEW m \in Migrating(k)
               PROVE  /\ m.new = odb[k] /\ ServerOf[m.at] # odb[k]
                      /\ up = Procs /\ k \notin deleted
                      /\ m.failed = {}
                      /\ ~In(ChangeMsg(k, odb[k]), inbox'[m.at])
                      /\ \A n \in Migrating(k) : n = m
                      /\ m.stage = "notify" => Runs(m.at, k)'
                      /\ m.stage = "start" => \A p \in Procs : ~Runs(p, k)'
    BY <1>2 DEF Moving, ChangeMsg
  <2>1. m.at \in Procs /\ m.new \in Servers
    BY DEF Migrating, Types, TypeOK
  <2>2. /\ m.new = odb[k] /\ ServerOf[m.at] # odb[k]
        /\ up = Procs /\ k \notin deleted
        /\ m.failed = {}
        /\ ~In(ChangeMsg(k, odb[k]), inbox[m.at])
        /\ \A n \in Migrating(k) : n = m
        /\ m.stage = "notify" => Runs(m.at, k)
        /\ m.stage = "start" => \A p \in Procs : ~Runs(p, k)
    BY <1>1 DEF Moving
  <2> QED
    BY <1>3, <1>4, <1>6, <2>1, <2>2
<1>g. Running(k)'
  <2> SUFFICES ASSUME NEW p \in Procs, Runs(p, k)'
               PROVE  /\ \A q \in Procs : Runs(q, k)' => q = p
                      /\ \A f \in First : NotCreating(f, k)'
                      /\ Settled(p, k)' \/ \E m \in Migrating(k)' : m.at = p
    BY DEF Running
  <2>1. /\ Runs(p, k)
        /\ \A q \in Procs : Runs(q, k) => q = p
        /\ \A f \in First : NotCreating(f, k)
        /\ Settled(p, k) \/ \E m \in Migrating(k) : m.at = p
    BY <1>1, <1>4 DEF Running
  <2>2. \A f \in First : NotCreating(f, k)'
    BY <1>2, <1>3, <1>6, <2>1, RegistryAssumption DEF NotCreating, CreateMsg
  <2>3. Settled(p, k) => Settled(p, k)'
    <3>1. /\ In(ChangeMsg(k, odb[k]), inbox[p]) => In(ChangeMsg(k, odb[k]), inbox'[p])
          /\ \/ Migrating(k) # {}
             \/ reg'[p][k] = reg[p][k] /\ (Asks(p, k)' => Asks(p, k))
      BY DEF Frame, Runs
    <3>2. ChangeMsg(k, odb[k])' = ChangeMsg(k, odb[k])
      BY <1>2 DEF ChangeMsg
    <3> QED
      BY <1>2, <3>1, <3>2 DEF Settled
  <2> QED
    BY <1>2, <1>4, <2>1, <2>2, <2>3
<1> QED
  BY <1>a, <1>b, <1>c, <1>d, <1>e, <1>f, <1>g DEF KeyInv

\* Steps that do not touch any message about k, or its task.
LEMMA FrameSame ==
    ASSUME Types, NEW k \in RESTKeys, KeyInv(k),
           up' = up, boot' = boot, odb'[k] = odb[k], k \in deleted' <=> k \in deleted,
           Migrating(k)' = Migrating(k),
           \A q \in Procs : <<q, k>> \in tasks' <=> Runs(q, k),
           \A q \in Procs : Runs(q, k) =>
              Migrating(k) # {} \/ (reg'[q][k] = reg[q][k] /\ (Asks(q, k)' => Asks(q, k))),
           \A q \in Procs : \A m \in Messages : m.key = k =>
              (In(m, inbox'[q]) <=> In(m, inbox[q])) /\ (Once(m, inbox[q]) => Once(m, inbox'[q]))
    PROVE  KeyInv(k)'
<1>1. \A q \in Procs : Runs(q, k) => odb[k] \in Servers
  BY DEF KeyInv, Unborn, Types, TypeOK
<1>2. \A s \in Servers : ChangeMsg(k, s) \in Messages /\ ChangeMsg(k, s).key = k
  BY AboutKey
<1>3. \A q \in Procs : Runs(q, k) =>
         (In(ChangeMsg(k, odb[k]), inbox[q]) => In(ChangeMsg(k, odb[k]), inbox'[q]))
  BY <1>1, <1>2
<1>4. Frame(k)
  BY <1>3 DEF Frame
<1> QED
  BY <1>4, KeyFrame

\* Messages about others are sent.
LEMMA FrameTold ==
    ASSUME Types, NEW k \in RESTKeys, KeyInv(k),
           up' = up, boot' = boot, odb'[k] = odb[k], k \in deleted' <=> k \in deleted,
           migs' = migs, reg' = reg, look' = look,
           \A q \in Procs : <<q, k>> \in tasks' <=> Runs(q, k),
           NEW m \in Messages, m.key # k, NEW to, inbox' = Broadcast(inbox, m, to)
    PROVE  KeyInv(k)'
<1>1. inbox \in Boxes
  BY DEF Types, TypeOK, Boxes
<1>2. \A q \in Procs : \A x \in Messages : x.key = k =>
         (In(x, inbox'[q]) <=> In(x, inbox[q])) /\ (Once(x, inbox[q]) => Once(x, inbox'[q]))
  <2> SUFFICES ASSUME NEW q \in Procs, NEW x \in Messages, x.key = k
               PROVE  (In(x, inbox'[q]) <=> In(x, inbox[q])) /\ (Once(x, inbox[q]) => Once(x, inbox'[q]))
    OBVIOUS
  <2>1. x # m
    OBVIOUS
  <2>2. /\ \A y : In(y, Broadcast(inbox, m, to)[q]) <=> In(y, inbox[q]) \/ (y = m /\ q \in to \cap up)
        /\ \A y : Once(y, inbox[q]) /\ (y # m \/ ~In(y, inbox[q])) => Once(y, Broadcast(inbox, m, to)[q])
    BY <1>1, Told
  <2>3. inbox'[q] = Broadcast(inbox, m, to)[q]
    OBVIOUS
  <2>4. /\ In(x, Broadcast(inbox, m, to)[q]) <=> In(x, inbox[q])
        /\ Once(x, inbox[q]) => Once(x, Broadcast(inbox, m, to)[q])
    BY <2>1, <2>2
  <2> QED
    BY <2>3, <2>4
<1>3. Migrating(k)' = Migrating(k) /\ \A q \in Procs : Asks(q, k)' => Asks(q, k)
  BY DEF Migrating, Asks, Locked, Idle
<1> QED
  BY <1>2, <1>3, FrameSame

LEMMA KeySubscribe ==
    ASSUME Types, NEW k \in RESTKeys, KeyInv(k), NEW j \in RESTKeys, NEW s \in Servers,
           Subscribe(j, s)
    PROVE  KeyInv(k)'
<1>1. /\ odb[j] = Nobody /\ odb' = [odb EXCEPT ![j] = s]
      /\ inbox' = Broadcast(inbox, CreateMsg(j), Workers(s))
      /\ UNCHANGED <<up, boot, reg, look, migs, tasks, deleted>>
  BY DEF Subscribe, procs, moves
<1>2. CreateMsg(j) \in Messages /\ CreateMsg(j).key = j
  BY AboutKey
<1>3. CASE k # j
  <2>1. odb'[k] = odb[k]
    BY <1>1, <1>3 DEF Types, TypeOK
  <2>2. \A q \in Procs : <<q, k>> \in tasks' <=> Runs(q, k)
    BY <1>1 DEF Runs
  <2> QED
    BY <1>1, <1>2, <1>3, <2>1, <2>2, FrameTold
<1>4. CASE k = j
  <2>1. /\ \A p \in Procs : /\ ~Runs(p, k)
                            /\ \A m \in Messages : In(m, inbox[p]) => m.key # k
        /\ Migrating(k) = {}
        /\ k \notin deleted
    BY <1>1, <1>4 DEF KeyInv, Unborn
  <2>2. odb'[k] = s /\ s # Nobody
    BY <1>1, <1>4, RegistryAssumption DEF Types, TypeOK
  <2>3. inbox \in Boxes
    BY DEF Types, TypeOK, Boxes
  <2>4. \A q \in Procs :
           /\ \A x : In(x, inbox'[q]) <=> In(x, inbox[q]) \/ (x = CreateMsg(k) /\ q \in Workers(s) \cap up)
           /\ Once(CreateMsg(k), inbox[q]) /\ ~In(CreateMsg(k), inbox[q]) => Once(CreateMsg(k), inbox'[q])
    <3> SUFFICES ASSUME NEW q \in Procs
                 PROVE  /\ \A x : In(x, inbox'[q]) <=> In(x, inbox[q]) \/ (x = CreateMsg(k) /\ q \in Workers(s) \cap up)
                        /\ Once(CreateMsg(k), inbox[q]) /\ ~In(CreateMsg(k), inbox[q]) => Once(CreateMsg(k), inbox'[q])
      OBVIOUS
    <3>1. CreateMsg(k) \in Messages
      BY <1>2, <1>4
    <3>2. /\ \A y : In(y, Broadcast(inbox, CreateMsg(k), Workers(s))[q]) <=> In(y, inbox[q]) \/ (y = CreateMsg(k) /\ q \in Workers(s) \cap up)
          /\ \A y : Once(y, inbox[q]) /\ (y # CreateMsg(k) \/ ~In(y, inbox[q])) => Once(y, Broadcast(inbox, CreateMsg(k), Workers(s))[q])
      BY <2>3, <3>1, Told
    <3>3. inbox' = Broadcast(inbox, CreateMsg(k), Workers(s))
      BY <1>1, <1>4
    <3> QED
      BY <3>2, <3>3, Zenon
  <2>5. /\ \A q \in Procs : ~Runs(q, k)'
        /\ Migrating(k)' = {} /\ k \notin deleted'
    BY <1>1, <2>1 DEF Runs, Migrating
  <2>6. \A q \in Procs : \A x \in Messages : In(x, inbox'[q]) /\ x.key = k =>
           x = CreateMsg(k) /\ q \in Workers(s)
    BY <2>1, <2>4
  <2>7. \A q \in Procs : ~In(CreateMsg(k), inbox[q])
    BY <1>2, <1>4, <2>1
  <2>8. \A q \in Procs : Once(CreateMsg(k), inbox'[q])
    BY <2>4, <2>7 DEF Once, In
  <2>9. \A q \in Procs : /\ \A x \in Servers : ~In(ChangeMsg(k, x), inbox'[q])
                         /\ \A x \in Infos : ~In(SetInfo(k, x), inbox'[q])
                         /\ ~In(DeleteMsg(k), inbox'[q])
                         /\ ~In(StoppingMsg(k), inbox'[q])
    BY <2>6, AboutKey
  <2>10. \A q \in Procs : In(CreateMsg(k), inbox'[q]) => ServerOf[q] = s
    BY <1>2, <1>4, <2>6 DEF Workers
  <2>a. Unborn(k)' /\ Changing(k)' /\ Announced(k)' /\ Deleting(k)' /\ NoneLate(k)'
    BY <2>2, <2>9 DEF Unborn, Changing, Announced, Deleting, NoneLate, ChangeMsg, SetInfo,
                      DeleteMsg, StoppingMsg
  <2>b. Creating(k)'
    BY <2>2, <2>5, <2>8, <2>9, <2>10 DEF Creating, ChangeMsg, CreateMsg
  <2>c. Moving(k)' /\ Running(k)'
    BY <2>5 DEF Moving, Running
  <2> QED
    BY <2>a, <2>b, <2>c DEF KeyInv
<1> QED
  BY <1>3, <1>4

\* A sub_key that is settled: nothing is under way.
LEMMA SettledKey ==
    ASSUME Types, NEW k \in RESTKeys, KeyInv(k), k \notin Unsettled
    PROVE  /\ up = Procs
           /\ Migrating(k) = {}
           /\ \A p \in Procs : \A x \in Messages : In(x, inbox[p]) => x.key # k
           /\ \A p \in Procs : Runs(p, k) => ServerOf[p] = odb[k] /\ reg[p][k] = Info(p)
                                             /\ ~Asks(p, k)
<1>1. /\ up = Procs
      /\ Migrating(k) = {}
      /\ \A p \in Procs : \A i \in 1..Len(inbox[p]) : inbox[p][i].key # k
  BY DEF Unsettled, Migrating
<1>2. \A p \in Procs : \A x : In(x, inbox[p]) => x.key # k
  BY <1>1 DEF In
<1>3. \A p \in Procs : Runs(p, k) => Settled(p, k)
  BY <1>1 DEF KeyInv, Running
<1>4. \A p \in Procs : Runs(p, k) => odb[k] \in Servers
  BY DEF KeyInv, Unborn, Types, TypeOK
<1>5. \A p \in Procs : ~In(DeleteMsg(k), inbox[p]) /\ \A s \in Servers : ~In(ChangeMsg(k, s), inbox[p])
  BY <1>2, AboutKey
<1> QED
  BY <1>1, <1>2, <1>3, <1>4, <1>5 DEF Settled

LEMMA KeyChangeServer ==
    ASSUME Types, NEW k \in RESTKeys, KeyInv(k), NEW j \in RESTKeys, NEW s \in Servers,
           ChangeServer(j, s), k \notin disturbed'
    PROVE  KeyInv(k)'
<1>1. /\ odb[j] \in Servers \ {s} /\ odb' = [odb EXCEPT ![j] = s]
      /\ j \notin deleted
      /\ inbox' = Broadcast(inbox, ChangeMsg(j, s), Workers(odb[j]))
      /\ UNCHANGED <<up, boot, reg, look, migs, tasks, deleted>>
  BY DEF ChangeServer, procs, moves
<1>2. ChangeMsg(j, s) \in Messages /\ ChangeMsg(j, s).key = j
  BY AboutKey
<1>3. CASE k # j
  <2>1. odb'[k] = odb[k]
    BY <1>1, <1>3 DEF Types, TypeOK
  <2>2. \A q \in Procs : <<q, k>> \in tasks' <=> Runs(q, k)
    BY <1>1 DEF Runs
  <2> QED
    BY <1>1, <1>2, <1>3, <2>1, <2>2, FrameTold
<1>4. CASE k = j
  <2>0. k \notin Unsettled
    BY <1>4 DEF ChangeServer
  <2>1. /\ up = Procs
        /\ Migrating(k) = {}
        /\ \A p \in Procs : \A x \in Messages : In(x, inbox[p]) => x.key # k
        /\ \A p \in Procs : Runs(p, k) => ServerOf[p] = odb[k] /\ reg[p][k] = Info(p)
                                          /\ ~Asks(p, k)
    BY <2>0, SettledKey
  <2>2. odb'[k] = s /\ s # Nobody /\ odb[k] # s
    BY <1>1, <1>4, RegistryAssumption DEF Types, TypeOK
  <2>3. inbox \in Boxes
    BY DEF Types, TypeOK, Boxes
  <2>4. \A q \in Procs :
           /\ \A x : In(x, inbox'[q]) <=> In(x, inbox[q]) \/ (x = ChangeMsg(k, s) /\ q \in Workers(odb[k]) \cap up)
           /\ Once(ChangeMsg(k, s), inbox[q]) /\ ~In(ChangeMsg(k, s), inbox[q]) => Once(ChangeMsg(k, s), inbox'[q])
    <3> SUFFICES ASSUME NEW q \in Procs
                 PROVE  /\ \A x : In(x, inbox'[q]) <=> In(x, inbox[q]) \/ (x = ChangeMsg(k, s) /\ q \in Workers(odb[k]) \cap up)
                        /\ Once(ChangeMsg(k, s), inbox[q]) /\ ~In(ChangeMsg(k, s), inbox[q]) => Once(ChangeMsg(k, s), inbox'[q])
      OBVIOUS
    <3>1. ChangeMsg(k, s) \in Messages
      BY <1>2, <1>4
    <3>2. /\ \A y : In(y, Broadcast(inbox, ChangeMsg(k, s), Workers(odb[k]))[q]) <=> In(y, inbox[q]) \/ (y = ChangeMsg(k, s) /\ q \in Workers(odb[k]) \cap up)
          /\ \A y : Once(y, inbox[q]) /\ (y # ChangeMsg(k, s) \/ ~In(y, inbox[q])) => Once(y, Broadcast(inbox, ChangeMsg(k, s), Workers(odb[k]))[q])
      BY <2>3, <3>1, Told
    <3>3. inbox' = Broadcast(inbox, ChangeMsg(k, s), Workers(odb[k]))
      BY <1>1, <1>4
    <3> QED
      BY <3>2, <3>3, Zenon
  <2>5. \A q \in Procs : \A x \in Messages : In(x, inbox'[q]) /\ x.key = k =>
           x = ChangeMsg(k, s) /\ q \in Workers(odb[k])
    BY <2>1, <2>4
  <2>6. \A q \in Procs : ~In(ChangeMsg(k, s), inbox[q])
    BY <1>2, <1>4, <2>1
  <2>7. \A q \in Procs : Once(ChangeMsg(k, s), inbox'[q])
    BY <2>4, <2>6 DEF Once, In
  <2>8. \A q \in Procs : /\ \A x \in Infos : ~In(SetInfo(k, x), inbox'[q])
                         /\ ~In(DeleteMsg(k), inbox'[q])
                         /\ ~In(StoppingMsg(k), inbox'[q])
                         /\ ~In(CreateMsg(k), inbox'[q])
    BY <2>5, AboutKey
  <2>9. \A q \in Procs, x \in Servers : In(ChangeMsg(k, x), inbox'[q]) => x = s /\ ServerOf[q] = odb[k]
    <3> SUFFICES ASSUME NEW q \in Procs, NEW x \in Servers, In(ChangeMsg(k, x), inbox'[q])
                 PROVE  x = s /\ ServerOf[q] = odb[k]
      OBVIOUS
    <3>1. ChangeMsg(k, x) = ChangeMsg(k, s) /\ q \in Workers(odb[k])
      BY <2>5, AboutKey
    <3>2. ChangeMsg(k, x).new = x /\ ChangeMsg(k, s).new = s
      BY DEF ChangeMsg
    <3> QED
      BY <3>1, <3>2 DEF Workers
  <2>10. /\ \A q \in Procs : Runs(q, k)' <=> Runs(q, k)
         /\ Migrating(k)' = {} /\ k \notin deleted' /\ up' = Procs
    BY <1>1, <1>4, <2>1 DEF Runs, Migrating
  <2>a. Unborn(k)' /\ Creating(k)' /\ Announced(k)' /\ Deleting(k)' /\ NoneLate(k)'
    BY <2>2, <2>8 DEF Unborn, Creating, Announced, Deleting, NoneLate, CreateMsg, SetInfo,
                      DeleteMsg, StoppingMsg
  <2>b. Changing(k)'
    <3>1. \A q \in Procs, x \in Servers : In(ChangeMsg(k, x), inbox'[q]) =>
             /\ x = odb'[k] /\ ServerOf[q] # x
             /\ up' = Procs /\ k \notin deleted'
             /\ Once(ChangeMsg(k, x), inbox'[q])
      BY <2>2, <2>7, <2>9, <2>10
    <3> QED
      BY <3>1 DEF Changing, ChangeMsg
  <2>c. Moving(k)'
    BY <2>10 DEF Moving
  <2>d. Running(k)'
    <3> SUFFICES ASSUME NEW p \in Procs, Runs(p, k)'
                 PROVE  /\ \A q \in Procs : Runs(q, k)' => q = p
                        /\ \A f \in First : NotCreating(f, k)'
                        /\ Settled(p, k)'
      BY DEF Running
    <3>1. Runs(p, k) /\ \A q \in Procs : Runs(q, k) => q = p
      BY <2>10 DEF KeyInv, Running
    <3>2. \A f \in First : NotCreating(f, k)'
      BY <2>8, <2>10, RegistryAssumption DEF NotCreating, CreateMsg
    <3>3. p \in Workers(odb[k]) \cap up
      BY <2>1, <3>1 DEF Workers
    <3>4. In(ChangeMsg(k, s), inbox'[p])
      BY <2>4, <3>3
    <3>5. reg'[p][k] = Info(p)' /\ ~Asks(p, k)'
      BY <1>1, <2>1, <3>1 DEF Info, Pid, Asks, Locked, Idle
    <3>6. Settled(p, k)'
      BY <2>2, <2>10, <3>4, <3>5 DEF Settled, ChangeMsg
    <3> QED
      BY <2>10, <3>1, <3>2, <3>6
  <2> QED
    BY <2>a, <2>b, <2>c, <2>d DEF KeyInv
<1> QED
  BY <1>3, <1>4

LEMMA KeyDeleteSubscription ==
    ASSUME Types, NEW k \in RESTKeys, KeyInv(k), NEW j \in Keys, DeleteSubscription(j),
           k \notin disturbed'
    PROVE  KeyInv(k)'
<1>1. /\ j \in Subscribed \ deleted /\ deleted' = deleted \cup {j}
      /\ inbox' = Broadcast(inbox, DeleteMsg(j), Procs)
      /\ UNCHANGED <<up, boot, reg, look, migs, tasks, odb>>
  BY DEF DeleteSubscription, procs, moves
<1>2. DeleteMsg(j) \in Messages /\ DeleteMsg(j).key = j
  BY DEF DeleteMsg, Messages
<1>3. CASE k # j
  <2>1. odb'[k] = odb[k] /\ (k \in deleted' <=> k \in deleted)
    BY <1>1, <1>3
  <2>2. \A q \in Procs : <<q, k>> \in tasks' <=> Runs(q, k)
    BY <1>1 DEF Runs
  <2> QED
    BY <1>1, <1>2, <1>3, <2>1, <2>2, FrameTold
<1>4. CASE k = j
  <2>0. k \notin Unsettled
    BY <1>4 DEF DeleteSubscription
  <2>1. /\ up = Procs
        /\ Migrating(k) = {}
        /\ \A p \in Procs : \A x \in Messages : In(x, inbox[p]) => x.key # k
        /\ \A p \in Procs : Runs(p, k) => ServerOf[p] = odb[k] /\ reg[p][k] = Info(p)
                                          /\ ~Asks(p, k)
    BY <2>0, SettledKey
  <2>2. odb'[k] # Nobody
    BY <1>1, <1>4, RegistryAssumption DEF Subscribed
  <2>3. inbox \in Boxes
    BY DEF Types, TypeOK, Boxes
  <2>4. \A q \in Procs :
           \A x : In(x, inbox'[q]) <=> In(x, inbox[q]) \/ (x = DeleteMsg(k) /\ q \in Procs \cap up)
    BY <1>1, <1>2, <1>4, <2>3, Told
  <2>5. \A q \in Procs : \A x \in Messages : In(x, inbox'[q]) /\ x.key = k => x = DeleteMsg(k)
    BY <2>1, <2>4
  <2>8. \A q \in Procs : /\ \A x \in Infos : ~In(SetInfo(k, x), inbox'[q])
                         /\ \A x \in Servers : ~In(ChangeMsg(k, x), inbox'[q])
                         /\ ~In(StoppingMsg(k), inbox'[q])
                         /\ ~In(CreateMsg(k), inbox'[q])
    BY <2>5, AboutKey
  <2>10. /\ \A q \in Procs : Runs(q, k)' <=> Runs(q, k)
         /\ Migrating(k)' = {} /\ k \in deleted' /\ up' = Procs
    BY <1>1, <1>4, <2>1 DEF Runs, Migrating
  <2>a. Unborn(k)' /\ Creating(k)' /\ Announced(k)' /\ Changing(k)' /\ NoneLate(k)'
    BY <2>2, <2>8 DEF Unborn, Creating, Announced, Changing, NoneLate, CreateMsg, SetInfo,
                      ChangeMsg, StoppingMsg
  <2>b. Deleting(k)' /\ Moving(k)'
    BY <2>10 DEF Deleting, Moving
  <2>d. Running(k)'
    <3> SUFFICES ASSUME NEW p \in Procs, Runs(p, k)'
                 PROVE  /\ \A q \in Procs : Runs(q, k)' => q = p
                        /\ \A f \in First : NotCreating(f, k)'
                        /\ Settled(p, k)'
      BY DEF Running
    <3>1. Runs(p, k) /\ \A q \in Procs : Runs(q, k) => q = p
      BY <2>10 DEF KeyInv, Running
    <3>2. \A f \in First : NotCreating(f, k)'
      BY <2>8, <2>10, RegistryAssumption DEF NotCreating, CreateMsg
    <3>4. In(DeleteMsg(k), inbox'[p])
      BY <2>1, <2>4
    <3>5. reg'[p][k] = Info(p)' /\ ~Asks(p, k)' /\ ServerOf[p] = odb'[k]
      BY <1>1, <2>1, <3>1 DEF Info, Pid, Asks, Locked, Idle
    <3>6. Settled(p, k)'
      BY <2>10, <3>4, <3>5 DEF Settled, DeleteMsg
    <3> QED
      BY <2>10, <3>1, <3>2, <3>6
  <2> QED
    BY <2>a, <2>b, <2>d DEF KeyInv
<1> QED
  BY <1>3, <1>4

\* WebSockets have sub_keys of their own.
LEMMA KeyWSX ==
    ASSUME Types, NEW k \in RESTKeys, KeyInv(k), NEW j \in Keys,
           DisconnectWSX(j) \/ \E p \in Procs : SubscribeWSX(p, j)
    PROVE  KeyInv(k)'
<1>1. j \in WSXKeys /\ k # j
  BY RegistryAssumption DEF DisconnectWSX, SubscribeWSX
<1>2. CASE DisconnectWSX(j)
  <2>1. RemoveMsg(j) \in Messages /\ RemoveMsg(j).key # k
    BY <1>1 DEF RemoveMsg, Messages
  <2>2. \A q \in Procs : <<q, k>> \in tasks' <=> Runs(q, k)
    BY <1>1, <1>2 DEF DisconnectWSX, Runs
  <2>3. /\ inbox' = Broadcast(inbox, RemoveMsg(j), Procs)
        /\ up' = up /\ boot' = boot /\ odb'[k] = odb[k] /\ (k \in deleted' <=> k \in deleted)
        /\ migs' = migs /\ reg' = reg /\ look' = look
    BY <1>2 DEF DisconnectWSX, procs
  <2> QED
    BY <2>1, <2>2, <2>3, FrameTold
<1>3. ASSUME NEW p \in Procs, SubscribeWSX(p, j) PROVE KeyInv(k)'
  <2>1. SetMsg(j, p) \in Messages /\ SetMsg(j, p).key # k
    BY <1>1, InfoType DEF SetMsg, Messages, Keys
  <2>2. \A q \in Procs : <<q, k>> \in tasks' <=> Runs(q, k)
    BY <1>1, <1>3 DEF SubscribeWSX, Runs
  <2>3. /\ inbox' = Broadcast(inbox, SetMsg(j, p), Others(p))
        /\ up' = up /\ boot' = boot /\ odb'[k] = odb[k] /\ (k \in deleted' <=> k \in deleted)
        /\ migs' = migs /\ reg' = reg /\ look' = look
    BY <1>3 DEF SubscribeWSX, procs
  <2> QED
    BY <2>1, <2>2, <2>3, FrameTold
<1> QED
  BY <1>2, <1>3

LEMMA KeyLookup ==
    ASSUME Types, NEW k \in RESTKeys, KeyInv(k), NEW p \in Procs,
           Lookup(p) \/ \E j \in Keys : LookUp(p, j)
    PROVE  KeyInv(k)'
<1>1. UNCHANGED <<up, boot, inbox, migs, tasks, odb, deleted>>
  BY DEF Lookup, GetServerPID, SetMissing, LookUp, procs, moves, db
<1>2. \A q \in Procs : Runs(q, k) =>
         Migrating(k) # {} \/ (reg'[q][k] = reg[q][k] /\ (Asks(q, k)' => Asks(q, k)))
  <2> SUFFICES ASSUME NEW q \in Procs, Runs(q, k), Migrating(k) = {}
               PROVE  reg'[q][k] = reg[q][k] /\ (Asks(q, k)' => Asks(q, k))
    OBVIOUS
  <2>1. reg[q][k] = Info(q) /\ ~Asks(q, k) /\ reg[q][k] # Nobody
    <3>1. Settled(q, k)
      BY DEF KeyInv, Running
    <3> QED
      BY <3>1, InfoType, RegistryAssumption DEF Settled
  <2>2. CASE q # p
    <3>1. reg'[q] = reg[q] /\ look'[q] = look[q]
      BY <2>2 DEF Lookup, GetServerPID, SetMissing, LookUp, Types, TypeOK
    <3> QED
      BY <3>1 DEF Asks, Locked, Idle
  <2>3. CASE q = p /\ GetServerPID(p)
    <3>1. reg' = reg
      BY <2>3 DEF GetServerPID
    <3>2. look[p] \in Lookups /\ Locked(p)
      BY <2>3 DEF GetServerPID, Locked, Types, TypeOK, Lookups
    <3>3. look'[p].key = look[p].key
      BY <2>3, <3>2 DEF GetServerPID, Types, TypeOK, Lookups
    <3> QED
      BY <2>3, <3>1, <3>2, <3>3 DEF Asks
  <2>4. CASE q = p /\ SetMissing(p)
    <3>1. look[p].key # k /\ look'[p] = Idle
      BY <2>1, <2>4 DEF Asks, SetMissing, Types, TypeOK
    <3>2. reg'[p][k] = reg[p][k]
      BY <2>4, <3>1 DEF SetMissing, Types, TypeOK
    <3>3. ~Locked(p)'
      BY <3>1 DEF Locked, Idle
    <3> QED
      BY <2>4, <3>2, <3>3 DEF Asks
  <2>5. ASSUME NEW j \in Keys, q = p, LookUp(p, j)
        PROVE  reg'[q][k] = reg[q][k] /\ (Asks(q, k)' => Asks(q, k))
    <3>1. reg' = reg /\ j # k
      BY <2>1, <2>5 DEF LookUp
    <3>2. look'[p].key = j
      BY <2>5 DEF LookUp, Types, TypeOK
    <3> QED
      BY <2>5, <3>1, <3>2 DEF Asks
  <2> QED
    BY <2>2, <2>3, <2>4, <2>5 DEF Lookup
<1>3. Migrating(k)' = Migrating(k) /\ \A q \in Procs : <<q, k>> \in tasks' <=> Runs(q, k)
  BY <1>1 DEF Migrating, Runs
<1> QED
  BY <1>1, <1>2, <1>3, FrameSame

\* A message is taken: not the one that the process with the task waits for.
LEMMA FrameTaken ==
    ASSUME Types, NEW k \in RESTKeys, KeyInv(k), NEW p \in Procs, inbox[p] # <<>>,
           inbox' = Received(p),
           UNCHANGED <<up, boot, look, odb, deleted>>,
           Migrating(k)' = Migrating(k),
           \A q \in Procs : <<q, k>> \in tasks' => Runs(q, k) /\ reg'[q][k] = reg[q][k],
           \A q \in Procs : Runs(q, k) => <<q, k>> \in tasks' \/ k \in deleted,
           Head(inbox[p]).key = k => <<p, k>> \notin tasks' \/ Head(inbox[p]).type = "delete"
    PROVE  KeyInv(k)'
<1>1. inbox \in Boxes
  BY DEF Types, TypeOK, Boxes
<1>2. \A q \in Procs :
         /\ \A x : In(x, inbox'[q]) => In(x, inbox[q])
         /\ \A x : In(x, inbox[q]) /\ (q # p \/ x # Head(inbox[p])) => In(x, inbox'[q])
         /\ \A x : Once(x, inbox[q]) => Once(x, inbox'[q])
  <2> SUFFICES ASSUME NEW q \in Procs
               PROVE  /\ \A x : In(x, Received(p)[q]) => In(x, inbox[q])
                      /\ \A x : In(x, inbox[q]) /\ (q # p \/ x # Head(inbox[p])) => In(x, Received(p)[q])
                      /\ \A x : Once(x, inbox[q]) => Once(x, Received(p)[q])
    BY Zenon
  <2> QED
    BY <1>1, Taken
<1>3. ASSUME NEW q \in Procs, <<q, k>> \in tasks'
      PROVE  In(ChangeMsg(k, odb[k]), inbox[q]) => In(ChangeMsg(k, odb[k]), inbox'[q])
  <2>1. ChangeMsg(k, odb[k]).key = k /\ ChangeMsg(k, odb[k]).type # "delete"
    BY DEF ChangeMsg
  <2>2. q # p \/ Head(inbox[p]) # ChangeMsg(k, odb[k])
    BY <1>3, <2>1
  <2> QED
    BY <1>2, <2>2
<1>4. \A q \in Procs : Asks(q, k)' => Asks(q, k)
  BY DEF Asks, Locked, Idle
<1>5. Frame(k)
  BY <1>2, <1>3, <1>4 DEF Frame
<1> QED
  BY <1>5, KeyFrame

\* A process takes a message about another sub_key, and tells of what it did.
LEMMA FrameTakenTold ==
    ASSUME Types, NEW k \in RESTKeys, KeyInv(k), NEW p \in Procs, inbox[p] # <<>>,
           Head(inbox[p]).key # k,
           NEW m \in Messages, m.key # k, NEW to, inbox' = Broadcast(Received(p), m, to),
           UNCHANGED <<up, boot, look, odb, deleted>>,
           Migrating(k)' = Migrating(k),
           \A q \in Procs : <<q, k>> \in tasks' <=> Runs(q, k),
           \A q \in Procs : reg'[q][k] = reg[q][k]
    PROVE  KeyInv(k)'
<1>1. inbox \in Boxes
  BY DEF Types, TypeOK, Boxes
<1>2. \A q \in Procs : \A x \in Messages : x.key = k =>
         (In(x, inbox'[q]) <=> In(x, inbox[q])) /\ (Once(x, inbox[q]) => Once(x, inbox'[q]))
  <2> SUFFICES ASSUME NEW q \in Procs, NEW x \in Messages, x.key = k
               PROVE  /\ In(x, Broadcast(Received(p), m, to)[q]) <=> In(x, inbox[q])
                      /\ Once(x, inbox[q]) => Once(x, Broadcast(Received(p), m, to)[q])
    BY Zenon
  <2>1. x # m /\ x # Head(inbox[p])
    OBVIOUS
  <2>2. /\ \A y : In(y, Broadcast(Received(p), m, to)[q]) => In(y, inbox[q]) \/ (y = m /\ q \in to \cap up)
        /\ \A y : In(y, inbox[q]) /\ (q # p \/ y # Head(inbox[p])) => In(y, Broadcast(Received(p), m, to)[q])
        /\ \A y : Once(y, inbox[q]) /\ y # m => Once(y, Broadcast(Received(p), m, to)[q])
    BY <1>1, TakenTold
  <2> QED
    BY <2>1, <2>2
<1>3. \A q \in Procs : Asks(q, k)' => Asks(q, k)
  BY DEF Asks, Locked, Idle
<1> QED
  BY <1>2, <1>3, FrameSame

\* The first worker of the delivery server creates the task.
LEMMA KeyCreateFirst ==
    ASSUME Types, NEW k \in RESTKeys, KeyInv(k), NEW p \in Procs, p \in up, inbox[p] # <<>>,
           ~Locked(p), Head(inbox[p]) = CreateMsg(k), p \in First,
           CreateDeliveryTask(p, k, Received(p)),
           UNCHANGED <<up, boot, look, migs, odb, deleted>>
    PROVE  KeyInv(k)'
<1>1. inbox \in Boxes
  BY DEF Types, TypeOK, Boxes
<1>2. /\ CreateMsg(k) \in Messages /\ CreateMsg(k).key = k
      /\ DeleteMsg(k) \in Messages /\ StoppingMsg(k) \in Messages
      /\ \A s \in Servers : ChangeMsg(k, s) \in Messages
      /\ \A info \in Infos : SetInfo(k, info) \in Messages
  BY AboutKey
<1>3. In(CreateMsg(k), inbox[p])
  BY <1>1, Taken
<1>4. /\ ServerOf[p] = odb[k] /\ k \notin deleted
      /\ Migrating(k) = {}
      /\ \A q \in Procs : ~In(ChangeMsg(k, odb[k]), inbox[q])
      /\ Once(CreateMsg(k), inbox[p])
  BY <1>3 DEF KeyInv, Creating
<1>5. \A q \in Procs : ~Runs(q, k)
  BY <1>3 DEF KeyInv, Running, NotCreating
<1>6. \A q \in Procs, s \in Servers : ~In(ChangeMsg(k, s), inbox[q])
  BY <1>4 DEF KeyInv, Changing
<1>7. \A q \in Procs, info \in Infos : ~In(SetInfo(k, info), inbox[q])
  BY <1>5 DEF KeyInv, Announced
<1>8. \A q \in Procs : ~In(DeleteMsg(k), inbox[q]) /\ ~In(StoppingMsg(k), inbox[q])
  BY <1>4 DEF KeyInv, Deleting, NoneLate
<1>9. SetMsg(k, p) = SetInfo(k, Info(p)) /\ Info(p) \in Infos
  BY InfoType DEF SetMsg, SetInfo
<1>10. \A q \in Procs :
         /\ \A x : In(x, inbox'[q]) => In(x, inbox[q]) \/ (x = SetInfo(k, Info(p)) /\ q \in Others(p) \cap up)
         /\ \A x : Once(x, inbox[q]) /\ x # SetInfo(k, Info(p)) => Once(x, inbox'[q])
         /\ q = p => ~In(CreateMsg(k), inbox'[q])
  <2> SUFFICES ASSUME NEW q \in Procs
               PROVE  /\ \A x : In(x, inbox'[q]) => In(x, inbox[q]) \/ (x = SetInfo(k, Info(p)) /\ q \in Others(p) \cap up)
                      /\ \A x : Once(x, inbox[q]) /\ x # SetInfo(k, Info(p)) => Once(x, inbox'[q])
                      /\ q = p => ~In(CreateMsg(k), inbox'[q])
    OBVIOUS
  <2> DEFINE msg == SetInfo(k, Info(p))
             box == Broadcast(Received(p), msg, Others(p))[q]
  <2>1. msg \in Messages
    BY <1>2, <1>9
  <2>2. p \notin Others(p)
    BY DEF Others
  <2> HIDE DEF msg
  <2>3. /\ \A x : In(x, box) => In(x, inbox[q]) \/ (x = msg /\ q \in Others(p) \cap up)
        /\ \A x : Once(x, inbox[q]) /\ x # msg => Once(x, box)
        /\ q = p /\ p \notin Others(p) /\ Once(Head(inbox[p]), inbox[p]) => ~In(Head(inbox[p]), box)
    BY <1>1, <2>1, TakenTold, SMTT(30)
  <2>4. inbox'[q] = box
    BY <1>9 DEF CreateDeliveryTask, msg
  <2> HIDE DEF box
  <2>5. q = p => ~In(CreateMsg(k), box)
    BY <1>4, <2>2, <2>3
  <2> QED
    BY <2>3, <2>4, <2>5 DEF msg
<1>11. \A q \in Procs : /\ \A s \in Servers : ~In(ChangeMsg(k, s), inbox'[q])
                        /\ ~In(DeleteMsg(k), inbox'[q]) /\ ~In(StoppingMsg(k), inbox'[q])
                        /\ In(CreateMsg(k), inbox'[q]) =>
                              q # p /\ ServerOf[q] = odb[k] /\ Once(CreateMsg(k), inbox'[q])
  <2>1. \A q \in Procs : In(CreateMsg(k), inbox'[q]) => In(CreateMsg(k), inbox[q])
    BY <1>10, AboutKey
  <2>2. \A q \in Procs : In(CreateMsg(k), inbox[q]) => ServerOf[q] = odb[k] /\ Once(CreateMsg(k), inbox[q])
    BY DEF KeyInv, Creating
  <2>3. CreateMsg(k) # SetInfo(k, Info(p)) /\ DeleteMsg(k) # SetInfo(k, Info(p))
        /\ StoppingMsg(k) # SetInfo(k, Info(p)) /\ \A s : ChangeMsg(k, s) # SetInfo(k, Info(p))
    BY AboutKey
  <2> QED
    BY <1>6, <1>8, <1>10, <2>1, <2>2, <2>3
<1>12. \A q \in Procs, info \in Infos : In(SetInfo(k, info), inbox'[q]) =>
          info = Info(p) /\ q \in Others(p)
  <2> SUFFICES ASSUME NEW q \in Procs, NEW info \in Infos, In(SetInfo(k, info), inbox'[q])
               PROVE  info = Info(p) /\ q \in Others(p)
    OBVIOUS
  <2>1. SetInfo(k, info) = SetInfo(k, Info(p)) /\ q \in Others(p)
    BY <1>7, <1>10
  <2>2. SetInfo(k, info).info = info /\ SetInfo(k, Info(p)).info = Info(p)
    BY DEF SetInfo
  <2> QED
    BY <2>1, <2>2
<1>13. /\ \A q \in Procs : Runs(q, k)' <=> q = p
       /\ Migrating(k)' = {} /\ k \notin deleted' /\ odb' = odb
       /\ \A q \in Procs : Info(q)' = Info(q)
       /\ reg'[p][k] = Info(p)
  <2>1. \A q \in Procs : Runs(q, k)' <=> q = p
    BY <1>5 DEF Runs, CreateDeliveryTask
  <2>2. reg'[p][k] = Info(p)
    BY DEF CreateDeliveryTask, Types, TypeOK, Keys
  <2> QED
    BY <1>4, <2>1, <2>2 DEF Migrating, Info, Pid
<1>14. odb[k] # Nobody /\ odb[k] \in Servers
  BY <1>4, RegistryAssumption
<1>a. Unborn(k)' /\ Changing(k)' /\ Deleting(k)' /\ NoneLate(k)' /\ Moving(k)'
  BY <1>11, <1>13, <1>14 DEF Unborn, Changing, Deleting, NoneLate, Moving, ChangeMsg, DeleteMsg, StoppingMsg
<1>b. Creating(k)'
  BY <1>11, <1>13, <1>14 DEF Creating, ChangeMsg, CreateMsg
<1>c. Announced(k)'
  <2> SUFFICES ASSUME NEW q \in Procs, NEW info \in Infos, In(SetInfo(k, info), inbox'[q])
               PROVE  /\ Migrating(k)' = {} /\ k \notin deleted'
                      /\ \E r \in Procs : /\ Runs(r, k)' /\ info = Info(r)'
                                          /\ ServerOf[r] = odb'[k] /\ ServerOf[r] # ServerOf[q]
    BY DEF Announced, SetInfo
  <2>1. info = Info(p) /\ ServerOf[q] # ServerOf[p]
    BY <1>12 DEF Others
  <2> QED
    BY <1>4, <1>13, <2>1
<1>d. Running(k)'
  <2>1. \A f \in First : NotCreating(f, k)'
    <3> SUFFICES ASSUME NEW f \in First
                 PROVE  /\ ~In(CreateMsg(k), inbox'[f])
                        /\ f \in up' \/ odb'[k] # ServerOf[f] \/ k \in deleted'
      BY DEF NotCreating, CreateMsg
    <3>1. ServerOf[f] = odb[k] => f = p
      BY <1>4, RegistryAssumption
    <3> QED
      BY <1>11, <1>13, <3>1, RegistryAssumption
  <2>2. ~Asks(p, k)'
    BY DEF Asks, Locked, Idle
  <2>3. Settled(p, k)'
    BY <1>4, <1>13, <2>2 DEF Settled
  <2> QED
    BY <1>13, <2>1, <2>3 DEF Running
<1> QED
  BY <1>a, <1>b, <1>c, <1>d DEF KeyInv

\* The process with the task hears of the change, and starts to migrate it.
LEMMA KeyChangeMine ==
    ASSUME Types, NEW k \in RESTKeys, KeyInv(k), NEW p \in Procs, inbox[p] # <<>>,
           NEW s \in Servers, Head(inbox[p]) = ChangeMsg(k, s), Runs(p, k),
           inbox' = Received(p),
           migs' = migs \cup {[at |-> p, key |-> k, new |-> s, todo |-> up, failed |-> {},
                               stage |-> "notify"]},
           UNCHANGED <<up, boot, reg, look, tasks, odb, deleted>>
    PROVE  KeyInv(k)'
<1> DEFINE n == [at |-> p, key |-> k, new |-> s, todo |-> up, failed |-> {}, stage |-> "notify"]
<1>1. inbox \in Boxes
  BY DEF Types, TypeOK, Boxes
<1>2. In(ChangeMsg(k, s), inbox[p])
  BY <1>1, Taken
<1>3. /\ s = odb[k] /\ ServerOf[p] # s /\ up = Procs /\ k \notin deleted
      /\ Once(ChangeMsg(k, s), inbox[p])
  BY <1>2 DEF KeyInv, Changing
<1>4. Migrating(k) = {} /\ \A q \in Procs : Runs(q, k) => q = p
  <2>1. \/ Settled(p, k)
        \/ \E m \in Migrating(k) : m.at = p
    BY DEF KeyInv, Running
  <2>2. \A m \in Migrating(k) : ~In(ChangeMsg(k, odb[k]), inbox[m.at])
    BY DEF KeyInv, Moving
  <2> QED
    BY <1>2, <1>3, <2>1, <2>2 DEF Settled, KeyInv, Running
<1>5. \A q \in Procs : ~In(CreateMsg(k), inbox[q])
  BY <1>2, <1>3 DEF KeyInv, Creating
<1>6. \A q \in Procs, info \in Infos : ~In(SetInfo(k, info), inbox[q])
  BY <1>3, <1>4 DEF KeyInv, Announced
<1>7. \A q \in Procs : ~In(DeleteMsg(k), inbox[q]) /\ ~In(StoppingMsg(k), inbox[q])
  BY <1>3 DEF KeyInv, Deleting, NoneLate
<1>8. /\ \A q \in Procs : \A x : In(x, inbox'[q]) => In(x, inbox[q])
      /\ \A q \in Procs : \A x : Once(x, inbox[q]) => Once(x, inbox'[q])
      /\ ~In(ChangeMsg(k, s), inbox'[p])
  <2>1. ASSUME NEW q \in Procs
        PROVE  /\ \A x : In(x, Received(p)[q]) => In(x, inbox[q])
               /\ \A x : Once(x, inbox[q]) => Once(x, Received(p)[q])
    BY <1>1, Taken
  <2>2. Once(Head(inbox[p]), inbox[p]) => ~In(Head(inbox[p]), Received(p)[p])
    BY <1>1, Taken
  <2> QED
    BY <1>3, <2>1, <2>2
<1>9. /\ Migrating(k)' = {n} /\ k \notin deleted' /\ up' = Procs /\ odb'[k] = s
      /\ \A q \in Procs : Runs(q, k)' <=> Runs(q, k)
  <2>1. Migrating(k)' = {n}
    BY <1>4 DEF Migrating
  <2> QED
    BY <1>3, <2>1 DEF Runs
<1>10. \A q \in Procs : /\ ~In(CreateMsg(k), inbox'[q])
                        /\ ~In(DeleteMsg(k), inbox'[q])
                        /\ ~In(StoppingMsg(k), inbox'[q])
                        /\ \A info \in Infos : ~In(SetInfo(k, info), inbox'[q])
  BY <1>5, <1>6, <1>7, <1>8
<1>a. Unborn(k)' /\ Creating(k)' /\ Announced(k)' /\ Deleting(k)' /\ NoneLate(k)'
  <2>1. s # Nobody
    BY RegistryAssumption
  <2> QED
    BY <1>9, <1>10, <2>1 DEF Unborn, Creating, Announced, Deleting, NoneLate,
                             CreateMsg, SetInfo, DeleteMsg, StoppingMsg
<1>b. Changing(k)'
  <2> SUFFICES ASSUME NEW q \in Procs, NEW x \in Servers, In(ChangeMsg(k, x), inbox'[q])
               PROVE  x = s /\ ServerOf[q] # x /\ Once(ChangeMsg(k, x), inbox'[q])
    BY <1>9 DEF Changing, ChangeMsg
  <2>1. In(ChangeMsg(k, x), inbox[q])
    BY <1>8
  <2>2. x = odb[k] /\ ServerOf[q] # x /\ Once(ChangeMsg(k, x), inbox[q])
    BY <2>1 DEF KeyInv, Changing
  <2> QED
    BY <1>3, <1>8, <2>2
<1>c. Moving(k)'
  BY <1>3, <1>8, <1>9 DEF Moving, ChangeMsg
<1>d. Running(k)'
  <2>1. \A f \in First : NotCreating(f, k)'
    BY <1>9, <1>10, RegistryAssumption DEF NotCreating, CreateMsg
  <2> QED
    BY <1>4, <1>9, <2>1 DEF Running
<1> QED
  BY <1>a, <1>b, <1>c, <1>d DEF KeyInv

LEMMA KeyHandle ==
    ASSUME Types, NEW k \in RESTKeys, KeyInv(k), NEW p \in Procs, Handle(p)
    PROVE  KeyInv(k)'
<1> DEFINE h == Head(inbox[p])
<1>1. /\ p \in up /\ ~Locked(p) /\ inbox[p] # <<>>
      /\ UNCHANGED <<up, boot, look, odb, deleted>>
  BY DEF Handle, CreateSubscription, Unsubscribe, SubKeyServerSet, WSXClientSubKeyServerRemove,
         DeliveryServerChange, LateStopping, Receives, procs, db
<1>2. inbox \in Boxes /\ reg \in [Procs -> [Keys -> Infos \cup {Nobody}]] /\ k \in Keys
  BY DEF Types, TypeOK, Boxes, Keys
<1>3. h \in Messages /\ In(h, inbox[p])
  BY <1>1, <1>2, ReceivedBoxes, Taken
<1>4. /\ h.key \in Keys
      /\ h.type = "create" => h = CreateMsg(h.key) /\ h.key \in RESTKeys
      /\ h.type = "stopping" => h = StoppingMsg(h.key) /\ h.key \in RESTKeys
      /\ h.type = "remove" => h = RemoveMsg(h.key) /\ h.key \in WSXKeys
      /\ h.type = "delete" => h = DeleteMsg(h.key)
      /\ h.type = "set" => h.info \in Infos /\ h = SetInfo(h.key, h.info)
      /\ h.type = "change" => h = ChangeMsg(h.key, h.new) /\ h.new \in Servers
  BY <1>3, MessageTypes DEF SetInfo
<1>5. /\ Head(inbox[p]) = h
      /\ Unborn(k) /\ Creating(k) /\ Changing(k) /\ Announced(k) /\ Deleting(k)
      /\ NoneLate(k) /\ Moving(k) /\ Running(k)
  BY DEF KeyInv
<1> HIDE DEF h
<1>6. ASSUME inbox' = Received(p), migs' = migs, tasks' = tasks,
             h.key = k => ~Runs(p, k),
             \A q \in Procs, j \in Keys : (q # p \/ j # h.key) => reg'[q][j] = reg[q][j]
      PROVE  KeyInv(k)'
  <2>1. Migrating(k)' = Migrating(k)
    BY <1>6 DEF Migrating
  <2>2. \A q \in Procs : <<q, k>> \in tasks' => Runs(q, k) /\ reg'[q][k] = reg[q][k]
    BY <1>2, <1>6 DEF Runs
  <2>3. \A q \in Procs : Runs(q, k) => <<q, k>> \in tasks' \/ k \in deleted
    BY <1>6 DEF Runs
  <2>4. Head(inbox[p]).key = k => <<p, k>> \notin tasks'
    BY <1>5, <1>6 DEF Runs
  <2> QED
    BY <1>1, <1>6, <2>1, <2>2, <2>3, <2>4, FrameTaken
<1>7. CASE CreateSubscription(p)
  <2>1. h.type = "create" /\ migs' = migs
    BY <1>5, <1>7 DEF CreateSubscription, Receives
  <2>2. CASE p \in First /\ CreateDeliveryTask(p, h.key, Received(p)) /\ h.key = k
    BY <1>1, <1>4, <1>5, <2>1, <2>2, KeyCreateFirst
  <2>3. CASE p \in First /\ CreateDeliveryTask(p, h.key, Received(p)) /\ h.key # k
    <3>1. SetMsg(h.key, p) \in Messages /\ SetMsg(h.key, p).key # k
      BY <1>4, <2>3, InfoType DEF SetMsg, Messages
    <3>2. inbox' = Broadcast(Received(p), SetMsg(h.key, p), Others(p))
      BY <2>3 DEF CreateDeliveryTask
    <3>3. \A q \in Procs : reg'[q][k] = reg[q][k]
      BY <1>2, <2>3 DEF CreateDeliveryTask
    <3>4. \A q \in Procs : <<q, k>> \in tasks' <=> Runs(q, k)
      BY <2>3 DEF CreateDeliveryTask, Runs
    <3>5. Migrating(k)' = Migrating(k)
      BY <2>1 DEF Migrating
    <3>6. Head(inbox[p]).key # k
      BY <1>5, <2>3
    <3> QED
      BY <1>1, <3>1, <3>2, <3>3, <3>4, <3>5, <3>6, FrameTakenTold
  <2>4. CASE ~(p \in First /\ CreateDeliveryTask(p, h.key, Received(p)))
    <3>1. inbox' = Received(p) /\ tasks' = tasks
      BY <1>5, <1>7, <2>4 DEF CreateSubscription
    <3>2. \A q \in Procs, j \in Keys : (q # p \/ j # h.key) => reg'[q][j] = reg[q][j]
      BY <1>2, <1>4, <1>5, <1>7, <2>4 DEF CreateSubscription
    <3>3. h.key = k => ~Runs(p, k)
      BY <1>3, <1>4, <1>5, <2>1 DEF Creating
    <3> QED
      BY <1>6, <2>1, <3>1, <3>2, <3>3
  <2> QED
    BY <2>2, <2>3, <2>4
<1>8. CASE Unsubscribe(p)
  <2>1. /\ h.type = "delete" /\ migs' = migs /\ reg' = reg /\ inbox' = Received(p)
        /\ tasks' \in {tasks, tasks \ {<<p, h.key>>}}
    BY <1>5, <1>8 DEF Unsubscribe, Receives
  <2>2. Migrating(k)' = Migrating(k)
    BY <2>1 DEF Migrating
  <2>3. \A q \in Procs : <<q, k>> \in tasks' => Runs(q, k) /\ reg'[q][k] = reg[q][k]
    BY <2>1 DEF Runs
  <2>4. h.key = k => k \in deleted
    BY <1>3, <1>4, <1>5, <2>1 DEF Deleting
  <2>5. \A q \in Procs : Runs(q, k) => <<q, k>> \in tasks' \/ k \in deleted
    BY <2>1, <2>4 DEF Runs
  <2>6. Head(inbox[p]).key = k => <<p, k>> \notin tasks' \/ Head(inbox[p]).type = "delete"
    BY <1>5, <2>1
  <2> QED
    BY <1>1, <2>1, <2>2, <2>3, <2>5, <2>6, FrameTaken
<1>9. CASE SubKeyServerSet(p)
  <2>1. /\ h.type = "set" /\ migs' = migs /\ tasks' = tasks /\ inbox' = Received(p)
        /\ reg' = [reg EXCEPT ![p][h.key] = h.info]
    BY <1>5, <1>9 DEF SubKeyServerSet, Receives, moves
  <2>2. \A q \in Procs, j \in Keys : (q # p \/ j # h.key) => reg'[q][j] = reg[q][j]
    BY <1>2, <1>4, <2>1
  <2>3. h.key = k => ~Runs(p, k)
    <3> SUFFICES ASSUME h.key = k, Runs(p, k) PROVE FALSE
      OBVIOUS
    <3>1. PICK q \in Procs : Runs(q, k) /\ ServerOf[q] # ServerOf[p]
      BY <1>3, <1>4, <1>5, <2>1 DEF Announced
    <3> QED
      BY <1>5, <3>1 DEF Running
  <2> QED
    BY <1>6, <2>1, <2>2, <2>3
<1>10. CASE WSXClientSubKeyServerRemove(p)
  <2>1. /\ h.type = "remove" /\ migs' = migs /\ tasks' = tasks /\ inbox' = Received(p)
        /\ reg' = [reg EXCEPT ![p][h.key] = Nobody]
    BY <1>5, <1>10 DEF WSXClientSubKeyServerRemove, Receives, moves
  <2>2. \A q \in Procs, j \in Keys : (q # p \/ j # h.key) => reg'[q][j] = reg[q][j]
    BY <1>2, <1>4, <2>1
  <2>3. h.key # k
    BY <1>4, <2>1, RegistryAssumption
  <2> QED
    BY <1>6, <2>1, <2>2, <2>3
<1>11. CASE DeliveryServerChange(p)
  <2> DEFINE mine == /\ reg[p][h.key] # Nobody
                     /\ reg[p][h.key].pid = Pid(p)
                     /\ <<p, h.key>> \in tasks
             n == [at |-> p, key |-> h.key, new |-> h.new, todo |-> up, failed |-> {},
                   stage |-> "notify"]
  <2>1. /\ h.type = "change" /\ UNCHANGED <<reg, tasks>> /\ inbox' = Received(p)
        /\ migs' = IF mine THEN migs \cup {n} ELSE migs
    BY <1>5, <1>11 DEF DeliveryServerChange, Receives
  <2>2. CASE h.key # k
    <3>1. Migrating(k)' = Migrating(k)
      BY <2>1, <2>2 DEF Migrating
    <3>2. \A q \in Procs : <<q, k>> \in tasks' <=> Runs(q, k)
      BY <2>1 DEF Runs
    <3>3. Head(inbox[p]).key # k
      BY <1>5, <2>2
    <3> QED
      BY <1>1, <2>1, <3>1, <3>2, <3>3, FrameTaken
  <2>3. CASE h.key = k /\ Runs(p, k)
    <3>1. mine
      <4>1. reg[p][k] = Info(p)
        <5>1. In(ChangeMsg(k, odb[k]), inbox[p])
          BY <1>3, <1>4, <1>5, <2>1, <2>3 DEF Changing
        <5> QED
          BY <1>5, <2>3, <5>1 DEF Running, Settled, Moving
      <4> QED
        BY <2>3, <4>1, InfoType, RegistryAssumption DEF Runs, Info
    <3>2. migs' = migs \cup {n}
      BY <2>1, <3>1
    <3> HIDE DEF mine
    <3>3. Head(inbox[p]) = ChangeMsg(k, h.new) /\ h.new \in Servers
      BY <1>4, <1>5, <2>1, <2>3
    <3> QED
      BY <1>1, <2>1, <2>3, <3>2, <3>3, KeyChangeMine
  <2>4. CASE h.key = k /\ ~Runs(p, k)
    <3>1. migs' = migs
      BY <2>1, <2>4 DEF Runs
    <3> QED
      BY <1>6, <2>1, <2>4, <3>1
  <2> QED
    BY <2>2, <2>3, <2>4
<1>12. CASE LateStopping(p)
  <2>1. /\ h.type = "stopping" /\ migs' = migs /\ tasks' = tasks /\ inbox' = Received(p)
        /\ reg' = [reg EXCEPT ![p][h.key] = Nobody]
    BY <1>5, <1>12 DEF LateStopping, Receives, moves
  <2>2. \A q \in Procs, j \in Keys : (q # p \/ j # h.key) => reg'[q][j] = reg[q][j]
    BY <1>2, <1>4, <2>1
  <2>3. h.key # k
    BY <1>3, <1>4, <1>5, <2>1 DEF NoneLate
  <2> QED
    BY <1>6, <2>1, <2>2, <2>3
<1> QED
  BY <1>7, <1>8, <1>9, <1>10, <1>11, <1>12 DEF Handle

\* A migration of another sub_key.
LEMMA KeyMigrationOther ==
    ASSUME Types, NEW k \in RESTKeys, KeyInv(k), NEW m \in migs, Migration(m), m.key # k
    PROVE  KeyInv(k)'
<1>1. inbox \in Boxes /\ reg \in [Procs -> [Keys -> Infos \cup {Nobody}]] /\ k \in Keys
      /\ m \in Migs
  BY DEF Types, TypeOK, Boxes, Keys, Migs
<1>2. UNCHANGED <<up, boot, odb, deleted, look>>
  BY DEF Migration, NotifyStopping, StartTask, GiveUp, StopTask, StartFailed, procs, db
<1>3. Migrating(k)' = Migrating(k)
  <2>1. ASSUME NEW n \in Migs, n.key = m.key, Becomes(m, n) PROVE Migrating(k)' = Migrating(k)
    BY <2>1 DEF Becomes, Migrating
  <2>2. CASE migs' = migs \ {m}
    BY <2>2 DEF Migrating
  <2>3. ASSUME NEW q \in Procs, NotifyStopping(m, q) PROVE Migrating(k)' = Migrating(k)
    <3>1. PICK b \in BOOLEAN : Becomes(m, [m EXCEPT !.todo = @ \ {q}, !.failed = IF b THEN @ ELSE @ \cup {q}])
      BY <2>3 DEF NotifyStopping
    <3>2. [m EXCEPT !.todo = @ \ {q}, !.failed = IF b THEN @ ELSE @ \cup {q}] \in Migs
      BY <1>1 DEF Migs
    <3>3. [m EXCEPT !.todo = @ \ {q}, !.failed = IF b THEN @ ELSE @ \cup {q}].key = m.key
      BY <1>1 DEF Migs
    <3> QED
      BY <2>1, <3>1, <3>2, <3>3
  <2>4. CASE StopTask(m)
    <3>1. [m EXCEPT !.stage = "start"] \in Migs /\ [m EXCEPT !.stage = "start"].key = m.key
      BY <1>1 DEF Migs
    <3> QED
      BY <2>1, <2>4, <3>1 DEF StopTask
  <2> QED
    BY <2>2, <2>3, <2>4 DEF Migration, StartTask, GiveUp, StartFailed
<1>4. \A q \in Procs : Asks(q, k)' => Asks(q, k)
  BY <1>2 DEF Asks, Locked, Idle
<1>5. CASE \E q \in Procs : StartTask(m, q)
  <2>1. PICK q \in Procs : StartTask(m, q)
    BY <1>5
  <2>2. SetMsg(m.key, q) \in Messages /\ SetMsg(m.key, q).key # k
    BY <1>1, InfoType DEF SetMsg, Messages, Migs, Keys
  <2>3. inbox' = Broadcast(inbox, SetMsg(m.key, q), Others(q))
    BY <2>1 DEF StartTask, CreateDeliveryTask
  <2>4. \A r \in Procs : reg'[r][k] = reg[r][k] /\ (<<r, k>> \in tasks' <=> Runs(r, k))
    BY <1>1, <2>1 DEF StartTask, CreateDeliveryTask, Runs
  <2>5. \A r \in Procs : \A x \in Messages : x.key = k =>
           (In(x, inbox'[r]) <=> In(x, inbox[r])) /\ (Once(x, inbox[r]) => Once(x, inbox'[r]))
    <3> SUFFICES ASSUME NEW r \in Procs, NEW x \in Messages, x.key = k
                 PROVE  (In(x, inbox'[r]) <=> In(x, inbox[r])) /\ (Once(x, inbox[r]) => Once(x, inbox'[r]))
      OBVIOUS
    <3> DEFINE msg == SetMsg(m.key, q)
               box == Broadcast(inbox, msg, Others(q))[r]
    <3>1. msg \in Messages /\ x # msg
      BY <2>2
    <3> HIDE DEF msg
    <3>2. /\ \A y : In(y, box) <=> In(y, inbox[r]) \/ (y = msg /\ r \in Others(q) \cap up)
          /\ \A y : Once(y, inbox[r]) /\ (y # msg \/ ~In(y, inbox[r])) => Once(y, box)
      BY <1>1, <3>1, Told
    <3>3. inbox'[r] = box
      BY <2>3 DEF msg
    <3> HIDE DEF box
    <3> QED
      BY <3>1, <3>2, <3>3
  <2> QED
    BY <1>2, <1>3, <1>4, <2>4, <2>5, FrameSame
<1>6. CASE \E q \in Procs : NotifyStopping(m, q)
  <2>1. PICK q \in Procs : NotifyStopping(m, q)
    BY <1>6
  <2>2. \A r \in Procs : reg'[r][k] = reg[r][k] /\ (<<r, k>> \in tasks' <=> Runs(r, k))
    BY <1>1, <2>1 DEF NotifyStopping, Runs
  <2>3. \A r \in Procs : \A x \in Messages : x.key = k =>
           (In(x, inbox'[r]) <=> In(x, inbox[r])) /\ (Once(x, inbox[r]) => Once(x, inbox'[r]))
    <3> SUFFICES ASSUME NEW r \in Procs, NEW x \in Messages, x.key = k
                 PROVE  (In(x, inbox'[r]) <=> In(x, inbox[r])) /\ (Once(x, inbox[r]) => Once(x, inbox'[r]))
      OBVIOUS
    <3>1. StoppingMsg(m.key) \in Messages /\ x # StoppingMsg(m.key)
      BY <1>1 DEF StoppingMsg, Messages, Migs
    <3>2. inbox[r] \in Seq(Messages)
      BY <1>1 DEF Boxes
    <3>3. /\ \A y : In(y, <<StoppingMsg(m.key)>> \o inbox[r]) <=> In(y, inbox[r]) \/ y = StoppingMsg(m.key)
          /\ \A y : Once(y, inbox[r]) /\ y # StoppingMsg(m.key) => Once(y, <<StoppingMsg(m.key)>> \o inbox[r])
      BY <3>1, <3>2, ConsElements
    <3>4. inbox'[r] = inbox[r] \/ inbox'[r] = <<StoppingMsg(m.key)>> \o inbox[r]
      BY <1>1, <2>1 DEF NotifyStopping, Boxes
    <3> QED
      BY <3>1, <3>3, <3>4
  <2> QED
    BY <1>2, <1>3, <1>4, <2>2, <2>3, FrameSame
<1>7. CASE GiveUp(m) \/ StopTask(m) \/ StartFailed(m)
  <2>1. \A r \in Procs : reg'[r][k] = reg[r][k] /\ (<<r, k>> \in tasks' <=> Runs(r, k))
    BY <1>7 DEF GiveUp, StopTask, StartFailed, Runs
  <2>2. inbox' = inbox
    BY <1>7 DEF GiveUp, StopTask, StartFailed
  <2> QED
    BY <1>2, <1>3, <1>4, <2>1, <2>2, FrameSame
<1> QED
  BY <1>5, <1>6, <1>7 DEF Migration

\* A migration of the sub_key itself: there is one, and nothing else goes on.
LEMMA MovingKey ==
    ASSUME Types, NEW k \in RESTKeys, KeyInv(k), NEW m \in migs, m.key = k
    PROVE  /\ Migrating(k) = {m} /\ m \in Migs
           /\ m.new = odb[k] /\ ServerOf[m.at] # odb[k] /\ odb[k] \in Servers /\ odb[k] # Nobody
           /\ up = Procs /\ k \notin deleted /\ m.failed = {}
           /\ ~In(ChangeMsg(k, odb[k]), inbox[m.at])
           /\ \A p \in Procs : Runs(p, k) => p = m.at /\ m.stage = "notify"
           /\ m.stage = "notify" => Runs(m.at, k)
           /\ \A p \in Procs : /\ ~In(CreateMsg(k), inbox[p])
                               /\ ~In(DeleteMsg(k), inbox[p])
                               /\ ~In(StoppingMsg(k), inbox[p])
                               /\ \A info \in Infos : ~In(SetInfo(k, info), inbox[p])
<1>1. m \in Migrating(k) /\ m \in Migs
  BY DEF Migrating, Types, TypeOK, Migs
<1>2. /\ m.new = odb[k] /\ ServerOf[m.at] # odb[k]
      /\ up = Procs /\ k \notin deleted /\ m.failed = {}
      /\ ~In(ChangeMsg(k, odb[k]), inbox[m.at])
      /\ \A n \in Migrating(k) : n = m
      /\ m.stage = "notify" => Runs(m.at, k)
      /\ m.stage = "start" => \A p \in Procs : ~Runs(p, k)
  BY <1>1 DEF KeyInv, Moving
<1>3. odb[k] \in Servers /\ odb[k] # Nobody
  BY <1>1, <1>2, RegistryAssumption DEF Migs
<1>4. \A p \in Procs : Runs(p, k) => p = m.at /\ m.stage = "notify"
  <2> SUFFICES ASSUME NEW p \in Procs, Runs(p, k) PROVE p = m.at /\ m.stage = "notify"
    OBVIOUS
  <2>1. \E n \in Migrating(k) : n.at = p
    BY <1>1 DEF KeyInv, Running, Settled
  <2> QED
    BY <1>1, <1>2, <2>1 DEF Migs
<1>5. \A p \in Procs : /\ ~In(CreateMsg(k), inbox[p])
                       /\ ~In(DeleteMsg(k), inbox[p])
                       /\ ~In(StoppingMsg(k), inbox[p])
                       /\ \A info \in Infos : ~In(SetInfo(k, info), inbox[p])
  BY <1>1, <1>2 DEF KeyInv, Creating, Deleting, NoneLate, Announced
<1> QED
  BY <1>1, <1>2, <1>3, <1>4, <1>5

\* The task is started on the new server.
LEMMA KeyStartTask ==
    ASSUME Types, NEW k \in RESTKeys, KeyInv(k), NEW m \in migs, m.key = k,
           NEW q \in Procs, StartTask(m, q)
    PROVE  KeyInv(k)'
<1>1. /\ Migrating(k) = {m} /\ m \in Migs
      /\ m.new = odb[k] /\ odb[k] \in Servers /\ odb[k] # Nobody
      /\ up = Procs /\ k \notin deleted
      /\ \A p \in Procs : Runs(p, k) => m.stage = "notify"
      /\ \A p \in Procs : /\ ~In(CreateMsg(k), inbox[p])
                          /\ ~In(DeleteMsg(k), inbox[p])
                          /\ ~In(StoppingMsg(k), inbox[p])
                          /\ \A info \in Infos : ~In(SetInfo(k, info), inbox[p])
  BY MovingKey
<1>2. /\ m.stage = "start" /\ ServerOf[q] = m.new /\ ~Locked(q) /\ migs' = migs \ {m}
      /\ UNCHANGED <<up, boot, odb, deleted, look>>
      /\ CreateDeliveryTask(q, k, inbox)
  BY DEF StartTask, Workers, procs, db
<1>3. inbox \in Boxes
  BY DEF Types, TypeOK, Boxes
<1>4. SetMsg(k, q) = SetInfo(k, Info(q)) /\ Info(q) \in Infos /\ SetInfo(k, Info(q)) \in Messages
  BY InfoType, AboutKey DEF SetMsg, SetInfo
<1>5. \A p \in Procs :
         /\ \A x : In(x, inbox'[p]) => In(x, inbox[p]) \/ (x = SetInfo(k, Info(q)) /\ p \in Others(q) \cap up)
         /\ \A x : Once(x, inbox[p]) /\ x # SetInfo(k, Info(q)) => Once(x, inbox'[p])
  <2> SUFFICES ASSUME NEW p \in Procs
               PROVE  /\ \A x : In(x, inbox'[p]) => In(x, inbox[p]) \/ (x = SetInfo(k, Info(q)) /\ p \in Others(q) \cap up)
                      /\ \A x : Once(x, inbox[p]) /\ x # SetInfo(k, Info(q)) => Once(x, inbox'[p])
    OBVIOUS
  <2> DEFINE msg == SetInfo(k, Info(q))
             box == Broadcast(inbox, msg, Others(q))[p]
  <2>1. msg \in Messages
    BY <1>4
  <2>2. inbox'[p] = box
    BY <1>2, <1>4 DEF CreateDeliveryTask
  <2> HIDE DEF msg
  <2>3. /\ \A y : In(y, box) <=> In(y, inbox[p]) \/ (y = msg /\ p \in Others(q) \cap up)
        /\ \A y : Once(y, inbox[p]) /\ (y # msg \/ ~In(y, inbox[p])) => Once(y, box)
    BY <1>3, <2>1, Told
  <2> HIDE DEF box
  <2> QED
    BY <2>2, <2>3 DEF msg
<1>6. \A p \in Procs : /\ ~In(CreateMsg(k), inbox'[p])
                       /\ ~In(DeleteMsg(k), inbox'[p])
                       /\ ~In(StoppingMsg(k), inbox'[p])
  BY <1>1, <1>5, AboutKey
<1>7. \A p \in Procs, info \in Infos : In(SetInfo(k, info), inbox'[p]) =>
          info = Info(q) /\ p \in Others(q)
  <2> SUFFICES ASSUME NEW p \in Procs, NEW info \in Infos, In(SetInfo(k, info), inbox'[p])
               PROVE  info = Info(q) /\ p \in Others(q)
    OBVIOUS
  <2>1. SetInfo(k, info) = SetInfo(k, Info(q)) /\ p \in Others(q)
    BY <1>1, <1>5
  <2>2. SetInfo(k, info).info = info /\ SetInfo(k, Info(q)).info = Info(q)
    BY DEF SetInfo
  <2> QED
    BY <2>1, <2>2
<1>8. \A p \in Procs, s \in Servers : In(ChangeMsg(k, s), inbox'[p]) =>
          s = odb[k] /\ ServerOf[p] # s /\ Once(ChangeMsg(k, s), inbox'[p])
  <2>1. \A p \in Procs, s \in Servers : In(ChangeMsg(k, s), inbox'[p]) => In(ChangeMsg(k, s), inbox[p])
    BY <1>5, AboutKey
  <2>2. \A p \in Procs, s \in Servers : In(ChangeMsg(k, s), inbox[p]) =>
          s = odb[k] /\ ServerOf[p] # s /\ Once(ChangeMsg(k, s), inbox[p])
    BY DEF KeyInv, Changing
  <2>3. \A p \in Procs, s \in Servers : Once(ChangeMsg(k, s), inbox[p]) => Once(ChangeMsg(k, s), inbox'[p])
    BY <1>5, AboutKey
  <2> QED
    BY <2>1, <2>2, <2>3
<1>9. /\ \A p \in Procs : Runs(p, k)' <=> p = q
      /\ Migrating(k)' = {} /\ k \notin deleted' /\ up' = Procs
      /\ \A p \in Procs : Info(p)' = Info(p)
      /\ reg'[q][k] = Info(q)
  <2>1. \A p \in Procs : Runs(p, k)' <=> p = q
    BY <1>1, <1>2 DEF Runs, CreateDeliveryTask
  <2>2. reg'[q][k] = Info(q)
    BY <1>2 DEF CreateDeliveryTask, Types, TypeOK, Keys
  <2>3. Migrating(k)' = {}
    BY <1>1, <1>2 DEF Migrating
  <2> QED
    BY <1>1, <1>2, <2>1, <2>2, <2>3 DEF Info, Pid
<1>a. Unborn(k)' /\ Creating(k)' /\ Deleting(k)' /\ NoneLate(k)' /\ Moving(k)'
  BY <1>1, <1>2, <1>6, <1>9 DEF Unborn, Creating, Deleting, NoneLate, Moving,
                                CreateMsg, DeleteMsg, StoppingMsg
<1>b. Changing(k)'
  BY <1>2, <1>8, <1>9 DEF Changing, ChangeMsg
<1>c. Announced(k)'
  <2> SUFFICES ASSUME NEW p \in Procs, NEW info \in Infos, In(SetInfo(k, info), inbox'[p])
               PROVE  /\ Migrating(k)' = {} /\ k \notin deleted'
                      /\ \E r \in Procs : /\ Runs(r, k)' /\ info = Info(r)'
                                          /\ ServerOf[r] = odb'[k] /\ ServerOf[r] # ServerOf[p]
    BY DEF Announced, SetInfo
  <2>1. info = Info(q) /\ ServerOf[p] # ServerOf[q]
    BY <1>7 DEF Others
  <2> QED
    BY <1>1, <1>2, <1>9, <2>1
<1>d. Running(k)'
  <2>1. \A f \in First : NotCreating(f, k)'
    BY <1>6, <1>9, RegistryAssumption DEF NotCreating, CreateMsg
  <2>2. ~Asks(q, k)'
    BY <1>2 DEF Asks, Locked, Idle
  <2>3. Settled(q, k)'
    BY <1>1, <1>2, <1>9, <2>2 DEF Settled
  <2> QED
    BY <1>9, <2>1, <2>3 DEF Running
<1> QED
  BY <1>a, <1>b, <1>c, <1>d DEF KeyInv

LEMMA KeyMigration ==
    ASSUME Types, NEW k \in RESTKeys, KeyInv(k), NEW m \in migs, Migration(m),
           k \notin disturbed'
    PROVE  KeyInv(k)'
<1>1. CASE m.key # k
  BY <1>1, KeyMigrationOther
<1>2. CASE m.key = k
  <2>1. /\ Migrating(k) = {m} /\ m \in Migs
        /\ m.new = odb[k] /\ ServerOf[m.at] # odb[k] /\ odb[k] \in Servers /\ odb[k] # Nobody
        /\ up = Procs /\ k \notin deleted /\ m.failed = {}
        /\ ~In(ChangeMsg(k, odb[k]), inbox[m.at])
        /\ \A p \in Procs : Runs(p, k) => p = m.at /\ m.stage = "notify"
        /\ m.stage = "notify" => Runs(m.at, k)
        /\ \A p \in Procs : /\ ~In(CreateMsg(k), inbox[p])
                            /\ ~In(DeleteMsg(k), inbox[p])
                            /\ ~In(StoppingMsg(k), inbox[p])
                            /\ \A info \in Infos : ~In(SetInfo(k, info), inbox[p])
    BY <1>2, MovingKey
  <2>2. UNCHANGED <<up, boot, odb, deleted, look>>
    BY DEF Migration, NotifyStopping, StartTask, GiveUp, StopTask, StartFailed, procs, db
  <2>3. Changing(k)
    BY DEF KeyInv
  <2>4. ASSUME inbox' = inbox PROVE Unborn(k)' /\ Creating(k)' /\ Changing(k)' /\ Announced(k)'
                                    /\ Deleting(k)' /\ NoneLate(k)'
    <3>1. Unborn(k)' /\ Creating(k)' /\ Announced(k)' /\ Deleting(k)' /\ NoneLate(k)'
      BY <2>1, <2>2, <2>4 DEF Unborn, Creating, Announced, Deleting, NoneLate,
                              CreateMsg, SetInfo, DeleteMsg, StoppingMsg
    <3>2. Changing(k)'
      BY <2>2, <2>3, <2>4 DEF Changing, ChangeMsg
    <3> QED
      BY <3>1, <3>2
  <2>5. ASSUME NEW n \in Migs, n.key = k, n.at = m.at, n.new = m.new, n.failed = {},
               Becomes(m, n), inbox' = inbox,
               n.stage = "notify" => m.stage = "notify" /\ tasks' = tasks,
               n.stage = "start" => \A p \in Procs : ~Runs(p, k)',
               tasks' \subseteq tasks
        PROVE  KeyInv(k)'
    <3>1. Migrating(k)' = {n}
      BY <2>1, <2>5 DEF Becomes, Migrating
    <3>2. Moving(k)'
      BY <2>1, <2>2, <2>5, <3>1 DEF Moving, Runs, ChangeMsg
    <3>3. \A f \in First : NotCreating(f, k)'
      BY <2>1, <2>2, <2>5, RegistryAssumption DEF NotCreating, CreateMsg
    <3>4. \A p \in Procs : Runs(p, k)' => p = n.at
      BY <2>1, <2>5 DEF Runs
    <3>5. Running(k)'
      BY <3>1, <3>3, <3>4 DEF Running
    <3> QED
      BY <2>4, <2>5, <3>2, <3>5 DEF KeyInv
  <2>6. ASSUME NEW q \in Procs, NotifyStopping(m, q) PROVE KeyInv(k)'
    <3> DEFINE n == [m EXCEPT !.todo = @ \ {q}]
    <3>1. /\ reg[q][m.key] # Nobody /\ ~Locked(q)
      BY <1>2, <2>6 DEF NotifyStopping
    <3>2. inbox' = inbox /\ tasks' = tasks /\ m.stage = "notify"
      BY <2>6, <3>1 DEF NotifyStopping
    <3>3. Becomes(m, n)
      <4>1. Becomes(m, [m EXCEPT !.todo = @ \ {q}, !.failed = @])
        BY <2>6, <3>1 DEF NotifyStopping
      <4>2. [m EXCEPT !.todo = @ \ {q}, !.failed = @] = n
        BY <2>1 DEF Migs
      <4> QED
        BY <4>1, <4>2, Zenon
    <3>4. /\ n \in Migs /\ n.key = k /\ n.at = m.at /\ n.new = m.new /\ n.failed = {}
          /\ n.stage = "notify"
      BY <1>2, <2>1, <3>2 DEF Migs
    <3> HIDE DEF n
    <3> QED
      BY <2>5, <3>2, <3>3, <3>4
  <2>7. ASSUME NEW q \in Procs, StartTask(m, q) PROVE KeyInv(k)'
    BY <1>2, <2>7, KeyStartTask
  <2>8. CASE GiveUp(m)
    BY <2>1, <2>8 DEF GiveUp
  <2>9. CASE StopTask(m)
    <3> DEFINE n == [m EXCEPT !.stage = "start"]
    <3>1. /\ n \in Migs /\ n.key = k /\ n.at = m.at /\ n.new = m.new /\ n.failed = {}
          /\ n.stage = "start"
      BY <1>2, <2>1 DEF Migs
    <3>2. inbox' = inbox /\ Becomes(m, n) /\ tasks' = tasks \ {<<m.at, k>>}
      BY <1>2, <2>9 DEF StopTask
    <3> HIDE DEF n
    <3>3. \A p \in Procs : ~Runs(p, k)'
      BY <2>1, <3>2 DEF Runs
    <3> QED
      BY <2>5, <3>1, <3>2, <3>3
  <2>10. CASE StartFailed(m)
    <3>1. inbox' = inbox /\ tasks' = tasks /\ migs' = migs \ {m} /\ m.stage = "start"
      BY <2>10 DEF StartFailed
    <3>2. Migrating(k)' = {} /\ \A p \in Procs : ~Runs(p, k)'
      BY <2>1, <3>1 DEF Migrating, Runs
    <3> QED
      BY <2>4, <3>1, <3>2 DEF KeyInv, Moving, Running
  <2> QED
    BY <2>6, <2>7, <2>8, <2>9, <2>10 DEF Migration
<1> QED
  BY <1>1, <1>2

\* A process comes up: the first worker creates the task unless there is one.
LEMMA KeyBoot ==
    ASSUME Types, Asleep, NEW k \in RESTKeys, KeyInv(k), NEW p \in Procs, Boot(p)
    PROVE  KeyInv(k)'
<1>1. /\ p \notin up /\ up' = up \cup {p} /\ boot' = [boot EXCEPT ![p] = @ + 1]
      /\ UNCHANGED <<reg, look, migs, tasks, odb, deleted>>
  BY DEF Boot, moves, db
<1>2. /\ Unborn(k) /\ Creating(k) /\ Changing(k) /\ Announced(k) /\ Deleting(k)
      /\ NoneLate(k) /\ Moving(k) /\ Running(k)
  BY DEF KeyInv
<1>3. Migrating(k) = {} /\ \A q \in Procs : ~In(DeleteMsg(k), inbox[q])
                                            /\ \A s \in Servers : ~In(ChangeMsg(k, s), inbox[q])
  BY <1>1, <1>2 DEF Moving, Deleting, Changing
<1>4. ~Runs(p, k) /\ \A q \in Procs : q # p => inbox'[q] = inbox[q] /\ Info(q)' = Info(q)
  BY <1>1 DEF Asleep, Runs, Keys, Boot, Types, TypeOK, Info, Pid
<1>5. /\ \A x : In(x, inbox'[p]) => \E j \in RESTKeys \ deleted : x = CreateMsg(j) /\ odb[j] = ServerOf[p]
      /\ \A x : Once(x, inbox'[p])
  <2> DEFINE S == {CreateMsg(j) : j \in {x \in RESTKeys \ deleted : odb[x] = ServerOf[p]}}
  <2>1. /\ \A x : In(x, SetToSeq(S)) => x \in S
        /\ \A x : Once(x, SetToSeq(S))
    BY BootBox
  <2>2. inbox'[p] = SetToSeq(S)
    BY DEF Boot, Types, TypeOK
  <2>3. \A x : x \in S => \E j \in RESTKeys \ deleted : x = CreateMsg(j) /\ odb[j] = ServerOf[p]
    OBVIOUS
  <2> HIDE DEF S
  <2> QED
    BY <2>1, <2>2, <2>3
<1>6. \A x : In(x, inbox'[p]) /\ x.key = k => x = CreateMsg(k) /\ k \notin deleted /\ odb[k] = ServerOf[p]
  BY <1>5 DEF CreateMsg
<1>7. /\ CreateMsg(k).key = k /\ DeleteMsg(k).key = k /\ StoppingMsg(k).key = k
      /\ \A s \in Servers : ChangeMsg(k, s).key = k
      /\ \A info \in Infos : SetInfo(k, info).key = k
  BY AboutKey
<1>8. /\ ~In(DeleteMsg(k), inbox'[p]) /\ ~In(StoppingMsg(k), inbox'[p])
      /\ \A s \in Servers : ~In(ChangeMsg(k, s), inbox'[p])
      /\ \A info \in Infos : ~In(SetInfo(k, info), inbox'[p])
  BY <1>6, <1>7, AboutKey
<1>9. Migrating(k)' = {} /\ \A q \in Procs : Runs(q, k)' <=> Runs(q, k)
  BY <1>1, <1>3 DEF Migrating, Runs
<1>10. ServerOf[p] # Nobody
  BY RegistryAssumption
<1>a. Unborn(k)'
  <2> SUFFICES ASSUME odb[k] = Nobody
               PROVE  /\ \A q \in Procs : /\ ~Runs(q, k)
                                          /\ \A m \in Messages : In(m, inbox'[q]) => m.key # k
                      /\ k \notin deleted
    BY <1>1, <1>9 DEF Unborn
  <2>1. \A m : In(m, inbox'[p]) => m.key # k
    BY <1>6, <1>10
  <2> QED
    BY <1>2, <1>4, <2>1 DEF Unborn
<1>b. Creating(k)'
  <2> SUFFICES ASSUME NEW q \in Procs, In(CreateMsg(k), inbox'[q])
               PROVE  /\ ServerOf[q] = odb[k] /\ k \notin deleted
                      /\ ~Runs(q, k)
                      /\ \A r \in Procs : ~In(ChangeMsg(k, odb[k]), inbox'[r])
                      /\ Once(CreateMsg(k), inbox'[q])
    BY <1>1, <1>9 DEF Creating, CreateMsg, ChangeMsg
  <2>1. /\ ServerOf[q] = odb[k] /\ k \notin deleted /\ ~Runs(q, k) /\ Once(CreateMsg(k), inbox'[q])
    <3>1. CASE q = p
      BY <1>4, <1>5, <1>6, <1>7, <3>1
    <3>2. CASE q # p
      BY <1>2, <1>4, <3>2 DEF Creating
    <3> QED
      BY <3>1, <3>2
  <2>2. odb[k] \in Servers
    BY <2>1, RegistryAssumption
  <2>3. \A r \in Procs : ~In(ChangeMsg(k, odb[k]), inbox'[r])
    BY <1>3, <1>4, <1>8, <2>2
  <2> QED
    BY <2>1, <2>3
<1>c. Changing(k)' /\ Deleting(k)' /\ NoneLate(k)' /\ Moving(k)'
  <2>1. \A q \in Procs : /\ ~In(DeleteMsg(k), inbox'[q]) /\ ~In(StoppingMsg(k), inbox'[q])
                         /\ \A s \in Servers : ~In(ChangeMsg(k, s), inbox'[q])
    BY <1>2, <1>3, <1>4, <1>8 DEF NoneLate
  <2> QED
    BY <1>9, <2>1 DEF Changing, Deleting, NoneLate, Moving, ChangeMsg, DeleteMsg, StoppingMsg
<1>d. Announced(k)'
  <2> SUFFICES ASSUME NEW q \in Procs, NEW info \in Infos, In(SetInfo(k, info), inbox'[q])
               PROVE  /\ k \notin deleted
                      /\ \E r \in Procs : /\ Runs(r, k) /\ info = Info(r)'
                                          /\ ServerOf[r] = odb[k] /\ ServerOf[r] # ServerOf[q]
    BY <1>1, <1>9 DEF Announced, SetInfo
  <2>1. q # p /\ In(SetInfo(k, info), inbox[q])
    BY <1>4, <1>8
  <2>2. k \notin deleted /\ \E r \in Procs : /\ Runs(r, k) /\ info = Info(r)
                                             /\ ServerOf[r] = odb[k] /\ ServerOf[r] # ServerOf[q]
    BY <1>2, <2>1 DEF Announced
  <2> QED
    BY <1>4, <2>2
<1>e. Running(k)'
  <2> SUFFICES ASSUME NEW q \in Procs, Runs(q, k)
               PROVE  /\ \A r \in Procs : Runs(r, k) => r = q
                      /\ \A f \in First : NotCreating(f, k)'
                      /\ Settled(q, k)'
    BY <1>9 DEF Running
  <2>1. /\ \A r \in Procs : Runs(r, k) => r = q
        /\ \A f \in First : NotCreating(f, k)
        /\ Settled(q, k)
    BY <1>2, <1>3 DEF Running
  <2>2. q # p /\ inbox'[q] = inbox[q] /\ Info(q)' = Info(q)
    BY <1>4
  <2>3. \A f \in First : NotCreating(f, k)'
    <3> SUFFICES ASSUME NEW f \in First
                 PROVE  /\ ~In(CreateMsg(k), inbox'[f])
                        /\ f \in up' \/ odb[k] # ServerOf[f] \/ k \in deleted
      BY <1>1 DEF NotCreating, CreateMsg
    <3>1. ~In(CreateMsg(k), inbox[f]) /\ (f \in up \/ odb[k] # ServerOf[f] \/ k \in deleted)
      BY <2>1 DEF NotCreating
    <3>2. CASE f = p
      BY <1>1, <1>6, <1>7, <3>1, <3>2
    <3>3. CASE f # p
      BY <1>1, <1>4, <3>1, <3>3, RegistryAssumption
    <3> QED
      BY <3>2, <3>3
  <2>4. ~Asks(q, k)'
    BY <1>1, <2>1 DEF Settled, Asks, Locked, Idle
  <2>5. Settled(q, k)'
    BY <1>1, <1>9, <2>1, <2>2, <2>4 DEF Settled, ChangeMsg, DeleteMsg
  <2> QED
    BY <2>1, <2>3, <2>5
<1> QED
  BY <1>a, <1>b, <1>c, <1>d, <1>e DEF KeyInv

\* A server crashes while nothing about the sub_key is under way.
LEMMA KeyCrash ==
    ASSUME Types, NEW k \in RESTKeys, KeyInv(k), NEW s \in Servers, Crash(s), k \notin disturbed'
    PROVE  KeyInv(k)'
<1>0. k \notin Unsettled
  BY DEF Crash
<1>1. /\ up = Procs
      /\ Migrating(k) = {}
      /\ \A p \in Procs : \A x \in Messages : In(x, inbox[p]) => x.key # k
      /\ \A p \in Procs : Runs(p, k) => ServerOf[p] = odb[k] /\ reg[p][k] = Info(p)
                                        /\ ~Asks(p, k)
  BY <1>0, SettledKey
<1>2. /\ up' = up \ Workers(s) /\ UNCHANGED <<boot, odb, deleted>>
      /\ migs' \subseteq migs
      /\ \A p \in Procs : <<p, k>> \in tasks' => <<p, k>> \in tasks /\ p \notin Workers(s)
      /\ \A p \in Procs : p \notin Workers(s) =>
            reg'[p] = reg[p] /\ inbox'[p] = inbox[p] /\ look'[p] = look[p]
      /\ \A p \in Procs : p \in Workers(s) => inbox'[p] = <<>>
  BY DEF Crash
<1>3. \A p \in Procs : \A x \in Messages : In(x, inbox'[p]) => x.key # k
  <2> SUFFICES ASSUME NEW p \in Procs, NEW x \in Messages, In(x, inbox'[p]) PROVE x.key # k
    OBVIOUS
  <2>1. CASE p \in Workers(s)
    BY <1>2, <2>1 DEF In
  <2>2. CASE p \notin Workers(s)
    BY <1>1, <1>2, <2>2
  <2> QED
    BY <2>1, <2>2
<1>4. \A q \in Procs : /\ \A x \in Infos : ~In(SetInfo(k, x), inbox'[q])
                       /\ \A x \in Servers : ~In(ChangeMsg(k, x), inbox'[q])
                       /\ ~In(StoppingMsg(k), inbox'[q])
                       /\ ~In(DeleteMsg(k), inbox'[q])
                       /\ ~In(CreateMsg(k), inbox'[q])
  BY <1>3, AboutKey
<1>5. Migrating(k)' = {} /\ \A p \in Procs : Runs(p, k)' => Runs(p, k) /\ p \notin Workers(s)
  BY <1>1, <1>2 DEF Migrating, Runs
<1>a. Unborn(k)'
  BY <1>2, <1>3, <1>5 DEF KeyInv, Unborn
<1>b. Creating(k)' /\ Changing(k)' /\ Announced(k)' /\ Deleting(k)' /\ NoneLate(k)' /\ Moving(k)'
  BY <1>4, <1>5 DEF Creating, Changing, Announced, Deleting, NoneLate, Moving, CreateMsg,
                    ChangeMsg, SetInfo, DeleteMsg, StoppingMsg
<1>c. Running(k)'
  <2> SUFFICES ASSUME NEW p \in Procs, Runs(p, k)'
               PROVE  /\ \A r \in Procs : Runs(r, k)' => r = p
                      /\ \A f \in First : NotCreating(f, k)'
                      /\ Settled(p, k)'
    BY DEF Running
  <2>1. Runs(p, k) /\ p \notin Workers(s) /\ odb[k] # s /\ ServerOf[p] = odb[k]
    BY <1>1, <1>5 DEF Workers
  <2>2. \A r \in Procs : Runs(r, k)' => r = p
    BY <1>5, <2>1 DEF KeyInv, Running
  <2>3. \A f \in First : NotCreating(f, k)'
    <3> SUFFICES ASSUME NEW f \in First PROVE f \in up' \/ odb[k] # ServerOf[f]
      BY <1>2, <1>4, RegistryAssumption DEF NotCreating, CreateMsg
    <3> QED
      BY <1>1, <1>2, <2>1, RegistryAssumption DEF Workers
  <2>4. reg'[p][k] = Info(p)' /\ ~Asks(p, k)'
    BY <1>1, <1>2, <2>1 DEF Info, Pid, Asks, Locked, Idle
  <2>5. Settled(p, k)'
    BY <1>2, <1>5, <2>1, <2>4 DEF Settled
  <2> QED
    BY <2>2, <2>3, <2>5
<1> QED
  BY <1>a, <1>b, <1>c DEF KeyInv

\* The order of messages does not matter.
LEMMA KeyOvertake ==
    ASSUME Types, NEW k \in RESTKeys, KeyInv(k), NEW p \in Procs, NEW i, Overtake(p, i)
    PROVE  KeyInv(k)'
<1>1. inbox \in Boxes
  BY DEF Types, TypeOK, Boxes
<1>2. UNCHANGED <<up, boot, reg, look, migs, tasks, odb, deleted>>
  BY <1>1, OvertakeBoxes
<1>3. \A q \in Procs : \A x : /\ In(x, inbox'[q]) <=> In(x, inbox[q])
                              /\ Once(x, inbox[q]) => Once(x, inbox'[q])
  BY <1>1, Overtaken
<1>4. Migrating(k)' = Migrating(k) /\ \A q \in Procs : Asks(q, k)' => Asks(q, k)
  BY <1>2 DEF Migrating, Asks, Locked, Idle
<1>5. \A q \in Procs : /\ <<q, k>> \in tasks' <=> Runs(q, k)
                       /\ reg'[q][k] = reg[q][k] /\ (Asks(q, k)' => Asks(q, k))
  BY <1>2, <1>4 DEF Runs
<1>6. up' = up /\ boot' = boot /\ odb'[k] = odb[k] /\ (k \in deleted' <=> k \in deleted)
      /\ Migrating(k)' = Migrating(k)
  BY <1>2, <1>4
<1>7. \A q \in Procs : \A m \in Messages : m.key = k =>
         (In(m, inbox'[q]) <=> In(m, inbox[q])) /\ (Once(m, inbox[q]) => Once(m, inbox'[q]))
  BY <1>3
<1> QED
  BY <1>5, <1>6, <1>7, FrameSame

KeysInv == \A k \in RESTKeys \ disturbed : KeyInv(k)

LEMMA KeysInit == Init => KeysInv
<1> SUFFICES ASSUME Init, NEW k \in RESTKeys PROVE KeyInv(k)
  BY DEF KeysInv
<1>1. /\ tasks = {} /\ migs = {} /\ deleted = {} /\ odb[k] = Nobody
      /\ \A p \in Procs : \A x : ~In(x, inbox[p])
  BY DEF Init, In
<1>2. Migrating(k) = {} /\ \A p \in Procs : ~Runs(p, k)
  BY <1>1 DEF Migrating, Runs
<1> QED
  BY <1>1, <1>2 DEF KeyInv, Unborn, Creating, Changing, Announced, Deleting, NoneLate, Moving, Running

\* What is disturbed remains so, and what was raised.
LEMMA Disturbed == [Next]_vars => disturbed \subseteq disturbed' /\ raised \subseteq raised'
<1> DEFINE Kept == disturbed \subseteq disturbed' /\ raised \subseteq raised'
<1> SUFFICES ASSUME [Next]_vars PROVE Kept
  OBVIOUS
<1>1. CASE UNCHANGED vars
  BY <1>1 DEF vars, aux
<1>2. ASSUME NEW p \in Procs, Handle(p) \/ Lookup(p) \/ Boot(p) PROVE Kept
  BY <1>2 DEF Handle, CreateSubscription, Unsubscribe, SubKeyServerSet, WSXClientSubKeyServerRemove,
              DeliveryServerChange, LateStopping, Lookup, GetServerPID, SetMissing, Boot, aux
<1>3. ASSUME NEW m \in migs, Migration(m) PROVE Kept
  BY <1>3 DEF Migration, NotifyStopping, StartTask, GiveUp, StopTask, StartFailed, aux
<1>4. ASSUME NEW k, NEW s, Subscribe(k, s) \/ ChangeServer(k, s) PROVE Kept
  BY <1>4 DEF Subscribe, ChangeServer, aux
<1>5. ASSUME NEW k, NEW p, SubscribeWSX(p, k) \/ LookUp(p, k) PROVE Kept
  BY <1>5 DEF SubscribeWSX, LookUp, aux
<1>6. ASSUME NEW k, DisconnectWSX(k) \/ DeleteSubscription(k) PROVE Kept
  BY <1>6 DEF DisconnectWSX, DeleteSubscription, aux
<1>7. ASSUME NEW s, Crash(s) PROVE Kept
  BY <1>7 DEF Crash
<1>8. ASSUME NEW p, NEW i, Overtake(p, i) PROVE Kept
  BY <1>8 DEF Overtake
<1> QED
  BY <1>1, <1>2, <1>3, <1>4, <1>5, <1>6, <1>7, <1>8 DEF Next

LEMMA KeysNext == Types /\ Asleep /\ KeysInv /\ [Next]_vars => KeysInv'
<1> SUFFICES ASSUME Types, Asleep, KeysInv, [Next]_vars, NEW k \in RESTKeys, k \notin disturbed'
             PROVE  KeyInv(k)'
  BY DEF KeysInv
<1>1. KeyInv(k)
  BY Disturbed DEF KeysInv
<1>2. CASE UNCHANGED vars
  <2>1. Migrating(k)' = Migrating(k) /\ \A q \in Procs : Asks(q, k)' => Asks(q, k)
    BY <1>2 DEF vars, moves, Migrating, Asks, Locked, Idle
  <2> QED
    BY <1>1, <1>2, <2>1, FrameSame DEF vars, procs, moves, db, Runs
<1>3. ASSUME NEW j \in RESTKeys, NEW s \in Servers, Subscribe(j, s) \/ ChangeServer(j, s)
      PROVE  KeyInv(k)'
  BY <1>1, <1>3, KeySubscribe, KeyChangeServer
<1>4. ASSUME NEW p \in Procs, NEW j \in Keys, SubscribeWSX(p, j) PROVE KeyInv(k)'
  BY <1>1, <1>4, KeyWSX
<1>5. ASSUME NEW p \in Procs, NEW j \in Keys, LookUp(p, j) PROVE KeyInv(k)'
  BY <1>1, <1>5, KeyLookup
<1>6. ASSUME NEW j \in Keys, DisconnectWSX(j) \/ DeleteSubscription(j) PROVE KeyInv(k)'
  BY <1>1, <1>6, KeyWSX, KeyDeleteSubscription
<1>7. ASSUME NEW p \in Procs, Handle(p) PROVE KeyInv(k)'
  BY <1>1, <1>7, KeyHandle
<1>8. ASSUME NEW p \in Procs, Lookup(p) PROVE KeyInv(k)'
  BY <1>1, <1>8, KeyLookup
<1>9. ASSUME NEW p \in Procs, Boot(p) PROVE KeyInv(k)'
  BY <1>1, <1>9, KeyBoot
<1>10. ASSUME NEW m \in migs, Migration(m) PROVE KeyInv(k)'
  BY <1>1, <1>10, KeyMigration
<1>11. ASSUME NEW s \in Servers, Crash(s) PROVE KeyInv(k)'
  BY <1>1, <1>11, KeyCrash
<1>12. ASSUME NEW p \in Procs, NEW i, Overtake(p, i) PROVE KeyInv(k)'
  BY <1>1, <1>12, KeyOvertake
<1> QED
  BY <1>2, <1>3, <1>4, <1>5, <1>6, <1>7, <1>8, <1>9, <1>10, <1>11, <1>12 DEF Next

-----------------------------------------------------------------------------
(* One task per sub_key, and none of a subscription that was deleted.      *)

\* The task of a WebSocket is where the WebSocket is.
Connected == \A k \in WSXKeys, p \in Procs : Runs(p, k) => client[k] = p

LEMMA ConnectedInit == Init => Connected
BY DEF Init, Connected, Runs

LEMMA ConnectedNext == Types /\ Connected /\ [Next]_vars => Connected'
<1> SUFFICES ASSUME Types, Connected, [Next]_vars, NEW k \in WSXKeys, NEW p \in Procs, Runs(p, k)'
             PROVE  client'[k] = p
  BY DEF Connected
<1>a. inbox \in Boxes /\ client \in [WSXKeys -> Procs \cup {Nobody, Gone}] /\ k \notin RESTKeys
  BY RegistryAssumption DEF Types, TypeOK, Boxes
<1>b. Runs(p, k) => client[k] = p
  BY DEF Connected
<1>1. CASE UNCHANGED <<tasks, client>>
  BY <1>1, <1>b DEF Runs
<1>2. CASE UNCHANGED vars
  BY <1>1, <1>2 DEF vars, moves, db
<1>3. ASSUME NEW j \in RESTKeys, NEW s \in Servers, Subscribe(j, s) \/ ChangeServer(j, s)
      PROVE  client'[k] = p
  BY <1>1, <1>3 DEF Subscribe, ChangeServer, moves
<1>4. ASSUME NEW r \in Procs, NEW j \in Keys, SubscribeWSX(r, j) PROVE client'[k] = p
  <2>1. CASE <<p, k>> = <<r, j>>
    BY <1>4, <1>a, <2>1 DEF SubscribeWSX
  <2>2. CASE <<p, k>> # <<r, j>>
    <3>1. Runs(p, k)
      BY <1>4, <2>2 DEF SubscribeWSX, Runs
    <3>2. client[j] = Nobody /\ client' = [client EXCEPT ![j] = r]
      BY <1>4 DEF SubscribeWSX
    <3>3. k # j
      BY <1>b, <3>1, <3>2, RegistryAssumption
    <3> QED
      BY <1>a, <1>b, <3>1, <3>2, <3>3
  <2> QED
    BY <2>1, <2>2
<1>5. ASSUME NEW r \in Procs, NEW j \in Keys, LookUp(r, j) PROVE client'[k] = p
  BY <1>1, <1>5 DEF LookUp, moves, db
<1>6. ASSUME NEW j \in Keys, DisconnectWSX(j) PROVE client'[k] = p
  <2>1. Runs(p, k) /\ <<p, k>> # <<client[j], j>>
    BY <1>6 DEF DisconnectWSX, Runs
  <2>2. k # j
    BY <1>b, <2>1
  <2> QED
    BY <1>6, <1>a, <1>b, <2>1, <2>2 DEF DisconnectWSX
<1>7. ASSUME NEW j \in Keys, DeleteSubscription(j) PROVE client'[k] = p
  BY <1>1, <1>7 DEF DeleteSubscription, moves
<1>8. ASSUME NEW r \in Procs, Handle(r) PROVE client'[k] = p
  <2>1. inbox[r] # <<>> /\ client' = client
    BY <1>8 DEF Handle, CreateSubscription, Unsubscribe, SubKeyServerSet, WSXClientSubKeyServerRemove,
                DeliveryServerChange, LateStopping, Receives, db
  <2>2. Head(inbox[r]) \in Messages
    BY <1>a, <2>1, ReceivedBoxes
  <2>3. Runs(p, k)
    <3>1. CASE CreateSubscription(r)
      <4>1. Head(inbox[r]).key # k
        BY <1>a, <2>2, <3>1, MessageTypes DEF CreateSubscription, Receives
      <4>2. \/ tasks' = tasks
            \/ tasks' = tasks \cup {<<r, Head(inbox[r]).key>>}
        BY <3>1 DEF CreateSubscription, CreateDeliveryTask
      <4> QED
        BY <4>1, <4>2 DEF Runs
    <3>2. CASE Handle(r) /\ ~CreateSubscription(r)
      BY <3>2 DEF Handle, Unsubscribe, SubKeyServerSet, WSXClientSubKeyServerRemove,
                  DeliveryServerChange, LateStopping, moves, Runs
    <3> QED
      BY <1>8, <3>1, <3>2
  <2> QED
    BY <1>b, <2>1, <2>3
<1>9. ASSUME NEW r \in Procs, Lookup(r) PROVE client'[k] = p
  BY <1>1, <1>9 DEF Lookup, GetServerPID, SetMissing, moves, db
<1>10. ASSUME NEW r \in Procs, Boot(r) PROVE client'[k] = p
  BY <1>1, <1>10 DEF Boot, moves, db
<1>11. ASSUME NEW m \in migs, Migration(m) PROVE client'[k] = p
  <2>1. m.key # k
    BY <1>a DEF Types, TypeOK
  <2>2. client' = client
    BY <1>11 DEF Migration, NotifyStopping, StartTask, GiveUp, StopTask, StartFailed, db
  <2>3. tasks' \subseteq tasks \/ \E q \in Procs : tasks' = tasks \cup {<<q, m.key>>}
    BY <1>11 DEF Migration, NotifyStopping, StartTask, CreateDeliveryTask, GiveUp, StopTask, StartFailed
  <2>4. Runs(p, k)
    BY <2>1, <2>3 DEF Runs
  <2> QED
    BY <1>b, <2>2, <2>4
<1>12. ASSUME NEW s \in Servers, Crash(s) PROVE client'[k] = p
  <2>1. <<p, k>> \in tasks /\ p \notin Workers(s)
    BY <1>12 DEF Crash, Runs
  <2> QED
    BY <1>12, <1>b, <2>1 DEF Crash, Runs
<1>13. ASSUME NEW r \in Procs, NEW i, Overtake(r, i) PROVE client'[k] = p
  BY <1>1, <1>13 DEF Overtake, moves, db
<1> QED
  BY <1>2, <1>3, <1>4, <1>5, <1>6, <1>7, <1>8, <1>9, <1>10, <1>11, <1>12, <1>13 DEF Next

LEMMA KeysSafe == Spec => [](Types /\ Asleep /\ KeysInv /\ Connected)
<1>1. Init => Types /\ Asleep /\ KeysInv /\ Connected
  BY TypesInit, AsleepInit, KeysInit, ConnectedInit
<1>2. Types /\ Asleep /\ KeysInv /\ Connected /\ [Next]_vars => (Types /\ Asleep /\ KeysInv /\ Connected)'
  BY TypesNext, AsleepNext, KeysNext, ConnectedNext
<1> QED
  BY <1>1, <1>2, PTL DEF Spec

\* No order of the broker messages, lookups, migrations, crashes and restarts starts a
\* second delivery task for a sub_key that was not disturbed.
THEOREM OneTaskSafety == Spec => []OneTask
<1>1. Types /\ KeysInv /\ Connected => OneTask
  <2> SUFFICES ASSUME Types, KeysInv, Connected, NEW t \in tasks, NEW u \in tasks,
                      t[2] = u[2], t[2] \notin disturbed
               PROVE  t = u
    BY DEF OneTask
  <2>1. PICK p \in Procs, k \in Keys : t = <<p, k>>
    BY DEF Types, TypeOK
  <2>2. PICK q \in Procs, j \in Keys : u = <<q, j>>
    BY DEF Types, TypeOK
  <2>3. j = k /\ Runs(p, k) /\ Runs(q, k) /\ k \notin disturbed
    BY <2>1, <2>2 DEF Runs
  <2>4. CASE k \in RESTKeys
    BY <2>1, <2>2, <2>3, <2>4 DEF KeysInv, KeyInv, Running
  <2>5. CASE k \in WSXKeys
    BY <2>1, <2>2, <2>3, <2>5 DEF Connected
  <2> QED
    BY <2>4, <2>5 DEF Keys
<1> QED
  BY <1>1, KeysSafe, PTL

\* A message stays where it is until it is handled, or its process is gone.
LEMMA Pending ==
    ASSUME Types, [Next]_vars, NEW p \in Procs, NEW x, In(x, inbox[p])
    PROVE  \/ In(x, inbox'[p])
           \/ Handle(p) /\ x = Head(inbox[p])
           \/ \E s \in Servers : Crash(s) /\ p \in Workers(s)
           \/ p \notin up
<1>a. inbox \in Boxes
  BY DEF Types, TypeOK, Boxes
<1>1. ASSUME NEW m \in Messages, NEW to, inbox' = Broadcast(inbox, m, to)
      PROVE  In(x, inbox'[p])
  <2>1. \A y : In(y, Broadcast(inbox, m, to)[p]) <=> In(y, inbox[p]) \/ (y = m /\ p \in to \cap up)
    BY <1>a, Told
  <2> QED
    BY <1>1, <2>1
<1>2. CASE inbox' = inbox
  BY <1>2
<1>3. ASSUME NEW j \in RESTKeys, NEW s \in Servers, Subscribe(j, s) \/ ChangeServer(j, s)
      PROVE  In(x, inbox'[p])
  <2>1. CreateMsg(j) \in Messages /\ ChangeMsg(j, s) \in Messages
    BY AboutKey
  <2> QED
    BY <1>1, <1>3, <2>1 DEF Subscribe, ChangeServer
<1>4. ASSUME NEW r \in Procs, NEW j \in Keys, SubscribeWSX(r, j) PROVE In(x, inbox'[p])
  <2>1. SetMsg(j, r) \in Messages
    BY InfoType DEF SetMsg, Messages
  <2> QED
    BY <1>1, <1>4, <2>1 DEF SubscribeWSX
<1>5. ASSUME NEW j \in Keys, DisconnectWSX(j) \/ DeleteSubscription(j) PROVE In(x, inbox'[p])
  <2>1. DeleteMsg(j) \in Messages /\ (j \in WSXKeys => RemoveMsg(j) \in Messages)
    BY DEF DeleteMsg, RemoveMsg, Messages
  <2> QED
    BY <1>1, <1>5, <2>1 DEF DisconnectWSX, DeleteSubscription
<1>6. ASSUME NEW r \in Procs, Handle(r), r # p \/ x # Head(inbox[r]) PROVE In(x, inbox'[p])
  <2>1. /\ inbox[r] # <<>>
        /\ \/ inbox' = Received(r)
           \/ \E j \in Keys : CreateDeliveryTask(r, j, Received(r))
    <3>1. inbox[r] # <<>>
      BY <1>6 DEF Handle, CreateSubscription, Unsubscribe, SubKeyServerSet,
                  WSXClientSubKeyServerRemove, DeliveryServerChange, LateStopping, Receives
    <3>2. Head(inbox[r]).key \in Keys
      BY <1>a, <3>1, ReceivedBoxes, MessageTypes
    <3> QED
      BY <1>6, <3>1, <3>2
         DEF Handle, CreateSubscription, Unsubscribe, SubKeyServerSet,
             WSXClientSubKeyServerRemove, DeliveryServerChange, LateStopping
  <2>2. CASE inbox' = Received(r)
    <3>1. \A y : In(y, inbox[p]) /\ (p # r \/ y # Head(inbox[r])) => In(y, Received(r)[p])
      BY <1>a, <2>1, Taken
    <3> QED
      BY <1>6, <2>2, <3>1
  <2>3. ASSUME NEW j \in Keys, CreateDeliveryTask(r, j, Received(r)) PROVE In(x, inbox'[p])
    <3>1. SetMsg(j, r) \in Messages
      BY InfoType DEF SetMsg, Messages
    <3>2. \A y : In(y, inbox[p]) /\ (p # r \/ y # Head(inbox[r])) =>
                    In(y, Broadcast(Received(r), SetMsg(j, r), Others(r))[p])
      BY <1>a, <2>1, <3>1, TakenTold
    <3> QED
      BY <1>6, <2>3, <3>2 DEF CreateDeliveryTask
  <2> QED
    BY <2>1, <2>2, <2>3
<1>7. ASSUME NEW r \in Procs, NEW j \in Keys, LookUp(r, j) PROVE inbox' = inbox
  BY <1>7 DEF LookUp
<1>8. ASSUME NEW r \in Procs, Lookup(r) PROVE inbox' = inbox
  BY <1>8 DEF Lookup, GetServerPID, SetMissing
<1>9. ASSUME NEW r \in Procs, Boot(r), p \in up PROVE In(x, inbox'[p])
  BY <1>9, <1>a DEF Boot, Boxes
<1>10. ASSUME NEW m \in migs, Migration(m) PROVE In(x, inbox'[p])
  <2>1. m.key \in RESTKeys
    BY DEF Types, TypeOK
  <2>2. ASSUME NEW q \in Procs, NotifyStopping(m, q) PROVE In(x, inbox'[p])
    <3>1. inbox' = inbox \/ inbox' = [inbox EXCEPT ![q] = <<StoppingMsg(m.key)>> \o @]
      BY <2>2 DEF NotifyStopping
    <3>2. inbox[p] \in Seq(Messages) /\ StoppingMsg(m.key) \in Messages
      BY <1>a, <2>1, AboutKey DEF Boxes
    <3>3. In(x, <<StoppingMsg(m.key)>> \o inbox[p])
      BY <3>2, ConsElements
    <3>4. inbox'[p] = inbox[p] \/ inbox'[p] = <<StoppingMsg(m.key)>> \o inbox[p]
      BY <1>a, <3>1 DEF Boxes
    <3> QED
      BY <3>3, <3>4
  <2>3. ASSUME NEW q \in Procs, StartTask(m, q) PROVE In(x, inbox'[p])
    <3>1. SetMsg(m.key, q) \in Messages
      BY <2>1, InfoType DEF SetMsg, Messages, Keys
    <3> QED
      BY <1>1, <2>3, <3>1 DEF StartTask, CreateDeliveryTask
  <2>4. CASE GiveUp(m) \/ StopTask(m) \/ StartFailed(m)
    BY <1>2, <2>4 DEF GiveUp, StopTask, StartFailed
  <2> QED
    BY <1>10, <2>2, <2>3, <2>4 DEF Migration
<1>11. ASSUME NEW s \in Servers, Crash(s), p \notin Workers(s) PROVE In(x, inbox'[p])
  BY <1>11 DEF Crash
<1>12. ASSUME NEW r \in Procs, NEW i, Overtake(r, i) PROVE In(x, inbox'[p])
  BY <1>12, <1>a, Overtaken
<1>13. CASE UNCHANGED vars
  BY <1>2, <1>13 DEF vars
<1> QED
  BY <1>2, <1>3, <1>4, <1>5, <1>6, <1>7, <1>8, <1>9, <1>10, <1>11, <1>12, <1>13 DEF Next

\* A process that has the task of a deleted subscription is going to hear of the
\* deletion, unless that has raised an exception somewhere.
Stopping ==
    \A k \in RESTKeys \ (disturbed \cup raised), p \in Procs :
        Runs(p, k) /\ k \in deleted => In(DeleteMsg(k), inbox[p])

LEMMA StoppingInit == Init => Stopping
BY DEF Init, Stopping

\* No task is created of a subscription that was deleted.
LEMMA NoneCreated ==
    ASSUME Types, [Next]_vars, NEW k \in RESTKeys, KeyInv(k), NEW p \in Procs,
           ~Runs(p, k), Runs(p, k)'
    PROVE  k \notin deleted'
<1>a. inbox \in Boxes /\ Creating(k) /\ Moving(k)
  BY DEF Types, TypeOK, Boxes, KeyInv
<1>1. ASSUME tasks' \subseteq tasks PROVE FALSE
  BY <1>1 DEF Runs
<1>2. ASSUME NEW r \in Procs, NEW j \in Keys, SubscribeWSX(r, j) PROVE FALSE
  BY <1>2, RegistryAssumption DEF SubscribeWSX, Runs
<1>3. ASSUME NEW r \in Procs, CreateSubscription(r) PROVE k \notin deleted'
  <2>1. /\ CreateDeliveryTask(r, Head(inbox[r]).key, Received(r)) /\ inbox[r] # <<>>
        /\ Head(inbox[r]).type = "create" /\ deleted' = deleted
    BY <1>3 DEF CreateSubscription, Receives, Runs, db
  <2>2. Head(inbox[r]).key = k
    BY <2>1 DEF CreateDeliveryTask, Runs
  <2>3. Head(inbox[r]) \in Messages /\ In(Head(inbox[r]), inbox[r])
    BY <1>a, <2>1, ReceivedBoxes, Taken
  <2>4. Head(inbox[r]) = CreateMsg(k)
    BY <2>1, <2>2, <2>3, MessageTypes
  <2> QED
    BY <1>a, <2>1, <2>3, <2>4 DEF Creating
<1>4. ASSUME NEW m \in migs, NEW q \in Procs, StartTask(m, q) PROVE k \notin deleted'
  <2>1. m.key = k
    BY <1>4 DEF StartTask, CreateDeliveryTask, Runs
  <2> QED
    BY <1>4, <1>a, <2>1 DEF StartTask, Moving, Migrating, db
<1>5. ASSUME NEW r \in Procs, Handle(r), ~CreateSubscription(r) PROVE FALSE
  BY <1>1, <1>5 DEF Handle, Unsubscribe, SubKeyServerSet, WSXClientSubKeyServerRemove,
                    DeliveryServerChange, LateStopping, moves
<1>6. ASSUME NEW r \in Procs, Lookup(r) \/ Boot(r) PROVE FALSE
  BY <1>1, <1>6 DEF Lookup, GetServerPID, SetMissing, Boot, moves
<1>7. ASSUME NEW j, NEW s, Subscribe(j, s) \/ ChangeServer(j, s) PROVE FALSE
  BY <1>1, <1>7 DEF Subscribe, ChangeServer, moves
<1>8. ASSUME NEW r, NEW j, LookUp(r, j) PROVE FALSE
  BY <1>1, <1>8 DEF LookUp, moves
<1>9. ASSUME NEW j, DisconnectWSX(j) \/ DeleteSubscription(j) PROVE FALSE
  BY <1>1, <1>9 DEF DisconnectWSX, DeleteSubscription, moves
<1>10. ASSUME NEW m \in migs, Migration(m), \A q \in Procs : ~StartTask(m, q) PROVE FALSE
  BY <1>1, <1>10 DEF Migration, NotifyStopping, GiveUp, StopTask, StartFailed
<1>11. ASSUME NEW s, Crash(s) PROVE FALSE
  BY <1>1, <1>11 DEF Crash
<1>12. CASE UNCHANGED vars
  BY <1>1, <1>12 DEF vars, moves
<1>13. ASSUME NEW r, NEW i, Overtake(r, i) PROVE FALSE
  BY <1>1, <1>13 DEF Overtake, moves
<1> QED
  BY <1>2, <1>3, <1>4, <1>5, <1>6, <1>7, <1>8, <1>9, <1>10, <1>11, <1>12, <1>13 DEF Next

\* A subscription is deleted once, and all processes that are up are told.
LEMMA Deletions ==
    ASSUME [Next]_vars, NEW k \in RESTKeys, k \notin deleted, k \in deleted'
    PROVE  DeleteSubscription(k)
<1>1. deleted' # deleted
  OBVIOUS
<1>2. ASSUME NEW r \in Procs, Handle(r) \/ Lookup(r) \/ Boot(r) PROVE FALSE
  BY <1>1, <1>2 DEF Handle, CreateSubscription, Unsubscribe, SubKeyServerSet,
                    WSXClientSubKeyServerRemove, DeliveryServerChange, LateStopping, Lookup,
                    GetServerPID, SetMissing, Boot, db
<1>3. ASSUME NEW j, NEW s, Subscribe(j, s) \/ ChangeServer(j, s) PROVE FALSE
  BY <1>1, <1>3 DEF Subscribe, ChangeServer
<1>4. ASSUME NEW r, NEW j, SubscribeWSX(r, j) \/ LookUp(r, j) \/ DisconnectWSX(j) PROVE FALSE
  BY <1>1, <1>4 DEF SubscribeWSX, LookUp, DisconnectWSX, db
<1>5. ASSUME NEW m \in migs, Migration(m) PROVE FALSE
  BY <1>1, <1>5 DEF Migration, NotifyStopping, StartTask, GiveUp, StopTask, StartFailed, db
<1>6. ASSUME NEW s, Crash(s) PROVE FALSE
  BY <1>1, <1>6 DEF Crash
<1>7. CASE UNCHANGED vars
  BY <1>1, <1>7 DEF vars, db
<1>8. ASSUME NEW r, NEW i, Overtake(r, i) PROVE FALSE
  BY <1>1, <1>8 DEF Overtake, db
<1>9. ASSUME NEW j, DeleteSubscription(j) PROVE j = k
  BY <1>9 DEF DeleteSubscription
<1> QED
  BY <1>2, <1>3, <1>4, <1>5, <1>6, <1>7, <1>8, <1>9 DEF Next

LEMMA StoppingNext ==
    ASSUME Types, Asleep, KeysInv, Stopping, [Next]_vars
    PROVE  Stopping'
<1> SUFFICES ASSUME NEW k \in RESTKeys, k \notin disturbed', k \notin raised', NEW p \in Procs,
                    Runs(p, k)', k \in deleted'
             PROVE  In(DeleteMsg(k), inbox'[p])
  BY DEF Stopping, DeleteMsg
<1>1. k \notin disturbed /\ k \notin raised
  BY Disturbed
<1>2. KeyInv(k)
  BY <1>1 DEF KeysInv
<1>3. Runs(p, k)
  BY <1>2, NoneCreated
<1>4. inbox \in Boxes /\ DeleteMsg(k) \in Messages /\ DeleteMsg(k).key = k
      /\ DeleteMsg(k).type = "delete" /\ k \in Keys
  BY DEF Types, TypeOK, Boxes, DeleteMsg, Messages, Keys
<1>5. p \in up
  BY <1>3, <1>4 DEF Asleep, Runs
<1>6. CASE k \notin deleted
  <2>1. inbox' = Broadcast(inbox, DeleteMsg(k), Procs)
    BY <1>6, Deletions DEF DeleteSubscription
  <2>2. \A y : In(y, Broadcast(inbox, DeleteMsg(k), Procs)[p]) <=>
                  In(y, inbox[p]) \/ (y = DeleteMsg(k) /\ p \in Procs \cap up)
    BY <1>4, Told
  <2> QED
    BY <1>5, <2>1, <2>2
<1>7. CASE k \in deleted
  <2>1. In(DeleteMsg(k), inbox[p])
    BY <1>1, <1>3, <1>7 DEF Stopping
  <2>2. ~\E s \in Servers : Crash(s) /\ p \in Workers(s)
    BY DEF Crash, Runs
  <2>3. ~(Handle(p) /\ DeleteMsg(k) = Head(inbox[p]))
    <3> SUFFICES ASSUME Handle(p), Head(inbox[p]) = DeleteMsg(k) PROVE FALSE
      OBVIOUS
    <3>1. Unsubscribe(p)
      BY <1>4 DEF Handle, CreateSubscription, SubKeyServerSet, WSXClientSubKeyServerRemove,
                  DeliveryServerChange, LateStopping, Receives
    <3>2. tasks' = IF reg[p][k] = Info(p) THEN tasks \ {<<p, k>>} ELSE tasks
      BY <1>4, <3>1 DEF Unsubscribe
    <3>3. Migrating(k) = {}
      BY <1>2, <1>7 DEF KeyInv, Moving
    <3>4. reg[p][k] = Info(p)
      BY <1>2, <1>3, <3>3 DEF KeyInv, Running, Settled
    <3> QED
      BY <3>2, <3>4 DEF Runs
  <2> QED
    BY <1>5, <2>1, <2>2, <2>3, Pending
<1> QED
  BY <1>6, <1>7

\* Wherever a task was started or has migrated to, the news of the deletion of its
\* subscription reaches it, in whatever order broker messages are handled: once all
\* is quiet, no task is left of a REST sub_key whose migrations were not disturbed,
\* and which was not deleted while news or a migration were under way, unless
\* unsubscribe raised an exception.
THEOREM StoppedSafety == Spec => []Stopped
<1>1. Types /\ Stopping => Stopped
  <2> SUFFICES ASSUME Types, Stopping, Quiet, NEW t \in tasks,
                      t[2] \in RESTKeys \ (disturbed \cup raised), t[2] \in deleted
               PROVE  FALSE
    BY DEF Stopped
  <2>1. PICK p \in Procs, k \in RESTKeys \ (disturbed \cup raised) : t = <<p, k>>
    BY DEF Types, TypeOK
  <2>2. Runs(p, k) /\ k \in deleted
    BY <2>1 DEF Runs
  <2>3. In(DeleteMsg(k), inbox[p])
    BY <2>2 DEF Stopping
  <2> QED
    BY <2>3 DEF Quiet, In
<1> DEFINE Inv == Types /\ Asleep /\ KeysInv /\ Connected
<1>2. Init => Stopping
  BY StoppingInit
<1>3. Inv /\ Stopping /\ [Next]_vars => Stopping'
  BY StoppingNext
<1>4. Inv => Types
  OBVIOUS
<1>5. Spec => []Inv
  BY KeysSafe
<1> HIDE DEF Inv
<1> QED
  BY <1>1, <1>2, <1>3, <1>4, <1>5, PTL DEF Spec

-----------------------------------------------------------------------------
(* What a step does to what process q knows of a sub_key, or will hear of, *)
(* unless q is about to create or to stop its task.                        *)

Sets(k) == {SetInfo(k, info) : info \in Infos}

\* A message may be added, or overtaken; what is known only changes when a lookup
\* ends.
Stays(q, k) ==
    /\ \/ inbox'[q] = inbox[q]
       \/ \E i \in 1..(Len(inbox[q]) - 1) :
             /\ inbox'[q] = Swapped(inbox[q], i)
             /\ inbox[q][i].key = k /\ inbox[q][i + 1].key = k => overtaken'[k] # 0
       \/ \E m \in Messages : /\ inbox'[q] = Append(inbox[q], m) \/ inbox'[q] = <<m>> \o inbox[q]
                              /\ m \in Sets(k) => k \in RESTKeys \/ \E r \in Procs : SubscribeWSX(r, k)
                              /\ m = RemoveMsg(k) => DisconnectWSX(k)
    /\ \/ reg'[q][k] = reg[q][k] /\ (Asks(q, k)' => Asks(q, k) \/ reg[q][k] = Nobody)
       \/ Asks(q, k)

\* A message is handled.
Takes(q, k) ==
    /\ q \in up /\ inbox[q] # <<>> /\ inbox'[q] = Tail(inbox[q]) /\ ~Asks(q, k)'
    /\ Head(inbox[q]) = RemoveMsg(k) => reg'[q][k] = Nobody
    /\ \A info \in Infos : Head(inbox[q]) = SetInfo(k, info) => reg'[q][k] = info
    /\ Head(inbox[q]) # RemoveMsg(k) /\ Head(inbox[q]) \notin Sets(k) => reg'[q][k] = reg[q][k]

\* The process crashes, or starts.
Starts(q, k) ==
    /\ q \notin up \/ q \notin up'
    /\ reg'[q][k] = Nobody
    /\ ~In(RemoveMsg(k), inbox'[q]) /\ \A m \in Sets(k) : ~In(m, inbox'[q])

LEMMA StaysSame ==
    ASSUME NEW q, NEW k, inbox'[q] = inbox[q], reg'[q] = reg[q], look'[q] = look[q]
    PROVE  Stays(q, k)
BY DEF Stays, Asks, Locked, Idle

\* Somebody tells others of a message.
LEMMA StaysTold ==
    ASSUME Types, NEW q \in Procs, NEW k \in Keys, NEW boxes \in Boxes, boxes[q] = inbox[q],
           NEW m \in Messages, NEW to, inbox' = Broadcast(boxes, m, to),
           m \in Sets(k) => k \in RESTKeys \/ \E r \in Procs : SubscribeWSX(r, k),
           m = RemoveMsg(k) => DisconnectWSX(k),
           reg'[q][k] = reg[q][k], look'[q] = look[q]
    PROVE  Stays(q, k)
<1>1. inbox'[q] = inbox[q] \/ inbox'[q] = Append(inbox[q], m)
  <2>1. inbox'[q] = IF q \in to \cap up THEN Append(boxes[q], m) ELSE boxes[q]
    BY BroadcastBoxes
  <2> QED
    BY <2>1
<1>2. Asks(q, k)' => Asks(q, k)
  BY DEF Asks, Locked, Idle
<1> QED
  BY <1>1, <1>2 DEF Stays

\* Which messages about WebSockets are which.
LEMMA WSXMessages ==
    ASSUME NEW k \in Keys, NEW j, NEW s, NEW i
    PROVE  /\ CreateMsg(j) \notin Sets(k) /\ CreateMsg(j) # RemoveMsg(k)
           /\ DeleteMsg(j) \notin Sets(k) /\ DeleteMsg(j) # RemoveMsg(k)
           /\ StoppingMsg(j) \notin Sets(k) /\ StoppingMsg(j) # RemoveMsg(k)
           /\ ChangeMsg(j, s) \notin Sets(k) /\ ChangeMsg(j, s) # RemoveMsg(k)
           /\ RemoveMsg(j) \notin Sets(k) /\ (RemoveMsg(j) = RemoveMsg(k) => j = k)
           /\ SetInfo(j, i) # RemoveMsg(k) /\ (SetInfo(j, i) \in Sets(k) => j = k)
BY DEF Sets, CreateMsg, DeleteMsg, StoppingMsg, ChangeMsg, RemoveMsg, SetInfo

LEMMA HandleAt ==
    ASSUME Types, NEW k \in Keys, NEW q \in Procs, NEW p \in Procs, Handle(p),
           ~In(CreateMsg(k), inbox[q]), ~In(StoppingMsg(k), inbox[q])
    PROVE  Stays(q, k) \/ Takes(q, k)
<1> DEFINE h == Head(inbox[p])
<1>1. /\ p \in up /\ ~Locked(p) /\ inbox[p] # <<>> /\ look' = look
  BY DEF Handle, CreateSubscription, Unsubscribe, SubKeyServerSet, WSXClientSubKeyServerRemove,
         DeliveryServerChange, LateStopping, Receives
<1>2. inbox \in Boxes /\ reg \in [Procs -> [Keys -> Infos \cup {Nobody}]]
  BY DEF Types, TypeOK, Boxes
<1>3. h \in Messages /\ In(h, inbox[p])
  BY <1>1, <1>2, ReceivedBoxes, Taken
<1>4. /\ h.key \in Keys
      /\ h.type = "create" => h = CreateMsg(h.key) /\ h.key \in RESTKeys
      /\ h.type = "stopping" => h = StoppingMsg(h.key) /\ h.key \in RESTKeys
      /\ h.type = "remove" => h = RemoveMsg(h.key) /\ h.key \in WSXKeys
      /\ h.type = "delete" => h = DeleteMsg(h.key)
      /\ h.type = "set" => h.info \in Infos /\ h = SetInfo(h.key, h.info)
      /\ h.type = "change" => h = ChangeMsg(h.key, h.new) /\ h.new \in Servers
  BY <1>3, MessageTypes DEF SetInfo
<1>5. Head(inbox[p]) = h
  OBVIOUS
<1> HIDE DEF h
<1>6. /\ Received(p) \in Boxes /\ Received(p)[p] = Tail(inbox[p])
      /\ (q # p => Received(p)[q] = inbox[q])
  BY <1>1, <1>2, ReceivedBoxes
<1>7. \A r \in Procs, j \in Keys : (r # p \/ j # h.key) => reg'[r][j] = reg[r][j]
  <2>1. \/ reg' = reg
        \/ \E i : reg' = [reg EXCEPT ![p][h.key] = i]
    BY <1>5 DEF Handle, CreateSubscription, CreateDeliveryTask, Unsubscribe, SubKeyServerSet,
           WSXClientSubKeyServerRemove, DeliveryServerChange, LateStopping
  <2> QED
    BY <1>2, <2>1
<1>8. \/ inbox' = Received(p)
      \/ h.type = "create" /\ inbox' = Broadcast(Received(p), SetMsg(h.key, p), Others(p))
  BY <1>5 DEF Handle, CreateSubscription, CreateDeliveryTask, Unsubscribe, SubKeyServerSet,
         WSXClientSubKeyServerRemove, DeliveryServerChange, LateStopping, Receives
<1>9. SetMsg(h.key, p) = SetInfo(h.key, Info(p)) /\ SetMsg(h.key, p) \in Messages
  BY <1>4, InfoType DEF SetMsg, SetInfo, Messages
<1>10. CASE q # p
  <2>1. reg'[q][k] = reg[q][k]
    BY <1>7, <1>10
  <2>2. CASE inbox' = Received(p)
    <3>1. inbox'[q] = inbox[q] /\ look'[q] = look[q]
      BY <1>1, <1>6, <1>10, <2>2
    <3> QED
      BY <2>1, <3>1 DEF Stays, Asks, Locked, Idle
  <2>3. CASE h.type = "create" /\ inbox' = Broadcast(Received(p), SetMsg(h.key, p), Others(p))
    <3>1. SetMsg(h.key, p) \in Sets(k) => k \in RESTKeys
      BY <1>4, <1>9, <2>3, WSXMessages
    <3>2. SetMsg(h.key, p) # RemoveMsg(k)
      BY <1>9, WSXMessages
    <3>3. Received(p)[q] = inbox[q] /\ look'[q] = look[q]
      BY <1>1, <1>6, <1>10
    <3> QED
      BY <1>6, <1>9, <2>1, <2>3, <3>1, <3>2, <3>3, StaysTold
  <2> QED
    BY <1>8, <2>2, <2>3
<1>11. CASE q = p
  <2>1. inbox'[p] = Tail(inbox[p])
    <3>1. CASE inbox' = Received(p)
      BY <1>6, <3>1
    <3>2. CASE inbox' = Broadcast(Received(p), SetMsg(h.key, p), Others(p))
      <4>1. inbox'[p] = IF p \in Others(p) \cap up THEN Append(Received(p)[p], SetMsg(h.key, p))
                        ELSE Received(p)[p]
        BY <1>6, <1>9, <3>2, BroadcastBoxes
      <4>2. p \notin Others(p)
        BY DEF Others
      <4> QED
        BY <1>6, <4>1, <4>2
    <3> QED
      BY <1>8, <3>1, <3>2
  <2>2. ~Asks(p, k)'
    BY <1>1 DEF Asks, Locked, Idle
  <2>3. h # CreateMsg(k) /\ h # StoppingMsg(k)
    BY <1>3, <1>11
  <2>4. h = RemoveMsg(k) => reg'[p][k] = Nobody
    <3> SUFFICES ASSUME h = RemoveMsg(k) PROVE reg'[p][k] = Nobody
      OBVIOUS
    <3>1. h.type = "remove" /\ h.key = k
      BY DEF RemoveMsg
    <3>2. WSXClientSubKeyServerRemove(p)
      BY <1>5, <3>1 DEF Handle, CreateSubscription, Unsubscribe, SubKeyServerSet,
             DeliveryServerChange, LateStopping, Receives
    <3> QED
      BY <1>2, <1>5, <3>1, <3>2 DEF WSXClientSubKeyServerRemove
  <2>5. ASSUME NEW info \in Infos, h = SetInfo(k, info) PROVE reg'[p][k] = info
    <3>1. h.type = "set" /\ h.key = k /\ h.info = info
      BY <2>5 DEF SetInfo
    <3>2. SubKeyServerSet(p)
      BY <1>5, <3>1 DEF Handle, CreateSubscription, Unsubscribe, WSXClientSubKeyServerRemove,
             DeliveryServerChange, LateStopping, Receives
    <3> QED
      BY <1>2, <1>5, <3>1, <3>2 DEF SubKeyServerSet
  <2>6. ASSUME h # RemoveMsg(k), h \notin Sets(k) PROVE reg'[p][k] = reg[p][k]
    <3>1. CASE h.key # k
      BY <1>7, <3>1
    <3>2. CASE h.key = k
      <4>1. h.type \notin {"create", "stopping", "remove", "set"}
        BY <1>4, <2>3, <2>6, <3>2 DEF Sets
      <4> QED
        BY <1>5, <4>1 DEF Handle, CreateSubscription, Unsubscribe, SubKeyServerSet,
               WSXClientSubKeyServerRemove, DeliveryServerChange, LateStopping, Receives
    <3> QED
      BY <3>1, <3>2
  <2> QED
    BY <1>1, <1>5, <1>11, <2>1, <2>2, <2>4, <2>5, <2>6 DEF Takes
<1> QED
  BY <1>10, <1>11

LEMMA OvertakeAt ==
    ASSUME Types, NEW k \in Keys, NEW q \in Procs, NEW p \in Procs, NEW i, Overtake(p, i)
    PROVE  Stays(q, k)
<1>1. inbox \in Boxes
  BY DEF Types, TypeOK, Boxes
<1>2. /\ i \in 1..(Len(inbox[p]) - 1) /\ inbox'[p] = Swapped(inbox[p], i)
      /\ q # p => inbox'[q] = inbox[q]
      /\ reg' = reg /\ look' = look
  BY <1>1, OvertakeBoxes
<1>3. CASE q # p
  BY <1>2, <1>3, StaysSame
<1>4. CASE q = p
  <2>1. inbox[p][i].key = k /\ inbox[p][i + 1].key = k => overtaken'[k] # 0
    <3> SUFFICES ASSUME inbox[p][i].key = k, inbox[p][i + 1].key = k PROVE overtaken'[k] # 0
      OBVIOUS
    <3>1. overtaken' = [overtaken EXCEPT ![k] = @ + 1]
      BY DEF Overtake
    <3>2. overtaken \in [Keys -> 0..MaxOvertaken] /\ MaxOvertaken \in Nat
      BY RegistryAssumption DEF Types, TypeOK
    <3> QED
      BY <3>1, <3>2
  <2>2. Asks(q, k)' => Asks(q, k)
    BY <1>2 DEF Asks, Locked, Idle
  <2> QED
    BY <1>2, <1>4, <2>1, <2>2 DEF Stays
<1> QED
  BY <1>3, <1>4

LEMMA StepAt ==
    ASSUME Types, Asleep, [Next]_vars, NEW k \in Keys, NEW q \in Procs,
           ~In(CreateMsg(k), inbox[q]), ~In(StoppingMsg(k), inbox[q]), Migrating(k) = {}
    PROVE  Stays(q, k) \/ Takes(q, k) \/ Starts(q, k)
<1>a. inbox \in Boxes /\ reg \in [Procs -> [Keys -> Infos \cup {Nobody}]]
      /\ look \in [Procs -> Lookups \cup {Idle}]
  BY DEF Types, TypeOK, Boxes, Lookups
<1>1. CASE UNCHANGED vars
  BY <1>1, StaysSame DEF vars
<1>2. ASSUME NEW j \in RESTKeys, NEW s \in Servers, Subscribe(j, s) PROVE Stays(q, k)
  <2>1. CreateMsg(j) \in Messages /\ CreateMsg(j) \notin Sets(k) /\ CreateMsg(j) # RemoveMsg(k)
    BY AboutKey, WSXMessages
  <2>2. inbox' = Broadcast(inbox, CreateMsg(j), Workers(s)) /\ reg' = reg /\ look' = look
    BY <1>2 DEF Subscribe
  <2> QED
    BY <1>a, <2>1, <2>2, StaysTold
<1>3. ASSUME NEW j \in RESTKeys, NEW s \in Servers, ChangeServer(j, s) PROVE Stays(q, k)
  <2>1. ChangeMsg(j, s) \in Messages /\ ChangeMsg(j, s) \notin Sets(k) /\ ChangeMsg(j, s) # RemoveMsg(k)
    BY AboutKey, WSXMessages
  <2>2. inbox' = Broadcast(inbox, ChangeMsg(j, s), Workers(odb[j])) /\ reg' = reg /\ look' = look
    BY <1>3 DEF ChangeServer
  <2> QED
    BY <1>a, <2>1, <2>2, StaysTold
<1>4. ASSUME NEW p \in Procs, NEW j \in Keys, SubscribeWSX(p, j) PROVE Stays(q, k)
  <2>1. SetMsg(j, p) \in Messages /\ SetMsg(j, p) = SetInfo(j, Info(p))
    BY InfoType DEF SetMsg, SetInfo, Messages
  <2>2. SetMsg(j, p) # RemoveMsg(k) /\ (SetMsg(j, p) \in Sets(k) => SubscribeWSX(p, k))
    BY <1>4, <2>1, WSXMessages
  <2>3. inbox' = Broadcast(inbox, SetMsg(j, p), Others(p)) /\ reg' = reg /\ look' = look
    BY <1>4 DEF SubscribeWSX
  <2>4. SetMsg(j, p) \in Sets(k) => \E r \in Procs : SubscribeWSX(r, k)
    BY <2>2
  <2> QED
    BY <1>a, <2>1, <2>2, <2>3, <2>4, StaysTold
<1>5. ASSUME NEW p \in Procs, NEW j \in Keys, LookUp(p, j) PROVE Stays(q, k)
  <2>1. inbox' = inbox /\ reg' = reg /\ reg[p][j] = Nobody
    BY <1>5 DEF LookUp
  <2>2. q # p => look'[q] = look[q]
    BY <1>5, <1>a DEF LookUp
  <2>3. look'[p].key = j
    BY <1>5, <1>a DEF LookUp
  <2>4. CASE q # p
    BY <2>1, <2>2, <2>4, StaysSame
  <2>5. CASE q = p
    BY <2>1, <2>3, <2>5 DEF Stays, Asks
  <2> QED
    BY <2>4, <2>5
<1>6. ASSUME NEW j \in Keys, DisconnectWSX(j) PROVE Stays(q, k)
  <2>1. RemoveMsg(j) \in Messages
    BY <1>6 DEF RemoveMsg, Messages, DisconnectWSX
  <2>2. RemoveMsg(j) \notin Sets(k) /\ (RemoveMsg(j) = RemoveMsg(k) => DisconnectWSX(k))
    BY <1>6, WSXMessages
  <2>3. inbox' = Broadcast(inbox, RemoveMsg(j), Procs) /\ reg' = reg /\ look' = look
    BY <1>6 DEF DisconnectWSX
  <2> QED
    BY <1>a, <2>1, <2>2, <2>3, StaysTold
<1>7. ASSUME NEW j \in Keys, DeleteSubscription(j) PROVE Stays(q, k)
  <2>1. DeleteMsg(j) \in Messages
    BY DEF DeleteMsg, Messages
  <2>2. DeleteMsg(j) \notin Sets(k) /\ DeleteMsg(j) # RemoveMsg(k)
    BY WSXMessages
  <2>3. inbox' = Broadcast(inbox, DeleteMsg(j), Procs) /\ reg' = reg /\ look' = look
    BY <1>7 DEF DeleteSubscription
  <2> QED
    BY <1>a, <2>1, <2>2, <2>3, StaysTold
<1>8. ASSUME NEW p \in Procs, Handle(p) PROVE Stays(q, k) \/ Takes(q, k)
  BY <1>8, HandleAt
<1>9. ASSUME NEW p \in Procs, Lookup(p) PROVE Stays(q, k)
  <2>1. inbox' = inbox
    BY <1>9 DEF Lookup, GetServerPID, SetMissing
  <2>2. CASE q # p
    <3>1. reg'[q] = reg[q] /\ look'[q] = look[q]
      BY <1>9, <1>a, <2>2 DEF Lookup, GetServerPID, SetMissing
    <3> QED
      BY <2>1, <3>1, StaysSame
  <2>3. CASE q = p /\ GetServerPID(p)
    <3>1. reg' = reg
      BY <2>3 DEF GetServerPID
    <3>2. look[p] \in Lookups /\ Locked(p)
      BY <1>a, <2>3 DEF GetServerPID, Locked
    <3>3. look'[p].key = look[p].key
      BY <1>a, <2>3, <3>2 DEF GetServerPID, Lookups
    <3> QED
      BY <2>1, <2>3, <3>1, <3>2, <3>3 DEF Stays, Asks
  <2>4. CASE q = p /\ SetMissing(p)
    <3>1. look'[p] = Idle /\ Locked(p)
      BY <1>a, <2>4 DEF SetMissing
    <3>2. look[p].key # k => reg'[p][k] = reg[p][k]
      BY <1>a, <2>4 DEF SetMissing
    <3>3. ~Asks(p, k)'
      BY <3>1 DEF Asks, Locked, Idle
    <3> QED
      BY <2>1, <2>4, <3>1, <3>2, <3>3 DEF Stays, Asks
  <2> QED
    BY <1>9, <2>2, <2>3, <2>4 DEF Lookup
<1>10. ASSUME NEW m \in migs, Migration(m) PROVE Stays(q, k)
  <2>0. m.key # k /\ m \in Migs /\ look' = look
    BY <1>10 DEF Migrating, Types, TypeOK, Migs, Migration, NotifyStopping, StartTask, GiveUp, StopTask,
                 StartFailed
  <2>1. ASSUME NEW p \in Procs, NotifyStopping(m, p) PROVE Stays(q, k)
    <3>1. reg'[q][k] = reg[q][k]
      BY <1>a, <2>0, <2>1 DEF NotifyStopping
    <3>2. StoppingMsg(m.key) \in Messages /\ StoppingMsg(m.key) \notin Sets(k)
          /\ StoppingMsg(m.key) # RemoveMsg(k)
      BY <2>0, AboutKey, WSXMessages DEF Migs
    <3>3. inbox'[q] = inbox[q] \/ inbox'[q] = <<StoppingMsg(m.key)>> \o inbox[q]
      BY <1>a, <2>1 DEF NotifyStopping, Boxes
    <3>4. Asks(q, k)' => Asks(q, k)
      BY <2>0 DEF Asks, Locked, Idle
    <3> QED
      BY <3>1, <3>2, <3>3, <3>4 DEF Stays
  <2>2. ASSUME NEW p \in Procs, StartTask(m, p) PROVE Stays(q, k)
    <3>1. reg'[q][k] = reg[q][k] /\ inbox' = Broadcast(inbox, SetMsg(m.key, p), Others(p))
      BY <1>a, <2>0, <2>2 DEF StartTask, CreateDeliveryTask
    <3>2. SetMsg(m.key, p) \in Messages /\ SetMsg(m.key, p) = SetInfo(m.key, Info(p))
      BY <2>0, InfoType DEF SetMsg, SetInfo, Messages, Migs, Keys
    <3>3. SetMsg(m.key, p) \notin Sets(k) /\ SetMsg(m.key, p) # RemoveMsg(k)
      BY <2>0, <3>2, WSXMessages
    <3> QED
      BY <1>a, <2>0, <3>1, <3>2, <3>3, StaysTold
  <2>3. CASE GiveUp(m) \/ StopTask(m) \/ StartFailed(m)
    BY <2>0, <2>3, StaysSame DEF GiveUp, StopTask, StartFailed
  <2> QED
    BY <1>10, <2>1, <2>2, <2>3 DEF Migration
<1>11. ASSUME NEW p \in Procs, Boot(p) PROVE Stays(q, k) \/ Starts(q, k)
  <2>1. CASE q # p
    <3>1. inbox'[q] = inbox[q] /\ reg'[q] = reg[q] /\ look'[q] = look[q]
      BY <1>11, <1>a, <2>1 DEF Boot, Boxes
    <3> QED
      BY <3>1, StaysSame
  <2>2. CASE q = p
    <3> DEFINE S == {CreateMsg(j) : j \in {x \in RESTKeys \ deleted : odb[x] = ServerOf[p]}}
    <3>1. \A x : In(x, SetToSeq(S)) => x \in S
      BY BootBox
    <3>2. inbox'[p] = SetToSeq(S)
      BY <1>11, <1>a DEF Boot, Boxes
    <3>3. \A x \in S : x \notin Sets(k) /\ x # RemoveMsg(k)
      BY WSXMessages
    <3> HIDE DEF S
    <3>4. p \notin up /\ reg'[p][k] = Nobody
      BY <1>11 DEF Boot, Asleep
    <3> QED
      BY <2>2, <3>1, <3>2, <3>3, <3>4 DEF Starts
  <2> QED
    BY <2>1, <2>2
<1>12. ASSUME NEW s \in Servers, Crash(s) PROVE Stays(q, k) \/ Starts(q, k)
  <2>1. CASE q \in Workers(s)
    <3>1. q \notin up' /\ reg'[q][k] = Nobody /\ inbox'[q] = <<>>
      BY <1>12, <2>1 DEF Crash
    <3> QED
      BY <3>1 DEF Starts, In
  <2>2. CASE q \notin Workers(s)
    <3>1. inbox'[q] = inbox[q] /\ reg'[q] = reg[q] /\ look'[q] = look[q]
      BY <1>12, <2>2 DEF Crash
    <3> QED
      BY <3>1, StaysSame
  <2> QED
    BY <2>1, <2>2
<1>13. ASSUME NEW p \in Procs, NEW i, Overtake(p, i) PROVE Stays(q, k)
  BY <1>13, OvertakeAt
<1> QED
  BY <1>1, <1>2, <1>3, <1>4, <1>5, <1>6, <1>7, <1>8, <1>9, <1>10, <1>11, <1>12, <1>13 DEF Next

\* What Stays and Takes do to lists of messages.
LEMMA StaysLists ==
    ASSUME Types, NEW q \in Procs, NEW k \in Keys, Stays(q, k)
    PROVE  /\ \A x : In(x, inbox[q]) => In(x, inbox'[q])
           /\ \A x \in Sets(k) : In(x, inbox'[q]) /\ ~In(x, inbox[q]) =>
                 k \in RESTKeys \/ \E r \in Procs : SubscribeWSX(r, k)
           /\ In(RemoveMsg(k), inbox'[q]) => In(RemoveMsg(k), inbox[q]) \/ DisconnectWSX(k)
<1>1. inbox[q] \in Seq(Messages)
  BY DEF Types, TypeOK
<1>2. CASE inbox'[q] = inbox[q]
  BY <1>2
<1>3. ASSUME NEW m \in Messages, inbox'[q] = Append(inbox[q], m) \/ inbox'[q] = <<m>> \o inbox[q]
      PROVE  \A x : In(x, inbox'[q]) <=> In(x, inbox[q]) \/ x = m
  <2>1. /\ \A x : In(x, Append(inbox[q], m)) <=> In(x, inbox[q]) \/ x = m
        /\ \A x : In(x, <<m>> \o inbox[q]) <=> In(x, inbox[q]) \/ x = m
    BY <1>1, AppendElements, ConsElements
  <2> QED
    BY <1>3, <2>1
<1>4. ASSUME NEW i \in 1..(Len(inbox[q]) - 1), inbox'[q] = Swapped(inbox[q], i)
      PROVE  \A x : In(x, inbox'[q]) <=> In(x, inbox[q])
  BY <1>1, <1>4, SwappedElements
<1>5. CASE /\ inbox'[q] # inbox[q]
           /\ \A i \in 1..(Len(inbox[q]) - 1) : inbox'[q] # Swapped(inbox[q], i)
  <2>1. PICK m \in Messages :
           /\ inbox'[q] = Append(inbox[q], m) \/ inbox'[q] = <<m>> \o inbox[q]
           /\ m \in Sets(k) => k \in RESTKeys \/ \E r \in Procs : SubscribeWSX(r, k)
           /\ m = RemoveMsg(k) => DisconnectWSX(k)
    BY <1>5 DEF Stays
  <2>2. \A x : In(x, inbox'[q]) <=> In(x, inbox[q]) \/ x = m
    BY <1>3, <2>1
  <2> QED
    BY <2>1, <2>2
<1> QED
  BY <1>2, <1>4, <1>5

LEMMA TakesLists ==
    ASSUME Types, NEW q \in Procs, NEW k \in Keys, Takes(q, k)
    PROVE  /\ In(Head(inbox[q]), inbox[q])
           /\ \A x : In(x, inbox'[q]) => In(x, inbox[q])
           /\ \A x : In(x, inbox[q]) /\ x # Head(inbox[q]) => In(x, inbox'[q])
<1>1. inbox[q] \in Seq(Messages) /\ inbox[q] # <<>> /\ inbox'[q] = Tail(inbox[q])
  BY DEF Types, TypeOK, Takes
<1>2. /\ In(Head(inbox[q]), inbox[q])
      /\ \A x : In(x, Tail(inbox[q])) => In(x, inbox[q])
      /\ \A x : In(x, inbox[q]) /\ x # Head(inbox[q]) => In(x, Tail(inbox[q]))
  BY <1>1, TailElements
<1> QED
  BY <1>1, <1>2

-----------------------------------------------------------------------------
(* What is known of WebSockets.                                            *)

\* All that process p knows, or will hear, of a sub_key is in set I.
News(p, k, I) ==
    /\ reg[p][k] = Nobody \/ reg[p][k] \in I
    /\ \A info \in Infos : In(SetInfo(k, info), inbox[p]) => info \in I

\* Process p is going to forget all it knows, and will hear, of a sub_key.
Forgets(p, k) == After(RemoveMsg(k), Sets(k), inbox[p])

\* Processes that are down, and processes before they were restarted.
Old == {info \in Infos : \E c \in Procs, n \in Nat :
           /\ info = [server |-> ServerOf[c], pid |-> <<BasePid[c], n>>]
           /\ n <= boot[c] /\ (c \in up => n < boot[c])}

\* The start of a WebSocket's life, the time it is connected to a process, and the
\* time after it, if none of its messages was overtaken.
Socket(k) ==
    /\ client[k] = Nobody => \A p \in Procs : News(p, k, {}) /\ ~In(RemoveMsg(k), inbox[p])
    /\ client[k] \in Procs =>
          /\ client[k] \in up
          /\ \A p \in Procs : News(p, k, {Info(client[k])}) /\ ~In(RemoveMsg(k), inbox[p])
    /\ client[k] = Gone /\ overtaken[k] = 0 =>
          \A p \in Procs : Forgets(p, k) \/ News(p, k, Old)

\* Sub_keys of WebSockets are never created, stopped or migrated by these messages.
LEMMA SocketMessages ==
    ASSUME Types, NEW k \in WSXKeys, NEW p \in Procs
    PROVE  ~In(CreateMsg(k), inbox[p]) /\ ~In(StoppingMsg(k), inbox[p]) /\ Migrating(k) = {} /\ k \in Keys
           /\ k \notin RESTKeys
<1>1. k \notin RESTKeys
  BY RegistryAssumption
<1>2. \A i \in 1..Len(inbox[p]) : inbox[p][i] \in Messages
  BY DEF Types, TypeOK
<1>3. CreateMsg(k) \notin Messages /\ StoppingMsg(k) \notin Messages
  BY <1>1 DEF CreateMsg, StoppingMsg, Messages
<1>4. Migrating(k) = {}
  BY <1>1 DEF Migrating, Types, TypeOK
<1> QED
  BY <1>1, <1>2, <1>3, <1>4 DEF In, Keys

LEMMA NewsKept ==
    ASSUME Types, Asleep, [Next]_vars, NEW k \in WSXKeys, NEW p \in Procs, NEW I, News(p, k, I),
           \A r \in Procs : ~SubscribeWSX(r, k)
    PROVE  News(p, k, I)'
<1>1. /\ ~In(CreateMsg(k), inbox[p]) /\ ~In(StoppingMsg(k), inbox[p]) /\ Migrating(k) = {} /\ k \in Keys
      /\ k \notin RESTKeys
  BY SocketMessages
<1>2. Stays(p, k) \/ Takes(p, k) \/ Starts(p, k)
  BY <1>1, StepAt
<1>3. \A info \in Infos : SetInfo(k, info) \in Sets(k) /\ SetInfo(k, info) # RemoveMsg(k)
  BY <1>1, WSXMessages DEF Sets
<1>4. ~Asks(p, k)
  BY <1>1 DEF Asks, Locked, Types, TypeOK
<1> SUFFICES /\ reg'[p][k] = Nobody \/ reg'[p][k] \in I
             /\ \A info \in Infos : In(SetInfo(k, info), inbox'[p]) => info \in I
  BY DEF News, SetInfo
<1>5. CASE Stays(p, k)
  <2>1. reg'[p][k] = reg[p][k]
    BY <1>4, <1>5 DEF Stays
  <2>2. \A info \in Infos : In(SetInfo(k, info), inbox'[p]) => In(SetInfo(k, info), inbox[p])
    BY <1>1, <1>3, <1>5, StaysLists
  <2> QED
    BY <2>1, <2>2 DEF News
<1>6. CASE Takes(p, k)
  <2>1. In(Head(inbox[p]), inbox[p]) /\ \A x : In(x, inbox'[p]) => In(x, inbox[p])
    BY <1>1, <1>6, TakesLists
  <2>2. CASE Head(inbox[p]) = RemoveMsg(k)
    BY <1>6, <2>1, <2>2 DEF Takes, News
  <2>3. CASE Head(inbox[p]) \in Sets(k)
    <3>1. PICK info \in Infos : Head(inbox[p]) = SetInfo(k, info)
      BY <2>3 DEF Sets
    <3>2. reg'[p][k] = info /\ info \in I
      BY <1>6, <2>1, <3>1 DEF Takes, News
    <3> QED
      BY <2>1, <3>2 DEF News
  <2>4. CASE Head(inbox[p]) # RemoveMsg(k) /\ Head(inbox[p]) \notin Sets(k)
    BY <1>6, <2>1, <2>4 DEF Takes, News
  <2> QED
    BY <2>2, <2>3, <2>4
<1>7. CASE Starts(p, k)
  BY <1>3, <1>7 DEF Starts
<1> QED
  BY <1>2, <1>5, <1>6, <1>7

LEMMA RemoveKept ==
    ASSUME Types, Asleep, [Next]_vars, NEW k \in WSXKeys, NEW p \in Procs, ~In(RemoveMsg(k), inbox[p]),
           ~DisconnectWSX(k)
    PROVE  ~In(RemoveMsg(k), inbox'[p])
<1>1. /\ ~In(CreateMsg(k), inbox[p]) /\ ~In(StoppingMsg(k), inbox[p]) /\ Migrating(k) = {} /\ k \in Keys
  BY SocketMessages
<1>2. Stays(p, k) \/ Takes(p, k) \/ Starts(p, k)
  BY <1>1, StepAt
<1>3. CASE Stays(p, k)
  BY <1>1, <1>3, StaysLists
<1>4. CASE Takes(p, k)
  BY <1>1, <1>4, TakesLists
<1>5. CASE Starts(p, k)
  BY <1>5 DEF Starts
<1> QED
  BY <1>2, <1>3, <1>4, <1>5

LEMMA ForgetsKept ==
    ASSUME Types, Asleep, [Next]_vars, NEW k \in WSXKeys, NEW p \in Procs, Forgets(p, k),
           \A r \in Procs : ~SubscribeWSX(r, k), overtaken'[k] = 0
    PROVE  Forgets(p, k)' \/ News(p, k, {})'
<1>1. /\ ~In(CreateMsg(k), inbox[p]) /\ ~In(StoppingMsg(k), inbox[p]) /\ Migrating(k) = {} /\ k \in Keys
      /\ k \notin RESTKeys
  BY SocketMessages
<1>2. Stays(p, k) \/ Takes(p, k) \/ Starts(p, k)
  BY <1>1, StepAt
<1>3. \A info \in Infos : SetInfo(k, info) \in Sets(k)
  BY DEF Sets
<1>4. inbox[p] \in Seq(Messages)
  BY DEF Types, TypeOK
<1> SUFFICES \/ After(RemoveMsg(k), Sets(k), inbox'[p])
             \/ reg'[p][k] = Nobody /\ \A info \in Infos : ~In(SetInfo(k, info), inbox'[p])
  BY DEF Forgets, News, SetInfo, Sets, RemoveMsg
<1>5. CASE Stays(p, k)
  <2>1. CASE inbox'[p] = inbox[p]
    BY <2>1 DEF Forgets
  <2>2. ASSUME NEW i \in 1..(Len(inbox[p]) - 1), inbox'[p] = Swapped(inbox[p], i),
               ~(inbox[p][i].key = k /\ inbox[p][i + 1].key = k)
        PROVE  After(RemoveMsg(k), Sets(k), inbox'[p])
    <3>1. inbox[p][i] \notin Sets(k) \/ inbox[p][i + 1] # RemoveMsg(k)
      BY <2>2 DEF Sets, SetInfo, RemoveMsg
    <3> QED
      BY <1>4, <2>2, <3>1, SwappedElements DEF Forgets
  <2>3. ASSUME NEW m \in Messages, inbox'[p] = Append(inbox[p], m) \/ inbox'[p] = <<m>> \o inbox[p],
               m \notin Sets(k)
        PROVE  After(RemoveMsg(k), Sets(k), inbox'[p])
    <3>1. After(RemoveMsg(k), Sets(k), Append(inbox[p], m))
      BY <1>4, <2>3, AfterAppend DEF Forgets
    <3>2. After(RemoveMsg(k), Sets(k), <<m>> \o inbox[p])
      BY <1>4, AfterCons DEF Forgets
    <3> QED
      BY <2>3, <3>1, <3>2
  <2> QED
    BY <1>1, <1>5, <2>1, <2>2, <2>3 DEF Stays
<1>6. CASE Takes(p, k)
  <2>1. inbox[p] # <<>> /\ inbox'[p] = Tail(inbox[p])
    BY <1>6 DEF Takes
  <2>2. \/ After(RemoveMsg(k), Sets(k), Tail(inbox[p]))
        \/ Head(inbox[p]) = RemoveMsg(k) /\ \A y \in Sets(k) : ~In(y, Tail(inbox[p]))
    BY <1>4, <2>1, AfterTail DEF Forgets
  <2>3. CASE After(RemoveMsg(k), Sets(k), Tail(inbox[p]))
    BY <2>1, <2>3
  <2>4. CASE Head(inbox[p]) = RemoveMsg(k) /\ \A y \in Sets(k) : ~In(y, Tail(inbox[p]))
    <3>1. reg'[p][k] = Nobody
      BY <1>6, <2>4 DEF Takes
    <3>2. \A y \in Sets(k) : ~In(y, inbox'[p])
      BY <2>1, <2>4
    <3> QED
      BY <1>3, <3>1, <3>2
  <2> QED
    BY <2>2, <2>3, <2>4
<1>7. CASE Starts(p, k)
  BY <1>3, <1>7 DEF Starts
<1> QED
  BY <1>2, <1>5, <1>6, <1>7

\* A process that is up has not been restarted by this step.
LEMMA Boots ==
    ASSUME Types, [Next]_vars
    PROVE  \A c \in Procs : /\ boot'[c] \in Nat /\ boot[c] <= boot'[c]
                            /\ c \in up' /\ c \notin up => boot[c] < boot'[c]
                            /\ c \in up => boot'[c] = boot[c]
<1>a. boot \in [Procs -> 0..MaxCrashes] /\ up \subseteq Procs
  BY DEF Types, TypeOK
<1>1. \/ up' = up /\ boot' = boot
      \/ \E p \in Procs : Boot(p)
      \/ up' \subseteq up /\ boot' = boot
  <2>1. ASSUME NEW m \in migs, Migration(m) PROVE up' = up /\ boot' = boot
    BY <2>1 DEF Migration, NotifyStopping, StartTask, GiveUp, StopTask, StartFailed, procs
  <2>2. ASSUME NEW p \in Procs, Handle(p) \/ Lookup(p) PROVE up' = up /\ boot' = boot
    BY <2>2 DEF Handle, CreateSubscription, Unsubscribe, SubKeyServerSet, WSXClientSubKeyServerRemove,
                DeliveryServerChange, LateStopping, Lookup, GetServerPID, SetMissing, procs
  <2>3. ASSUME NEW k, NEW s, Subscribe(k, s) \/ ChangeServer(k, s) PROVE up' = up /\ boot' = boot
    BY <2>3 DEF Subscribe, ChangeServer, procs
  <2>4. ASSUME NEW k, NEW p, SubscribeWSX(p, k) \/ LookUp(p, k) PROVE up' = up /\ boot' = boot
    BY <2>4 DEF SubscribeWSX, LookUp, procs
  <2>5. ASSUME NEW k, DisconnectWSX(k) \/ DeleteSubscription(k) PROVE up' = up /\ boot' = boot
    BY <2>5 DEF DisconnectWSX, DeleteSubscription, procs
  <2>6. ASSUME NEW s, Crash(s) PROVE up' \subseteq up /\ boot' = boot
    BY <2>6 DEF Crash
  <2>7. CASE UNCHANGED vars
    BY <2>7 DEF vars, procs
  <2>8. ASSUME NEW p, NEW i, Overtake(p, i) PROVE up' = up /\ boot' = boot
    BY <2>8 DEF Overtake, procs
  <2> QED
    BY <2>1, <2>2, <2>3, <2>4, <2>5, <2>6, <2>7, <2>8 DEF Next
<1>2. \A c \in Procs : /\ boot'[c] \in Nat /\ boot[c] <= boot'[c]
                       /\ c \in up' /\ c \notin up => boot[c] < boot'[c]
                       /\ c \in up => boot'[c] = boot[c]
  <2>1. CASE boot' = boot /\ up' \subseteq up
    BY <1>a, <2>1, RegistryAssumption
  <2>2. ASSUME NEW p \in Procs, Boot(p)
        PROVE  \A c \in Procs : /\ boot'[c] \in Nat /\ boot[c] <= boot'[c]
                                /\ c \in up' /\ c \notin up => boot[c] < boot'[c]
                                /\ c \in up => boot'[c] = boot[c]
    <3>1. /\ p \notin up /\ up' = up \cup {p} /\ boot' = [boot EXCEPT ![p] = @ + 1]
      BY <2>2 DEF Boot
    <3> QED
      BY <1>a, <3>1, RegistryAssumption
  <2> QED
    BY <1>1, <2>1, <2>2
<1> QED
  BY <1>2

\* Overtakings are counted.
LEMMA OvertakenGrows ==
    ASSUME Types, [Next]_vars, NEW k \in Keys, overtaken'[k] = 0
    PROVE  overtaken[k] = 0
<1>1. CASE overtaken' = overtaken
  BY <1>1
<1>2. ASSUME NEW p, NEW i, Overtake(p, i) PROVE overtaken[k] = 0
  <2>1. overtaken' = overtaken \/ \E j : overtaken' = [overtaken EXCEPT ![j] = @ + 1]
    BY <1>2 DEF Overtake
  <2>2. overtaken \in [Keys -> 0..MaxOvertaken] /\ MaxOvertaken \in Nat
    BY RegistryAssumption DEF Types, TypeOK
  <2> QED
    BY <2>1, <2>2
<1>3. CASE UNCHANGED vars
  BY <1>1, <1>3 DEF vars, aux
<1>4. ASSUME NEW p \in Procs, Handle(p) \/ Lookup(p) \/ Boot(p) PROVE overtaken[k] = 0
  BY <1>1, <1>4 DEF Handle, CreateSubscription, Unsubscribe, SubKeyServerSet, WSXClientSubKeyServerRemove,
         DeliveryServerChange, LateStopping, Lookup, GetServerPID, SetMissing, Boot, aux
<1>5. ASSUME NEW m \in migs, Migration(m) PROVE overtaken[k] = 0
  BY <1>1, <1>5 DEF Migration, NotifyStopping, StartTask, GiveUp, StopTask, StartFailed, aux
<1>6. ASSUME NEW j, NEW s, Subscribe(j, s) \/ ChangeServer(j, s) PROVE overtaken[k] = 0
  BY <1>1, <1>6 DEF Subscribe, ChangeServer, aux
<1>7. ASSUME NEW j, NEW p, SubscribeWSX(p, j) \/ LookUp(p, j) PROVE overtaken[k] = 0
  BY <1>1, <1>7 DEF SubscribeWSX, LookUp, aux
<1>8. ASSUME NEW j, DisconnectWSX(j) \/ DeleteSubscription(j) PROVE overtaken[k] = 0
  BY <1>1, <1>8 DEF DisconnectWSX, DeleteSubscription, aux
<1>9. ASSUME NEW s, Crash(s) PROVE overtaken[k] = 0
  BY <1>1, <1>9 DEF Crash
<1> QED
  BY <1>2, <1>3, <1>4, <1>5, <1>6, <1>7, <1>8, <1>9 DEF Next

\* Who is old remains so.
LEMMA OldKept ==
    ASSUME Types, [Next]_vars
    PROVE  /\ Old \subseteq Old'
           /\ \A c \in up : c \in up' => Info(c)' = Info(c)
           /\ \A c \in up : c \notin up' => Info(c) \in Old'
<1>a. boot \in [Procs -> 0..MaxCrashes] /\ up \subseteq Procs
  BY DEF Types, TypeOK
<1>2. \A c \in Procs : /\ boot'[c] \in Nat /\ boot[c] <= boot'[c]
                       /\ c \in up' /\ c \notin up => boot[c] < boot'[c]
                       /\ c \in up => boot'[c] = boot[c]
  BY Boots
<1>3. Old \subseteq Old'
  <2> SUFFICES ASSUME NEW info \in Old PROVE info \in Old'
    OBVIOUS
  <2>1. info \in Infos
    BY DEF Old
  <2>2. PICK c \in Procs, n \in Nat :
           /\ info = [server |-> ServerOf[c], pid |-> <<BasePid[c], n>>]
           /\ n <= boot[c] /\ (c \in up => n < boot[c])
    BY DEF Old
  <2>3. n <= boot'[c] /\ (c \in up' => n < boot'[c])
    <3>1. /\ boot'[c] \in Nat /\ boot[c] \in Nat /\ boot[c] <= boot'[c]
          /\ c \in up' /\ c \notin up => boot[c] < boot'[c]
          /\ c \in up => boot'[c] = boot[c]
      BY <1>2, <1>a, RegistryAssumption
    <3>2. CASE c \in up
      BY <2>2, <3>1, <3>2
    <3>3. CASE c \notin up
      BY <2>2, <3>1, <3>3
    <3> QED
      BY <3>2, <3>3
  <2> QED
    BY <2>1, <2>2, <2>3 DEF Old
<1>4. \A c \in up : Info(c)' = Info(c)
  BY <1>2, <1>a DEF Info, Pid
<1>5. ASSUME NEW c \in up, c \notin up' PROVE Info(c) \in Old'
  <2>1. Info(c) \in Infos /\ c \in Procs
    BY <1>a, InfoType
  <2>2. boot[c] \in Nat /\ boot[c] <= boot'[c]
    BY <1>2, <1>a, <2>1, RegistryAssumption
  <2>3. Info(c) = [server |-> ServerOf[c], pid |-> <<BasePid[c], boot[c]>>]
    BY DEF Info, Pid
  <2> QED
    BY <1>5, <2>1, <2>2, <2>3 DEF Old
<1> QED
  BY <1>3, <1>4, <1>5

\* WebSockets connect once, and disconnect, or their process crashes.
LEMMA ClientSteps ==
    ASSUME Types, [Next]_vars, NEW k \in WSXKeys,
           \A r \in Procs : ~SubscribeWSX(r, k), ~DisconnectWSX(k)
    PROVE  /\ client'[k] = client[k] \/ (client[k] \in Procs \ up' /\ client'[k] = Gone)
           /\ client[k] \in up /\ client'[k] = client[k] => client[k] \in up'
<1>a. client \in [WSXKeys -> Procs \cup {Nobody, Gone}] /\ up \subseteq Procs
  BY DEF Types, TypeOK
<1>1. CASE client'[k] = client[k] /\ up \subseteq up'
  BY <1>1
<1>2. ASSUME NEW m \in migs, Migration(m) PROVE client' = client /\ up' = up
  BY <1>2 DEF Migration, NotifyStopping, StartTask, GiveUp, StopTask, StartFailed, db, procs
<1>3. ASSUME NEW p \in Procs, Handle(p) \/ Lookup(p) PROVE client' = client /\ up' = up
  BY <1>3 DEF Handle, CreateSubscription, Unsubscribe, SubKeyServerSet, WSXClientSubKeyServerRemove,
              DeliveryServerChange, LateStopping, Lookup, GetServerPID, SetMissing, db, procs
<1>4. ASSUME NEW j, NEW s, Subscribe(j, s) \/ ChangeServer(j, s) PROVE client' = client /\ up' = up
  BY <1>4 DEF Subscribe, ChangeServer, procs
<1>5. ASSUME NEW j, NEW p, LookUp(p, j) PROVE client' = client /\ up' = up
  BY <1>5 DEF LookUp, db, procs
<1>6. ASSUME NEW j, NEW p \in Procs, SubscribeWSX(p, j) PROVE client'[k] = client[k] /\ up' = up
  BY <1>6, <1>a DEF SubscribeWSX, procs
<1>7. ASSUME NEW j, DisconnectWSX(j) PROVE client'[k] = client[k] /\ up' = up
  BY <1>7, <1>a DEF DisconnectWSX, procs
<1>8. ASSUME NEW j, DeleteSubscription(j) PROVE client' = client /\ up' = up
  BY <1>8 DEF DeleteSubscription, procs
<1>9. ASSUME NEW p \in Procs, Boot(p) PROVE client' = client /\ up \subseteq up'
  BY <1>9 DEF Boot, db
<1>10. CASE UNCHANGED vars
  BY <1>10 DEF vars, db, procs
<1>11. ASSUME NEW s \in Servers, Crash(s)
       PROVE  /\ client'[k] = client[k] \/ (client[k] \in Procs \ up' /\ client'[k] = Gone)
              /\ client[k] \in up /\ client'[k] = client[k] => client[k] \in up'
  <2>1. /\ client'[k] = IF client[k] \in Workers(s) THEN Gone ELSE client[k]
        /\ up' = up \ Workers(s) /\ Workers(s) \subseteq Procs
    BY <1>11 DEF Crash, Workers
  <2>2. Gone \notin Procs
    BY RegistryAssumption
  <2> QED
    BY <2>1, <2>2
<1>12. ASSUME NEW p, NEW i, Overtake(p, i) PROVE client' = client /\ up' = up
  BY <1>12 DEF Overtake, db, procs
<1> QED
  BY <1>1, <1>2, <1>3, <1>4, <1>5, <1>6, <1>7, <1>8, <1>9, <1>10, <1>11, <1>12 DEF Next

LEMMA SocketsInit == Init => \A k \in WSXKeys : Socket(k)
<1> SUFFICES ASSUME Init, NEW k \in WSXKeys PROVE Socket(k)
  OBVIOUS
<1>1. client[k] = Nobody /\ \A p \in Procs : reg[p][k] = Nobody /\ \A x : ~In(x, inbox[p])
  BY DEF Init, In, Keys
<1> QED
  BY <1>1, RegistryAssumption DEF Socket, News

LEMMA SocketNext ==
    ASSUME Types, Asleep, Asleep', [Next]_vars, NEW k \in WSXKeys, Socket(k)
    PROVE  Socket(k)'
<1>a. inbox \in Boxes /\ client \in [WSXKeys -> Procs \cup {Nobody, Gone}] /\ up \subseteq Procs
      /\ k \in Keys
  BY DEF Types, TypeOK, Boxes, Keys
<1>b. Nobody \notin Procs /\ Gone \notin Procs /\ Nobody # Gone
  BY RegistryAssumption
<1>1. ASSUME NEW r \in Procs, SubscribeWSX(r, k) PROVE Socket(k)'
  <2>1. /\ r \in up /\ client[k] = Nobody /\ client'[k] = r /\ up' = up /\ boot' = boot /\ reg' = reg
        /\ inbox' = Broadcast(inbox, SetMsg(k, r), Others(r))
    BY <1>1, <1>a DEF SubscribeWSX, procs
  <2>2. \A p \in Procs : News(p, k, {}) /\ ~In(RemoveMsg(k), inbox[p])
    BY <2>1 DEF Socket
  <2>3. SetMsg(k, r) = SetInfo(k, Info(r)) /\ SetMsg(k, r) \in Messages
    BY <1>a, InfoType DEF SetMsg, SetInfo, Messages
  <2>4. ASSUME NEW p \in Procs
        PROVE  /\ reg'[p][k] = Nobody
               /\ \A info \in Infos : In(SetInfo(k, info), inbox'[p]) => info = Info(r)
               /\ ~In(RemoveMsg(k), inbox'[p])
    <3> DEFINE msg == SetMsg(k, r)
               box == Broadcast(inbox, msg, Others(r))[p]
    <3>1. inbox'[p] = box
      BY <2>1
    <3> HIDE DEF msg
    <3>2. \A x : In(x, box) <=> In(x, inbox[p]) \/ (x = msg /\ p \in Others(r) \cap up)
      BY <1>a, <2>3, Told DEF msg
    <3> HIDE DEF box
    <3>3. \A x : In(x, inbox'[p]) => In(x, inbox[p]) \/ x = SetInfo(k, Info(r))
      BY <2>3, <3>1, <3>2 DEF msg
    <3>4. \A info \in Infos : SetInfo(k, info) = SetInfo(k, Info(r)) => info = Info(r)
      <4>1. \A i : SetInfo(k, i).info = i
        BY DEF SetInfo
      <4> QED
        BY <4>1
    <3>5. RemoveMsg(k) # SetInfo(k, Info(r))
      BY <1>a, WSXMessages
    <3> QED
      BY <2>1, <2>2, <3>3, <3>4, <3>5 DEF News
  <2>5. Info(r)' = Info(r)
    BY <2>1 DEF Info, Pid
  <2>6. \A p \in Procs : News(p, k, {Info(client[k])})' /\ ~In(RemoveMsg(k), inbox[p])'
    BY <2>1, <2>4, <2>5 DEF News, SetInfo, RemoveMsg
  <2> QED
    BY <1>b, <2>1, <2>6 DEF Socket
<1>2. CASE DisconnectWSX(k)
  <2>1. /\ client'[k] = Gone /\ up' = up
        /\ inbox' = Broadcast(inbox, RemoveMsg(k), Procs)
    BY <1>2, <1>a DEF DisconnectWSX, procs
  <2>2. RemoveMsg(k) \in Messages
    BY DEF RemoveMsg, Messages
  <2>3. ASSUME NEW p \in Procs PROVE Forgets(p, k)' \/ News(p, k, Old)'
    <3>1. CASE p \in up
      <4>1. inbox'[p] = IF p \in Procs \cap up THEN Append(inbox[p], RemoveMsg(k)) ELSE inbox[p]
        BY <1>a, <2>1, <2>2, BroadcastBoxes
      <4>2. inbox'[p] = Append(inbox[p], RemoveMsg(k)) /\ inbox[p] \in Seq(Messages)
        BY <1>a, <3>1, <4>1 DEF Boxes
      <4>3. After(RemoveMsg(k), Sets(k), Append(inbox[p], RemoveMsg(k)))
        BY <4>2, AfterAppend
      <4>4. After(RemoveMsg(k), Sets(k), inbox'[p])
        BY <4>2, <4>3
      <4> QED
        BY <4>4 DEF Forgets, RemoveMsg, Sets, SetInfo
    <3>2. CASE p \notin up
      <4>1. inbox'[p] = <<>> /\ reg'[p][k] = Nobody
        BY <1>a, <2>1, <3>2 DEF Asleep
      <4> QED
        BY <4>1 DEF News, In
    <3> QED
      BY <3>1, <3>2
  <2> QED
    BY <1>b, <2>1, <2>3 DEF Socket
<1>3. CASE ~DisconnectWSX(k) /\ \A r \in Procs : ~SubscribeWSX(r, k)
  <2>1. /\ client'[k] = client[k] \/ (client[k] \in Procs \ up' /\ client'[k] = Gone)
        /\ client[k] \in up /\ client'[k] = client[k] => client[k] \in up'
    BY <1>3, ClientSteps
  <2>2. ASSUME NEW p \in Procs, NEW I, News(p, k, I) PROVE News(p, k, I)'
    BY <1>3, <2>2, NewsKept
  <2>3. ASSUME NEW p \in Procs, ~In(RemoveMsg(k), inbox[p]) PROVE ~In(RemoveMsg(k), inbox[p])'
    <3>1. ~In(RemoveMsg(k), inbox'[p])
      BY <1>3, <2>3, RemoveKept
    <3> QED
      BY <3>1 DEF RemoveMsg
  <2>4. /\ Old \subseteq Old'
        /\ \A c \in up : c \in up' => Info(c)' = Info(c)
        /\ \A c \in up : c \notin up' => Info(c) \in Old'
    BY OldKept
  <2>5. CASE client[k] = Nobody
    <3>1. client'[k] = Nobody /\ \A p \in Procs : News(p, k, {})' /\ ~In(RemoveMsg(k), inbox[p])'
      BY <1>b, <2>1, <2>2, <2>3, <2>5 DEF Socket
    <3> QED
      BY <1>b, <3>1 DEF Socket
  <2>6. CASE client[k] \in Procs
    <3>1. PICK I : I = {Info(client[k])}
      OBVIOUS
    <3>2. client[k] \in up /\ \A p \in Procs : News(p, k, I) /\ ~In(RemoveMsg(k), inbox[p])
      BY <2>6, <3>1 DEF Socket
    <3>3. \A p \in Procs : News(p, k, I)' /\ ~In(RemoveMsg(k), inbox[p])'
      BY <2>2, <2>3, <3>2
    <3>4. CASE client'[k] = client[k]
      <4>1. client'[k] \in up' /\ I = {Info(client[k])'}
        BY <2>1, <2>4, <3>1, <3>2, <3>4 DEF Info, Pid
      <4>2. \A p \in Procs : News(p, k, {Info(client[k])})'
        BY <3>3, <4>1 DEF News
      <4> QED
        BY <1>b, <2>6, <3>3, <3>4, <4>1, <4>2 DEF Socket
    <3>5. CASE client[k] \notin up' /\ client'[k] = Gone
      <4>1. I \subseteq Old'
        BY <2>4, <3>1, <3>2, <3>5
      <4>2. \A p \in Procs : News(p, k, Old)'
        BY <3>3, <4>1 DEF News
      <4> QED
        BY <1>b, <3>5, <4>2 DEF Socket
    <3> QED
      BY <2>1, <3>4, <3>5
  <2>7. CASE client[k] = Gone
    <3>1. client'[k] = Gone
      BY <1>b, <2>1, <2>7
    <3>2. ASSUME overtaken'[k] = 0, NEW p \in Procs PROVE Forgets(p, k)' \/ News(p, k, Old)'
      <4>0. overtaken[k] = 0
        BY <1>a, <3>2, OvertakenGrows
      <4>1. CASE Forgets(p, k)
        <5>1. Forgets(p, k)' \/ News(p, k, {})'
          BY <1>3, <3>2, <4>1, ForgetsKept
        <5> QED
          BY <5>1 DEF News
      <4>2. CASE News(p, k, Old)
        <5>1. PICK I : I = Old
          OBVIOUS
        <5>2. News(p, k, I)' /\ I \subseteq Old'
          BY <2>2, <2>4, <4>2, <5>1
        <5> QED
          BY <5>2 DEF News
      <4> QED
        BY <2>7, <4>0, <4>1, <4>2 DEF Socket
    <3> QED
      BY <1>b, <3>1, <3>2 DEF Socket
  <2> QED
    BY <1>a, <2>5, <2>6, <2>7
<1> QED
  BY <1>1, <1>2, <1>3

Sockets == \A k \in WSXKeys : Socket(k)

LEMMA SocketsSafe == Spec => [](Types /\ Asleep /\ KeysInv /\ Connected /\ Sockets)
<1>1. Init => Types /\ Asleep /\ Sockets
  BY TypesInit, AsleepInit, SocketsInit DEF Sockets
<1>2. Types /\ Asleep /\ Sockets /\ [Next]_vars => (Types /\ Asleep /\ Sockets)'
  BY TypesNext, AsleepNext, SocketNext DEF Sockets
<1> QED
  BY <1>1, <1>2, KeysSafe, PTL DEF Spec

\* Once all is quiet, nobody takes a process that is still there for the one that a
\* WebSocket which has disconnected is connected to, unless one of the messages about
\* it was overtaken by another one.
THEOREM ForgottenSafety == Spec => []Forgotten
<1>1. Types /\ Sockets => Forgotten
  <2> SUFFICES ASSUME Types, Sockets, Quiet, NEW k \in WSXKeys, client[k] = Gone,
                      overtaken[k] = 0, NEW p \in Procs, NEW q \in Procs, reg[p][k] = Info(q)
               PROVE  FALSE
    BY DEF Forgotten
  <2>1. ~Forgets(p, k)
    BY DEF Quiet, Forgets, After
  <2>2. reg[p][k] = Nobody \/ reg[p][k] \in Old
    BY <2>1 DEF Sockets, Socket, News
  <2>3. Info(q) \in Old
    BY <2>2, InfoType, RegistryAssumption
  <2>4. PICK c \in Procs, n \in Nat :
           /\ Info(q) = [server |-> ServerOf[c], pid |-> <<BasePid[c], n>>]
           /\ n < boot[c]
    BY <2>3 DEF Old, Quiet
  <2>5. ServerOf[q] = ServerOf[c] /\ BasePid[q] = BasePid[c] /\ boot[q] = n
    BY <2>4 DEF Info, Pid
  <2>6. q = c
    BY <2>5, RegistryAssumption
  <2> QED
    BY <2>4, <2>5, <2>6 DEF Types, TypeOK
<1> QED
  BY <1>1, SocketsSafe, PTL

-----------------------------------------------------------------------------
(* What the others know of a task.                                         *)

\* Process q will hear that p has the task, or knows it and will not overwrite it.
Heard(p, q, k) ==
    \/ In(SetInfo(k, Info(p)), inbox[q])
    \/ reg[q][k] = Info(p) /\ ~Asks(q, k)

\* Process p has the task, and q has listened all along.
Listens(p, q, k) ==
    Runs(p, k) /\ Migrating(k) = {} /\ q \in Others(p) \cap up /\ boot[q] = 0

Hearing == \A k \in Keys \ disturbed, p, q \in Procs : Listens(p, q, k) => Heard(p, q, k)

LEMMA HeardKept ==
    ASSUME Types, Asleep, [Next]_vars, NEW k \in Keys, NEW p \in Procs, NEW q \in Procs,
           Heard(p, q, k), q \in up, q \in up', Info(p)' = Info(p),
           \A info \in Infos : In(SetInfo(k, info), inbox[q]) => info = Info(p),
           ~In(CreateMsg(k), inbox[q]), ~In(StoppingMsg(k), inbox[q]), ~In(RemoveMsg(k), inbox[q]),
           Migrating(k) = {}
    PROVE  Heard(p, q, k)'
<1>1. Stays(q, k) \/ Takes(q, k)
  <2>1. Stays(q, k) \/ Takes(q, k) \/ Starts(q, k)
    BY StepAt
  <2> QED
    BY <2>1 DEF Starts
<1>2. Info(p) \in Infos /\ Info(p) # Nobody /\ SetInfo(k, Info(p)) \in Sets(k)
  BY InfoType, RegistryAssumption DEF Sets
<1> SUFFICES \/ In(SetInfo(k, Info(p)), inbox'[q])
             \/ reg'[q][k] = Info(p) /\ ~Asks(q, k)'
  BY DEF Heard, SetInfo
<1>3. CASE Stays(q, k)
  <2>1. CASE In(SetInfo(k, Info(p)), inbox[q])
    BY <1>3, <2>1, StaysLists
  <2>2. CASE reg[q][k] = Info(p) /\ ~Asks(q, k)
    BY <1>2, <1>3, <2>2 DEF Stays
  <2> QED
    BY <2>1, <2>2 DEF Heard
<1>4. CASE Takes(q, k)
  <2>1. /\ In(Head(inbox[q]), inbox[q])
        /\ \A x : In(x, inbox[q]) /\ x # Head(inbox[q]) => In(x, inbox'[q])
    BY <1>4, TakesLists
  <2>2. CASE Head(inbox[q]) \in Sets(k)
    <3>1. PICK info \in Infos : Head(inbox[q]) = SetInfo(k, info)
      BY <2>2 DEF Sets
    <3>2. info = Info(p)
      BY <2>1, <3>1
    <3>3. reg'[q][k] = info /\ ~Asks(q, k)'
      BY <1>4, <3>1 DEF Takes
    <3> QED
      BY <3>2, <3>3
  <2>3. CASE Head(inbox[q]) \notin Sets(k)
    <3>1. reg'[q][k] = reg[q][k] /\ ~Asks(q, k)'
      BY <1>4, <2>1, <2>3 DEF Takes
    <3>2. In(SetInfo(k, Info(p)), inbox[q]) => In(SetInfo(k, Info(p)), inbox'[q])
      BY <1>2, <2>1, <2>3
    <3> QED
      BY <3>1, <3>2 DEF Heard
  <2> QED
    BY <2>2, <2>3
<1> QED
  BY <1>1, <1>3, <1>4

\* Who starts a task tells all the others.
LEMMA NewTask ==
    ASSUME Types, [Next]_vars, NEW k \in Keys, NEW p \in Procs, ~Runs(p, k), Runs(p, k)'
    PROVE  /\ up' = up /\ boot' = boot
           /\ \A q \in Others(p) \cap up : In(SetInfo(k, Info(p)), inbox'[q])
<1>a. inbox \in Boxes
  BY DEF Types, TypeOK, Boxes
<1>b. SetMsg(k, p) = SetInfo(k, Info(p)) /\ SetMsg(k, p) \in Messages
  BY InfoType DEF SetMsg, SetInfo, Messages
<1>1. ASSUME NEW boxes \in Boxes, inbox' = Broadcast(boxes, SetMsg(k, p), Others(p)),
             up' = up, boot' = boot
      PROVE  /\ up' = up /\ boot' = boot
             /\ \A q \in Others(p) \cap up : In(SetInfo(k, Info(p)), inbox'[q])
  <2> SUFFICES ASSUME NEW q \in Others(p) \cap up PROVE In(SetInfo(k, Info(p)), inbox'[q])
    BY <1>1
  <2> DEFINE msg == SetMsg(k, p)
             box == Broadcast(boxes, msg, Others(p))[q]
  <2>0. q \in Procs
    BY DEF Others
  <2>1. inbox'[q] = box /\ msg \in Messages
    BY <1>1, <1>b
  <2> HIDE DEF msg
  <2>2. \A x : In(x, box) <=> In(x, boxes[q]) \/ (x = msg /\ q \in Others(p) \cap up)
    BY <2>0, <2>1, Told
  <2> HIDE DEF box
  <2>3. In(msg, inbox'[q])
    BY <2>1, <2>2
  <2> QED
    BY <1>b, <2>3 DEF msg
<1>2. ASSUME tasks' \subseteq tasks PROVE FALSE
  BY <1>2 DEF Runs
<1>3. ASSUME NEW r \in Procs, NEW j \in Keys, SubscribeWSX(r, j)
      PROVE  r = p /\ j = k /\ inbox' = Broadcast(inbox, SetMsg(k, p), Others(p))
             /\ up' = up /\ boot' = boot
  BY <1>3 DEF SubscribeWSX, Runs, procs
<1>4. ASSUME NEW r \in Procs, CreateSubscription(r)
      PROVE  r = p /\ inbox[p] # <<>> /\ inbox' = Broadcast(Received(p), SetMsg(k, p), Others(p))
             /\ up' = up /\ boot' = boot
  <2>1. CreateDeliveryTask(r, Head(inbox[r]).key, Received(r)) /\ inbox[r] # <<>>
        /\ up' = up /\ boot' = boot
    BY <1>4 DEF CreateSubscription, Receives, Runs
  <2>2. r = p /\ Head(inbox[r]).key = k
    BY <2>1 DEF CreateDeliveryTask, Runs
  <2> QED
    BY <2>1, <2>2 DEF CreateDeliveryTask
<1>5. ASSUME NEW m \in migs, NEW q \in Procs, StartTask(m, q)
      PROVE  inbox' = Broadcast(inbox, SetMsg(k, p), Others(p)) /\ up' = up /\ boot' = boot
  <2>1. q = p /\ m.key = k
    BY <1>5 DEF StartTask, CreateDeliveryTask, Runs
  <2> QED
    BY <1>5, <2>1 DEF StartTask, CreateDeliveryTask, procs
<1>6. ASSUME NEW r \in Procs, CreateSubscription(r)
      PROVE  /\ up' = up /\ boot' = boot
             /\ \A q \in Others(p) \cap up : In(SetInfo(k, Info(p)), inbox'[q])
  <2>1. Received(p) \in Boxes
    BY <1>a, <1>4, <1>6, ReceivedBoxes
  <2> QED
    BY <1>1, <1>4, <1>6, <2>1
<1>7. ASSUME NEW r \in Procs, Handle(r), ~CreateSubscription(r) PROVE FALSE
  BY <1>2, <1>7 DEF Handle, Unsubscribe, SubKeyServerSet, WSXClientSubKeyServerRemove,
                    DeliveryServerChange, LateStopping, moves
<1>8. ASSUME NEW r \in Procs, Lookup(r) \/ Boot(r) PROVE FALSE
  BY <1>2, <1>8 DEF Lookup, GetServerPID, SetMissing, Boot, moves
<1>9. ASSUME NEW j, NEW s, Subscribe(j, s) \/ ChangeServer(j, s) PROVE FALSE
  BY <1>2, <1>9 DEF Subscribe, ChangeServer, moves
<1>10. ASSUME NEW r, NEW j, LookUp(r, j) PROVE FALSE
  BY <1>2, <1>10 DEF LookUp, moves
<1>11. ASSUME NEW j, DisconnectWSX(j) \/ DeleteSubscription(j) PROVE FALSE
  BY <1>2, <1>11 DEF DisconnectWSX, DeleteSubscription, moves
<1>12. ASSUME NEW m \in migs, Migration(m), \A q \in Procs : ~StartTask(m, q) PROVE FALSE
  BY <1>2, <1>12 DEF Migration, NotifyStopping, GiveUp, StopTask, StartFailed
<1>13. ASSUME NEW s, Crash(s) PROVE FALSE
  BY <1>2, <1>13 DEF Crash
<1>14. CASE UNCHANGED vars
  BY <1>2, <1>14 DEF vars, moves
<1>15. ASSUME NEW r, NEW i, Overtake(r, i) PROVE FALSE
  BY <1>2, <1>15 DEF Overtake, moves
<1> QED
  BY <1>a, <1>1, <1>3, <1>5, <1>6, <1>7, <1>8, <1>9, <1>10, <1>11, <1>12, <1>13, <1>14, <1>15 DEF Next

\* A migration does not end with its task left where it was.
LEMMA MigrationEnds ==
    ASSUME Types, [Next]_vars, NEW k \in RESTKeys, KeyInv(k), k \notin disturbed', NEW p \in Procs,
           Runs(p, k), Runs(p, k)', Migrating(k) # {}
    PROVE  Migrating(k)' # {}
<1>1. PICK m \in migs : m.key = k
  BY DEF Migrating
<1>2. /\ Migrating(k) = {m} /\ m \in Migs /\ m.failed = {} /\ m.stage = "notify"
  BY <1>1, MovingKey
<1>3. CASE migs \subseteq migs'
  BY <1>1, <1>3 DEF Migrating
<1>4. ASSUME NEW n \in Migs, n.key = k, Becomes(m, n) PROVE Migrating(k)' # {}
  BY <1>4 DEF Becomes, Migrating
<1>5. CASE Migration(m)
  <2>1. ASSUME NEW q \in Procs, NotifyStopping(m, q) PROVE Migrating(k)' # {}
    <3>1. PICK b \in BOOLEAN : Becomes(m, [m EXCEPT !.todo = @ \ {q}, !.failed = IF b THEN @ ELSE @ \cup {q}])
      BY <2>1 DEF NotifyStopping
    <3>2. [m EXCEPT !.todo = @ \ {q}, !.failed = IF b THEN @ ELSE @ \cup {q}] \in Migs
      BY <1>2 DEF Migs
    <3>3. [m EXCEPT !.todo = @ \ {q}, !.failed = IF b THEN @ ELSE @ \cup {q}].key = k
      BY <1>1, <1>2 DEF Migs
    <3> QED
      BY <1>4, <3>1, <3>2, <3>3
  <2>2. CASE StopTask(m)
    <3>1. [m EXCEPT !.stage = "start"] \in Migs /\ [m EXCEPT !.stage = "start"].key = k
      BY <1>1, <1>2 DEF Migs
    <3> QED
      BY <1>4, <2>2, <3>1 DEF StopTask
  <2> QED
    BY <1>2, <1>5, <2>1, <2>2 DEF Migration, StartTask, GiveUp, StartFailed
<1>6. ASSUME NEW n \in migs, n # m, Migration(n) PROVE Migrating(k)' # {}
  <2>1. m \in migs'
    BY <1>6 DEF Migration, NotifyStopping, StopTask, StartTask, GiveUp, StartFailed, Becomes
  <2> QED
    BY <1>1, <2>1 DEF Migrating
<1>7. ASSUME NEW s \in Servers, Crash(s) PROVE FALSE
  <2>1. k \notin Unsettled
    BY <1>7 DEF Crash
  <2> QED
    BY <1>1, <2>1 DEF Unsettled
<1>8. ASSUME NEW r \in Procs, Handle(r) \/ Lookup(r) \/ Boot(r) PROVE migs \subseteq migs'
  BY <1>8 DEF Handle, CreateSubscription, Unsubscribe, SubKeyServerSet, WSXClientSubKeyServerRemove,
              DeliveryServerChange, LateStopping, Lookup, GetServerPID, SetMissing, Boot, moves
<1>9. ASSUME NEW j, NEW s, Subscribe(j, s) \/ ChangeServer(j, s) PROVE migs \subseteq migs'
  BY <1>9 DEF Subscribe, ChangeServer, moves
<1>10. ASSUME NEW r, NEW j, SubscribeWSX(r, j) \/ LookUp(r, j) PROVE migs \subseteq migs'
  BY <1>10 DEF SubscribeWSX, LookUp, moves
<1>11. ASSUME NEW j, DisconnectWSX(j) \/ DeleteSubscription(j) PROVE migs \subseteq migs'
  BY <1>11 DEF DisconnectWSX, DeleteSubscription, moves
<1>12. CASE UNCHANGED vars
  BY <1>3, <1>12 DEF vars, moves
<1>13. ASSUME NEW r, NEW i, Overtake(r, i) PROVE migs \subseteq migs'
  BY <1>13 DEF Overtake, moves
<1> QED
  BY <1>3, <1>5, <1>6, <1>7, <1>8, <1>9, <1>10, <1>11, <1>12, <1>13 DEF Next

\* No message that process q has not handled yet would make it forget the task.
LEMMA ListensClean ==
    ASSUME Types, KeysInv, Connected, Sockets, NEW k \in Keys, k \notin disturbed,
           NEW p \in Procs, NEW q \in Procs, Runs(p, k), Migrating(k) = {}, q \in Others(p)
    PROVE  /\ \A info \in Infos : In(SetInfo(k, info), inbox[q]) => info = Info(p)
           /\ ~In(CreateMsg(k), inbox[q]) /\ ~In(StoppingMsg(k), inbox[q]) /\ ~In(RemoveMsg(k), inbox[q])
<1>1. CASE k \in RESTKeys
  <2>0. /\ Creating(k) /\ Announced(k) /\ NoneLate(k) /\ Running(k)
    BY <1>1 DEF KeysInv, KeyInv
  <2>1. Settled(p, k) /\ \A r \in Procs : Runs(r, k) => r = p
    BY <2>0 DEF Running
  <2>2. \A info \in Infos : In(SetInfo(k, info), inbox[q]) => info = Info(p)
    BY <2>0, <2>1 DEF Announced
  <2>3. ~In(CreateMsg(k), inbox[q])
    <3> SUFFICES ASSUME In(CreateMsg(k), inbox[q]) PROVE FALSE
      OBVIOUS
    <3>1. ServerOf[q] = odb[k] /\ ~In(ChangeMsg(k, odb[k]), inbox[p])
      BY <2>0 DEF Creating
    <3>2. ServerOf[p] = odb[k]
      BY <2>1, <3>1 DEF Settled
    <3> QED
      BY <3>1, <3>2 DEF Others
  <2>4. ~In(StoppingMsg(k), inbox[q])
    BY <2>0 DEF NoneLate
  <2>5. ~In(RemoveMsg(k), inbox[q])
    <3>1. \A i \in 1..Len(inbox[q]) : inbox[q][i] \in Messages
      BY DEF Types, TypeOK
    <3>2. RemoveMsg(k) \notin Messages
      BY <1>1, RegistryAssumption DEF RemoveMsg, Messages
    <3> QED
      BY <3>1, <3>2 DEF In
  <2> QED
    BY <2>2, <2>3, <2>4, <2>5
<1>2. CASE k \in WSXKeys
  <2>1. client[k] = p
    BY <1>2 DEF Connected
  <2>2. News(q, k, {Info(p)}) /\ ~In(RemoveMsg(k), inbox[q])
    BY <1>2, <2>1 DEF Sockets, Socket
  <2>3. ~In(CreateMsg(k), inbox[q]) /\ ~In(StoppingMsg(k), inbox[q])
    BY <1>2, SocketMessages
  <2> QED
    BY <2>2, <2>3 DEF News
<1> QED
  BY <1>1, <1>2 DEF Keys

LEMMA HearingInit == Init => Hearing
BY DEF Init, Hearing, Listens, Runs

LEMMA HearingNext ==
    ASSUME Types, Asleep, Asleep', KeysInv, Connected, Sockets, Hearing, [Next]_vars
    PROVE  Hearing'
<1> SUFFICES ASSUME NEW k \in Keys, k \notin disturbed', NEW p \in Procs, NEW q \in Procs,
                    Listens(p, q, k)'
             PROVE  Heard(p, q, k)'
  BY DEF Hearing
<1>1. Runs(p, k)' /\ Migrating(k)' = {} /\ q \in up' /\ boot'[q] = 0 /\ q \in Others(p)'
  BY DEF Listens
<1>2. k \notin disturbed
  BY Disturbed
<1>3. \A c \in Procs : /\ c \in up => boot'[c] = boot[c]
                       /\ c \in up' /\ c \notin up => boot'[c] # 0
  <2>1. \A c \in Procs : /\ boot'[c] \in Nat /\ boot[c] <= boot'[c]
                         /\ c \in up' /\ c \notin up => boot[c] < boot'[c]
                         /\ c \in up => boot'[c] = boot[c]
    BY Boots
  <2>2. \A c \in Procs : boot[c] \in Nat
    BY RegistryAssumption DEF Types, TypeOK
  <2> QED
    BY <2>1, <2>2
<1>4. q \in up /\ boot[q] = 0
  BY <1>1, <1>3
<1>5. CASE ~Runs(p, k)
  <2>1. /\ up' = up /\ boot' = boot
        /\ \A r \in Others(p) \cap up : In(SetInfo(k, Info(p)), inbox'[r])
    BY <1>1, <1>5, NewTask
  <2>2. q \in Others(p) \cap up /\ Info(p)' = Info(p)
    BY <1>1, <2>1 DEF Others, Pid, Info
  <2>3. In(SetInfo(k, Info(p)'), inbox'[q])
    BY <2>1, <2>2
  <2> QED
    BY <2>3 DEF Heard, SetInfo
<1>6. CASE Runs(p, k)
  <2>1. p \in up /\ p \in up'
    BY <1>1, <1>6 DEF Asleep, Runs
  <2>2. Info(p)' = Info(p) /\ boot'[p] = boot[p] /\ boot'[q] = boot[q]
    BY <1>3, <1>4, <2>1 DEF Info, Pid
  <2>3. q \in Others(p)
    BY <1>1, <2>2 DEF Others, Pid
  <2>4. Migrating(k) = {}
    <3>1. CASE k \in RESTKeys
      <4>1. KeyInv(k)
        BY <1>2, <3>1 DEF KeysInv
      <4> QED
        BY <1>1, <1>6, <3>1, <4>1, MigrationEnds
    <3>2. CASE k \in WSXKeys
      BY <3>2, SocketMessages
    <3> QED
      BY <3>1, <3>2 DEF Keys
  <2>5. Heard(p, q, k)
    BY <1>2, <1>4, <1>6, <2>3, <2>4 DEF Hearing, Listens
  <2>6. /\ \A info \in Infos : In(SetInfo(k, info), inbox[q]) => info = Info(p)
        /\ ~In(CreateMsg(k), inbox[q]) /\ ~In(StoppingMsg(k), inbox[q]) /\ ~In(RemoveMsg(k), inbox[q])
    BY <1>2, <1>6, <2>3, <2>4, ListensClean
  <2> QED
    BY <1>1, <1>4, <2>2, <2>4, <2>5, <2>6, HeardKept
<1> QED
  BY <1>5, <1>6

\* Of a sub_key that was not disturbed, each process that applies what the process of
\* its task announces (one of another server, with another PID) and that has run since
\* the start knows that process once all is quiet, in whatever order broker messages,
\* lookups and the steps of migrations were handled.
THEOREM ConvergedSafety == Spec => []Converged
<1> DEFINE Inv == Types /\ Asleep /\ KeysInv /\ Connected /\ Sockets
<1>1. Init => Hearing
  BY HearingInit
<1>2. Inv /\ Inv' /\ Hearing /\ [Next]_vars => Hearing'
  BY HearingNext
<1>3. Types /\ Hearing => Converged
  <2> SUFFICES ASSUME Types, Hearing, Quiet, NEW t \in tasks, t[2] \notin disturbed,
                      NEW q \in Others(t[1]), boot[q] = 0
               PROVE  reg[q][t[2]] = Info(t[1])
    BY DEF Converged
  <2>1. PICK p \in Procs, k \in Keys : t = <<p, k>>
    BY DEF Types, TypeOK
  <2>2. q \in Procs /\ q \in Others(p) /\ k \notin disturbed /\ Runs(p, k)
    BY <2>1 DEF Others, Runs
  <2>3. Migrating(k) = {} /\ q \in up /\ inbox[q] = <<>>
    BY <2>2 DEF Quiet, Migrating
  <2>4. Heard(p, q, k)
    BY <2>2, <2>3 DEF Hearing, Listens
  <2>5. reg[q][k] = Info(p)
    BY <2>3, <2>4 DEF Heard, In
  <2> QED
    BY <2>1, <2>5
<1>4. Inv => Types
  OBVIOUS
<1>5. Spec => []Inv
  BY SocketsSafe
<1> HIDE DEF Inv
<1> QED
  BY <1>1, <1>2, <1>3, <1>4, <1>5, PTL DEF Spec

=============================================================================
