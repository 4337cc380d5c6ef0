--------------------------- MODULE DeliveryProofs ---------------------------
(***************************************************************************)
(* Proofs about Delivery, for any number of messages, batches, sort keys,  *)
(* tools and failures: guaranteed delivery loses nothing, the SQL queue    *)
(* with its tasks implements GDQueue, lists stay in order and tasks alive, *)
(* and other messages are kept while no tool loses the sub_key.            *)
(***************************************************************************)
EXTENDS Delivery, SequenceTheorems, FiniteSetTheorems, TLAPS

-----------------------------------------------------------------------------
(* The operations of SortedList and the results of SQL queries.            *)

\* A set of positions of a list has no more members than the list is long.
LEMMA IndexSetBounds ==
    ASSUME NEW n \in Nat, NEW T \in SUBSET (1..n)
    PROVE  Cardinality(T) \in 0..n
<1>1. IsFiniteSet(1..n) /\ Cardinality(1..n) <= n
  BY FS_Interval
<1>2. IsFiniteSet(T) /\ Cardinality(T) <= Cardinality(1..n)
  BY <1>1, FS_Subset
<1>3. Cardinality(T) \in Nat /\ Cardinality(1..n) \in Nat
  BY <1>1, <1>2, FS_CardinalityType
<1> QED
  BY <1>1, <1>2, <1>3

\* A bisection returns a position of the list or the one after it.
LEMMA BisectBounds ==
    ASSUME NEW S, NEW l \in Seq(S), NEW m
    PROVE  BisectLeft(l, m) \in 0..Len(l) /\ BisectRight(l, m) \in 0..Len(l)
<1>1. Len(l) \in Nat /\ DOMAIN l = 1..Len(l)
  BY LenProperties
<1> QED
  BY <1>1, IndexSetBounds DEF BisectLeft, BisectRight

\* SortedList.add puts a message into the list and nothing else.
LEMMA SortedListAddType ==
    ASSUME NEW S, NEW l \in Seq(S), NEW m \in S
    PROVE  SortedListAdd(l, m) \in Seq(S)
<1> DEFINE k == BisectRight(l, m)
<1>1. k \in 0..Len(l) /\ Len(l) \in Nat
  BY BisectBounds, LenProperties
<1>2. \A i \in 1..Len(l) : l[i] \in S
  BY ElementOfSeq
<1>3. SubSeq(l, 1, k) \in Seq(S) /\ SubSeq(l, k + 1, Len(l)) \in Seq(S)
  <2> HIDE DEF k
  <2>1. \A i \in 1..k : l[i] \in S
    BY <1>1, <1>2
  <2>2. \A i \in (k + 1)..Len(l) : l[i] \in S
    BY <1>1, <1>2
  <2> QED
    BY <1>1, <2>1, <2>2, SubSeqProperties
<1>4. <<m>> \in Seq(S)
  OBVIOUS
<1>5. SubSeq(l, 1, k) \o <<m>> \in Seq(S)
  BY <1>3, <1>4, ConcatProperties
<1>6. SortedListAdd(l, m)
        = (SubSeq(l, 1, k) \o <<m>>) \o SubSeq(l, k + 1, Len(l))
  BY DEF SortedListAdd
<1> HIDE DEF k
<1> QED
  BY <1>3, <1>5, <1>6, ConcatProperties

\* SortedList.remove leaves a list of messages that were in it.
LEMMA SortedListRemoveType ==
    ASSUME NEW S, NEW l \in Seq(S), NEW m
    PROVE  SortedListRemove(l, m) \in Seq(S)
<1> DEFINE k == BisectLeft(l, m)
<1>1. k \in 0..Len(l) /\ Len(l) \in Nat
  BY BisectBounds, LenProperties
<1>2. \A i \in 1..Len(l) : l[i] \in S
  BY ElementOfSeq
<1>3. /\ SubSeq(l, 1, k) \in Seq(S)
      /\ SubSeq(l, k + 2, Len(l)) \in Seq(S)
  <2> HIDE DEF k
  <2>1. \A i \in 1..k : l[i] \in S
    BY <1>1, <1>2
  <2>2. \A i \in (k + 2)..Len(l) : l[i] \in S
    BY <1>1, <1>2
  <2> QED
    BY <1>1, <2>1, <2>2, SubSeqProperties
<1>4. SortedListRemove(l, m)
        = SubSeq(l, 1, k) \o SubSeq(l, k + 2, Len(l))
  BY DEF SortedListRemove
<1> HIDE DEF k
<1> QED
  BY <1>3, <1>4, ConcatProperties

\* An ordering of a finite set is a sequence over it, and not the empty one if
\* there is anything to order.
LEMMA OrderingType ==
    ASSUME NEW S, IsFiniteSet(S), NEW s \in SetToSeqs(S)
    PROVE  s \in Seq(S) /\ (S # {} => s # <<>>)
<1>1. Cardinality(S) \in Nat /\ s \in [1..Cardinality(S) -> S]
  BY FS_CardinalityType DEF SetToSeqs
<1>2. s \in Seq(S) /\ Len(s) = Cardinality(S)
  BY <1>1
<1>3. S # {} => Cardinality(S) # 0
  BY FS_EmptySet
<1> QED
  BY <1>2, <1>3, EmptySeq

\* The rows of a query come as a sequence over the set of rows.
LEMMA OrderedRowsType ==
    ASSUME NEW S, IsFiniteSet(S), NEW s \in OrderedRows(S)
    PROVE  s \in Seq(S)
BY OrderingType DEF OrderedRows

\* There are finitely many messages in any set of them.
LEMMA MessageSetsFinite ==
    ASSUME NEW S \in SUBSET Msgs
    PROVE  IsFiniteSet(S)
BY DeliveryAssumption, FS_Subset

\* A list of published messages stays one when more are published.
LEMMA SeqMonotone ==
    ASSUME NEW S, NEW T, S \subseteq T, NEW l \in Seq(S)
    PROVE  l \in Seq(T)
OBVIOUS

\* A list of more than one message still has one when its head is added.
LEMMA TailNotEmpty ==
    ASSUME NEW S, NEW s \in Seq(S), s # << >>, Len(s) # 1
    PROVE  Tail(s) # << >>
<1>1. Len(s) \in Nat /\ Len(Tail(s)) = Len(s) - 1
  BY LenProperties, HeadTailProperties
<1>2. Len(Tail(s)) # 0
  BY <1>1
<1>3. Len(<< >>) = 0
  BY EmptySeq
<1> QED
  BY <1>2, <1>3, Zenon

\* What SQL returns for a sub_key is a sequence of published GD messages.
LEMMA RowsRead ==
    ASSUME TypeOK, OnlyPublished, NEW s \in OrderedRows(SQLMessages)
    PROVE  s \in Seq(published)
<1>1. SQLMessages \subseteq published
  BY DEF TypeOK, OnlyPublished, SQLMessages, Statuses
<1>2. IsFiniteSet(SQLMessages)
  BY MessageSetsFinite DEF SQLMessages, Msgs
<1> QED
  BY <1>1, <1>2, OrderedRowsType, SeqMonotone

-----------------------------------------------------------------------------
(* Guaranteed delivery.                                                    *)

\* A message that is only queued, moved or being delivered keeps its row, so a
\* step that does so preserves GDNotLost.
LEMMA GDNotLostStable ==
    ASSUME GDNotLost, UNCHANGED <<row, published, handed>>
    PROVE  GDNotLost'
BY DEF GDNotLost

\* The steps of DeliveryTask.
LEMMA NextMessageKeeps ==
    ASSUME Inv, NEW t \in Tools, NEW l \in Seq(published),
           NextMessage(t, l),
           UNCHANGED <<published, handed, handles, pend, lock>>
    PROVE  /\ cur' \in [Tools -> published \cup {NoMsg}]
           /\ idx' \in [Tools -> Nat]
           /\ pc' \in [Tools -> PCs]
           /\ detached' \in [Tools -> BOOLEAN]
           /\ walk' \in [Tools -> Seq(published)]
           /\ Consistent'
<1>1. CASE /\ idx[t] < Len(l)
           /\ cur' = [cur EXCEPT ![t] = l[idx[t] + 1]]
           /\ idx' = [idx EXCEPT ![t] = @ + 1]
           /\ pc' = [pc EXCEPT ![t] = "deliver"]
           /\ UNCHANGED <<detached, walk>>
  <2>1. idx[t] \in Nat /\ Len(l) \in Nat
    BY LenProperties DEF Inv, TypeOK
  <2>2. l[idx[t] + 1] \in published
    BY <1>1, <2>1, ElementOfSeq
  <2>3. l[idx[t] + 1] # NoMsg
    BY <2>2, DeliveryAssumption DEF Inv, TypeOK
  <2>4. Consistent'
    BY <1>1, <2>3 DEF Inv, TypeOK, Consistent, Adding
  <2> QED
    BY <1>1, <2>1, <2>2, <2>4 DEF Inv, TypeOK, OnlyPublished, PCs
<1>2. CASE idx[t] >= Len(l) /\ LeavePass(t, "sleep")
  <2>1. Consistent'
    BY <1>2 DEF Inv, TypeOK, Consistent, Adding, LeavePass
  <2>2. << >> \in Seq(published)
    BY EmptySeq
  <2> QED
    BY <1>2, <2>1, <2>2 DEF Inv, TypeOK, OnlyPublished, PCs, LeavePass
<1> QED
  BY <1>1, <1>2 DEF NextMessage

\* The initial state has nothing published.
LEMMA InitInv == Init => Inv
<1> SUFFICES ASSUME Init PROVE Inv
  OBVIOUS
<1>1. << >> \in Seq(Msgs) /\ << >> \in Seq(published)
  BY EmptySeq
<1>2. TypeOK
  BY <1>1, DeliveryAssumption
     DEF Init, TypeOK, Statuses, LockStates, PCs
<1>3. OnlyPublished
  BY <1>1 DEF Init, OnlyPublished
<1>4. Consistent
  BY DEF Init, Consistent, Adding
<1>5. GDNotLost
  BY DEF Init, GDNotLost
<1> QED
  BY <1>2, <1>3, <1>4, <1>5 DEF Inv

\* TypeOK follows for what OnlyPublished says more about.
LEMMA PublishedTypes ==
    ASSUME published \subseteq Msgs, OnlyPublished
    PROVE  /\ list \in [Tools -> Seq(Msgs)]
           /\ pend \in [Tools -> Seq(Msgs)]
           /\ walk \in [Tools -> Seq(Msgs)]
           /\ cur \in [Tools -> Msgs \cup {NoMsg}]
<1>1. \A l \in Seq(published) : l \in Seq(Msgs)
  BY SeqMonotone
<1> QED
  BY <1>1 DEF OnlyPublished

\* Counting a failure down leaves counters that are natural numbers.
LEMMA FaultType ==
    ASSUME faults \in [Faults -> Nat], NEW f \in Faults, Fault(f)
    PROVE  faults' \in [Faults -> Nat]
<1>1. faults[f] - 1 \in Nat
  BY DEF Fault
<1> QED
  BY <1>1 DEF Fault

\* Publish.handle preserves Inv: the new rows are to be read from SQL.
LEMMA PublishInv ==
    ASSUME Inv, NEW B \in Batches, Publish(B)
    PROVE  Inv'
<1> USE DEF Inv, Publish, toolVars, taskVars
<1>1. B \subseteq Msgs /\ published \subseteq published'
  BY DeliveryAssumption
<1>2. TypeOK'
  BY <1>1 DEF TypeOK, Statuses
<1>3. OnlyPublished'
  <2>1. \A l \in Seq(published) : l \in Seq(published')
    BY <1>1, SeqMonotone
  <2>2. /\ list' \in [Tools -> Seq(published')]
        /\ pend' \in [Tools -> Seq(published')]
        /\ walk' \in [Tools -> Seq(published')]
        /\ cur' \in [Tools -> published' \cup {NoMsg}]
    BY <1>1, <2>1 DEF OnlyPublished
  <2>3. \A m \in GD : row'[m] = "absent" <=> m \notin published'
    BY DEF OnlyPublished
  <2> QED
    BY <2>2, <2>3 DEF OnlyPublished
<1>4. Consistent'
  BY DEF Consistent, Adding
<1>5. GDNotLost'
  BY DEF GDNotLost
<1> QED
  BY <1>2, <1>3, <1>4, <1>5

\* Expiration preserves Inv: it hides a row and does not change it.
LEMMA ExpireInv ==
    ASSUME Inv, NEW m \in Expirable, Expire(m)
    PROVE  Inv'
<1> USE DEF Inv, Expire, envVars, toolVars, taskVars
<1>1. TypeOK'
  BY DEF TypeOK
<1>2. OnlyPublished' /\ Consistent'
  BY DEF OnlyPublished, Consistent, Adding
<1> QED
  BY <1>1, <1>2, GDNotLostStable

\* A failed notification preserves Inv: non-GD messages change places.
LEMMA NotifyFailedInv ==
    ASSUME Inv, NEW B \in inflight, NotifyFailed(B)
    PROVE  Inv'
<1> USE DEF Inv, NotifyFailed, sqlVars, toolVars, taskVars
<1>1. TypeOK'
  <2>1. faults' \in [Faults -> Nat]
    BY FaultType DEF TypeOK, Faults
  <2> QED
    BY <2>1 DEF TypeOK, ToStoreInRAM
<1>2. OnlyPublished' /\ Consistent'
  BY DEF OnlyPublished, Consistent, Adding, ToStoreInRAM
<1> QED
  BY <1>1, <1>2, GDNotLostStable

\* So does a lost answer.
LEMMA AnswerLostInv ==
    ASSUME Inv, NEW B \in unanswered, AnswerLost(B)
    PROVE  Inv'
<1> USE DEF Inv, AnswerLost, sqlVars, toolVars, taskVars
<1>1. TypeOK'
  BY DEF TypeOK, ToStoreInRAM
<1>2. OnlyPublished' /\ Consistent'
  BY DEF OnlyPublished, Consistent, Adding, ToStoreInRAM
<1> QED
  BY <1>1, <1>2, GDNotLostStable

\* handle_new_messages preserves Inv: what it is about to add was published.
LEMMA HandleNewMessagesInv ==
    ASSUME Inv, NEW t \in Tools, NEW B \in inflight, HandleNewMessages(t, B)
    PROVE  Inv'
<1> USE DEF Inv, sqlVars, taskVars
<1>1. B \in Batches /\ B \subseteq published /\ B \subseteq Msgs
  BY DeliveryAssumption DEF TypeOK, OnlyPublished
<1>2. PICK non_gd \in SetToSeqs(B \cap NonGD) :
        \/ /\ B \cap GD # {}
           /\ \E s \in OrderedRows(SQLMessages) :
                pend' = [pend EXCEPT ![t] = ToAdd(s, non_gd)]
           /\ lock' = [lock EXCEPT ![t] = "notify"]
        \/ /\ B \cap GD = {}
           /\ pend' = [pend EXCEPT ![t] = non_gd]
           /\ lock' = [lock EXCEPT ![t] = "adding"]
  BY DEF HandleNewMessages
<1>3. IsFiniteSet(B \cap NonGD)
  BY <1>1, MessageSetsFinite
<1>4. non_gd \in Seq(B \cap NonGD) /\ (B \cap NonGD # {} => non_gd # << >>)
  BY <1>3, OrderingType
<1>5. non_gd \in Seq(published)
  BY <1>1, <1>4, SeqMonotone
<1>6. /\ pend' \in [Tools -> Seq(published)]
      /\ lock' \in [Tools -> LockStates]
      /\ Consistent'
  <2>1. CASE /\ B \cap GD # {}
             /\ \E s \in OrderedRows(SQLMessages) :
                  pend' = [pend EXCEPT ![t] = ToAdd(s, non_gd)]
             /\ lock' = [lock EXCEPT ![t] = "notify"]
    <3>1. PICK s \in OrderedRows(SQLMessages) :
            pend' = [pend EXCEPT ![t] = ToAdd(s, non_gd)]
      BY <2>1
    <3>2. ToAdd(s, non_gd) \in Seq(published)
      BY <1>5, RowsRead, ConcatProperties DEF ToAdd
    <3>3. Consistent'
      BY <2>1, <3>1 DEF TypeOK, Consistent, Adding, HandleNewMessages
    <3> QED
      BY <2>1, <3>1, <3>2, <3>3 DEF TypeOK, OnlyPublished, LockStates
  <2>2. CASE /\ B \cap GD = {}
             /\ pend' = [pend EXCEPT ![t] = non_gd]
             /\ lock' = [lock EXCEPT ![t] = "adding"]
    <3>1. B \cap NonGD # {}
      <4>1. B # {}
        BY <1>1, DeliveryAssumption
      <4> QED
        BY <1>1, <2>2, <4>1 DEF Msgs
    <3>2. Consistent'
      BY <1>4, <2>2, <3>1 DEF TypeOK, Consistent, Adding, HandleNewMessages
    <3> QED
      BY <1>5, <2>2, <3>2 DEF TypeOK, OnlyPublished, LockStates
  <2> QED
    BY <1>2, <2>1, <2>2
<1>7. OnlyPublished'
  BY <1>1, <1>6 DEF OnlyPublished, HandleNewMessages
<1>8. TypeOK'
  <2>1. faults' \in [Faults -> Nat]
    BY FaultType DEF TypeOK, Faults, HandleNewMessages
  <2>2. unanswered' \subseteq Batches
    BY <1>1 DEF TypeOK, HandleNewMessages
  <2>3. UNCHANGED <<published, backlog, given_up, row, expired, handed, handles,
                    list, keep_running, pc, cur, idx, detached, walk>>
        /\ inflight' \subseteq inflight
    BY DEF HandleNewMessages
  <2>4. pend' \in [Tools -> Seq(Msgs)]
    BY <1>6, SeqMonotone DEF TypeOK
  <2> QED
    BY <1>6, <2>1, <2>2, <2>3, <2>4 DEF TypeOK
<1>9. GDNotLost'
  BY GDNotLostStable DEF HandleNewMessages
<1> QED
  BY <1>6, <1>7, <1>8, <1>9

-----------------------------------------------------------------------------
(* The steps of PubSubTool.                                                *)

\* The rows reaching the tool preserves Inv: with none there is nothing to add.
LEMMA StartAddingInv ==
    ASSUME Inv, NEW t \in Tools, StartAdding(t)
    PROVE  Inv'
<1> USE DEF Inv, StartAdding, sqlVars, envVars, taskVars
<1>1. OnlyPublished'
  BY DEF OnlyPublished
<1>2. Consistent'
  BY DEF TypeOK, Consistent, Adding
<1>3. TypeOK'
  BY DEF TypeOK, LockStates
<1> QED
  BY <1>1, <1>2, <1>3, GDNotLostStable

\* A notification that fails half way preserves Inv.
LEMMA AddingFailedInv ==
    ASSUME Inv, NEW t \in Tools, AddingFailed(t)
    PROVE  Inv'
<1> USE DEF Inv, AddingFailed, sqlVars, taskVars
<1>1. << >> \in Seq(published) /\ << >> \in Seq(Msgs)
  BY EmptySeq
<1>2. Range(pend[t]) \subseteq published
  BY LenProperties, ElementOfSeq DEF OnlyPublished, Range
<1>3. OnlyPublished'
  BY <1>1, <1>2 DEF OnlyPublished, ToStoreInRAM
<1>4. Consistent'
  BY DEF TypeOK, Consistent, Adding
<1>5. TypeOK'
  BY <1>1 DEF TypeOK, LockStates, ToStoreInRAM
<1> QED
  BY <1>3, <1>4, <1>5, GDNotLostStable

\* list.add preserves Inv: the lock is free again after the last one.
LEMMA AddMessageInv ==
    ASSUME Inv, NEW t \in Tools, AddMessage(t)
    PROVE  Inv'
<1> USE DEF Inv, AddMessage, sqlVars, envVars, taskVars
<1>1. /\ pend[t] \in Seq(published)
      /\ pend[t] # << >>
      /\ list[t] \in Seq(published)
  BY DEF OnlyPublished, Consistent
<1>2. /\ Head(pend[t]) \in published
      /\ Tail(pend[t]) \in Seq(published)
      /\ Len(Tail(pend[t])) = Len(pend[t]) - 1
  BY <1>1, HeadTailProperties
<1>3. Len(pend[t]) # 1 => Tail(pend[t]) # << >>
  BY <1>1, TailNotEmpty
<1>4. SortedListAdd(list[t], Head(pend[t])) \in Seq(published)
  BY <1>1, <1>2, SortedListAddType
<1>5. OnlyPublished'
  BY <1>2, <1>4 DEF OnlyPublished
<1>6. Consistent'
  BY <1>3 DEF TypeOK, OnlyPublished, Consistent, Adding
<1>7. TypeOK'
  <2>1. /\ Tail(pend[t]) \in Seq(Msgs)
        /\ SortedListAdd(list[t], Head(pend[t])) \in Seq(Msgs)
    BY <1>2, <1>4, SeqMonotone DEF TypeOK
  <2> QED
    BY <2>1 DEF TypeOK, LockStates
<1> QED
  BY <1>5, <1>6, <1>7, GDNotLostStable

\* CreateDeliveryTask preserves Inv.
LEMMA CreateDeliveryTaskInv ==
    ASSUME Inv, NEW t \in Tools, CreateDeliveryTask(t)
    PROVE  Inv'
<1> USE DEF Inv, CreateDeliveryTask, AddSubKey, sqlVars, envVars
<1>1. OnlyPublished' /\ Consistent'
  BY DEF TypeOK, OnlyPublished, Consistent, Adding
<1>2. TypeOK'
  BY DEF TypeOK, PCs
<1> QED
  BY <1>1, <1>2, GDNotLostStable

\* The subscription of a WebSocket preserves Inv.
LEMMA SubscribeWSXInv ==
    ASSUME Inv, NEW t \in Tools, SubscribeWSX(t)
    PROVE  Inv'
<1> USE DEF Inv, SubscribeWSX, AddSubKey, sqlVars, envVars
<1>1. OnlyPublished' /\ Consistent'
  BY DEF TypeOK, OnlyPublished, Consistent, Adding
<1>2. TypeOK'
  BY DEF TypeOK, PCs
<1> QED
  BY <1>1, <1>2, GDNotLostStable

\* A reconnection preserves Inv: only non-GD messages are lost.
LEMMA AfterWSXReconnectInv ==
    ASSUME Inv, AfterWSXReconnect
    PROVE  Inv'
<1> USE DEF Inv, AfterWSXReconnect, GiveUp, sqlVars, toolVars, taskVars
<1>1. OnlyPublished' /\ Consistent'
  BY DEF OnlyPublished, Consistent, Adding
<1>2. TypeOK'
  BY DEF TypeOK
<1> QED
  BY <1>1, <1>2, GDNotLostStable

\* A disconnection preserves Inv: the tool forgets, the rows stay.
LEMMA DisconnectInv ==
    ASSUME Inv, NEW t \in Tools, Disconnect(t)
    PROVE  Inv'
<1> USE DEF Inv, Disconnect, DropSubKey, GiveUp, sqlVars
<1>1. OnlyPublished' /\ Consistent'
  BY DEF OnlyPublished, Consistent, Adding
<1>2. faults' \in [Faults -> Nat]
  BY FaultType DEF TypeOK, Faults
<1>3. TypeOK'
  BY <1>2 DEF TypeOK
<1> QED
  BY <1>1, <1>3, GDNotLostStable

\* A migration preserves Inv: the list is cleared, the rows stay.
LEMMA MigrateInv ==
    ASSUME Inv, NEW t \in Tools, Migrate(t)
    PROVE  Inv'
<1> USE DEF Inv, Migrate, DropSubKey, ClearList, GiveUp, sqlVars
<1>1. << >> \in Seq(published) /\ << >> \in Seq(Msgs)
  BY EmptySeq
<1>2. OnlyPublished'
  BY <1>1 DEF OnlyPublished
<1>3. Consistent'
  BY DEF Consistent, Adding
<1>4. faults' \in [Faults -> Nat]
  BY FaultType DEF TypeOK, Faults
<1>5. TypeOK'
  BY <1>1, <1>4 DEF TypeOK
<1> QED
  BY <1>2, <1>3, <1>5, GDNotLostStable

\* A crash preserves Inv: what a process has in RAM is not what Inv rests on.
LEMMA CrashInv ==
    ASSUME Inv, NEW t \in Tools, Crash(t)
    PROVE  Inv'
<1> USE DEF Inv, Crash, GiveUp, sqlVars
<1>1. << >> \in Seq(published) /\ << >> \in Seq(Msgs)
  BY EmptySeq
<1>2. OnlyPublished'
  BY <1>1 DEF OnlyPublished
<1>3. Consistent'
  BY DEF TypeOK, Consistent, Adding
<1>4. faults' \in [Faults -> Nat]
  BY FaultType DEF TypeOK, Faults
<1>5. TypeOK'
  BY <1>1, <1>4 DEF TypeOK, PCs, LockStates
<1> QED
  BY <1>2, <1>3, <1>5, GDNotLostStable

-----------------------------------------------------------------------------
(* The steps of DeliveryTask.                                              *)

\* The end of _run_delivery leaves the task without a message.
LEMMA LeavePassKeeps ==
    ASSUME Inv, NEW t \in Tools, NEW where \in {"sleep", "died"},
           LeavePass(t, where),
           UNCHANGED <<published, handed, handles, pend, lock>>
    PROVE  /\ cur' \in [Tools -> published \cup {NoMsg}]
           /\ idx' \in [Tools -> Nat]
           /\ pc' \in [Tools -> PCs]
           /\ detached' \in [Tools -> BOOLEAN]
           /\ walk' \in [Tools -> Seq(published)]
           /\ Consistent'
<1>1. Consistent'
  BY DEF Inv, TypeOK, Consistent, Adding, LeavePass
<1>2. << >> \in Seq(published)
  BY EmptySeq
<1> QED
  BY <1>1, <1>2 DEF Inv, TypeOK, OnlyPublished, PCs, LeavePass

\* What remains to be shown of a step that leaves the queue, the notifications
\* and the tool's lock alone, once its effect on the task is known.
LEMMA TaskStepInv ==
    ASSUME Inv,
           UNCHANGED <<sqlVars, envVars, handed, handles, lock, pend,
                       keep_running>>,
           faults' \in [Faults -> Nat],
           list' \in [Tools -> Seq(published)],
           cur' \in [Tools -> published \cup {NoMsg}],
           idx' \in [Tools -> Nat],
           pc' \in [Tools -> PCs],
           detached' \in [Tools -> BOOLEAN],
           walk' \in [Tools -> Seq(published)],
           Consistent'
    PROVE  Inv'
<1> USE DEF Inv, sqlVars, envVars
<1>1. OnlyPublished'
  BY DEF OnlyPublished
<1>2. TypeOK'
  <2>1. \A l \in Seq(published) : l \in Seq(Msgs)
    BY SeqMonotone DEF TypeOK
  <2>2. /\ list' \in [Tools -> Seq(Msgs)]
        /\ walk' \in [Tools -> Seq(Msgs)]
        /\ cur' \in [Tools -> Msgs \cup {NoMsg}]
    BY <2>1 DEF TypeOK
  <2> QED
    BY <2>2 DEF TypeOK
<1> QED
  BY <1>1, <1>2, GDNotLostStable

\* A stopped task ending its loop preserves Inv.
LEMMA StopLoopInv ==
    ASSUME Inv, NEW t \in Tools, StopLoop(t)
    PROVE  Inv'
<1> USE DEF StopLoop, toolVars
<1>1. Consistent' /\ pc' \in [Tools -> PCs]
  BY DEF Inv, TypeOK, Consistent, Adding, PCs
<1> QED
  BY <1>1, TaskStepInv DEF Inv, TypeOK, OnlyPublished

\* The start of a pass preserves Inv: its first message was published.
LEMMA StartDeliveryInv ==
    ASSUME Inv, NEW t \in Tools, StartDelivery(t)
    PROVE  Inv'
<1> USE DEF StartDelivery, toolVars, envVars
<1>1. list[t] \in Seq(published)
  BY DEF Inv, OnlyPublished
<1>2. /\ cur' \in [Tools -> published \cup {NoMsg}]
      /\ idx' \in [Tools -> Nat]
      /\ pc' \in [Tools -> PCs]
      /\ detached' \in [Tools -> BOOLEAN]
      /\ walk' \in [Tools -> Seq(published)]
      /\ Consistent'
  BY <1>1, NextMessageKeeps
<1> QED
  BY <1>2, TaskStepInv DEF Inv, TypeOK, OnlyPublished

\* A delivery preserves Inv: from here on the endpoint has the message.
LEMMA DeliverOKInv ==
    ASSUME Inv, NEW t \in Tools, DeliverOK(t)
    PROVE  Inv'
<1> USE DEF Inv, DeliverOK, sqlVars, envVars, toolVars
<1>1. cur[t] \in Msgs /\ handed[cur[t]] \in 0..2
  BY DEF TypeOK, Consistent
<1>2. /\ handed' \in [Msgs -> 0..2]
      /\ handed'[cur[t]] > 0
      /\ \A m \in Msgs : handed[m] > 0 => handed'[m] > 0
  BY <1>1 DEF TypeOK
<1>3. TypeOK'
  BY <1>2 DEF TypeOK, PCs
<1>4. OnlyPublished'
  BY DEF OnlyPublished
<1>5. Consistent'
  <2> SUFFICES ASSUME NEW u \in Tools PROVE Consistent!(u)'
    BY DEF Consistent
  <2>1. cur[u] \in Msgs \cup {NoMsg}
    BY DEF TypeOK
  <2> QED
    BY <1>1, <1>2, <2>1 DEF TypeOK, Consistent, Adding
<1>6. GDNotLost'
  BY <1>2 DEF TypeOK, GDNotLost
<1> QED
  BY <1>3, <1>4, <1>5, <1>6

\* A failed or skipped delivery preserves Inv.
LEMMA DeliverFailedInv ==
    ASSUME Inv, NEW t \in Tools, DeliverFailed(t)
    PROVE  Inv'
<1> USE DEF DeliverFailed, toolVars, envVars
<1>1. faults' \in [Faults -> Nat]
  BY FaultType DEF Inv, TypeOK, Faults
<1>2. /\ cur' \in [Tools -> published \cup {NoMsg}]
      /\ idx' \in [Tools -> Nat]
      /\ pc' \in [Tools -> PCs]
      /\ detached' \in [Tools -> BOOLEAN]
      /\ walk' \in [Tools -> Seq(published)]
      /\ Consistent'
  BY LeavePassKeeps
<1> QED
  BY <1>1, <1>2, TaskStepInv DEF Inv, OnlyPublished

\* confirm_pubsub_msg_delivered preserves Inv: the only row it marks is that
\* of a message that the endpoint has accepted.
LEMMA ConfirmOKInv ==
    ASSUME Inv, NEW t \in Tools, ConfirmOK(t)
    PROVE  Inv'
<1> USE DEF Inv, ConfirmOK, ConfirmedRows, envVars, toolVars
<1>1. cur[t] \in published /\ handed[cur[t]] > 0
  BY DEF OnlyPublished, Consistent
<1>2. TypeOK'
  BY DEF TypeOK, PCs, Statuses
<1>3. OnlyPublished'
  BY <1>1 DEF OnlyPublished
<1>4. Consistent'
  BY DEF TypeOK, Consistent, Adding
<1>5. GDNotLost'
  BY <1>1 DEF GDNotLost
<1> QED
  BY <1>2, <1>3, <1>4, <1>5

\* A failed confirmation preserves Inv.
LEMMA ConfirmFailedInv ==
    ASSUME Inv, NEW t \in Tools, ConfirmFailed(t)
    PROVE  Inv'
<1> USE DEF ConfirmFailed, toolVars, envVars
<1>1. (IF detached[t] THEN walk[t] ELSE list[t]) \in Seq(published)
  BY DEF Inv, OnlyPublished
<1>2. faults' \in [Faults -> Nat]
  BY FaultType DEF Inv, TypeOK, Faults
<1>3. /\ cur' \in [Tools -> published \cup {NoMsg}]
      /\ idx' \in [Tools -> Nat]
      /\ pc' \in [Tools -> PCs]
      /\ detached' \in [Tools -> BOOLEAN]
      /\ walk' \in [Tools -> Seq(published)]
      /\ Consistent'
  BY <1>1, NextMessageKeeps
<1> QED
  BY <1>2, <1>3, TaskStepInv DEF Inv, OnlyPublished

\* delivery_list.remove preserves Inv, whichever message it takes out.
LEMMA RemoveDeliveredInv ==
    ASSUME Inv, NEW t \in Tools, RemoveDelivered(t)
    PROVE  Inv'
<1> USE DEF RemoveDelivered, envVars
<1>1. /\ list[t] \in Seq(published)
      /\ walk[t] \in Seq(published)
  BY DEF Inv, TypeOK, OnlyPublished
<1>2. SortedListRemove(list[t], cur[t]) \in Seq(published)
  BY <1>1, SortedListRemoveType
<1>3. list' \in [Tools -> Seq(published)]
  <2>1. list \in [Tools -> Seq(published)]
    BY DEF Inv, OnlyPublished
  <2>2. \/ list' = [list EXCEPT ![t] = SortedListRemove(list[t], cur[t])]
        \/ list' = list
    OBVIOUS
  <2> QED
    BY <1>2, <2>1, <2>2
<1>4. /\ cur' \in [Tools -> published \cup {NoMsg}]
      /\ idx' \in [Tools -> Nat]
      /\ pc' \in [Tools -> PCs]
      /\ detached' \in [Tools -> BOOLEAN]
      /\ walk' \in [Tools -> Seq(published)]
      /\ Consistent'
  <2>1. CASE SortedListHas(list[t], cur[t])
    <3>1. (IF detached[t] THEN walk[t] ELSE SortedListRemove(list[t], cur[t]))
            \in Seq(published)
      BY <1>1, <1>2
    <3> QED
      BY <2>1, <3>1, NextMessageKeeps
  <2>2. CASE ~SortedListHas(list[t], cur[t])
    BY <1>1, <2>2, LeavePassKeeps
  <2> QED
    BY <2>1, <2>2
<1> QED
  BY <1>3, <1>4, TaskStepInv DEF Inv, TypeOK

-----------------------------------------------------------------------------
\* Every step of every actor preserves Inv.
LEMMA NextInv == Inv /\ [Next]_vars => Inv'
<1> SUFFICES ASSUME Inv, [Next]_vars PROVE Inv'
  OBVIOUS
<1>1. ASSUME NEW B \in Batches, Publish(B) PROVE Inv'
  BY <1>1, PublishInv
<1>2. ASSUME NEW m \in Expirable, Expire(m) PROVE Inv'
  BY <1>2, ExpireInv
<1>3. ASSUME NEW B \in inflight, NotifyFailed(B) PROVE Inv'
  BY <1>3, NotifyFailedInv
<1>4. ASSUME NEW t \in Tools, NEW B \in inflight, HandleNewMessages(t, B)
      PROVE Inv'
  BY <1>4, HandleNewMessagesInv
<1>5. ASSUME NEW t \in Tools, ToolStep(t) PROVE Inv'
  BY <1>5, StartAddingInv, AddingFailedInv, AddMessageInv,
     CreateDeliveryTaskInv, SubscribeWSXInv DEF ToolStep
<1>6. ASSUME NEW t \in Tools, TaskStep(t) PROVE Inv'
  BY <1>6, StopLoopInv, StartDeliveryInv, DeliverOKInv, DeliverFailedInv,
     ConfirmOKInv, ConfirmFailedInv, RemoveDeliveredInv DEF TaskStep
<1>7. ASSUME NEW t \in Tools, Disconnect(t) \/ Migrate(t) \/ Crash(t)
      PROVE Inv'
  BY <1>7, DisconnectInv, MigrateInv, CrashInv
<1>8. CASE UNCHANGED vars
  BY <1>8 DEF vars, sqlVars, envVars, toolVars, taskVars, Inv, TypeOK,
              OnlyPublished, Consistent, Adding, GDNotLost
<1> QED
  BY <1>1, <1>2, <1>3, <1>4, <1>5, <1>6, <1>7, <1>8, AnswerLostInv,
     AfterWSXReconnectInv DEF Next

\* The inductive invariant: what is queued was published, what is confirmed was
\* accepted by the endpoint, whatever the order of the steps.
THEOREM InvHolds == Spec => []Inv
BY InitInv, NextInv, PTL DEF Spec

\* Every variable keeps its type, whatever the tools, tasks and failures do.
THEOREM TypeCorrect == Spec => []TypeOK
BY InvHolds, PTL DEF Inv

\* Guaranteed delivery: a published GD message waits in SQL until the endpoint
\* has accepted it, through failures, migrations, reconnections and crashes.
THEOREM GDSafety == Spec => []GDNotLost
BY InvHolds, PTL DEF Inv

-----------------------------------------------------------------------------
(* The SQL queue and the tasks implement GDQueue.                          *)

\* Most steps leave the rows and the endpoint alone: GDQueue stutters.
LEMMA QueueStutters ==
    ASSUME UNCHANGED <<row, handed>>
    PROVE  UNCHANGED Queue!vars
BY DEF Queue!vars

\* A publication is Enqueue.
LEMMA PublishEnqueues ==
    ASSUME Inv, NEW B \in Batches, Publish(B)
    PROVE  Queue!Next
<1>1. \A m \in B \cap GD : row[m] = "absent"
  BY DEF Inv, OnlyPublished, Publish
<1>2. row' = [m \in GD |-> IF m \in B \cap GD THEN "initialized" ELSE row[m]]
  BY DEF Publish
<1>3. Queue!Enqueue(B \cap GD)
  BY <1>1, <1>2 DEF Queue!Enqueue, Publish
<1>4. B \cap GD \in SUBSET GD
  OBVIOUS
<1> QED
  BY <1>3, <1>4 DEF Queue!Next

\* A delivery of a GD message is Give, of another one a stutter.
LEMMA DeliverOKGives ==
    ASSUME Inv, NEW t \in Tools, DeliverOK(t)
    PROVE  [Queue!Next]_(Queue!vars)
<1> DEFINE accepted == {m \in GD : handed[m] > 0}
<1>1. cur[t] \in published /\ cur[t] \in Msgs
  BY DEF Inv, TypeOK, OnlyPublished, Consistent, DeliverOK
<1>2. /\ handed \in [Msgs -> 0..2]
      /\ handed' = [handed EXCEPT ![cur[t]] = IF @ = 2 THEN 2 ELSE @ + 1]
      /\ row' = row
  BY DEF Inv, TypeOK, DeliverOK, sqlVars
<1>3. \A m \in GD : handed'[m] > 0 <=> (handed[m] > 0 \/ m = cur[t])
  BY <1>1, <1>2 DEF Msgs
<1>4. CASE cur[t] \in GD
  <2>1. row[cur[t]] # "absent"
    BY <1>1, <1>4 DEF Inv, OnlyPublished
  <2>2. accepted' = accepted \cup {cur[t]}
    BY <1>3, <1>4
  <2> QED
    BY <1>2, <1>4, <2>1, <2>2 DEF Queue!Next, Queue!Give
<1>5. CASE cur[t] \notin GD
  <2>1. accepted' = accepted
    BY <1>3, <1>5
  <2> QED
    BY <1>2, <2>1 DEF Queue!vars
<1> QED
  BY <1>4, <1>5

\* The first confirmation of a GD message is Finish, every other a stutter.
LEMMA ConfirmOKFinishes ==
    ASSUME Inv, NEW t \in Tools, ConfirmOK(t)
    PROVE  [Queue!Next]_(Queue!vars)
<1>1. /\ row \in [GD -> Statuses]
      /\ row' = [m \in GD |-> IF m = cur[t] THEN "delivered" ELSE row[m]]
      /\ handed' = handed
  BY DEF Inv, TypeOK, ConfirmOK, ConfirmedRows
<1>2. cur[t] \in published /\ handed[cur[t]] > 0
  BY DEF Inv, OnlyPublished, Consistent, ConfirmOK
<1>3. CASE cur[t] \in GD /\ row[cur[t]] = "initialized"
  <2>1. row' = [row EXCEPT ![cur[t]] = "delivered"]
    BY <1>1, <1>3
  <2>2. Queue!Finish(cur[t])
    BY <1>1, <1>2, <1>3, <2>1 DEF Queue!Finish
  <2> QED
    BY <1>3, <2>2 DEF Queue!Next
<1>4. CASE ~(cur[t] \in GD /\ row[cur[t]] = "initialized")
  <2>1. cur[t] \in GD => row[cur[t]] = "delivered"
    BY <1>2, <1>4 DEF Inv, GDNotLost
  <2>2. row' = row
    BY <1>1, <2>1
  <2> QED
    BY <1>1, <2>2, QueueStutters
<1> QED
  BY <1>3, <1>4

\* Every step is a step of GDQueue or a stutter.
LEMMA NextImplements ==
    ASSUME Inv, [Next]_vars
    PROVE  [Queue!Next]_(Queue!vars)
<1>1. ASSUME NEW B \in Batches, Publish(B) PROVE [Queue!Next]_(Queue!vars)
  BY <1>1, PublishEnqueues
<1>2. ASSUME NEW t \in Tools, DeliverOK(t) PROVE [Queue!Next]_(Queue!vars)
  BY <1>2, DeliverOKGives
<1>3. ASSUME NEW t \in Tools, ConfirmOK(t) PROVE [Queue!Next]_(Queue!vars)
  BY <1>3, ConfirmOKFinishes
<1>4. ASSUME NEW m \in Expirable, Expire(m) PROVE UNCHANGED <<row, handed>>
  BY <1>4 DEF Expire
<1>5. ASSUME NEW B \in inflight, NotifyFailed(B)
      PROVE  UNCHANGED <<row, handed>>
  BY <1>5 DEF NotifyFailed, sqlVars
<1>6. ASSUME NEW t \in Tools, NEW B \in inflight, HandleNewMessages(t, B)
      PROVE  UNCHANGED <<row, handed>>
  BY <1>6 DEF HandleNewMessages, sqlVars
<1>7. ASSUME NEW t \in Tools, ToolStep(t) PROVE UNCHANGED <<row, handed>>
  BY <1>7 DEF ToolStep, StartAdding, AddingFailed, AddMessage,
              CreateDeliveryTask, SubscribeWSX, sqlVars
<1>8. ASSUME NEW t \in Tools, Disconnect(t) \/ Migrate(t) \/ Crash(t)
      PROVE  UNCHANGED <<row, handed>>
  BY <1>8 DEF Disconnect, Migrate, Crash, sqlVars
<1>9. ASSUME NEW t \in Tools,
             \/ StopLoop(t) \/ StartDelivery(t) \/ DeliverFailed(t)
             \/ ConfirmFailed(t) \/ RemoveDelivered(t)
      PROVE  UNCHANGED <<row, handed>>
  BY <1>9 DEF StopLoop, StartDelivery, DeliverFailed, ConfirmFailed,
              RemoveDelivered, sqlVars
<1>10. CASE \/ \E B \in unanswered : AnswerLost(B)
            \/ AfterWSXReconnect \/ UNCHANGED vars
  BY <1>10, QueueStutters DEF AnswerLost, AfterWSXReconnect, vars, sqlVars
<1> QED
  BY <1>1, <1>2, <1>3, <1>4, <1>5, <1>6, <1>7, <1>8, <1>9, <1>10,
     QueueStutters DEF Next, TaskStep

\* The rows of the SQL queue, and what the endpoint has accepted, behave as
\* GDQueue says: queued until given, given at least once, done with once.
THEOREM Implementation == Spec => ImplementsGDQueue
<1>1. Init => Queue!Init
  BY DEF Init, Queue!Init, Msgs
<1>2. Inv /\ [Next]_vars => [Queue!Next]_(Queue!vars)
  BY NextImplements
<1> QED
  BY <1>1, <1>2, InvHolds, PTL DEF Spec, ImplementsGDQueue, Queue!Spec

-----------------------------------------------------------------------------
(* Where a bisection of a list in order ends up.                           *)

Ordered(l) == \A i, j \in 1..Len(l) : i < j => Key[l[i]] <= Key[l[j]]

\* Positions of which none is left out are the first ones.
LEMMA FirstPositions ==
    ASSUME NEW n \in Nat, NEW T \in SUBSET (1..n),
           \A i \in T : \A j \in 1..i : j \in T
    PROVE  T = 1..Cardinality(T)
<1> DEFINE k == Cardinality(T)
<1>1. IsFiniteSet(T) /\ k \in Nat
  <2>1. IsFiniteSet(1..n)
    BY FS_Interval
  <2> QED
    BY <2>1, FS_Subset, FS_CardinalityType
<1>2. ASSUME NEW i \in T PROVE i \in 1..k
  <2>1. i \in Nat \ {0} /\ 1..i \in SUBSET T
    OBVIOUS
  <2>2. Cardinality(1..i) = i /\ Cardinality(1..i) <= k
    BY <1>1, <2>1, FS_Interval, FS_Subset
  <2> QED
    BY <1>1, <2>1, <2>2
<1>3. T \in SUBSET (1..k)
  BY <1>2
<1>4. IsFiniteSet(1..k) /\ Cardinality(1..k) = k
  BY <1>1, FS_Interval
<1> QED
  BY <1>3, <1>4, FS_Subset

\* bisect_right and bisect_left: what compares lower, or not higher, comes first.
LEMMA BisectOrdered ==
    ASSUME NEW l \in Seq(Msgs), Ordered(l), NEW m \in Msgs
    PROVE  /\ \A i \in 1..Len(l) : i <= BisectRight(l, m) <=> Key[l[i]] <= Key[m]
           /\ \A i \in 1..Len(l) : i <= BisectLeft(l, m) <=> Key[l[i]] < Key[m]
<1> DEFINE R == {i \in 1..Len(l) : Key[l[i]] <= Key[m]}
           L == {i \in 1..Len(l) : Key[l[i]] < Key[m]}
<1>1. Len(l) \in Nat /\ DOMAIN l = 1..Len(l)
  BY LenProperties
<1>2. \A i \in 1..Len(l) : Key[l[i]] \in Nat
  BY ElementOfSeq, DeliveryAssumption
<1>3. Key[m] \in Nat
  BY DeliveryAssumption
<1>4. \A i \in 1..Len(l) : \A j \in 1..i : j \in 1..Len(l) /\ Key[l[j]] <= Key[l[i]]
  <2> TAKE i \in 1..Len(l)
  <2> TAKE j \in 1..i
  <2>1. j \in 1..Len(l) /\ (j < i \/ j = i)
    BY <1>1
  <2> QED
    BY <1>2, <2>1 DEF Ordered
<1>5. R = 1..Cardinality(R)
  <2>1. \A i \in R : \A j \in 1..i : j \in R
    BY <1>2, <1>3, <1>4
  <2> HIDE DEF R
  <2> QED
    BY <1>1, <2>1, FirstPositions DEF R
<1>6. L = 1..Cardinality(L)
  <2>1. \A i \in L : \A j \in 1..i : j \in L
    BY <1>2, <1>3, <1>4
  <2> HIDE DEF L
  <2> QED
    BY <1>1, <2>1, FirstPositions DEF L
<1>7. BisectRight(l, m) = Cardinality(R) /\ BisectLeft(l, m) = Cardinality(L)
  BY <1>1 DEF BisectRight, BisectLeft
<1>8. BisectLeft(l, m) \in Nat /\ BisectRight(l, m) \in Nat
  BY BisectBounds
<1>9. R = 1..BisectRight(l, m) /\ L = 1..BisectLeft(l, m)
  BY <1>5, <1>6, <1>7
<1>10. \A i \in 1..Len(l) : i \in R <=> i <= BisectRight(l, m)
  <2> HIDE DEF R
  <2> QED
    BY <1>1, <1>8, <1>9
<1>11. \A i \in 1..Len(l) : i \in L <=> i <= BisectLeft(l, m)
  <2> HIDE DEF L
  <2> QED
    BY <1>1, <1>8, <1>9
<1> QED
  BY <1>10, <1>11

\* What a list has at each position once a message was added ...
LEMMA AddPositions ==
    ASSUME NEW S, NEW l \in Seq(S), NEW m \in S
    PROVE  LET k == BisectRight(l, m)
           IN  /\ k \in 0..Len(l) /\ Len(l) \in Nat
               /\ Len(SortedListAdd(l, m)) = Len(l) + 1
               /\ \A i \in 1..k : SortedListAdd(l, m)[i] = l[i]
               /\ SortedListAdd(l, m)[k + 1] = m
               /\ \A i \in (k + 1)..Len(l) : SortedListAdd(l, m)[i + 1] = l[i]
<1> DEFINE k == BisectRight(l, m)
           a == SubSeq(l, 1, k)
           b == SubSeq(l, k + 1, Len(l))
<1>1. k \in 0..Len(l) /\ Len(l) \in Nat
  BY BisectBounds, LenProperties
<1>2. \A i \in 1..Len(l) : l[i] \in S
  BY ElementOfSeq
<1>3. SortedListAdd(l, m) = (a \o <<m>>) \o b
  BY DEF SortedListAdd
<1> HIDE DEF k
<1>4. a \in Seq(S) /\ Len(a) = k /\ \A i \in 1..k : a[i] = l[i]
  BY <1>1, <1>2, SubSeqProperties
<1>5. b \in Seq(S) /\ Len(b) = Len(l) - k /\ \A i \in 1..(Len(l) - k) : b[i] = l[k + i]
  BY <1>1, <1>2, SubSeqProperties
<1> HIDE DEF a, b
<1>6. <<m>> \in Seq(S) /\ Len(<<m>>) = 1 /\ <<m>>[1] = m
  OBVIOUS
<1>7. /\ a \o <<m>> \in Seq(S) /\ Len(a \o <<m>>) = k + 1
      /\ \A i \in 1..k : (a \o <<m>>)[i] = l[i]
      /\ (a \o <<m>>)[k + 1] = m
  BY <1>1, <1>4, <1>6, ConcatProperties
<1> DEFINE c == a \o <<m>>
<1>c. c \in Seq(S) /\ Len(c) = k + 1
  BY <1>7
<1> HIDE DEF c
<1>8. /\ Len(c \o b) = Len(l) + 1
      /\ \A i \in 1..(k + 1) : (c \o b)[i] = c[i]
      /\ \A i \in (k + 1)..Len(l) : (c \o b)[i + 1] = l[i]
  <2>1. /\ Len(c \o b) = Len(c) + Len(b)
        /\ \A i \in 1..(Len(c) + Len(b)) :
              (c \o b)[i] = IF i <= Len(c) THEN c[i] ELSE b[i - Len(c)]
    BY <1>5, <1>c, ConcatProperties
  <2>2. Len(c) = k + 1
    BY <1>c
  <2>3. \A i \in (k + 1)..Len(l) : /\ i + 1 \in 1..(Len(c) + Len(b)) /\ ~(i + 1 <= Len(c))
                                   /\ (i + 1) - Len(c) \in 1..(Len(l) - k)
                                   /\ k + ((i + 1) - Len(c)) = i
    <3>1. \A n \in Nat : \A p \in 0..n : \A i \in (p + 1)..n :
             /\ i + 1 \in 1..((p + 1) + (n - p)) /\ ~(i + 1 <= p + 1)
             /\ (i + 1) - (p + 1) \in 1..(n - p)
             /\ p + ((i + 1) - (p + 1)) = i
      OBVIOUS
    <3>2. Len(c) = k + 1 /\ Len(b) = Len(l) - k
      BY <1>5, <2>2
    <3>3. \A i \in (k + 1)..Len(l) :
             /\ i + 1 \in 1..((k + 1) + (Len(l) - k)) /\ ~(i + 1 <= k + 1)
             /\ (i + 1) - (k + 1) \in 1..(Len(l) - k)
             /\ k + ((i + 1) - (k + 1)) = i
      <4>1. k \in 0..Len(l) /\ Len(l) \in Nat
        BY <1>1
      <4> QED
        BY <3>1, <4>1, Zenon
    <3> QED
      BY <3>2, <3>3, Zenon
  <2>4. \A i \in (k + 1)..Len(l) : (c \o b)[i + 1] = l[i]
    BY <1>5, <2>1, <2>3
  <2> QED
    BY <1>1, <1>5, <2>1, <2>2, <2>4
<1> QED
  BY <1>1, <1>3, <1>7, <1>8 DEF c, k

\* ... or one removed.
LEMMA RemovePositions ==
    ASSUME NEW S, NEW l \in Seq(S), NEW m, SortedListHas(l, m)
    PROVE  LET k == BisectLeft(l, m)
           IN  /\ k \in 0..(Len(l) - 1) /\ Len(l) \in Nat
               /\ Len(SortedListRemove(l, m)) = Len(l) - 1
               /\ \A i \in 1..k : SortedListRemove(l, m)[i] = l[i]
               /\ \A i \in (k + 1)..(Len(l) - 1) : SortedListRemove(l, m)[i] = l[i + 1]
<1> DEFINE k == BisectLeft(l, m)
           a == SubSeq(l, 1, k)
           b == SubSeq(l, k + 2, Len(l))
<1>1. k \in 0..(Len(l) - 1) /\ Len(l) \in Nat
  BY BisectBounds, LenProperties DEF SortedListHas
<1>2. \A i \in 1..Len(l) : l[i] \in S
  BY ElementOfSeq
<1>3. SortedListRemove(l, m) = a \o b
  BY DEF SortedListRemove
<1> HIDE DEF k
<1>4. a \in Seq(S) /\ Len(a) = k /\ \A i \in 1..k : a[i] = l[i]
  BY <1>1, <1>2, SubSeqProperties
<1>5. /\ b \in Seq(S) /\ Len(b) = Len(l) - 1 - k
      /\ \A i \in 1..(Len(l) - 1 - k) : b[i] = l[k + 1 + i]
  BY <1>1, <1>2, SubSeqProperties
<1> HIDE DEF a, b
<1>6. /\ Len(a \o b) = Len(l) - 1
      /\ \A i \in 1..(Len(l) - 1) : (a \o b)[i] = IF i <= k THEN a[i] ELSE b[i - k]
  <2>1. /\ Len(a \o b) = Len(a) + Len(b)
        /\ \A i \in 1..(Len(a) + Len(b)) :
              (a \o b)[i] = IF i <= Len(a) THEN a[i] ELSE b[i - Len(a)]
    BY <1>4, <1>5, ConcatProperties
  <2>2. Len(a) + Len(b) = Len(l) - 1 /\ Len(a) = k
    BY <1>1, <1>4, <1>5
  <2> QED
    BY <2>1, <2>2, Zenon
<1>7. \A i \in (k + 1)..(Len(l) - 1) : (a \o b)[i] = l[i + 1]
  <2> TAKE i \in (k + 1)..(Len(l) - 1)
  <2>1. (a \o b)[i] = b[i - k]
    BY <1>1, <1>6
  <2>2. i - k \in 1..(Len(l) - 1 - k) /\ k + 1 + (i - k) = i + 1
    BY <1>1
  <2> QED
    BY <1>5, <2>1, <2>2
<1> QED
  BY <1>1, <1>3, <1>4, <1>6, <1>7 DEF k

\* Adding and removing keep a list in order.
LEMMA AddOrdered ==
    ASSUME NEW l \in Seq(Msgs), Ordered(l), NEW m \in Msgs
    PROVE  Ordered(SortedListAdd(l, m))
<1> DEFINE k == BisectRight(l, m)
           r == SortedListAdd(l, m)
           n == Len(l)
<1>1. /\ k \in 0..n /\ n \in Nat
      /\ Len(r) = n + 1
      /\ \A i \in 1..k : r[i] = l[i]
      /\ r[k + 1] = m
      /\ \A i \in (k + 1)..n : r[i + 1] = l[i]
  BY AddPositions
<1>2. \A i \in 1..n : i <= k <=> Key[l[i]] <= Key[m]
  BY BisectOrdered
<1>3. Key[m] \in Nat /\ \A i \in 1..n : Key[l[i]] \in Nat
  BY DeliveryAssumption, ElementOfSeq
<1>4. \A i, j \in 1..n : i < j => Key[l[i]] <= Key[l[j]]
  BY DEF Ordered
<1> HIDE DEF k, r, n
<1>5. ASSUME NEW i \in 1..(n + 1), NEW j \in 1..(n + 1), i < j
      PROVE  Key[r[i]] <= Key[r[j]]
  <2>1. CASE j <= k
    <3>1. i \in 1..k /\ j \in 1..k /\ i \in 1..n /\ j \in 1..n
      BY <1>1, <1>5, <2>1
    <3> QED
      BY <1>1, <1>4, <1>5, <3>1
  <2>2. CASE j = k + 1
    <3>1. i \in 1..k /\ i \in 1..n /\ i <= k
      BY <1>1, <1>5, <2>2
    <3> QED
      BY <1>1, <1>2, <2>2, <3>1
  <2>3. CASE j > k + 1
    <3>1. PICK q \in (k + 1)..n : j = q + 1
      <4>1. j - 1 \in (k + 1)..n /\ j = (j - 1) + 1
        BY <1>1, <2>3
      <4> QED
        BY <4>1
    <3>2. r[j] = l[q] /\ q \in 1..n /\ ~(q <= k)
      BY <1>1, <3>1
    <3>3. CASE i <= k
      <4>1. i \in 1..k /\ i \in 1..n /\ i < q
        BY <1>1, <3>1, <3>3
      <4> QED
        BY <1>1, <1>4, <3>2, <4>1
    <3>4. CASE i = k + 1
      <4>1. r[i] = m /\ Key[m] <= Key[l[q]]
        BY <1>1, <1>2, <1>3, <3>2, <3>4
      <4> QED
        BY <3>2, <4>1
    <3>5. CASE i > k + 1
      <4>1. PICK p \in (k + 1)..n : i = p + 1
        <5>1. i - 1 \in (k + 1)..n /\ i = (i - 1) + 1
          BY <1>1, <3>5
        <5> QED
          BY <5>1
      <4>2. r[i] = l[p] /\ p \in 1..n /\ p < q
        BY <1>1, <1>5, <3>1, <4>1
      <4> QED
        BY <1>4, <3>2, <4>2
    <3> QED
      BY <1>1, <3>3, <3>4, <3>5
  <2> QED
    BY <1>1, <2>1, <2>2, <2>3
<1>6. Ordered(r)
  BY <1>1, <1>5 DEF Ordered
<1> QED
  BY <1>6 DEF r

LEMMA RemoveOrdered ==
    ASSUME NEW l \in Seq(Msgs), Ordered(l), NEW m, SortedListHas(l, m)
    PROVE  Ordered(SortedListRemove(l, m))
<1> DEFINE k == BisectLeft(l, m)
           r == SortedListRemove(l, m)
           n == Len(l)
<1>1. /\ k \in 0..(n - 1) /\ n \in Nat
      /\ Len(r) = n - 1
      /\ \A i \in 1..k : r[i] = l[i]
      /\ \A i \in (k + 1)..(n - 1) : r[i] = l[i + 1]
  BY RemovePositions
<1>2. \A i, j \in 1..n : i < j => Key[l[i]] <= Key[l[j]]
  BY DEF Ordered
<1> HIDE DEF k, r, n
<1>3. ASSUME NEW i \in 1..(n - 1), NEW j \in 1..(n - 1), i < j
      PROVE  Key[r[i]] <= Key[r[j]]
  <2>1. PICK p \in 1..n : r[i] = l[p] /\ p = IF i <= k THEN i ELSE i + 1
    <3>1. CASE i <= k
      <4>1. i \in 1..k /\ i \in 1..n
        BY <1>1, <3>1
      <4> QED
        BY <1>1, <3>1, <4>1
    <3>2. CASE ~(i <= k)
      <4>1. i \in (k + 1)..(n - 1) /\ i + 1 \in 1..n
        BY <1>1, <3>2
      <4> QED
        BY <1>1, <3>2, <4>1
    <3> QED
      BY <3>1, <3>2
  <2>2. PICK q \in 1..n : r[j] = l[q] /\ q = IF j <= k THEN j ELSE j + 1
    <3>1. CASE j <= k
      <4>1. j \in 1..k /\ j \in 1..n
        BY <1>1, <3>1
      <4> QED
        BY <1>1, <3>1, <4>1
    <3>2. CASE ~(j <= k)
      <4>1. j \in (k + 1)..(n - 1) /\ j + 1 \in 1..n
        BY <1>1, <3>2
      <4> QED
        BY <1>1, <3>2, <4>1
    <3> QED
      BY <3>1, <3>2
  <2>3. p < q
    BY <1>1, <1>3, <2>1, <2>2
  <2> QED
    BY <1>2, <2>1, <2>2, <2>3
<1>4. Ordered(r)
  BY <1>1, <1>3 DEF Ordered
<1> QED
  BY <1>4 DEF r

\* Adding puts the message in, and whatever was there stays.
LEMMA AddElements ==
    ASSUME NEW S, NEW l \in Seq(S), NEW m \in S
    PROVE  /\ m \in Range(SortedListAdd(l, m))
           /\ Range(l) \subseteq Range(SortedListAdd(l, m))
<1> DEFINE k == BisectRight(l, m)
           r == SortedListAdd(l, m)
<1>1. /\ k \in 0..Len(l) /\ Len(l) \in Nat
      /\ Len(r) = Len(l) + 1
      /\ \A i \in 1..k : r[i] = l[i]
      /\ r[k + 1] = m
      /\ \A i \in (k + 1)..Len(l) : r[i + 1] = l[i]
  BY AddPositions
<1>2. r \in Seq(S) /\ DOMAIN r = 1..Len(r) /\ DOMAIN l = 1..Len(l)
  BY SortedListAddType, LenProperties
<1> HIDE DEF k, r
<1>3. m \in Range(r)
  <2>1. k + 1 \in DOMAIN r
    BY <1>1, <1>2
  <2> QED
    BY <1>1, <2>1 DEF Range
<1>4. ASSUME NEW i \in DOMAIN l PROVE l[i] \in Range(r)
  <2>1. CASE i <= k
    <3>1. i \in DOMAIN r /\ r[i] = l[i]
      BY <1>1, <1>2, <2>1
    <3> QED
      BY <3>1 DEF Range
  <2>2. CASE ~(i <= k)
    <3>1. i + 1 \in DOMAIN r /\ r[i + 1] = l[i]
      BY <1>1, <1>2, <2>2
    <3> QED
      BY <3>1 DEF Range
  <2> QED
    BY <2>1, <2>2
<1>5. Range(l) \subseteq Range(r)
  BY <1>4 DEF Range
<1> QED
  BY <1>3, <1>5 DEF r

\* Removing takes out one message, which compares equal to what is to be removed.
LEMMA RemoveElements ==
    ASSUME NEW l \in Seq(Msgs), Ordered(l), NEW m \in Msgs, SortedListHas(l, m)
    PROVE  \A x \in Range(l) : Key[x] = Key[m] \/ x \in Range(SortedListRemove(l, m))
<1> DEFINE k == BisectLeft(l, m)
           r == SortedListRemove(l, m)
<1>1. /\ k \in 0..(Len(l) - 1) /\ Len(l) \in Nat
      /\ Len(r) = Len(l) - 1
      /\ \A i \in 1..k : r[i] = l[i]
      /\ \A i \in (k + 1)..(Len(l) - 1) : r[i] = l[i + 1]
  BY RemovePositions
<1>2. r \in Seq(Msgs) /\ DOMAIN r = 1..Len(r) /\ DOMAIN l = 1..Len(l)
  BY SortedListRemoveType, LenProperties
<1>3. Key[l[k + 1]] = Key[m]
  <2>1. k + 1 \in 1..Len(l) /\ ~(k + 1 <= k) /\ k + 1 <= BisectRight(l, m)
    BY <1>1, BisectBounds DEF SortedListHas
  <2>2. Key[l[k + 1]] <= Key[m] /\ ~(Key[l[k + 1]] < Key[m])
    BY <2>1, BisectOrdered
  <2>3. Key[l[k + 1]] \in Nat /\ Key[m] \in Nat
    BY <2>1, ElementOfSeq, DeliveryAssumption
  <2> QED
    BY <2>2, <2>3
<1> HIDE DEF k, r
<1>4. ASSUME NEW i \in DOMAIN l PROVE Key[l[i]] = Key[m] \/ l[i] \in Range(r)
  <2>1. CASE i <= k
    <3>1. i \in DOMAIN r /\ r[i] = l[i]
      BY <1>1, <1>2, <2>1
    <3> QED
      BY <3>1 DEF Range
  <2>2. CASE i = k + 1
    BY <1>3, <2>2
  <2>3. CASE i > k + 1
    <3>1. i - 1 \in DOMAIN r /\ r[i - 1] = l[i]
      <4>1. i - 1 \in (k + 1)..(Len(l) - 1) /\ (i - 1) + 1 = i
        BY <1>1, <1>2, <2>3
      <4> QED
        BY <1>1, <1>2, <4>1
    <3> QED
      BY <3>1 DEF Range
  <2> QED
    BY <1>1, <1>2, <2>1, <2>2, <2>3
<1>5. \A x \in Range(l) : Key[x] = Key[m] \/ x \in Range(r)
  BY <1>4 DEF Range
<1> QED
  BY <1>5 DEF r

\* What is in a list is found by remove, in whatever order the list is.
LEMMA ListHasElements ==
    ASSUME NEW l \in Seq(Msgs), NEW m \in Range(l)
    PROVE  SortedListHas(l, m)
<1> DEFINE R == {i \in DOMAIN l : Key[l[i]] <= Key[m]}
           L == {i \in DOMAIN l : Key[l[i]] < Key[m]}
<1>1. Len(l) \in Nat /\ DOMAIN l = 1..Len(l)
  BY LenProperties
<1>2. PICK i \in DOMAIN l : l[i] = m
  BY DEF Range
<1>3. \A j \in DOMAIN l : Key[l[j]] \in Nat
  BY <1>1, ElementOfSeq, DeliveryAssumption
<1>4. L \in SUBSET R /\ i \in R /\ i \notin L
  BY <1>2, <1>3
<1>5. IsFiniteSet(R)
  <2>1. IsFiniteSet(1..Len(l)) /\ R \in SUBSET (1..Len(l))
    BY <1>1, FS_Interval
  <2> HIDE DEF R
  <2> QED
    BY <2>1, FS_Subset
<1>6. /\ IsFiniteSet(L) /\ Cardinality(L) <= Cardinality(R)
      /\ Cardinality(R) = Cardinality(L) => R = L
  <2> HIDE DEF R, L
  <2> QED
    BY <1>4, <1>5, FS_Subset
<1>7. Cardinality(R) \in Nat /\ Cardinality(L) \in Nat
  BY <1>5, <1>6, FS_CardinalityType
<1>8. Cardinality(L) < Cardinality(R)
  <2> HIDE DEF R, L
  <2> QED
    BY <1>4, <1>6, <1>7
<1> QED
  BY <1>8 DEF SortedListHas, BisectLeft, BisectRight

-----------------------------------------------------------------------------
(* Lists stay in order, and tasks alive.                                   *)

Busy(t) == pc[t] \in {"deliver", "confirm", "remove"}

\* As long as a tool handles the sub_key its task goes on, over the tool's own
\* list, which has the message that is being delivered.
Lively(t) ==
    /\ handles[t] => /\ keep_running[t] /\ ~detached[t]
                     /\ pc[t] \notin {"ended", "died"}
                     /\ Busy(t) => cur[t] \in Range(list[t])
    /\ pc[t] = "none" => ~detached[t]
    /\ lock[t] = "free" => pend[t] = <<>>
    /\ lock[t] = "adding" => handles[t]

Sound(t) == Ordered(list[t]) /\ Lively(t)

SoundInv == \A t \in Tools : Sound(t)

LEMMA OrderedEmpty == Ordered(<<>>)
BY DEF Ordered

\* A step is about one tool.
LEMMA OtherToolsSound ==
    ASSUME NEW u \in Tools, Sound(u),
           /\ handles'[u] = handles[u] /\ list'[u] = list[u] /\ lock'[u] = lock[u]
           /\ pend'[u] = pend[u] /\ keep_running'[u] = keep_running[u] /\ pc'[u] = pc[u]
           /\ cur'[u] = cur[u] /\ detached'[u] = detached[u]
    PROVE  Sound(u)'
BY DEF Sound, Lively, Busy, Ordered

\* Publications and notifications do not touch the tools.
LEMMA QuietSound ==
    ASSUME SoundInv, UNCHANGED <<toolVars, taskVars>>
    PROVE  SoundInv'
BY OtherToolsSound DEF SoundInv, toolVars, taskVars

\* The steps of a tool that leave the list as it is.
LEMMA ToolSound ==
    ASSUME Inv, SoundInv, NEW t \in Tools,
           \/ \E B \in inflight : HandleNewMessages(t, B)
           \/ StartAdding(t) \/ AddingFailed(t) \/ CreateDeliveryTask(t) \/ SubscribeWSX(t)
           \/ Disconnect(t)
    PROVE  SoundInv'
<1>1. \A u \in Tools \ {t} : Sound(u)'
  BY OtherToolsSound
     DEF Inv, TypeOK, SoundInv, HandleNewMessages, StartAdding, AddingFailed, CreateDeliveryTask,
         SubscribeWSX, Disconnect, AddSubKey, DropSubKey, taskVars
<1>2. list' = list /\ Ordered(list[t]) /\ Lively(t)
  BY DEF SoundInv, Sound, HandleNewMessages, StartAdding, AddingFailed, CreateDeliveryTask,
         SubscribeWSX, Disconnect, AddSubKey
<1>3. Ordered(list[t])'
  BY <1>2 DEF Ordered
<1>4. Lively(t)'
  <2>1. CASE \E B \in inflight : HandleNewMessages(t, B)
    BY <1>2, <2>1 DEF Inv, TypeOK, Lively, Busy, HandleNewMessages, taskVars
  <2>2. CASE StartAdding(t)
    BY <1>2, <2>2 DEF Inv, TypeOK, Lively, Busy, StartAdding, taskVars
  <2>3. CASE AddingFailed(t)
    BY <1>2, <2>3 DEF Inv, TypeOK, Lively, Busy, AddingFailed, taskVars
  <2>4. CASE CreateDeliveryTask(t) \/ SubscribeWSX(t)
    <3>1. pc[t] = "none"
      BY <2>4 DEF CreateDeliveryTask, SubscribeWSX, Subscribed
    <3>2. /\ AddSubKey(t)
          /\ UNCHANGED <<lock, pend>>
      BY <2>4 DEF CreateDeliveryTask, SubscribeWSX
    <3> QED
      BY <1>2, <3>1, <3>2 DEF Inv, TypeOK, Lively, Busy, AddSubKey
  <2>5. CASE Disconnect(t)
    BY <1>2, <2>5 DEF Inv, TypeOK, Lively, Disconnect, DropSubKey, Adding
  <2> QED
    BY <2>1, <2>2, <2>3, <2>4, <2>5
<1> QED
  BY <1>1, <1>3, <1>4 DEF SoundInv, Sound

\* list.add keeps the list in order, and the message that is being delivered in it.
LEMMA AddMessageSound ==
    ASSUME Inv, SoundInv, NEW t \in Tools, AddMessage(t)
    PROVE  SoundInv'
<1>1. \A u \in Tools \ {t} : Sound(u)'
  BY OtherToolsSound DEF Inv, TypeOK, SoundInv, AddMessage, taskVars
<1>2. /\ list[t] \in Seq(Msgs) /\ pend[t] \in Seq(Msgs) /\ pend[t] # <<>>
      /\ Ordered(list[t]) /\ Lively(t)
  BY DEF Inv, TypeOK, Consistent, SoundInv, Sound, AddMessage
<1>3. Head(pend[t]) \in Msgs /\ (Len(pend[t]) = 1 => Tail(pend[t]) = <<>>)
  <2>1. /\ Head(pend[t]) \in Msgs
        /\ Tail(pend[t]) \in Seq(Msgs)
        /\ Len(Tail(pend[t])) = Len(pend[t]) - 1
    BY <1>2, HeadTailProperties
  <2>2. Len(pend[t]) = 1 => Len(Tail(pend[t])) = 0
    BY <2>1
  <2> QED
    BY <2>1, <2>2, EmptySeq
<1>4. /\ Ordered(SortedListAdd(list[t], Head(pend[t])))
      /\ Range(list[t]) \subseteq Range(SortedListAdd(list[t], Head(pend[t])))
  BY <1>2, <1>3, AddOrdered, AddElements
<1>5. /\ list'[t] = SortedListAdd(list[t], Head(pend[t]))
      /\ pend'[t] = Tail(pend[t])
      /\ lock'[t] = IF Len(pend[t]) = 1 THEN "free" ELSE lock[t]
      /\ lock[t] # "free"
      /\ UNCHANGED <<handles, taskVars>>
  BY DEF Inv, TypeOK, AddMessage, Adding
<1>6. Ordered(list[t])'
  BY <1>4, <1>5 DEF Ordered
<1>7. Lively(t)'
  BY <1>2, <1>3, <1>4, <1>5 DEF Lively, Busy, taskVars
<1> QED
  BY <1>1, <1>6, <1>7 DEF SoundInv, Sound

\* A migration takes the list away from a task that was told to stop, a crash both.
LEMMA EndSound ==
    ASSUME Inv, SoundInv, NEW t \in Tools, Migrate(t) \/ Crash(t)
    PROVE  SoundInv'
<1>1. \A u \in Tools \ {t} : Sound(u)'
  BY OtherToolsSound DEF Inv, TypeOK, SoundInv, Migrate, Crash, ClearList, DropSubKey
<1>2. list'[t] = <<>>
  BY DEF Inv, TypeOK, Migrate, Crash, ClearList
<1>3. Ordered(list[t])'
  BY <1>2, OrderedEmpty DEF Ordered
<1>4. Lively(t)'
  <2>1. CASE Migrate(t)
    BY <2>1 DEF Inv, TypeOK, Consistent, SoundInv, Sound, Lively, Migrate, DropSubKey, Adding
  <2>2. CASE Crash(t)
    BY <2>2 DEF Inv, TypeOK, Lively, Crash
  <2> QED
    BY <2>1, <2>2
<1> QED
  BY <1>1, <1>3, <1>4 DEF SoundInv, Sound

\* The next turn of the loop over the list.
LEMMA NextMessageLively ==
    ASSUME Inv, NEW t \in Tools, Lively(t), pc[t] # "none", NEW l \in Seq(Msgs),
           NextMessage(t, l), handles[t] => list'[t] = l,
           UNCHANGED <<handles, lock, pend, keep_running>>
    PROVE  Lively(t)'
<1>1. CASE /\ idx[t] < Len(l)
           /\ cur' = [cur EXCEPT ![t] = l[idx[t] + 1]]
           /\ idx' = [idx EXCEPT ![t] = @ + 1]
           /\ pc' = [pc EXCEPT ![t] = "deliver"]
           /\ UNCHANGED <<detached, walk>>
  <2>1. idx[t] + 1 \in DOMAIN l
    BY <1>1, LenProperties DEF Inv, TypeOK
  <2>2. l[idx[t] + 1] \in Range(l)
    BY <2>1 DEF Range
  <2> QED
    BY <1>1, <2>2 DEF Inv, TypeOK, Lively, Busy
<1>2. CASE LeavePass(t, "sleep")
  BY <1>2 DEF Inv, TypeOK, Lively, Busy, LeavePass
<1> QED
  BY <1>1, <1>2 DEF NextMessage

\* The steps of a task that leave the list as it is.
LEMMA TaskSound ==
    ASSUME Inv, SoundInv, NEW t \in Tools,
           \/ StopLoop(t) \/ StartDelivery(t) \/ DeliverOK(t) \/ DeliverFailed(t)
           \/ ConfirmOK(t) \/ ConfirmFailed(t)
    PROVE  SoundInv'
<1>1. \A u \in Tools \ {t} : Sound(u)'
  BY OtherToolsSound
     DEF Inv, TypeOK, SoundInv, StopLoop, StartDelivery, DeliverOK, DeliverFailed, ConfirmOK,
         ConfirmFailed, NextMessage, LeavePass, toolVars
<1>2. UNCHANGED <<handles, list, lock, pend, keep_running>>
  BY DEF StopLoop, StartDelivery, DeliverOK, DeliverFailed, ConfirmOK, ConfirmFailed, toolVars
<1>3. Ordered(list[t]) /\ Lively(t) /\ list[t] \in Seq(Msgs) /\ walk[t] \in Seq(Msgs)
  BY DEF Inv, TypeOK, SoundInv, Sound
<1>4. Ordered(list[t])'
  BY <1>2, <1>3 DEF Ordered
<1>5. Lively(t)'
  <2>1. CASE StopLoop(t)
    BY <1>2, <1>3, <2>1 DEF Inv, TypeOK, Lively, Busy, StopLoop
  <2>2. CASE StartDelivery(t)
    BY <1>2, <1>3, <2>2, NextMessageLively DEF StartDelivery
  <2>3. CASE DeliverOK(t) \/ ConfirmOK(t)
    BY <1>2, <1>3, <2>3 DEF Inv, TypeOK, Lively, Busy, DeliverOK, ConfirmOK
  <2>4. CASE DeliverFailed(t)
    BY <1>2, <1>3, <2>4 DEF Inv, TypeOK, Lively, Busy, DeliverFailed, LeavePass
  <2>5. CASE ConfirmFailed(t)
    <3>1. (IF detached[t] THEN walk[t] ELSE list[t]) \in Seq(Msgs)
      BY <1>3
    <3>2. handles[t] => list'[t] = IF detached[t] THEN walk[t] ELSE list[t]
      BY <1>2, <1>3 DEF Lively
    <3>3. NextMessage(t, IF detached[t] THEN walk[t] ELSE list[t]) /\ pc[t] # "none"
      BY <2>5 DEF ConfirmFailed
    <3> QED
      BY <1>2, <1>3, <3>1, <3>2, <3>3, NextMessageLively
  <2> QED
    BY <2>1, <2>2, <2>3, <2>4, <2>5
<1> QED
  BY <1>1, <1>4, <1>5 DEF SoundInv, Sound

\* delivery_list.remove: the message is in the list of a task in charge.
LEMMA RemoveDeliveredSound ==
    ASSUME Inv, SoundInv, NEW t \in Tools, RemoveDelivered(t)
    PROVE  SoundInv'
<1>1. \A u \in Tools \ {t} : Sound(u)'
  BY OtherToolsSound DEF Inv, TypeOK, SoundInv, RemoveDelivered, NextMessage, LeavePass
<1>2. /\ Ordered(list[t]) /\ Lively(t) /\ list[t] \in Seq(Msgs) /\ walk[t] \in Seq(Msgs)
      /\ pc[t] = "remove"
      /\ UNCHANGED <<handles, lock, pend, keep_running>>
  BY DEF Inv, TypeOK, SoundInv, Sound, RemoveDelivered
<1>3. CASE SortedListHas(list[t], cur[t])
  <2> DEFINE r == SortedListRemove(list[t], cur[t])
             l == IF detached[t] THEN walk[t] ELSE r
  <2>1. r \in Seq(Msgs) /\ Ordered(r)
    BY <1>2, <1>3, SortedListRemoveType, RemoveOrdered
  <2>2. list'[t] = r /\ NextMessage(t, l)
    BY <1>3 DEF Inv, TypeOK, RemoveDelivered
  <2> HIDE DEF r
  <2>3. l \in Seq(Msgs) /\ (handles[t] => list'[t] = l)
    BY <1>2, <2>1, <2>2 DEF Lively
  <2>4. Lively(t)'
    <3> HIDE DEF l
    <3> QED
      BY <1>2, <2>2, <2>3, NextMessageLively
  <2>5. Ordered(list[t])'
    BY <2>1, <2>2 DEF Ordered
  <2> QED
    BY <1>1, <2>4, <2>5 DEF SoundInv, Sound
<1>4. CASE ~SortedListHas(list[t], cur[t])
  <2>1. ~handles[t]
    BY <1>2, <1>4, ListHasElements DEF Lively, Busy
  <2>2. LeavePass(t, "died") /\ list' = list
    BY <1>4 DEF RemoveDelivered
  <2>3. Lively(t)'
    BY <1>2, <2>1, <2>2 DEF Inv, TypeOK, Lively, LeavePass
  <2>4. Ordered(list[t])'
    BY <1>2, <2>2 DEF Ordered
  <2> QED
    BY <1>1, <2>3, <2>4 DEF SoundInv, Sound
<1> QED
  BY <1>3, <1>4

LEMMA NextSound == Inv /\ SoundInv /\ [Next]_vars => SoundInv'
<1> SUFFICES ASSUME Inv, SoundInv, [Next]_vars PROVE SoundInv'
  OBVIOUS
<1>1. CASE \/ \E B \in Batches : Publish(B)
           \/ \E m \in Expirable : Expire(m)
           \/ \E B \in inflight : NotifyFailed(B)
           \/ \E B \in unanswered : AnswerLost(B)
           \/ AfterWSXReconnect
           \/ UNCHANGED vars
  BY <1>1, QuietSound DEF Publish, Expire, NotifyFailed, AnswerLost, AfterWSXReconnect, vars
<1>2. ASSUME NEW t \in Tools, NEW B \in inflight, HandleNewMessages(t, B) PROVE SoundInv'
  BY <1>2, ToolSound
<1>3. ASSUME NEW t \in Tools, ToolStep(t) PROVE SoundInv'
  BY <1>3, ToolSound, AddMessageSound DEF ToolStep
<1>4. ASSUME NEW t \in Tools, TaskStep(t) PROVE SoundInv'
  BY <1>4, TaskSound, RemoveDeliveredSound DEF TaskStep
<1>5. ASSUME NEW t \in Tools, Disconnect(t) \/ Migrate(t) \/ Crash(t) PROVE SoundInv'
  BY <1>5, ToolSound, EndSound
<1> QED
  BY <1>1, <1>2, <1>3, <1>4, <1>5 DEF Next

LEMMA SoundHolds == Spec => []SoundInv
<1>1. Init => SoundInv
  BY OrderedEmpty DEF Init, SoundInv, Sound, Lively, Busy
<1>2. Inv /\ SoundInv /\ [Next]_vars => SoundInv'
  BY NextSound
<1> QED
  BY <1>1, <1>2, InvHolds, PTL DEF Spec

\* SortedList's bisections are right: adding, removing and clearing keep each
\* list in the order of Message.__cmp__, whatever else is done to it.
THEOREM SortedSafety == Spec => []ListsSorted
<1>1. SoundInv => ListsSorted
  BY DEF SoundInv, Sound, Ordered, ListsSorted
<1> QED
  BY <1>1, SoundHolds, PTL

\* A task whose tool handles the sub_key does not die: remove finds the message,
\* or one equal to it, although others add to the list meanwhile.
THEOREM AliveSafety == Spec => []TaskAlive
<1>1. SoundInv => TaskAlive
  BY DEF SoundInv, Sound, Lively, TaskAlive
<1> QED
  BY <1>1, SoundHolds, PTL

-----------------------------------------------------------------------------
(* Non-GD messages.                                                        *)

\* An ordering of a finite set has all its members.
LEMMA OrderingComplete ==
    ASSUME NEW S, IsFiniteSet(S), NEW s \in SetToSeqs(S)
    PROVE  S \subseteq Range(s)
<1> DEFINE n == Cardinality(S)
<1>1. n \in Nat /\ s \in [1..n -> S] /\ \A i, j \in 1..n : i # j => s[i] # s[j]
  BY FS_CardinalityType DEF SetToSeqs
<1>2. s \in Injection(1..n, S)
  BY <1>1 DEF Injection, IsInjective
<1>3. IsFiniteSet(1..n) /\ Cardinality(1..n) = n
  BY <1>1, FS_Interval
<1>4. s \in Surjection(1..n, S)
  BY <1>2, <1>3, FS_Injection
<1> QED
  BY <1>1, <1>4 DEF Surjection, Range

\* What a list ends with is in it.
LEMMA ConcatRange ==
    ASSUME NEW S, NEW a \in Seq(S), NEW b \in Seq(S)
    PROVE  Range(b) \subseteq Range(a \o b)
<1>1. /\ Len(a) \in Nat /\ Len(b) \in Nat /\ DOMAIN b = 1..Len(b)
      /\ DOMAIN (a \o b) = 1..(Len(a) + Len(b))
      /\ \A i \in 1..(Len(a) + Len(b)) :
            (a \o b)[i] = IF i <= Len(a) THEN a[i] ELSE b[i - Len(a)]
  BY ConcatProperties, LenProperties
<1>2. ASSUME NEW i \in DOMAIN b PROVE b[i] \in Range(a \o b)
  <2>1. /\ Len(a) + i \in 1..(Len(a) + Len(b)) /\ ~(Len(a) + i <= Len(a))
        /\ (Len(a) + i) - Len(a) = i
    BY <1>1
  <2>2. (a \o b)[Len(a) + i] = b[i] /\ Len(a) + i \in DOMAIN (a \o b)
    BY <1>1, <2>1
  <2> QED
    BY <2>2 DEF Range
<1> QED
  BY <1>2 DEF Range

\* A step that loses nothing of what is kept keeps every message.
LEMMA ElsewhereKept ==
    ASSUME NonGDNotLost, published' = published, given_up \subseteq given_up',
           \A m \in Msgs : handed[m] > 0 => handed'[m] > 0,
           \A m \in NonGD : Kept(m) => Kept(m)' \/ m \in given_up' \/ EqualAccepted(m)'
    PROVE  NonGDNotLost'
BY DEF NonGDNotLost, EqualAccepted

\* What is under way, parked, listed or to be added in all that did not change.
LEMMA SamePlaces ==
    ASSUME NonGDNotLost, UNCHANGED <<envVars, handed, list, pend>>,
           \A u \in Tools : handles[u] => handles'[u]
    PROVE  NonGDNotLost'
<1>1. \A m \in NonGD : Kept(m) => Kept(m)'
  BY DEF Kept, Notified, envVars
<1> QED
  BY <1>1, ElsewhereKept DEF envVars

\* A publication puts its messages under way.
LEMMA PublishKept ==
    ASSUME NonGDNotLost, NEW B \in Batches, Publish(B)
    PROVE  NonGDNotLost'
<1>1. \A m \in NonGD : m \in B => Notified(m)'
  BY DEF Publish, Notified
<1>2. \A m \in NonGD : Kept(m) => Kept(m)'
  BY DEF Publish, Notified, Kept, toolVars
<1>3. published' = published \cup B /\ UNCHANGED <<handed, given_up>>
  BY DEF Publish
<1> QED
  BY <1>1, <1>2, <1>3 DEF NonGDNotLost, EqualAccepted, Kept

\* A notification that fails, or is not answered, stores them in RAM.
LEMMA NotifyFailedKept ==
    ASSUME NonGDNotLost, NEW B, NotifyFailed(B) \/ AnswerLost(B)
    PROVE  NonGDNotLost'
<1>1. \A m \in NonGD : m \in B => m \in backlog'
  BY DEF NotifyFailed, AnswerLost, ToStoreInRAM
<1>2. \A m \in NonGD : Notified(m) => Notified(m)' \/ m \in B
  BY DEF NotifyFailed, AnswerLost, Notified
<1>3. backlog \subseteq backlog' /\ UNCHANGED <<published, given_up, handed, toolVars>>
  BY DEF NotifyFailed, AnswerLost
<1>4. \A m \in NonGD : Kept(m) => Kept(m)'
  BY <1>1, <1>2, <1>3 DEF Kept, toolVars
<1> QED
  BY <1>3, <1>4, ElsewhereKept

\* A tool that is notified has them to add: it had nothing else.
LEMMA HandleNewMessagesKept ==
    ASSUME Inv, SoundInv, NonGDNotLost, NEW t \in Tools, NEW B \in inflight,
           HandleNewMessages(t, B)
    PROVE  NonGDNotLost'
<1>1. PICK non_gd \in SetToSeqs(B \cap NonGD) :
        \/ \E s \in OrderedRows(SQLMessages) : pend' = [pend EXCEPT ![t] = ToAdd(s, non_gd)]
        \/ pend' = [pend EXCEPT ![t] = non_gd]
  BY DEF HandleNewMessages
<1>2. pend[t] = <<>>
  BY DEF HandleNewMessages, SoundInv, Sound, Lively
<1>3. non_gd \in Seq(Msgs) /\ B \cap NonGD \subseteq Range(non_gd)
  <2>1. B \cap NonGD \in SUBSET Msgs
    BY DEF Msgs
  <2>2. IsFiniteSet(B \cap NonGD) /\ non_gd \in Seq(B \cap NonGD)
    BY <2>1, MessageSetsFinite, OrderingType
  <2>3. non_gd \in Seq(Msgs)
    BY <2>1, <2>2, SeqMonotone
  <2>4. B \cap NonGD \subseteq Range(non_gd)
    BY <2>2, OrderingComplete
  <2> QED
    BY <2>3, <2>4
<1>4. \A m \in NonGD : m \in B => m \in Range(pend'[t])
  <2>1. CASE pend' = [pend EXCEPT ![t] = non_gd]
    BY <1>3, <2>1 DEF Inv, TypeOK
  <2>2. CASE \E s \in OrderedRows(SQLMessages) : pend' = [pend EXCEPT ![t] = ToAdd(s, non_gd)]
    <3>1. PICK s \in OrderedRows(SQLMessages) : pend' = [pend EXCEPT ![t] = ToAdd(s, non_gd)]
      BY <2>2
    <3>2. s \in Seq(Msgs)
      <4>1. s \in Seq(published)
        BY RowsRead DEF Inv
      <4> QED
        BY <4>1, SeqMonotone DEF Inv, TypeOK
    <3>3. Range(non_gd) \subseteq Range(s \o non_gd)
      BY <1>3, <3>2, ConcatRange
    <3>4. pend'[t] = s \o non_gd
      BY <3>1 DEF Inv, TypeOK, ToAdd
    <3> QED
      BY <1>3, <3>3, <3>4
  <2> QED
    BY <1>1, <2>1, <2>2
<1>5. \A u \in Tools : Range(pend[u]) \subseteq Range(pend'[u])
  <2>1. \A u \in Tools \ {t} : pend'[u] = pend[u]
    BY <1>1 DEF Inv, TypeOK
  <2>2. Range(pend[t]) = {}
    BY <1>2 DEF Range
  <2> QED
    BY <2>1, <2>2
<1>6. \A m \in NonGD : Notified(m) => Notified(m)' \/ m \in B
  BY DEF HandleNewMessages, Notified
<1>7. UNCHANGED <<published, backlog, given_up, handed, handles, list>>
  BY DEF HandleNewMessages
<1>8. \A m \in NonGD : Kept(m) => Kept(m)'
  BY <1>4, <1>5, <1>6, <1>7 DEF Kept
<1> QED
  BY <1>7, <1>8, ElsewhereKept

\* list.add moves a message from those to be added to the list.
LEMMA AddMessageKept ==
    ASSUME Inv, SoundInv, NonGDNotLost, NEW t \in Tools, AddMessage(t)
    PROVE  NonGDNotLost'
<1> DEFINE h == Head(pend[t])
           l == SortedListAdd(list[t], h)
<1>1. pend[t] \in Seq(Msgs) /\ pend[t] # <<>> /\ list[t] \in Seq(Msgs)
  BY DEF Inv, TypeOK, Consistent, AddMessage
<1>2. /\ h \in Msgs /\ h = pend[t][1]
      /\ Tail(pend[t]) \in Seq(Msgs)
      /\ Len(Tail(pend[t])) = Len(pend[t]) - 1
      /\ \A i \in 1..Len(Tail(pend[t])) : Tail(pend[t])[i] = pend[t][i + 1]
  BY <1>1, HeadTailProperties
<1>3. h \in Range(l) /\ Range(list[t]) \subseteq Range(l)
  BY <1>1, <1>2, AddElements
<1>4. Range(pend[t]) \subseteq {h} \cup Range(Tail(pend[t]))
  <2> SUFFICES ASSUME NEW i \in DOMAIN pend[t], i # 1
               PROVE  pend[t][i] \in Range(Tail(pend[t]))
    BY <1>2 DEF Range
  <2>1. /\ DOMAIN pend[t] = 1..Len(pend[t]) /\ DOMAIN Tail(pend[t]) = 1..Len(Tail(pend[t]))
        /\ Len(pend[t]) \in Nat
    BY <1>1, <1>2, LenProperties
  <2>2. i - 1 \in DOMAIN Tail(pend[t]) /\ (i - 1) + 1 = i
    BY <1>2, <2>1
  <2>3. Tail(pend[t])[i - 1] = pend[t][i]
    BY <1>2, <2>1, <2>2
  <2> QED
    BY <2>2, <2>3 DEF Range
<1>5. list'[t] = l /\ pend'[t] = Tail(pend[t])
  BY DEF Inv, TypeOK, AddMessage
<1>6. \A u \in Tools \ {t} : list'[u] = list[u] /\ pend'[u] = pend[u]
  BY DEF Inv, TypeOK, AddMessage
<1> HIDE DEF h, l
<1>7. /\ handles[t]
      /\ UNCHANGED <<published, inflight, backlog, given_up, handed, handles>>
  BY DEF SoundInv, Sound, Lively, AddMessage, Adding, envVars
<1>8. \A m \in NonGD : Kept(m) => Kept(m)'
  <2> SUFFICES ASSUME NEW m \in NonGD, Kept(m) PROVE Kept(m)'
    OBVIOUS
  <2>1. CASE Notified(m) \/ m \in backlog
    BY <1>7, <2>1 DEF Kept, Notified
  <2>2. CASE m \in Range(pend[t]) \/ m \in Range(list[t])
    <3>1. m \in Range(pend'[t]) \/ m \in Range(list'[t])
      BY <1>3, <1>4, <1>5, <2>2
    <3> QED
      BY <1>7, <3>1 DEF Kept
  <2>3. ASSUME NEW u \in Tools \ {t}, m \in Range(pend[u]) \/ (handles[u] /\ m \in Range(list[u]))
        PROVE  Kept(m)'
    BY <1>6, <1>7, <2>3 DEF Kept
  <2>4. \/ Notified(m) \/ m \in backlog
        \/ \E u \in Tools : m \in Range(pend[u]) \/ (handles[u] /\ m \in Range(list[u]))
    BY DEF Kept
  <2> QED
    BY <2>1, <2>2, <2>3, <2>4
<1> QED
  BY <1>7, <1>8, ElsewhereKept

\* What remove takes out compares equal to the message that was accepted.
LEMMA RemoveDeliveredKept ==
    ASSUME Inv, SoundInv, NonGDNotLost, NEW t \in Tools, RemoveDelivered(t)
    PROVE  NonGDNotLost'
<1>1. /\ Ordered(list[t]) /\ list[t] \in Seq(Msgs)
      /\ cur[t] \in Msgs /\ handed[cur[t]] > 0
      /\ UNCHANGED <<published, inflight, backlog, given_up, handed, handles, pend>>
  BY DEF Inv, TypeOK, Consistent, SoundInv, Sound, RemoveDelivered, envVars
<1>2. \A m \in Range(list[t]) : Key[m] = Key[cur[t]] \/ m \in Range(list'[t])
  <2>1. CASE SortedListHas(list[t], cur[t])
    <3>1. list'[t] = SortedListRemove(list[t], cur[t])
      BY <2>1 DEF Inv, TypeOK, RemoveDelivered
    <3> QED
      BY <1>1, <2>1, <3>1, RemoveElements
  <2>2. CASE ~SortedListHas(list[t], cur[t])
    BY <2>2 DEF RemoveDelivered
  <2> QED
    BY <2>1, <2>2
<1>3. \A u \in Tools \ {t} : list'[u] = list[u]
  BY DEF Inv, TypeOK, RemoveDelivered
<1>4. \A m \in NonGD : Key[m] = Key[cur[t]] => EqualAccepted(m)'
  BY <1>1 DEF EqualAccepted
<1>5. \A m \in NonGD : Kept(m) => Kept(m)' \/ EqualAccepted(m)'
  <2> SUFFICES ASSUME NEW m \in NonGD, Kept(m), Key[m] # Key[cur[t]] PROVE Kept(m)'
    BY <1>4
  <2>1. \A u \in Tools : m \in Range(list[u]) => m \in Range(list'[u])
    BY <1>2, <1>3
  <2> QED
    BY <1>1, <2>1 DEF Kept, Notified
<1> QED
  BY <1>1, <1>5, ElsewhereKept

\* The other steps of the tools and tasks leave messages where they are, or park
\* those that could not be added.
LEMMA StepKept ==
    ASSUME Inv, SoundInv, NonGDNotLost, NEW t \in Tools, ToolStep(t) \/ TaskStep(t)
    PROVE  NonGDNotLost'
<1>1. CASE AddingFailed(t)
  <2>1. /\ backlog' = backlog \cup (Range(pend[t]) \cap NonGD)
        /\ \A u \in Tools \ {t} : pend'[u] = pend[u]
        /\ UNCHANGED <<published, inflight, given_up, handed, handles, list>>
    BY <1>1 DEF Inv, TypeOK, AddingFailed, ToStoreInRAM
  <2>2. \A m \in NonGD : Kept(m) => Kept(m)'
    BY <2>1 DEF Kept, Notified
  <2> QED
    BY <2>1, <2>2, ElsewhereKept
<1>2. CASE StartAdding(t) \/ CreateDeliveryTask(t) \/ SubscribeWSX(t)
  <2>1. UNCHANGED <<envVars, handed, list, pend>>
    BY <1>2 DEF StartAdding, CreateDeliveryTask, SubscribeWSX, AddSubKey
  <2>2. \A u \in Tools : handles[u] => handles'[u]
    BY <1>2 DEF Inv, TypeOK, StartAdding, CreateDeliveryTask, SubscribeWSX, AddSubKey
  <2> QED
    BY <2>1, <2>2, SamePlaces
<1>3. CASE StopLoop(t) \/ StartDelivery(t) \/ DeliverFailed(t) \/ ConfirmOK(t)
             \/ ConfirmFailed(t)
  <2>1. UNCHANGED <<envVars, handed, handles, list, pend>>
    BY <1>3 DEF StopLoop, StartDelivery, DeliverFailed, ConfirmOK, ConfirmFailed, toolVars
  <2> QED
    BY <2>1, SamePlaces
<1>4. CASE DeliverOK(t)
  <2>1. UNCHANGED <<envVars, handles, list, pend>>
    BY <1>4 DEF DeliverOK, toolVars
  <2>2. \A m \in Msgs : handed[m] > 0 => handed'[m] > 0
    <3>1. cur[t] \in Msgs /\ handed \in [Msgs -> 0..2]
      BY <1>4 DEF Inv, TypeOK, Consistent, DeliverOK
    <3>2. handed' = [handed EXCEPT ![cur[t]] = IF @ = 2 THEN 2 ELSE @ + 1]
      BY <1>4 DEF DeliverOK
    <3>3. \A m \in Msgs : handed[m] \in 0..2
                          /\ handed'[m] = IF m # cur[t] THEN handed[m]
                                          ELSE IF handed[m] = 2 THEN 2 ELSE handed[m] + 1
      BY <3>1, <3>2
    <3> QED
      BY <3>3
  <2>3. \A m \in NonGD : Kept(m) => Kept(m)'
    BY <2>1 DEF Kept, Notified, envVars
  <2> QED
    BY <2>1, <2>2, <2>3, ElsewhereKept DEF envVars
<1>5. CASE AddMessage(t) \/ RemoveDelivered(t)
  BY <1>5, AddMessageKept, RemoveDeliveredKept
<1> QED
  BY <1>1, <1>2, <1>3, <1>4, <1>5 DEF ToolStep, TaskStep

\* What a tool had when it lost the sub_key, and what was collected, is given up.
LEMMA GivenUpKept ==
    ASSUME Inv, NonGDNotLost,
           AfterWSXReconnect \/ \E t \in Tools : Disconnect(t) \/ Migrate(t) \/ Crash(t)
    PROVE  NonGDNotLost'
<1>1. CASE AfterWSXReconnect
  <2>1. /\ given_up' = given_up \cup (backlog \cap NonGD)
        /\ UNCHANGED <<published, inflight, handed, handles, list, pend>>
    BY <1>1 DEF AfterWSXReconnect, GiveUp, toolVars
  <2>2. \A m \in NonGD : Kept(m) => Kept(m)' \/ m \in given_up'
    BY <2>1 DEF Kept, Notified
  <2> QED
    BY <2>1, <2>2, ElsewhereKept
<1>2. ASSUME NEW t \in Tools, Disconnect(t) \/ Migrate(t) \/ Crash(t) PROVE NonGDNotLost'
  <2>1. /\ UNCHANGED <<published, inflight, backlog, handed>>
        /\ given_up \subseteq given_up' /\ Range(list[t]) \cap NonGD \subseteq given_up'
        /\ pend'[t] = pend[t] \/ Range(pend[t]) \cap NonGD \subseteq given_up'
    BY <1>2 DEF Disconnect, Migrate, Crash, GiveUp
  <2>2. \A u \in Tools \ {t} : /\ handles'[u] = handles[u] /\ list'[u] = list[u]
                              /\ pend'[u] = pend[u]
    BY <1>2 DEF Inv, TypeOK, Disconnect, Migrate, Crash, DropSubKey, ClearList
  <2>3. ASSUME NEW m \in NonGD, Kept(m) PROVE Kept(m)' \/ m \in given_up'
    <3>1. CASE Notified(m) \/ m \in backlog
      BY <2>1, <3>1 DEF Kept, Notified
    <3>2. CASE m \in Range(pend[t]) \/ m \in Range(list[t])
      BY <2>1, <3>2 DEF Kept
    <3>3. ASSUME NEW u \in Tools \ {t},
                 m \in Range(pend[u]) \/ (handles[u] /\ m \in Range(list[u]))
          PROVE  Kept(m)'
      BY <2>2, <3>3 DEF Kept
    <3>4. \/ Notified(m) \/ m \in backlog
          \/ \E u \in Tools : m \in Range(pend[u]) \/ (handles[u] /\ m \in Range(list[u]))
      BY <2>3 DEF Kept
    <3> QED
      BY <3>1, <3>2, <3>3, <3>4
  <2> QED
    BY <2>1, <2>3, ElsewhereKept
<1> QED
  BY <1>1, <1>2

LEMMA NextKept == Inv /\ SoundInv /\ NonGDNotLost /\ [Next]_vars => NonGDNotLost'
<1> SUFFICES ASSUME Inv, SoundInv, NonGDNotLost, [Next]_vars PROVE NonGDNotLost'
  OBVIOUS
<1>1. ASSUME NEW B \in Batches, Publish(B) PROVE NonGDNotLost'
  BY <1>1, PublishKept
<1>2. CASE (\E B \in inflight : NotifyFailed(B)) \/ \E B \in unanswered : AnswerLost(B)
  BY <1>2, NotifyFailedKept
<1>3. ASSUME NEW t \in Tools, NEW B \in inflight, HandleNewMessages(t, B) PROVE NonGDNotLost'
  BY <1>3, HandleNewMessagesKept
<1>4. ASSUME NEW t \in Tools, ToolStep(t) \/ TaskStep(t) PROVE NonGDNotLost'
  BY <1>4, StepKept
<1>5. CASE AfterWSXReconnect \/ \E t \in Tools : Disconnect(t) \/ Migrate(t) \/ Crash(t)
  BY <1>5, GivenUpKept
<1>6. CASE (\E m \in Expirable : Expire(m)) \/ UNCHANGED vars
  <2>1. UNCHANGED <<envVars, handed, handles, list, pend>>
    BY <1>6 DEF Expire, vars, toolVars
  <2> QED
    BY <2>1, SamePlaces
<1> QED
  BY <1>1, <1>2, <1>3, <1>4, <1>5, <1>6 DEF Next

\* Whatever keys messages have and however often a notification fails, a non-GD
\* message is under way, parked, listed where the task runs, accepted or given
\* up, or else the endpoint accepted a message that compares equal to it.
THEOREM NonGDSafety == Spec => []NonGDNotLost
<1>1. Init => NonGDNotLost
  BY DEF Init, NonGDNotLost
<1> QED
  BY <1>1, NextKept, InvHolds, SoundHolds, PTL DEF Spec
=============================================================================
