-------------------------- MODULE InRAMBacklogProofs --------------------------
(***************************************************************************)
(* Proofs about InRAMBacklog, for any number of subscribers, messages and  *)
(* publications and any maximum depth: what has not expired is kept as     *)
(* long as anybody waits for it, no queue is longer than allowed, and the  *)
(* dictionaries implement one queue per sub_key.                           *)
(***************************************************************************)
EXTENDS InRAMBacklog, FiniteSetTheorems, TLAPS

\* There are finitely many messages in any set of them.
LEMMA MessageSetsFinite ==
    ASSUME NEW S \in SUBSET Msgs
    PROVE  IsFiniteSet(S) /\ Cardinality(S) \in Nat
BY BacklogAssumption, FS_Subset, FS_CardinalityType

\* An empty backlog satisfies Inv.
LEMMA InitInv == Init => Inv
<1> SUFFICES ASSUME Init PROVE Inv
  OBVIOUS
<1>1. TypeOK
  BY BacklogAssumption DEF Init, TypeOK, Ops
<1>2. UnexpiredKept /\ DepthBounded /\ PendingApart /\ LoopInv
  BY DEF Init, UnexpiredKept, DepthBounded, PendingApart, LoopInv
<1> QED
  BY <1>1, <1>2 DEF Inv, Init

-----------------------------------------------------------------------------
(* Storing messages.                                                       *)

\* What add_messages does to each sub_key's list: it takes all of the messages
\* or none, and it never gets longer than MaxDepth.
LEMMA AddedRefs ==
    ASSUME TypeOK, DepthBounded, NEW K \in SUBSET SubKeys,
           NEW M \in SUBSET Msgs, AddMessages(K, M)
    PROVE  /\ DOMAIN refs' = DOMAIN refs \cup K
           /\ refs' \in [DOMAIN refs \cup K -> SUBSET Msgs]
           /\ \A k \in SubKeys :
                MsgIDs(k)' = MsgIDs(k) \cup (IF k \in K /\ MayContinue(k, M)
                                             THEN M ELSE {})
           /\ DepthBounded'
<1>1. /\ refs' = [k \in DOMAIN refs \cup K |->
                    MsgIDs(k) \cup (IF k \in K /\ MayContinue(k, M)
                                    THEN M ELSE {})]
      /\ DOMAIN refs' = DOMAIN refs \cup K
  BY DEF AddMessages
<1>2. \A k \in SubKeys : MsgIDs(k) \in SUBSET Msgs
  BY DEF TypeOK, MsgIDs
<1>3. refs' \in [DOMAIN refs \cup K -> SUBSET Msgs]
  BY <1>1, <1>2 DEF TypeOK
<1>4. \A k \in SubKeys :
        MsgIDs(k)' = MsgIDs(k) \cup (IF k \in K /\ MayContinue(k, M)
                                     THEN M ELSE {})
  BY <1>1 DEF MsgIDs
<1>5. DepthBounded'
  <2> SUFFICES ASSUME NEW k \in DOMAIN refs'
               PROVE  Cardinality(refs'[k]) <= MaxDepth
    BY DEF DepthBounded
  <2>1. k \in SubKeys /\ MsgIDs(k) \in SUBSET Msgs
    BY <1>1, <1>2 DEF TypeOK
  <2>2. CASE k \in K /\ MayContinue(k, M)
    <3>1. refs'[k] = MsgIDs(k) \cup M
      BY <1>1, <2>2
    <3>2. /\ IsFiniteSet(MsgIDs(k)) /\ IsFiniteSet(M)
          /\ Cardinality(MsgIDs(k)) \in Nat /\ Cardinality(M) \in Nat
          /\ Cardinality(MsgIDs(k) \cap M) \in Nat
      BY <2>1, MessageSetsFinite
    <3>3. Cardinality(MsgIDs(k) \cup M)
            = Cardinality(MsgIDs(k)) + Cardinality(M)
              - Cardinality(MsgIDs(k) \cap M)
      BY <3>2, FS_Union
    <3> QED
      BY <2>2, <3>1, <3>2, <3>3, BacklogAssumption DEF MayContinue, HasRoom
  <2>3. CASE ~(k \in K /\ MayContinue(k, M))
    <3>1. refs'[k] = MsgIDs(k)
      BY <1>1, <2>3
    <3>2. CASE k \in DOMAIN refs
      BY <3>1, <3>2 DEF DepthBounded, MsgIDs
    <3>3. CASE k \notin DOMAIN refs
      BY <3>1, <3>3, FS_EmptySet, BacklogAssumption DEF MsgIDs
    <3> QED
      BY <3>2, <3>3
  <2> QED
    BY <2>2, <2>3
<1> QED
  BY <1>1, <1>3, <1>4, <1>5

\* add_messages keeps what is not about the loops and the notifications.
LEMMA AddMessagesKeeps ==
    ASSUME Inv, op = "idle", NEW K \in SUBSET SubKeys, NEW M \in SUBSET Msgs,
           AddMessages(K, M), UNCHANGED due
    PROVE  /\ data' \subseteq Msgs
           /\ expiration' \in [DOMAIN expiration' -> SUBSET SubKeys]
           /\ data' = DOMAIN expiration'
           /\ UnexpiredKept'
<1> USE DEF Inv
<1> DEFINE cont == {k \in K : MayContinue(k, M)}
           new == IF cont = {} THEN {} ELSE M
<1>1. /\ data' = data \cup new
      /\ expiration' = [m \in DOMAIN expiration \cup new |->
                            IF m \in new THEN cont ELSE expiration[m]]
  BY DEF AddMessages
<1>2. data' \subseteq Msgs /\ data' = DOMAIN expiration'
  BY <1>1 DEF TypeOK
<1>3. expiration' \in [DOMAIN expiration' -> SUBSET SubKeys]
  BY <1>1 DEF TypeOK
<1>4. UnexpiredKept'
  <2> SUFFICES ASSUME NEW k \in DOMAIN refs', NEW m \in refs'[k], m \notin due
               PROVE  m \in data'
    BY DEF UnexpiredKept
  <2>1. refs'[k] = MsgIDs(k) \cup (IF k \in cont THEN M ELSE {})
    BY DEF AddMessages
  <2>2. CASE m \in MsgIDs(k)
    BY <1>1, <2>2 DEF MsgIDs, UnexpiredKept
  <2>3. CASE k \in cont /\ m \in M
    BY <1>1, <2>3
  <2> QED
    BY <2>1, <2>2, <2>3
<1> QED
  BY <1>2, <1>3, <1>4

\* AfterPublish preserves Inv: its messages are new to every sub_key.
LEMMA AfterPublishInv ==
    ASSUME Inv, NEW M \in Batches, NEW not_found \in SUBSET SubKeys,
           NEW found \in SUBSET SubKeys, AfterPublish(M, not_found, found)
    PROVE  Inv'
<1> USE DEF Inv
<1>1. M \in SUBSET Msgs
  BY BacklogAssumption
<1>2. /\ due' = due /\ op' = op /\ todo' = todo /\ at' = at /\ stale' = stale
      /\ used' = used \cup M
      /\ pending' = pending \cup (IF found = {} THEN {}
                                  ELSE {[subs |-> found, msgs |-> M]})
      /\ M \cap used = {}
      /\ not_found \cap found = {}
  BY DEF AfterPublish, loop
<1>3. /\ DOMAIN refs' \subseteq SubKeys
      /\ refs' \in [DOMAIN refs' -> SUBSET Msgs]
      /\ data' \subseteq Msgs
      /\ expiration' \in [DOMAIN expiration' -> SUBSET SubKeys]
      /\ data' = DOMAIN expiration'
      /\ UnexpiredKept'
      /\ DepthBounded'
      /\ \A k \in SubKeys \ not_found : MsgIDs(k)' = MsgIDs(k)
      /\ \A k \in SubKeys : MsgIDs(k)' \subseteq MsgIDs(k) \cup M
      /\ op # "idle" => UNCHANGED <<refs, data, expiration>>
      /\ data \subseteq data'
  <2>1. CASE not_found = {} /\ UNCHANGED <<refs, data, expiration>>
    BY <1>2, <2>1 DEF TypeOK, UnexpiredKept, DepthBounded, MsgIDs
  <2>2. CASE not_found # {} /\ op = "idle" /\ AddMessages(not_found, M)
    <3>1. data \subseteq data'
      BY <2>2 DEF AddMessages
    <3>2. /\ DOMAIN refs' = DOMAIN refs \cup not_found
          /\ refs' \in [DOMAIN refs \cup not_found -> SUBSET Msgs]
          /\ \A k \in SubKeys :
                MsgIDs(k)' = MsgIDs(k) \cup (IF k \in not_found
                                                /\ MayContinue(k, M)
                                             THEN M ELSE {})
          /\ DepthBounded'
      BY <1>1, <2>2, AddedRefs
    <3>3. /\ data' \subseteq Msgs
          /\ expiration' \in [DOMAIN expiration' -> SUBSET SubKeys]
          /\ data' = DOMAIN expiration'
          /\ UnexpiredKept'
      BY <1>1, <1>2, <2>2, AddMessagesKeeps
    <3>4. DOMAIN refs' \subseteq SubKeys
      BY <3>2 DEF TypeOK
    <3> QED
      BY <2>2, <3>1, <3>2, <3>3, <3>4
  <2> QED
    BY <2>1, <2>2 DEF AfterPublish, store
<1>4. TypeOK'
  BY <1>1, <1>2, <1>3 DEF TypeOK
<1>5. PendingApart'
  <2>1. \A k \in SubKeys : MsgIDs(k) \subseteq used
    BY DEF PendingApart, MsgIDs
  <2>2. \A k \in DOMAIN refs' : refs'[k] \subseteq used'
    BY <1>2, <1>3, <2>1 DEF MsgIDs
  <2>3. ASSUME NEW p \in pending'
        PROVE  /\ p.msgs \subseteq used'
               /\ \A k \in p.subs : MsgIDs(k)' \cap p.msgs = {}
               /\ p \in pending => p.msgs \cap M = {}
    <3>1. CASE p \in pending
      <4>1. p.msgs \subseteq used /\ p.subs \subseteq SubKeys
        BY <3>1 DEF PendingApart, TypeOK
      <4> QED
        BY <1>2, <1>3, <3>1, <4>1 DEF PendingApart
    <3>2. CASE p \notin pending
      <4>1. p = [subs |-> found, msgs |-> M]
        BY <1>2, <3>2
      <4> QED
        BY <1>2, <1>3, <2>1, <3>2, <4>1
    <3> QED
      BY <3>1, <3>2
  <2>4. ASSUME NEW p \in pending', NEW q \in pending', p # q
        PROVE  p.msgs \cap q.msgs = {}
    <3>1. \A r \in pending' : r \in pending \/ r.msgs = M
      BY <1>2
    <3>2. p \in pending \/ q \in pending
      BY <1>2, <2>4
    <3> QED
      BY <2>3, <2>4, <3>1, <3>2 DEF PendingApart
  <2> QED
    BY <2>2, <2>3, <2>4 DEF PendingApart
<1>6. LoopInv'
  BY <1>2, <1>3 DEF LoopInv, MsgIDs
<1> QED
  BY <1>3, <1>4, <1>5, <1>6

\* A notification preserves Inv: its messages are new to the sub_keys it failed
\* for, so that no list gets them twice.
LEMMA NotifyPubSubInv ==
    ASSUME Inv, NEW p \in pending, NEW failed \in SUBSET p.subs,
           NotifyPubSub(p, failed)
    PROVE  Inv'
<1> USE DEF Inv
<1>1. p.msgs \in SUBSET Msgs /\ p.subs \in SUBSET SubKeys
      /\ failed \in SUBSET SubKeys
  BY BacklogAssumption DEF TypeOK
<1>2. /\ due' = due /\ op' = op /\ todo' = todo /\ at' = at /\ stale' = stale
      /\ used' = used
      /\ pending' = pending \ {p}
  BY DEF NotifyPubSub, loop
<1>3. /\ DOMAIN refs' \subseteq SubKeys
      /\ refs' \in [DOMAIN refs' -> SUBSET Msgs]
      /\ data' \subseteq Msgs
      /\ expiration' \in [DOMAIN expiration' -> SUBSET SubKeys]
      /\ data' = DOMAIN expiration'
      /\ UnexpiredKept'
      /\ DepthBounded'
      /\ \A k \in SubKeys : MsgIDs(k)' \subseteq MsgIDs(k) \cup p.msgs
      /\ op # "idle" => UNCHANGED <<refs, data, expiration>>
      /\ data \subseteq data'
  <2>1. CASE failed = {} /\ UNCHANGED <<refs, data, expiration>>
    BY <1>2, <2>1 DEF TypeOK, UnexpiredKept, DepthBounded, MsgIDs
  <2>2. CASE failed # {} /\ op = "idle" /\ AddMessages(failed, p.msgs)
    <3>1. data \subseteq data'
      BY <2>2 DEF AddMessages
    <3>2. /\ DOMAIN refs' = DOMAIN refs \cup failed
          /\ refs' \in [DOMAIN refs \cup failed -> SUBSET Msgs]
          /\ \A k \in SubKeys :
                MsgIDs(k)' = MsgIDs(k) \cup (IF k \in failed
                                                /\ MayContinue(k, p.msgs)
                                             THEN p.msgs ELSE {})
          /\ DepthBounded'
      BY <1>1, <2>2, AddedRefs
    <3>3. /\ data' \subseteq Msgs
          /\ expiration' \in [DOMAIN expiration' -> SUBSET SubKeys]
          /\ data' = DOMAIN expiration'
          /\ UnexpiredKept'
      BY <1>1, <1>2, <2>2, AddMessagesKeeps
    <3>4. DOMAIN refs' \subseteq SubKeys
      BY <3>2 DEF TypeOK
    <3> QED
      BY <2>2, <3>1, <3>2, <3>3, <3>4
  <2> QED
    BY <2>1, <2>2 DEF NotifyPubSub, store
<1>4. TypeOK'
  BY <1>1, <1>2, <1>3 DEF TypeOK
<1>5. PendingApart'
  <2>1. \A k \in SubKeys : MsgIDs(k) \subseteq used
    BY DEF PendingApart, MsgIDs
  <2>2. \A k \in DOMAIN refs' : refs'[k] \subseteq used'
    BY <1>2, <1>3, <2>1 DEF MsgIDs, PendingApart
  <2>3. ASSUME NEW q \in pending'
        PROVE  /\ q.msgs \subseteq used'
               /\ \A k \in q.subs : MsgIDs(k)' \cap q.msgs = {}
    <3>1. q \in pending /\ q # p /\ q.subs \subseteq SubKeys
      BY <1>2 DEF TypeOK
    <3> QED
      BY <1>2, <1>3, <3>1 DEF PendingApart
  <2>4. \A q, r \in pending' : q # r => q.msgs \cap r.msgs = {}
    BY <1>2 DEF PendingApart
  <2> QED
    BY <2>2, <2>3, <2>4 DEF PendingApart
<1>6. LoopInv'
  BY <1>2, <1>3 DEF LoopInv, MsgIDs
<1> QED
  BY <1>3, <1>4, <1>5, <1>6

\* Expiration preserves Inv.
LEMMA ExpireInv ==
    ASSUME Inv, NEW m \in Expiring, Expire(m)
    PROVE  Inv'
<1> USE DEF Inv, Expire, store, loop
<1>1. TypeOK' /\ (data = DOMAIN expiration)'
  BY DEF TypeOK
<1>2. UnexpiredKept' /\ DepthBounded'
  BY DEF UnexpiredKept, DepthBounded
<1>3. PendingApart' /\ LoopInv'
  BY DEF PendingApart, LoopInv, MsgIDs
<1> QED
  BY <1>1, <1>2, <1>3

-----------------------------------------------------------------------------
(* Retrieving and deleting messages.                                       *)

\* What is collected are references of the sub_keys to their messages.
LEMMA ReferencesType ==
    ASSUME NEW K
    PROVE  /\ References(K) \subseteq SubKeys \X Msgs
           /\ \A p \in References(K) : p[2] \in MsgIDs(p[1])
BY DEF References

\* The first loop of a retrieval preserves Inv.
LEMMA RetrieveMessagesInv ==
    ASSUME Inv, NEW K \in SUBSET SubKeys, RetrieveMessages(K)
    PROVE  Inv'
<1> USE DEF Inv, RetrieveMessages, store, env
<1>1. TypeOK' /\ (data = DOMAIN expiration)'
  BY ReferencesType DEF TypeOK, Ops
<1>2. UnexpiredKept' /\ DepthBounded' /\ PendingApart'
  BY DEF UnexpiredKept, DepthBounded, PendingApart, MsgIDs
<1>3. LoopInv'
  BY ReferencesType DEF LoopInv, MsgIDs
<1> QED
  BY <1>1, <1>2, <1>3

\* The first loop of an unsubscription preserves Inv.
LEMMA UnsubscribeInv ==
    ASSUME Inv, NEW K \in SUBSET SubKeys, Unsubscribe(K)
    PROVE  Inv'
<1> USE DEF Inv, Unsubscribe, store, env
<1>1. TypeOK' /\ (data = DOMAIN expiration)'
  BY ReferencesType DEF TypeOK, Ops
<1>2. UnexpiredKept' /\ DepthBounded' /\ PendingApart'
  BY DEF UnexpiredKept, DepthBounded, PendingApart, MsgIDs
<1>3. LoopInv'
  BY DEF LoopInv
<1> QED
  BY <1>1, <1>2, <1>3

\* Deleting a reference leaves every other sub_key's messages alone, and those
\* of the sub_key are none (if unsubscribing) or all but the one deleted.
LEMMA DeletedRefs ==
    ASSUME TypeOK, NEW k \in DOMAIN refs, NEW m,
           refs' = RefsAfterDelete(k, m)
    PROVE  /\ DOMAIN refs' \subseteq DOMAIN refs
           /\ refs' \in [DOMAIN refs' -> SUBSET Msgs]
           /\ \A j \in DOMAIN refs' : refs'[j] \subseteq refs[j]
           /\ \A j \in SubKeys \ {k} : MsgIDs(j)' = MsgIDs(j)
           /\ MsgIDs(k)' = IF op = "unsubscribe" THEN {} ELSE MsgIDs(k) \ {m}
<1>1. CASE op = "unsubscribe" \/ refs[k] = {m}
  <2>1. refs' = [j \in DOMAIN refs \ {k} |-> refs[j]]
    BY <1>1 DEF RefsAfterDelete, Restrict
  <2> QED
    BY <1>1, <2>1 DEF TypeOK, MsgIDs
<1>2. CASE ~(op = "unsubscribe" \/ refs[k] = {m})
  <2>1. refs' = [refs EXCEPT ![k] = @ \ {m}]
    BY <1>2 DEF RefsAfterDelete
  <2> QED
    BY <1>2, <2>1 DEF TypeOK, MsgIDs
<1> QED
  BY <1>1, <1>2

\* The deletion of a reference preserves Inv: the message goes only when no
\* other sub_key has a reference to it.
LEMMA DeleteReferenceInv ==
    ASSUME Inv, NEW k, NEW m, DeleteReference(k, m)
    PROVE  Inv'
<1> USE DEF Inv
<1> DEFINE unused == ~Referenced(RefsAfterDelete(k, m), m)
           left == IF unused /\ m \notin data THEN {} ELSE todo \ {<<k, m>>}
<1>1. /\ op \in {"retrieve", "unsubscribe"}
      /\ <<k, m>> \in todo
      /\ k \in DOMAIN refs
      /\ refs' = RefsAfterDelete(k, m)
      /\ data' = IF unused THEN data \ {m} ELSE data
      /\ expiration' = IF unused /\ m \in data
                       THEN Restrict(expiration, DOMAIN expiration \ {m})
                       ELSE expiration
      /\ todo' = left
      /\ op' = IF left = {} THEN "idle" ELSE op
      /\ at' = IF left = {} THEN NoKey ELSE k
      /\ due' = due /\ used' = used /\ pending' = pending /\ stale' = stale
  BY DEF DeleteReference, env
<1>2. /\ DOMAIN refs' \subseteq DOMAIN refs
      /\ refs' \in [DOMAIN refs' -> SUBSET Msgs]
      /\ \A j \in DOMAIN refs' : refs'[j] \subseteq refs[j]
      /\ \A j \in SubKeys \ {k} : MsgIDs(j)' = MsgIDs(j)
      /\ MsgIDs(k)' = IF op = "unsubscribe" THEN {} ELSE MsgIDs(k) \ {m}
  BY <1>1, DeletedRefs
<1>3. unused <=> \A j \in DOMAIN refs' : m \notin refs'[j]
  BY <1>1 DEF Referenced
<1>4. /\ expiration' \in [DOMAIN expiration' -> SUBSET SubKeys]
      /\ data' = DOMAIN expiration'
      /\ data' \subseteq Msgs
  <2>1. CASE unused /\ m \in data
    <3>1. expiration' = [n \in DOMAIN expiration \ {m} |-> expiration[n]]
      BY <1>1, <2>1 DEF Restrict
    <3> QED
      BY <1>1, <2>1, <3>1 DEF TypeOK
  <2>2. CASE ~(unused /\ m \in data)
    BY <1>1, <2>2 DEF TypeOK
  <2> QED
    BY <2>1, <2>2
<1> HIDE DEF unused
<1>5. TypeOK'
  BY <1>1, <1>2, <1>4 DEF TypeOK, Ops
<1>6. UnexpiredKept'
  <2> SUFFICES ASSUME NEW j \in DOMAIN refs', NEW n \in refs'[j], n \notin due
               PROVE  n \in data'
    BY <1>1 DEF UnexpiredKept
  <2>1. n \in data
    BY <1>2 DEF UnexpiredKept
  <2> QED
    BY <1>1, <1>3, <2>1
<1>7. DepthBounded'
  <2> SUFFICES ASSUME NEW j \in DOMAIN refs'
               PROVE  Cardinality(refs'[j]) <= MaxDepth
    BY DEF DepthBounded
  <2>1. refs'[j] \subseteq refs[j] /\ Cardinality(refs[j]) <= MaxDepth
        /\ refs[j] \in SUBSET Msgs /\ refs'[j] \in SUBSET Msgs
    BY <1>2 DEF DepthBounded, TypeOK
  <2>2. /\ IsFiniteSet(refs[j])
        /\ Cardinality(refs[j]) \in Nat /\ Cardinality(refs'[j]) \in Nat
    BY <2>1, MessageSetsFinite
  <2>3. Cardinality(refs'[j]) <= Cardinality(refs[j])
    BY <2>1, <2>2, FS_Subset
  <2> QED
    BY <2>1, <2>2, <2>3, BacklogAssumption
<1>8. PendingApart'
  <2>1. \A j \in SubKeys : MsgIDs(j)' \subseteq MsgIDs(j)
    BY <1>2
  <2>2. \A p \in pending : p.subs \subseteq SubKeys
    BY DEF TypeOK
  <2> QED
    BY <1>1, <1>2, <2>1, <2>2 DEF PendingApart
<1>9. LoopInv'
  <2>1. op' = "retrieve" => \A p \in todo' : p[2] \in MsgIDs(p[1])' \cap data'
    <3> SUFFICES ASSUME op' = "retrieve", NEW p \in todo'
                 PROVE  p[2] \in MsgIDs(p[1])' \cap data'
      OBVIOUS
    <3>1. /\ op = "retrieve" /\ p \in todo /\ p # <<k, m>>
          /\ p \in SubKeys \X Msgs
      BY <1>1 DEF TypeOK
    <3>2. p[2] \in MsgIDs(p[1]) /\ p[2] \in data
      BY <3>1 DEF LoopInv
    <3>3. p[1] \in SubKeys /\ (p[1] # k \/ p[2] # m)
      BY <3>1
    <3>4. p[2] \in MsgIDs(p[1])'
      BY <1>2, <3>1, <3>2, <3>3
    <3>5. p[2] \in data'
      BY <1>1, <1>3, <3>2, <3>4 DEF MsgIDs
    <3> QED
      BY <3>4, <3>5
  <2>2. stale = {}
    BY <1>1 DEF LoopInv
  <2> QED
    BY <1>1, <2>1, <2>2 DEF LoopInv
<1> QED
  BY <1>4, <1>5, <1>6, <1>7, <1>8, <1>9

\* A deletion that fails preserves Inv.
LEMMA DeleteFailedInv ==
    ASSUME Inv, NEW k, NEW m, DeleteFailed(k, m)
    PROVE  Inv'
<1> USE DEF Inv, DeleteFailed, store, env
<1>1. TypeOK' /\ (data = DOMAIN expiration)'
  BY DEF TypeOK, Ops
<1>2. UnexpiredKept' /\ DepthBounded' /\ PendingApart'
  BY DEF UnexpiredKept, DepthBounded, PendingApart, MsgIDs
<1>3. LoopInv'
  BY DEF LoopInv
<1> QED
  BY <1>1, <1>2, <1>3

-----------------------------------------------------------------------------
(* The cleanup task.                                                       *)

\* The start of a cleanup preserves Inv.
LEMMA StartCleanupInv ==
    ASSUME Inv, StartCleanup
    PROVE  Inv'
<1> USE DEF Inv, StartCleanup, ExpiredMessages, store, env
<1>1. TypeOK' /\ (data = DOMAIN expiration)'
  BY DEF TypeOK, Ops
<1>2. UnexpiredKept' /\ DepthBounded' /\ PendingApart'
  BY DEF UnexpiredKept, DepthBounded, PendingApart, MsgIDs
<1>3. LoopInv'
  BY DEF LoopInv
<1> QED
  BY <1>1, <1>2, <1>3

\* The cleanup preserves Inv: what it deletes has expired.
LEMMA CleanupMessageInv ==
    ASSUME Inv, NEW m, CleanupMessage(m)
    PROVE  Inv'
<1> USE DEF Inv
<1>1. PICK left \in SUBSET (stale \ {m}) :
        /\ op = "cleanup" /\ m \in stale
        /\ expiration' = [n \in DOMAIN expiration \ {m} |-> expiration[n]]
        /\ data' = data \ {m}
        /\ stale' = left
        /\ op' = IF left = {} THEN "idle" ELSE op
        /\ refs' = refs /\ todo' = todo /\ at' = at
        /\ due' = due /\ used' = used /\ pending' = pending
  BY DEF CleanupMessage, Restrict, env
<1>2. m \in due
  BY <1>1 DEF LoopInv
<1>3. TypeOK' /\ (data = DOMAIN expiration)'
  BY <1>1 DEF TypeOK, Ops
<1>4. UnexpiredKept' /\ DepthBounded' /\ PendingApart'
  BY <1>1, <1>2 DEF UnexpiredKept, DepthBounded, PendingApart, MsgIDs
<1>5. LoopInv'
  BY <1>1 DEF LoopInv
<1> QED
  BY <1>3, <1>4, <1>5

-----------------------------------------------------------------------------
\* Every operation, and every turn of its loops, preserves Inv.
LEMMA NextInv == Inv /\ [Next]_vars => Inv'
<1> SUFFICES ASSUME Inv, [Next]_vars PROVE Inv'
  OBVIOUS
<1>1. ASSUME NEW M \in Batches, NEW not_found \in SUBSET SubKeys,
             NEW found \in SUBSET SubKeys, AfterPublish(M, not_found, found)
      PROVE  Inv'
  BY <1>1, AfterPublishInv
<1>2. ASSUME NEW p \in pending, NEW failed \in SUBSET p.subs,
             NotifyPubSub(p, failed)
      PROVE  Inv'
  BY <1>2, NotifyPubSubInv
<1>3. ASSUME NEW m \in Expiring, Expire(m) PROVE Inv'
  BY <1>3, ExpireInv
<1>4. ASSUME NEW K \in SUBSET SubKeys, RetrieveMessages(K) PROVE Inv'
  BY <1>4, RetrieveMessagesInv
<1>5. ASSUME NEW K \in SUBSET Unsubscribing, Unsubscribe(K) PROVE Inv'
  BY <1>5, UnsubscribeInv, BacklogAssumption
<1>6. ASSUME NEW p \in todo,
             DeleteReference(p[1], p[2]) \/ DeleteFailed(p[1], p[2])
      PROVE  Inv'
  BY <1>6, DeleteReferenceInv, DeleteFailedInv
<1>7. ASSUME StartCleanup PROVE Inv'
  BY <1>7, StartCleanupInv
<1>8. ASSUME NEW m \in stale, CleanupMessage(m) PROVE Inv'
  BY <1>8, CleanupMessageInv
<1>9. CASE UNCHANGED vars
  BY <1>9 DEF vars, store, env, loop, Inv, TypeOK, UnexpiredKept, DepthBounded,
              PendingApart, LoopInv, MsgIDs
<1> QED
  BY <1>1, <1>2, <1>3, <1>4, <1>5, <1>6, <1>7, <1>8, <1>9 DEF Next

\* The dictionaries, the notifications and the loops under the lock agree.
THEOREM InvHolds == Spec => []Inv
BY InitInv, NextInv, PTL DEF Spec

\* The dictionaries keep the types that add_messages gives them, and loops only
\* have what there was under the lock left to do.
THEOREM TypeCorrect == Spec => []TypeOK
BY InvHolds, PTL DEF Inv

\* A message somebody waits for is only ever deleted because it has expired:
\* retrieval, unsubscription and their failures never take it from the others.
THEOREM KeptUntilExpired == Spec => []UnexpiredKept
BY InvHolds, PTL DEF Inv

\* max_depth_non_gd bounds every queue of the backlog.
THEOREM DepthSafety == Spec => []DepthBounded
BY InvHolds, PTL DEF Inv

-----------------------------------------------------------------------------
(* Nothing is left behind.                                                 *)

\* Messages are stored for somebody, and references are only added.
LEMMA AddMessagesLeavesNothing ==
    ASSUME Inv, NEW K \in SUBSET SubKeys, NEW M, AddMessages(K, M)
    PROVE  Orphans' \subseteq Orphans
<1> DEFINE cont == {k \in K : MayContinue(k, M)}
           new == IF cont = {} THEN {} ELSE M
<1>1. data' = data \cup new
  BY DEF AddMessages
<1>2. refs' = [k \in DOMAIN refs \cup K |-> MsgIDs(k) \cup (IF k \in cont THEN M ELSE {})]
  BY DEF AddMessages
<1>3. ASSUME NEW m, Referenced(refs, m) PROVE Referenced(refs', m)
  BY <1>2, <1>3 DEF Referenced, MsgIDs
<1>4. ASSUME NEW m \in new PROVE Referenced(refs', m)
  <2>1. PICK k \in cont : m \in M
    BY <1>4
  <2> QED
    BY <1>2, <2>1 DEF Referenced
<1> QED
  BY <1>1, <1>3, <1>4 DEF Orphans

\* A loop that retrieves deletes a message with its last reference.
LEMMA DeleteReferenceLeavesNothing ==
    ASSUME Inv, op # "unsubscribe", NEW k, NEW m, DeleteReference(k, m)
    PROVE  Orphans' \subseteq Orphans
<1>1. refs' = RefsAfterDelete(k, m) /\ k \in DOMAIN refs
  BY DEF DeleteReference
<1>2. ASSUME NEW x, x # m, Referenced(refs, x) PROVE Referenced(refs', x)
  <2>1. PICK j \in DOMAIN refs : x \in refs[j]
    BY <1>2 DEF Referenced
  <2>2. CASE refs[k] = {m}
    <3>1. refs' = [y \in DOMAIN refs \ {k} |-> refs[y]]
      BY <1>1, <2>2 DEF RefsAfterDelete, Restrict
    <3>2. j \in DOMAIN refs \ {k}
      BY <1>2, <2>1, <2>2
    <3> QED
      BY <2>1, <3>1, <3>2 DEF Referenced
  <2>3. CASE refs[k] # {m}
    <3>1. refs' = [refs EXCEPT ![k] = @ \ {m}]
      BY <1>1, <2>3 DEF RefsAfterDelete
    <3> QED
      BY <1>2, <2>1, <3>1 DEF Referenced
  <2> QED
    BY <2>2, <2>3
<1>3. data' \subseteq data /\ (m \in data' => Referenced(refs', m))
  BY <1>1 DEF DeleteReference
<1> QED
  BY <1>2, <1>3 DEF Orphans

\* add_messages stores nothing that no list has room for, and whoever retrieves
\* takes what only he waited for along: but for unsubscriptions nothing stays in
\* RAM that nobody will retrieve.
THEOREM LeavesNothing == Spec => NothingLeaks
<1> DEFINE Kept == op # "unsubscribe" => Orphans' \subseteq Orphans
<1>1. ASSUME Inv, [Next]_vars PROVE [Kept]_vars
  <2> SUFFICES ASSUME Next, op # "unsubscribe" PROVE Orphans' \subseteq Orphans
    BY <1>1
  <2>1. ASSUME store' = store PROVE Orphans' \subseteq Orphans
    BY <2>1 DEF store, Orphans
  <2>2. ASSUME NEW M \in Batches, NEW not_found \in SUBSET SubKeys,
               NEW found \in SUBSET SubKeys, AfterPublish(M, not_found, found)
        PROVE  Orphans' \subseteq Orphans
    BY <1>1, <2>1, <2>2, AddMessagesLeavesNothing DEF AfterPublish
  <2>3. ASSUME NEW p \in pending, NEW failed \in SUBSET p.subs, NotifyPubSub(p, failed)
        PROVE  Orphans' \subseteq Orphans
    <3>1. failed \in SUBSET SubKeys
      BY <1>1 DEF Inv, TypeOK
    <3> QED
      BY <1>1, <2>1, <2>3, <3>1, AddMessagesLeavesNothing DEF NotifyPubSub
  <2>4. ASSUME NEW m, Expire(m) PROVE Orphans' \subseteq Orphans
    BY <2>1, <2>4 DEF Expire
  <2>5. ASSUME NEW K, RetrieveMessages(K) \/ Unsubscribe(K) PROVE Orphans' \subseteq Orphans
    BY <2>1, <2>5 DEF RetrieveMessages, Unsubscribe
  <2>6. ASSUME NEW k, NEW m, DeleteReference(k, m) \/ DeleteFailed(k, m)
        PROVE  Orphans' \subseteq Orphans
    BY <1>1, <2>1, <2>6, DeleteReferenceLeavesNothing DEF DeleteFailed
  <2>7. ASSUME StartCleanup PROVE Orphans' \subseteq Orphans
    BY <2>1, <2>7 DEF StartCleanup
  <2>8. ASSUME NEW m, CleanupMessage(m) PROVE Orphans' \subseteq Orphans
    BY <2>8 DEF CleanupMessage, Orphans
  <2> QED
    BY <2>2, <2>3, <2>4, <2>5, <2>6, <2>7, <2>8 DEF Next
<1> QED
  BY <1>1, InvHolds, PTL DEF Spec, NothingLeaks

-----------------------------------------------------------------------------
(* The backlog implements one queue per sub_key.                           *)

\* add_messages is Store.
LEMMA AddMessagesStores ==
    ASSUME Inv, op = "idle", op' = op, NEW K \in SUBSET SubKeys,
           NEW M \in SUBSET Msgs, AddMessages(K, M),
           \A k \in K : MsgIDs(k) \cap M = {}
    PROVE  Queues!Next
<1>1. \A k \in SubKeys :
        MsgIDs(k)' = MsgIDs(k) \cup (IF k \in K /\ MayContinue(k, M)
                                     THEN M ELSE {})
  BY AddedRefs DEF Inv
<1>2. \A k \in SubKeys : Waiting(k) = MsgIDs(k) /\ Waiting(k)' = MsgIDs(k)'
  BY DEF Waiting
<1>3. \A k \in SubKeys :
        Waiting(k)' = IF k \in K /\ HasRoom(Waiting(k), M)
                      THEN Waiting(k) \cup M
                      ELSE Waiting(k)
  BY <1>1, <1>2 DEF MayContinue
<1>4. Queues!Store(K, M)
  BY <1>2, <1>3 DEF Queues!Store
<1> QED
  BY <1>4 DEF Queues!Next

\* The first loop of a retrieval is Retrieve.
LEMMA RetrieveMessagesRetrieves ==
    ASSUME Inv, NEW K \in SUBSET SubKeys, RetrieveMessages(K)
    PROVE  Queues!Next
<1>1. \A k \in SubKeys : MsgIDs(k)' = MsgIDs(k) /\ MsgIDs(k) \subseteq Msgs
  BY DEF RetrieveMessages, store, MsgIDs, Inv, TypeOK
<1>2. \A k \in SubKeys : Waiting(k) = MsgIDs(k)
  BY DEF Waiting, RetrieveMessages
<1>3. \A k \in SubKeys : Waiting(k)' = {m \in MsgIDs(k) : <<k, m>> \notin References(K)}
  BY <1>1 DEF Waiting, RetrieveMessages
<1>4. \A k \in SubKeys : \A m \in MsgIDs(k) : <<k, m>> \in References(K) <=> k \in K
  BY <1>1 DEF References
<1>5. \A k \in SubKeys : Waiting(k)' = IF k \in K THEN {} ELSE Waiting(k)
  BY <1>2, <1>3, <1>4
<1>6. Queues!Retrieve(K)
  BY <1>5 DEF Queues!Retrieve
<1> QED
  BY <1>6 DEF Queues!Next

\* The second loop: a retrieval is over for SubKeyQueues, an unsubscription
\* drops the queue of the sub_key.
LEMMA DeleteReferenceImplements ==
    ASSUME Inv, NEW k, NEW m, DeleteReference(k, m)
    PROVE  \/ \E j \in SubKeys : Queues!Drop(j)
           \/ \A j \in SubKeys : Waiting(j)' = Waiting(j)
<1>1. /\ op \in {"retrieve", "unsubscribe"}
      /\ <<k, m>> \in todo
      /\ k \in DOMAIN refs /\ k \in SubKeys
      /\ refs' = RefsAfterDelete(k, m)
      /\ op' \in {op, "idle"}
  BY DEF DeleteReference, Inv, TypeOK
<1>2. /\ \A j \in SubKeys \ {k} : MsgIDs(j)' = MsgIDs(j)
      /\ MsgIDs(k)' = IF op = "unsubscribe" THEN {} ELSE MsgIDs(k) \ {m}
  BY <1>1, DeletedRefs DEF Inv
<1>3. CASE op = "unsubscribe"
  <2>1. \A j \in SubKeys : Waiting(j) = MsgIDs(j) /\ Waiting(j)' = MsgIDs(j)'
    BY <1>1, <1>3 DEF Waiting
  <2>2. \A j \in SubKeys : Waiting(j)' = IF j = k THEN {} ELSE Waiting(j)
    BY <1>1, <1>2, <1>3, <2>1
  <2>3. Queues!Drop(k)
    BY <1>1, <2>2 DEF Queues!Drop
  <2> QED
    BY <1>1, <2>3
<1>4. CASE op = "retrieve"
  <2>1. m \in MsgIDs(k) /\ m \in data
    BY <1>1, <1>4 DEF Inv, LoopInv
  <2>2. todo' = todo \ {<<k, m>>} /\ (op' = "idle" => todo' = {})
    BY <1>1, <1>4, <2>1 DEF DeleteReference
  <2>3. \A j \in SubKeys :
          /\ Waiting(j) = {n \in MsgIDs(j) : <<j, n>> \notin todo}
          /\ Waiting(j)' = {n \in MsgIDs(j)' : <<j, n>> \notin todo'}
    BY <1>1, <1>4, <2>2 DEF Waiting
  <2>4. ASSUME NEW j \in SubKeys PROVE Waiting(j)' = Waiting(j)
    <3>1. \A n : <<j, n>> \notin todo' <=> (<<j, n>> \notin todo \/ (j = k /\ n = m))
      BY <2>2
    <3>2. \A n : n \in MsgIDs(j)' <=> (n \in MsgIDs(j) /\ ~(j = k /\ n = m))
      BY <1>2, <1>4
    <3>3. j = k => <<j, m>> \in todo
      BY <1>1
    <3> QED
      BY <2>3, <3>1, <3>2, <3>3
  <2> QED
    BY <2>4
<1> QED
  BY <1>1, <1>3, <1>4

\* Every step is a step of SubKeyQueues or a stutter.
LEMMA NextImplements ==
    ASSUME Inv, [Next]_vars
    PROVE  \/ Queues!Next
           \/ \A k \in SubKeys : Waiting(k)' = Waiting(k)
<1> DEFINE Implements == \/ Queues!Next
                         \/ \A k \in SubKeys : Waiting(k)' = Waiting(k)
<1>1. ASSUME NEW M \in Batches, NEW not_found \in SUBSET SubKeys,
             NEW found \in SUBSET SubKeys, AfterPublish(M, not_found, found)
      PROVE  Implements
  <2>1. CASE UNCHANGED <<refs, data, expiration>>
    BY <1>1, <2>1 DEF AfterPublish, loop, Waiting, MsgIDs
  <2>2. CASE op = "idle" /\ AddMessages(not_found, M)
    <3>1. op' = op /\ M \in SUBSET Msgs
      BY <1>1, BacklogAssumption DEF AfterPublish, loop
    <3>2. \A k \in not_found : MsgIDs(k) \cap M = {}
      BY <1>1 DEF AfterPublish, Inv, PendingApart, MsgIDs
    <3> QED
      BY <2>2, <3>1, <3>2, AddMessagesStores
  <2> QED
    BY <1>1, <2>1, <2>2 DEF AfterPublish, store
<1>2. ASSUME NEW p \in pending, NEW failed \in SUBSET p.subs,
             NotifyPubSub(p, failed)
      PROVE  Implements
  <2>1. CASE UNCHANGED <<refs, data, expiration>>
    BY <1>2, <2>1 DEF NotifyPubSub, loop, Waiting, MsgIDs
  <2>2. CASE op = "idle" /\ AddMessages(failed, p.msgs)
    <3>1. /\ op' = op /\ p.msgs \in SUBSET Msgs
          /\ failed \in SUBSET SubKeys
      BY <1>2, BacklogAssumption DEF NotifyPubSub, loop, Inv, TypeOK
    <3>2. \A k \in failed : MsgIDs(k) \cap p.msgs = {}
      BY DEF Inv, PendingApart
    <3> QED
      BY <2>2, <3>1, <3>2, AddMessagesStores
  <2> QED
    BY <1>2, <2>1, <2>2 DEF NotifyPubSub, store
<1>3. ASSUME NEW m \in Expiring, Expire(m) PROVE Implements
  BY <1>3 DEF Expire, store, loop, Waiting, MsgIDs
<1>4. ASSUME NEW K \in SUBSET SubKeys, RetrieveMessages(K) PROVE Implements
  BY <1>4, RetrieveMessagesRetrieves
<1>5. ASSUME NEW K \in SUBSET Unsubscribing, Unsubscribe(K) PROVE Implements
  BY <1>5 DEF Unsubscribe, store, Waiting, MsgIDs
<1>6. ASSUME NEW p \in todo, DeleteReference(p[1], p[2]) PROVE Implements
  BY <1>6, DeleteReferenceImplements DEF Queues!Next
<1>7. ASSUME NEW p \in todo, DeleteFailed(p[1], p[2]) PROVE Implements
  <2>1. op = "unsubscribe"
    BY <1>7 DEF DeleteFailed, Inv, LoopInv, MsgIDs
  <2> QED
    BY <1>7, <2>1 DEF DeleteFailed, store, Waiting, MsgIDs
<1>8. ASSUME StartCleanup PROVE Implements
  BY <1>8 DEF StartCleanup, store, Waiting, MsgIDs
<1>9. ASSUME NEW m \in stale, CleanupMessage(m) PROVE Implements
  BY <1>9 DEF CleanupMessage, Waiting, MsgIDs
<1>10. CASE UNCHANGED vars
  BY <1>10 DEF vars, store, loop, Waiting, MsgIDs
<1> QED
  BY <1>1, <1>2, <1>3, <1>4, <1>5, <1>6, <1>7, <1>8, <1>9, <1>10 DEF Next

\* To its subscribers the backlog is one bounded queue each: a retrieval takes
\* all that waits or nothing, and no message is ever put in a queue twice.
THEOREM Implementation == Spec => ImplementsQueues
<1>1. Init => Queues!Init
  BY DEF Init, Queues!Init, Waiting, MsgIDs
<1>2. Inv /\ [Next]_vars => [Queues!Next]_[k \in SubKeys |-> Waiting(k)]
  BY NextImplements
<1> QED
  BY <1>1, <1>2, InvHolds, PTL DEF Spec, ImplementsQueues, Queues!Spec
===============================================================================
