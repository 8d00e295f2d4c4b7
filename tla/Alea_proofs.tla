----------------------------- MODULE Alea_proofs -----------------------------
(***************************************************************************)
(* Proofs about Alea, for any replicas, any faulty ones, any batches and   *)
(* any number of slots, epochs and threads.                                *)
(***************************************************************************)
EXTENDS Alea, TLAPS, FiniteSetTheorems, WellFoundedInduction

Queue == [head : 0 .. MaxSlot + 1, slots : [Slot -> Batch \cup {None}], removed : SUBSET Slot]

LEMMA SlotFacts ==
    /\ MaxSlot \in Nat /\ Slot = 0 .. MaxSlot /\ None \notin Batch
    /\ 0 .. MaxSlot + 1 = Slot \cup {s + 1 : s \in Slot}
  <1>1. MaxSlot \in Nat /\ Slot = 0 .. MaxSlot /\ None \notin Batch
    BY SlotAssumption
  <1>2. ASSUME NEW h \in 0 .. MaxSlot + 1
        PROVE  h \in Slot \cup {s + 1 : s \in Slot}
    <2>1. CASE h = 0
      BY <1>1, <2>1
    <2>2. CASE h # 0
      <3>1. h - 1 \in Slot /\ h = (h - 1) + 1
        BY <1>1, <2>2
      <3> QED BY <3>1
    <2> QED BY <2>1, <2>2
  <1>3. \A h \in Slot \cup {s + 1 : s \in Slot} : h \in 0 .. MaxSlot + 1
    BY <1>1
  <1> QED BY <1>1, <1>2, <1>3

\* A set of naturals that is not empty has a least element.
LEMMA Least ==
    ASSUME NEW S \in SUBSET Nat, S # {}
    PROVE  \E n \in S : \A m \in S : n <= m
  <1>1. PICK R : R = OpToRel(<, Nat)
    OBVIOUS
  <1>2. PICK n \in S : \A m \in S : ~(<<m, n>> \in R)
    <2>1. IsWellFoundedOn(R, Nat)
      BY <1>1, NatLessThanWellFounded
    <2> QED BY <2>1, WFMin
  <1>3. \A m \in S : ~(m < n)
    BY <1>1, <1>2 DEF OpToRel
  <1>4. \A m \in S : n <= m
    BY <1>3
  <1> QED BY <1>2, <1>4
-----------------------------------------------------------------------------
(***************************************************************************)
(* The operations of a queue.                                              *)
(***************************************************************************)
\* What AdvanceHead looks for.
NextHead(q, h) == /\ h >= q.head
                  /\ ~Skipped(q, h)
                  /\ \A s \in q.head .. h - 1 : Skipped(q, s)

LEMMA NextHeadExists ==
    ASSUME NEW q \in Queue
    PROVE  \E h \in 0 .. MaxSlot + 1 : NextHead(q, h)
  <1>0. MaxSlot \in Nat /\ q.head \in 0 .. MaxSlot + 1 /\ MaxSlot + 1 \notin Slot
    BY SlotFacts DEF Queue
  <1>1. PICK S : S = {h \in q.head .. MaxSlot + 1 : ~Skipped(q, h)}
    OBVIOUS
  <1>2. S \in SUBSET Nat
    BY <1>0, <1>1
  <1>3. ~Skipped(q, MaxSlot + 1)
    BY <1>0 DEF Skipped, Present
  <1>4. MaxSlot + 1 \in S
    BY <1>0, <1>1, <1>3
  <1>5. PICK h \in S : \A m \in S : h <= m
    BY <1>2, <1>4, Least
  <1>6. h \in q.head .. MaxSlot + 1 /\ ~Skipped(q, h)
    BY <1>1, <1>5
  <1>7. ASSUME NEW s \in q.head .. h - 1
        PROVE  Skipped(q, s)
    <2>1. s \in q.head .. MaxSlot + 1 /\ ~(h <= s)
      BY <1>0, <1>6
    <2> QED BY <1>1, <1>5, <2>1
  <1> QED BY <1>0, <1>6, <1>7 DEF NextHead

LEMMA AdvanceHeadFields ==
    ASSUME NEW q \in Queue, NEW p, p = AdvanceHead(q)
    PROVE  /\ p \in Queue /\ p.slots = q.slots /\ p.removed = q.removed
           /\ NextHead(q, p.head)
  <1>1. PICK h : h = CHOOSE g \in 0 .. MaxSlot + 1 : NextHead(q, g)
    OBVIOUS
  <1>2. h \in 0 .. MaxSlot + 1 /\ NextHead(q, h)
    BY <1>1, NextHeadExists
  <1>3. p = [q EXCEPT !.head = h]
    BY <1>1, SlotFacts DEF AdvanceHead, NextHead
  <1> QED BY <1>2, <1>3 DEF Queue

\* The slots below the head are removed, the head is not; what is removed is there.
HeadOk(q) == /\ \A s \in 0 .. q.head - 1 : s \in q.removed
             /\ \A s \in q.removed : q.slots[s] # None
             /\ q.head \notin q.removed

LEMMA AdvanceHeadOk ==
    ASSUME NEW q \in Queue, \A s \in 0 .. q.head - 1 : s \in q.removed,
           \A s \in q.removed : q.slots[s] # None,
           NEW p, p = AdvanceHead(q)
    PROVE  HeadOk(p)
  <1>1. p \in Queue /\ p.slots = q.slots /\ p.removed = q.removed /\ NextHead(q, p.head)
    BY AdvanceHeadFields
  <1>2. q.head \in Int /\ p.head \in Int /\ q.removed \subseteq Slot
    BY <1>1, SlotFacts DEF Queue
  <1>3. p.head \notin q.removed
    BY <1>1, <1>2 DEF NextHead, Skipped, Present
  <1>4. ASSUME NEW s \in 0 .. p.head - 1
        PROVE  s \in q.removed
    <2>1. CASE s < q.head
      BY <1>2, <2>1
    <2>2. CASE ~(s < q.head)
      <3>1. s \in q.head .. p.head - 1
        BY <1>2, <2>2
      <3> QED BY <1>1, <3>1 DEF NextHead, Skipped
    <2> QED BY <2>1, <2>2
  <1> QED BY <1>1, <1>3, <1>4 DEF HeadOk

LEMMA EnqueueFields ==
    ASSUME NEW q \in Queue, NEW s \in Slot, NEW b \in Batch, NEW p, p = Enqueue(q, s, b)
    PROVE  /\ p \in Queue /\ p.head = q.head /\ p.removed = q.removed
           /\ p.slots[s] = IF q.slots[s] = None THEN b ELSE q.slots[s]
           /\ \A t \in Slot : t # s => p.slots[t] = q.slots[t]
  <1>1. PICK v : v = IF q.slots[s] = None THEN b ELSE q.slots[s]
    OBVIOUS
  <1>2. PICK f : f = [q.slots EXCEPT ![s] = v]
    OBVIOUS
  <1>3. q.slots \in [Slot -> Batch \cup {None}]
    BY DEF Queue
  <1>4. v \in Batch \cup {None}
    BY <1>1, <1>3
  <1>5. f \in [Slot -> Batch \cup {None}] /\ f[s] = v /\ \A t \in Slot : t # s => f[t] = q.slots[t]
    BY <1>2, <1>3, <1>4
  <1>6. p = [q EXCEPT !.slots = f]
    BY <1>1, <1>2 DEF Enqueue
  <1>7. p \in Queue /\ p.head = q.head /\ p.removed = q.removed /\ p.slots = f
    BY <1>5, <1>6 DEF Queue
  <1> QED BY <1>1, <1>5, <1>7

LEMMA EnqueueOk ==
    ASSUME NEW q \in Queue, NEW s \in Slot, NEW b \in Batch, NEW p, p = Enqueue(q, s, b),
           HeadOk(q)
    PROVE  HeadOk(p)
  <1>1. /\ p.head = q.head /\ p.removed = q.removed
        /\ p.slots[s] = IF q.slots[s] = None THEN b ELSE q.slots[s]
        /\ \A t \in Slot : t # s => p.slots[t] = q.slots[t]
    BY EnqueueFields
  <1>2. q.removed \subseteq Slot
    BY DEF Queue
  <1> QED BY <1>1, <1>2, SlotFacts DEF HeadOk

\* A slot is marked.
Marked(q, s) == [q EXCEPT !.removed = @ \cup {s}]

LEMMA MarkedFields ==
    ASSUME NEW q \in Queue, NEW s \in Slot, NEW p, p = Marked(q, s)
    PROVE  p \in Queue /\ p.head = q.head /\ p.slots = q.slots /\ p.removed = q.removed \cup {s}
  BY DEF Queue, Marked

LEMMA DequeueSlotFields ==
    ASSUME NEW q \in Queue, NEW s \in Slot, NEW p, p = DequeueSlot(q, s)
    PROVE  /\ p \in Queue /\ p.slots = q.slots /\ p.removed = q.removed \cup {s}
           /\ HeadOk(q) /\ q.slots[s] # None => HeadOk(p)
  <1>1. PICK m : m = Marked(q, s)
    OBVIOUS
  <1>2. m \in Queue /\ m.head = q.head /\ m.slots = q.slots /\ m.removed = q.removed \cup {s}
    BY <1>1, MarkedFields
  <1>3. p = AdvanceHead(m)
    BY <1>1 DEF DequeueSlot, Marked
  <1>4. p \in Queue /\ p.slots = m.slots /\ p.removed = m.removed
    BY <1>2, <1>3, AdvanceHeadFields
  <1>5. ASSUME HeadOk(q), q.slots[s] # None
        PROVE  HeadOk(p)
    <2>1. /\ \A t \in 0 .. m.head - 1 : t \in m.removed
          /\ \A t \in m.removed : m.slots[t] # None
      BY <1>2, <1>5 DEF HeadOk
    <2> QED BY <1>2, <1>3, <2>1, AdvanceHeadOk
  <1> QED BY <1>2, <1>4, <1>5

LEMMA DequeueBatchFields ==
    ASSUME NEW q \in Queue, NEW b \in Batch, NEW p, p = DequeueBatch(q, b)
    PROVE  /\ p \in Queue /\ p.slots = q.slots
           /\ HeadOk(q) => HeadOk(p)
           /\ \/ p.removed = q.removed /\ Holding(q, b) = {}
              \/ \E s \in Holding(q, b) : p.removed = q.removed \cup {s}
  <1>1. CASE Holding(q, b) = {}
    BY <1>1 DEF DequeueBatch
  <1>2. CASE Holding(q, b) # {}
    <2>1. PICK s : s = CHOOSE t \in Holding(q, b) : \A u \in Holding(q, b) : t <= u
      OBVIOUS
    <2>2. s \in Holding(q, b)
      <3>1. Holding(q, b) \in SUBSET Nat
        BY SlotFacts DEF Holding
      <3>2. \E n \in Holding(q, b) : \A m \in Holding(q, b) : n <= m
        BY <1>2, <3>1, Least
      <3> QED BY <2>1, <3>2
    <2>3. s \in Slot /\ q.slots[s] = b /\ b # None
      BY <2>2, SlotFacts DEF Holding
    <2>4. PICK m : m = Marked(q, s)
      OBVIOUS
    <2>5. m \in Queue /\ m.head = q.head /\ m.slots = q.slots /\ m.removed = q.removed \cup {s}
      BY <2>3, <2>4, MarkedFields
    <2>6. p = IF s = q.head THEN AdvanceHead(m) ELSE m
      BY <1>2, <2>1, <2>4 DEF DequeueBatch, Marked
    <2>7. p \in Queue /\ p.slots = q.slots /\ p.removed = q.removed \cup {s}
      <3>1. PICK a : a = AdvanceHead(m)
        OBVIOUS
      <3>2. a \in Queue /\ a.slots = m.slots /\ a.removed = m.removed
        BY <2>5, <3>1, AdvanceHeadFields
      <3> QED BY <2>5, <2>6, <3>1, <3>2
    <2>8. ASSUME HeadOk(q)
          PROVE  HeadOk(p)
      <3>1. /\ \A t \in 0 .. m.head - 1 : t \in m.removed
            /\ \A t \in m.removed : m.slots[t] # None
        BY <2>3, <2>5, <2>8 DEF HeadOk
      <3>2. s # q.head => m.head \notin m.removed
        BY <2>5, <2>8 DEF HeadOk
      <3>3. PICK a : a = AdvanceHead(m)
        OBVIOUS
      <3>4. HeadOk(a)
        BY <2>5, <3>1, <3>3, AdvanceHeadOk
      <3>5. s # q.head => HeadOk(m)
        BY <3>1, <3>2 DEF HeadOk
      <3> QED BY <2>6, <3>3, <3>4, <3>5
    <2> QED BY <2>2, <2>7, <2>8
  <1> QED BY <1>1, <1>2
-----------------------------------------------------------------------------
(***************************************************************************)
(* Types.  active counts the broadcasts of the replica that have not ended *)
(* at the replica itself, so that it never falls below 0.                  *)
(***************************************************************************)
Block == [epoch : Epoch, batch : Batch, order : Order]
Instances == [Replica -> SUBSET (Replica \X Slot)]
Agreements == [Epoch -> [Replica -> SUBSET BOOLEAN]]

Types ==
    /\ proposed \in [Replica -> Seq(Batch)]
    /\ active \in [Replica -> 0 .. MaxConcurrent]
    /\ crashed \subseteq Faulty
    /\ bcInstances \in Instances /\ bcDelivered \in Instances /\ enqueued \in Instances
    /\ queues \in [Replica -> [Replica -> Queue]]
    /\ executed \in [Replica -> SUBSET Batch]
    /\ epoch \in [Replica -> 0 .. MaxEpoch]
    /\ mode \in [Replica -> {"proposing", "ongoing", "waiting"}]
    /\ baInput \in Agreements /\ baDecided \in Agreements
    /\ fillGaps \subseteq Replica \X Replica \X Replica \X (0 .. MaxSlot + 1)
    /\ fillers \subseteq Replica \X Replica \X Slot \X Batch
    /\ log \in [Replica -> Seq(Block)]

\* An agreement is followed in an epoch that there is.
InEpoch == \A r \in Replica : mode[r] # "proposing" => epoch[r] \in Epoch

\* The slots of p's own broadcasts that have not ended at p.
OngoingAt(p, n, delivered, halfway) ==
    {s \in Slot : s < n /\ (<<p, s>> \notin delivered \/ <<p, s>> \in halfway)}
Ongoing(p) == OngoingAt(p, Len(proposed[p]), bcDelivered[p], enqueued[p])
ActiveCounts == \A p \in Replica : active[p] = Cardinality(Ongoing(p))

\* A broadcast that has ended was started by its proposer.
HalfDelivered == \A r \in Replica : enqueued[r] \subseteq bcDelivered[r]
DeliveredProposed == \A r, q \in Replica, s \in Slot :
                         <<q, s>> \in bcDelivered[r] => Proposed(q, s)

TypeInv == Types /\ InEpoch /\ HalfDelivered /\ DeliveredProposed /\ ActiveCounts

LEMMA ParamFacts ==
    /\ N \in Nat \ {0} /\ MaxEpoch \in Nat /\ MaxConcurrent \in Nat /\ Workers \in Nat \ {0}
    /\ Replica = 0 .. N - 1 /\ Correct \subseteq Replica /\ Epoch \subseteq Nat
    /\ \A e \in Epoch : e + 1 \in 0 .. MaxEpoch /\ e \in 0 .. MaxEpoch /\ Leader(e) \in Replica
  <1>1. N \in Nat \ {0} /\ MaxEpoch \in Nat /\ MaxConcurrent \in Nat /\ Workers \in Nat \ {0}
    BY ReplicaAssumption, ParamsAssumption
  <1>2. ASSUME NEW e \in Epoch
        PROVE  Leader(e) \in Replica
    <2>1. e \in Nat
      BY <1>1, <1>2 DEF Epoch
    <2> QED BY <1>1, <2>1 DEF Leader, Replica
  <1> QED BY <1>1, <1>2 DEF Replica, Correct, Epoch

LEMMA SlotsFinite == \A S \in SUBSET Slot : IsFiniteSet(S) /\ Cardinality(S) \in Nat
  <1>1. IsFiniteSet(Slot)
    BY SlotFacts, FS_Interval
  <1> QED BY <1>1, FS_Subset, FS_CardinalityType

LEMMA TypeInvTypes == TypeInv => TypeOK
  <1> SUFFICES ASSUME TypeInv PROVE TypeOK
    OBVIOUS
  <1> USE DEF TypeInv, Types
  <1>1. \A f \in {bcInstances, bcDelivered, enqueued} :
            f \in [Replica -> SUBSET (Replica \X Slot)]
    BY DEF Instances
  <1>2. \A f \in {baInput, baDecided} : f \in [Epoch -> [Replica -> SUBSET BOOLEAN]]
    BY DEF Agreements
  <1>3. \A r \in Replica : \A i \in 1 .. Len(log[r]) :
            log[r][i] \in [epoch : Epoch, batch : Batch, order : Order]
    <2>1. \A r \in Replica : log[r] \in Seq(Block)
      OBVIOUS
    <2>2. \A r \in Replica : \A i \in 1 .. Len(log[r]) : log[r][i] \in Block
      BY <2>1
    <2> QED BY <2>2 DEF Block
  <1>4. queues \in [Replica -> [Replica -> [head : 0 .. MaxSlot + 1,
                                            slots : [Slot -> Batch \cup {None}],
                                            removed : SUBSET Slot]]]
    BY DEF Queue
  <1> QED BY <1>1, <1>2, <1>3, <1>4 DEF TypeOK

LEMMA TypeInit == Init => TypeInv
  <1> SUFFICES ASSUME Init PROVE TypeInv
    OBVIOUS
  <1>1. EmptyQueue \in Queue
    BY SlotFacts DEF EmptyQueue, Queue
  <1>2. Types
    BY <1>1, ParamFacts DEF Init, Types, Instances, Agreements
  <1>3. ActiveCounts
    <2> SUFFICES ASSUME NEW p \in Replica PROVE active[p] = Cardinality(Ongoing(p))
      BY DEF ActiveCounts
    <2>1. Len(proposed[p]) = 0
      BY DEF Init
    <2>2. Ongoing(p) = {}
      BY <2>1, SlotFacts DEF Ongoing, OngoingAt
    <2>3. Cardinality({}) = 0
      BY FS_EmptySet, Zenon
    <2> QED BY <2>2, <2>3 DEF Init
  <1>4. InEpoch /\ HalfDelivered /\ DeliveredProposed
    BY DEF Init, InEpoch, HalfDelivered, DeliveredProposed
  <1> QED BY <1>2, <1>3, <1>4 DEF TypeInv

\* A broadcast of the replica's own starts or ends.
LEMMA OneMore ==
    ASSUME NEW S \in SUBSET Slot, NEW s \in Slot, s \notin S
    PROVE  Cardinality(S \cup {s}) = Cardinality(S) + 1
  BY SlotsFinite, FS_AddElement

LEMMA OneLess ==
    ASSUME NEW S \in SUBSET Slot, NEW s \in Slot, s \in S
    PROVE  Cardinality(S \ {s}) = Cardinality(S) - 1 /\ Cardinality(S) \in Nat \ {0}
  <1>1. Cardinality(S \ {s}) = Cardinality(S) - 1
    BY SlotsFinite, FS_RemoveElement
  <1>2. Cardinality(S) \in Nat /\ Cardinality(S \ {s}) \in Nat
    BY SlotsFinite
  <1> QED BY <1>1, <1>2

\* What the types and the counting need of a step that ends no broadcast.
LEMMA CountsStay ==
    ASSUME ActiveCounts, UNCHANGED <<proposed, active, bcDelivered, enqueued>>
    PROVE  ActiveCounts'
  BY DEF ActiveCounts, Ongoing

LEMMA TypeTryPropose ==
    ASSUME TypeInv, NEW p \in Replica, NEW b \in Batch, TryPropose(p, b)
    PROVE  TypeInv'
  <1> USE DEF TypeInv
  <1>1. PICK n : n = Len(proposed[p])
    OBVIOUS
  <1>2. proposed[p] \in Seq(Batch) /\ n \in Slot
    BY <1>1, SlotFacts DEF TryPropose, Types
  <1>3. proposed' = [proposed EXCEPT ![p] = Append(@, b)]
    BY DEF TryPropose
  <1>4. /\ Len(proposed'[p]) = n + 1 /\ Append(proposed[p], b) \in Seq(Batch)
        /\ \A q \in Replica : q # p => proposed'[q] = proposed[q]
    BY <1>1, <1>2, <1>3 DEF Types
  <1>5. active[p] + 1 \in 0 .. MaxConcurrent
    <2>1. active[p] \in 0 .. MaxConcurrent
      BY DEF Types
    <2>2. active[p] < MaxConcurrent
      BY DEF TryPropose
    <2> QED BY <2>1, <2>2, ParamFacts
  <1>6. bcInstances' \in Instances
    <2>1. PICK I : I = bcInstances[p] \cup {<<p, n>>}
      OBVIOUS
    <2>2. I \in SUBSET (Replica \X Slot)
      BY <1>2, <2>1 DEF Types, Instances
    <2>3. bcInstances' = [bcInstances EXCEPT ![p] = I]
      BY <1>1, <2>1 DEF TryPropose
    <2> QED BY <2>2, <2>3 DEF Types, Instances
  <1>7. Types'
    <2>1. proposed' \in [Replica -> Seq(Batch)]
      BY <1>3, <1>4 DEF Types
    <2>2. active' \in [Replica -> 0 .. MaxConcurrent]
      BY <1>5 DEF TryPropose, Types
    <2> QED BY <1>6, <2>1, <2>2 DEF TryPropose, Types, stateVars, baVars, fillVars
  <1>8. DeliveredProposed'
    <2> SUFFICES ASSUME NEW r \in Replica, NEW q \in Replica, NEW s \in Slot,
                        <<q, s>> \in bcDelivered[r]
                 PROVE  s < Len(proposed'[q])
      BY DEF TryPropose, DeliveredProposed, Proposed
    <2>1. s < Len(proposed[q])
      BY DEF DeliveredProposed, Proposed
    <2> QED BY <1>1, <1>2, <1>4, <2>1, SlotFacts
  <1>9. ActiveCounts'
    <2> SUFFICES ASSUME NEW q \in Replica PROVE active'[q] = Cardinality(Ongoing(q)')
      BY DEF ActiveCounts
    <2>1. CASE q = p
      <3>1. \A s \in Slot : s < n + 1 <=> s < n \/ s = n
        BY <1>2, SlotFacts
      <3>2. <<p, n>> \notin bcDelivered[p]
        BY <1>1, <1>2, SlotFacts DEF DeliveredProposed, Proposed
      <3>3. Ongoing(p)' = Ongoing(p) \cup {n}
        BY <1>1, <1>2, <1>4, <3>1, <3>2 DEF Ongoing, OngoingAt, TryPropose
      <3>4. Ongoing(p) \in SUBSET Slot /\ n \notin Ongoing(p)
        BY <1>1, <1>2, SlotFacts DEF Ongoing, OngoingAt
      <3>5. Cardinality(Ongoing(p) \cup {n}) = Cardinality(Ongoing(p)) + 1
        BY <1>2, <3>4, OneMore
      <3>6. active'[p] = active[p] + 1
        BY DEF TryPropose, Types
      <3> QED BY <2>1, <3>3, <3>5, <3>6 DEF ActiveCounts
    <2>2. CASE q # p
      <3>1. Ongoing(q)' = Ongoing(q)
        BY <1>4, <2>2 DEF Ongoing, TryPropose
      <3>2. active'[q] = active[q]
        BY <2>2 DEF TryPropose, Types
      <3> QED BY <3>1, <3>2 DEF ActiveCounts
    <2> QED BY <2>1, <2>2
  <1>10. InEpoch' /\ HalfDelivered'
    BY DEF InEpoch, HalfDelivered, TryPropose, stateVars
  <1> QED BY <1>7, <1>8, <1>9, <1>10

LEMMA TypeStartBroadcast ==
    ASSUME TypeInv, NEW r \in Replica, NEW q \in Replica, NEW s \in Slot, StartBroadcast(r, q, s)
    PROVE  TypeInv'
  <1> USE DEF TypeInv
  <1>1. bcInstances' \in Instances
    <2>1. PICK I : I = bcInstances[r] \cup {<<q, s>>}
      OBVIOUS
    <2>2. I \in SUBSET (Replica \X Slot)
      BY <2>1 DEF Types, Instances
    <2>3. bcInstances' = [bcInstances EXCEPT ![r] = I]
      BY <2>1 DEF StartBroadcast
    <2> QED BY <2>2, <2>3 DEF Types, Instances
  <1>2. Types'
    BY <1>1 DEF StartBroadcast, Types, stateVars, baVars, fillVars
  <1>3. InEpoch' /\ HalfDelivered' /\ DeliveredProposed'
    BY DEF InEpoch, HalfDelivered, DeliveredProposed, Proposed, StartBroadcast, stateVars
  <1> QED BY <1>2, <1>3, CountsStay DEF StartBroadcast

\* The queue of q at r, after the enqueue and after the test of executed.
LEMMA QueuesStep ==
    ASSUME Types, NEW r \in Replica, NEW q \in Replica, NEW Q \in Queue,
           queues' = [queues EXCEPT ![r][q] = Q]
    PROVE  /\ queues' \in [Replica -> [Replica -> Queue]]
           /\ queues'[r][q] = Q
           /\ \A t, u \in Replica : t # r \/ u # q => queues'[t][u] = queues[t][u]
  BY DEF Types

LEMMA DedupeFields ==
    ASSUME NEW r \in Replica, NEW b \in Batch, NEW q \in Queue, NEW s \in Slot,
           NEW p, p = Dedupe(r, q, b, s)
    PROVE  p \in Queue /\ p.slots = q.slots
  <1>1. PICK d : d = DequeueSlot(q, s)
    OBVIOUS
  <1>2. d \in Queue /\ d.slots = q.slots
    BY <1>1, DequeueSlotFields
  <1> QED BY <1>1, <1>2 DEF Dedupe

LEMMA DedupeRemoves ==
    ASSUME NEW r \in Replica, NEW b \in Batch, NEW q \in Queue, NEW s \in Slot,
           NEW p, p = Dedupe(r, q, b, s)
    PROVE  /\ b \in executed[r] => p.removed = q.removed \cup {s}
           /\ b \notin executed[r] => p.removed = q.removed
  <1>1. PICK d : d = DequeueSlot(q, s)
    OBVIOUS
  <1>2. d.removed = q.removed \cup {s}
    BY <1>1, DequeueSlotFields
  <1> QED BY <1>1, <1>2 DEF Dedupe

LEMMA DedupeOk ==
    ASSUME NEW r \in Replica, NEW b \in Batch, NEW q \in Queue, NEW s \in Slot,
           NEW p, p = Dedupe(r, q, b, s), HeadOk(q), q.slots[s] # None
    PROVE  HeadOk(p)
  <1>1. PICK d : d = DequeueSlot(q, s)
    OBVIOUS
  <1>2. HeadOk(d)
    BY <1>1, DequeueSlotFields
  <1> QED BY <1>1, <1>2 DEF Dedupe

\* A broadcast ends at r; the rest of what is counted is as it was.
LEMMA EndBroadcastCounts ==
    ASSUME TypeInv, NEW r \in Replica, NEW q \in Replica, NEW s \in Slot,
           EndBroadcast(r, q, s), proposed' = proposed, Proposed(q, s),
           <<q, s>> \notin bcDelivered[r] \/ <<q, s>> \in enqueued[r],
           bcDelivered' = [bcDelivered EXCEPT ![r] = @ \cup {<<q, s>>}],
           enqueued' = [enqueued EXCEPT ![r] = @ \ {<<q, s>>}]
    PROVE  ActiveCounts' /\ active' \in [Replica -> 0 .. MaxConcurrent]
  <1> USE DEF TypeInv
  <1>1. /\ \A t \in Replica : t # r => bcDelivered'[t] = bcDelivered[t] /\ enqueued'[t] = enqueued[t]
        /\ bcDelivered'[r] = bcDelivered[r] \cup {<<q, s>>}
        /\ enqueued'[r] = enqueued[r] \ {<<q, s>>}
    BY DEF Types, Instances
  <1>2. CASE r = q
    <2>1. Ongoing(r)' = Ongoing(r) \ {s}
      BY <1>1, <1>2 DEF Ongoing, OngoingAt
    <2>2. s \in Ongoing(r) /\ Ongoing(r) \in SUBSET Slot
      BY <1>2 DEF Ongoing, OngoingAt, Proposed
    <2>3. /\ Cardinality(Ongoing(r) \ {s}) = Cardinality(Ongoing(r)) - 1
          /\ Cardinality(Ongoing(r)) \in Nat \ {0}
      BY <2>2, OneLess
    <2>4. active' = [active EXCEPT ![r] = @ - 1] /\ active[r] = Cardinality(Ongoing(r))
      BY <1>2 DEF EndBroadcast, ActiveCounts
    <2>5. active[r] - 1 \in 0 .. MaxConcurrent /\ active \in [Replica -> 0 .. MaxConcurrent]
      <3>1. active \in [Replica -> 0 .. MaxConcurrent]
        BY DEF Types
      <3>2. active[r] \in 0 .. MaxConcurrent /\ active[r] \in Nat \ {0} /\ MaxConcurrent \in Nat
        BY <2>3, <2>4, <3>1, ParamFacts
      <3> QED BY <3>1, <3>2
    <2>6. \A t \in Replica : t # r => active'[t] = active[t] /\ Ongoing(t)' = Ongoing(t)
      BY <1>1, <2>4, <2>5 DEF Ongoing
    <2>7. active'[r] = Cardinality(Ongoing(r)')
      BY <2>1, <2>3, <2>4, <2>5
    <2> QED BY <2>4, <2>5, <2>6, <2>7 DEF ActiveCounts
  <1>3. CASE r # q
    <2>1. active' = active
      BY <1>3 DEF EndBroadcast
    <2>2. \A t \in Replica : Ongoing(t)' = Ongoing(t)
      BY <1>1, <1>3 DEF Ongoing, OngoingAt
    <2> QED BY <2>1, <2>2 DEF ActiveCounts, Types
  <1> QED BY <1>2, <1>3

LEMMA TypeHandleVBroadcastStep ==
    ASSUME TypeInv, NEW r \in Replica, NEW q \in Replica, NEW s \in Slot,
           HandleVBroadcastStep(r, q, s)
    PROVE  TypeInv'
  <1> USE DEF TypeInv
  <1>1. PICK b : b = proposed[q][s + 1]
    OBVIOUS
  <1>2. PICK Q : Q = Enqueue(queues[r][q], s, b)
    OBVIOUS
  <1>3. /\ Proposed(q, s) /\ <<q, s>> \notin bcDelivered[r] /\ proposed' = proposed
        /\ bcDelivered' = [bcDelivered EXCEPT ![r] = @ \cup {<<q, s>>}]
        /\ UNCHANGED <<proposed, crashed, executed, epoch, mode, baInput, baDecided,
                       fillGaps, fillers, log>>
    BY DEF HandleVBroadcastStep, stateVars, baVars, fillVars
  <1>4. b \in Batch /\ queues[r][q] \in Queue
    <2>1. proposed[q] \in Seq(Batch) /\ s + 1 \in 1 .. Len(proposed[q])
      BY <1>3, SlotFacts DEF Types, Proposed
    <2>2. b \in Batch
      BY <1>1, <2>1
    <2> QED BY <2>2 DEF Types
  <1>5. Q \in Queue
    BY <1>2, <1>4, EnqueueFields
  <1>6. bcDelivered' \in Instances
    <2>1. PICK I : I = bcDelivered[r] \cup {<<q, s>>}
      OBVIOUS
    <2>2. I \in SUBSET (Replica \X Slot)
      BY <2>1 DEF Types, Instances
    <2> QED BY <1>3, <2>1, <2>2 DEF Types, Instances
  <1>7. InEpoch'
    BY <1>3 DEF InEpoch
  <1>8. DeliveredProposed'
    BY <1>3 DEF DeliveredProposed, Proposed, Types, Instances
  <1>9. CASE /\ queues' = [queues EXCEPT ![r][q] = Dedupe(r, Q, b, s)]
             /\ EndBroadcast(r, q, s)
             /\ UNCHANGED enqueued
    <2>1. PICK D : D = Dedupe(r, Q, b, s)
      OBVIOUS
    <2>2. D \in Queue
      BY <1>4, <1>5, <2>1, DedupeFields
    <2>3. queues' \in [Replica -> [Replica -> Queue]]
      BY <1>9, <2>1, <2>2, QueuesStep
    <2>4. enqueued' = [enqueued EXCEPT ![r] = @ \ {<<q, s>>}]
      <3>1. enqueued[r] \ {<<q, s>>} = enqueued[r]
        BY <1>3 DEF HalfDelivered
      <3> QED BY <1>9, <3>1 DEF Types, Instances
    <2>5. ActiveCounts' /\ active' \in [Replica -> 0 .. MaxConcurrent]
      BY <1>3, <1>9, <2>4, EndBroadcastCounts
    <2>6. bcInstances' \in Instances
      BY <1>9 DEF EndBroadcast, Types, Instances
    <2>7. Types'
      BY <1>3, <1>6, <1>9, <2>3, <2>5, <2>6 DEF Types
    <2>8. HalfDelivered'
      BY <1>3, <1>9 DEF HalfDelivered, Types, Instances
    <2> QED BY <1>7, <1>8, <2>5, <2>7, <2>8
  <1>10. CASE /\ queues' = [queues EXCEPT ![r][q] = Q]
              /\ enqueued' = [enqueued EXCEPT ![r] = @ \cup {<<q, s>>}]
              /\ UNCHANGED <<bcInstances, active>>
    <2>1. queues' \in [Replica -> [Replica -> Queue]]
      BY <1>5, <1>10, QueuesStep
    <2>2. enqueued' \in Instances
      <3>1. PICK I : I = enqueued[r] \cup {<<q, s>>}
        OBVIOUS
      <3>2. I \in SUBSET (Replica \X Slot)
        BY <3>1 DEF Types, Instances
      <3> QED BY <1>10, <3>1, <3>2 DEF Types, Instances
    <2>3. Types'
      BY <1>3, <1>6, <1>10, <2>1, <2>2 DEF Types
    <2>4. HalfDelivered'
      BY <1>3, <1>10 DEF HalfDelivered, Types, Instances
    <2>5. ActiveCounts'
      <3> SUFFICES ASSUME NEW t \in Replica PROVE Ongoing(t)' = Ongoing(t)
        BY <1>10 DEF ActiveCounts
      <3>1. CASE t = r
        <4>1. /\ bcDelivered'[r] = bcDelivered[r] \cup {<<q, s>>}
              /\ enqueued'[r] = enqueued[r] \cup {<<q, s>>}
          BY <1>3, <1>10 DEF Types, Instances
        <4> QED BY <1>3, <3>1, <4>1 DEF Ongoing, OngoingAt
      <3>2. CASE t # r
        <4>1. bcDelivered'[t] = bcDelivered[t] /\ enqueued'[t] = enqueued[t]
          BY <1>3, <1>10, <3>2 DEF Types, Instances
        <4> QED BY <1>3, <4>1 DEF Ongoing
      <3> QED BY <3>1, <3>2
    <2> QED BY <1>7, <1>8, <2>3, <2>4, <2>5
  <1> QED BY <1>1, <1>2, <1>9, <1>10 DEF HandleVBroadcastStep

LEMMA TypeFinishVBroadcastStep ==
    ASSUME TypeInv, NEW r \in Replica, NEW q \in Replica, NEW s \in Slot,
           FinishVBroadcastStep(r, q, s)
    PROVE  TypeInv'
  <1> USE DEF TypeInv
  <1>1. PICK b : b = proposed[q][s + 1]
    OBVIOUS
  <1>2. /\ <<q, s>> \in enqueued[r] /\ EndBroadcast(r, q, s)
        /\ enqueued' = [enqueued EXCEPT ![r] = @ \ {<<q, s>>}]
        /\ UNCHANGED <<proposed, crashed, bcDelivered, executed, epoch, mode, baInput, baDecided,
                       fillGaps, fillers, log>>
    BY DEF FinishVBroadcastStep, stateVars, baVars, fillVars
  <1>3. <<q, s>> \in bcDelivered[r] /\ Proposed(q, s)
    BY <1>2 DEF HalfDelivered, DeliveredProposed
  <1>4. queues[r][q] \in Queue /\ b \in Batch
    <2>1. proposed[q] \in Seq(Batch) /\ s + 1 \in 1 .. Len(proposed[q])
      BY <1>3, SlotFacts DEF Types, Proposed
    <2>2. b \in Batch
      BY <1>1, <2>1
    <2> QED BY <2>2 DEF Types
  <1>5. PICK D : D = Dedupe(r, queues[r][q], b, s)
    OBVIOUS
  <1>6. D \in Queue /\ queues' = [queues EXCEPT ![r][q] = D]
    <2>1. D \in Queue
      BY <1>4, <1>5, DedupeFields
    <2> QED BY <1>1, <1>5, <2>1 DEF FinishVBroadcastStep
  <1>7. queues' \in [Replica -> [Replica -> Queue]]
    BY <1>6, QueuesStep
  <1>8. bcDelivered' = [bcDelivered EXCEPT ![r] = @ \cup {<<q, s>>}]
    <2>1. bcDelivered[r] \cup {<<q, s>>} = bcDelivered[r]
      BY <1>3
    <2> QED BY <1>2, <2>1 DEF Types, Instances
  <1>9. ActiveCounts' /\ active' \in [Replica -> 0 .. MaxConcurrent]
    BY <1>2, <1>3, <1>8, EndBroadcastCounts
  <1>10. bcInstances' \in Instances /\ enqueued' \in Instances
    BY <1>2 DEF EndBroadcast, Types, Instances
  <1>11. Types'
    BY <1>2, <1>7, <1>9, <1>10 DEF Types
  <1>12. InEpoch' /\ DeliveredProposed'
    BY <1>2 DEF InEpoch, DeliveredProposed, Proposed
  <1>13. HalfDelivered'
    BY <1>2 DEF HalfDelivered, Types, Instances
  <1> QED BY <1>9, <1>11, <1>12, <1>13

\* The steps of the agreement end no broadcast.
LEMMA NoBroadcast ==
    ASSUME TypeInv, Types', InEpoch', UNCHANGED <<proposed, active, bcDelivered, enqueued>>
    PROVE  TypeInv'
  BY CountsStay DEF TypeInv, HalfDelivered, DeliveredProposed, Proposed

LEMMA AgreementsStep ==
    ASSUME NEW f \in Agreements, NEW e \in Epoch, NEW r \in Replica, NEW b \in BOOLEAN
    PROVE  [f EXCEPT ![e][r] = {b}] \in Agreements
  BY DEF Agreements

LEMMA TypeHandleProposing ==
    ASSUME TypeInv, NEW r \in Replica, HandleProposing(r)
    PROVE  TypeInv'
  <1> USE DEF TypeInv
  <1>1. PICK b : b = Peek(HeadQueue(r))
    OBVIOUS
  <1>2. b \in BOOLEAN
    BY <1>1 DEF Peek, Present
  <1>3. epoch[r] \in Epoch /\ baInput' = [baInput EXCEPT ![epoch[r]][r] = {b}]
    BY <1>1 DEF HandleProposing
  <1>4. baInput' \in Agreements
    BY <1>2, <1>3, AgreementsStep DEF Types
  <1>5. Types'
    BY <1>4 DEF HandleProposing, Types, bcVars, fillVars
  <1>6. InEpoch'
    BY <1>3 DEF HandleProposing, InEpoch, Types
  <1> QED BY <1>5, <1>6, NoBroadcast DEF HandleProposing, bcVars

LEMMA TypeDecide ==
    ASSUME TypeInv, NEW r \in Replica, NEW e \in Epoch, NEW b \in BOOLEAN, DecideAgreement(e, r, b)
    PROVE  TypeInv'
  <1> USE DEF TypeInv
  <1>1. baDecided' = [baDecided EXCEPT ![e][r] = {b}]
    BY DEF DecideAgreement
  <1>2. baDecided' \in Agreements
    BY <1>1, AgreementsStep DEF Types
  <1>3. Types' /\ InEpoch'
    BY <1>2 DEF DecideAgreement, Types, bcVars, fillVars, stateVars, InEpoch
  <1> QED BY <1>3, NoBroadcast DEF DecideAgreement, bcVars

LEMMA TypeHandleOngoing ==
    ASSUME TypeInv, NEW r \in Replica, HandleOngoing(r)
    PROVE  TypeInv'
  <1> USE DEF TypeInv
  <1>1. PICK e : e = epoch[r]
    OBVIOUS
  <1>2. e \in Epoch
    BY <1>1 DEF InEpoch, HandleOngoing
  <1>3. HeadQueue(r) \in Queue
    <2>1. r \in Replica /\ Leader(epoch[r]) \in Replica
      BY <1>1, <1>2, ParamFacts
    <2>2. queues \in [Replica -> [Replica -> Queue]]
      BY DEF Types
    <2> QED BY <2>1, <2>2 DEF HeadQueue
  <1>4. {r} \X Replica \X {Leader(e)} \X {HeadQueue(r).head}
            \subseteq Replica \X Replica \X Replica \X (0 .. MaxSlot + 1)
    <2>1. HeadQueue(r).head \in 0 .. MaxSlot + 1
      BY <1>3 DEF Queue
    <2> QED BY <1>2, <2>1, ParamFacts
  <1>5. fillGaps' \subseteq Replica \X Replica \X Replica \X (0 .. MaxSlot + 1)
    <2>1. \/ fillGaps' = fillGaps
          \/ fillGaps' = fillGaps \cup ({r} \X Replica \X {Leader(e)} \X {HeadQueue(r).head})
      BY <1>1 DEF HandleOngoing
    <2>2. fillGaps \subseteq Replica \X Replica \X Replica \X (0 .. MaxSlot + 1)
      BY DEF Types
    <2> QED BY <1>4, <2>1, <2>2
  <1>6. /\ epoch' \in [Replica -> 0 .. MaxEpoch]
        /\ mode' \in [Replica -> {"proposing", "ongoing", "waiting"}]
    <2>1. /\ epoch \in [Replica -> 0 .. MaxEpoch] /\ e + 1 \in 0 .. MaxEpoch
          /\ mode \in [Replica -> {"proposing", "ongoing", "waiting"}]
      BY <1>2, ParamFacts DEF Types
    <2>2. \/ /\ epoch' = [epoch EXCEPT ![r] = e + 1]
             /\ mode' = [mode EXCEPT ![r] = "proposing"]
          \/ epoch' = epoch /\ mode' = [mode EXCEPT ![r] = "waiting"]
      BY <1>1 DEF HandleOngoing
    <2> QED BY <2>1, <2>2
  <1>7. Types'
    BY <1>5, <1>6 DEF HandleOngoing, Types, bcVars, baVars
  <1>8. InEpoch'
    BY <1>1, <1>2 DEF HandleOngoing, InEpoch, Types
  <1> QED BY <1>7, <1>8, NoBroadcast DEF HandleOngoing, bcVars

\* WaitingState delivers the batch of the head and dequeues it everywhere.
Delivers(r, b, o) ==
    /\ epoch[r] \in Epoch /\ b = HeadQueue(r).slots[HeadQueue(r).head]
    /\ HeadQueue(r) \in Queue /\ HeadQueue(r).head \in Slot
    /\ log' = [log EXCEPT ![r] = Append(@, [epoch |-> epoch[r], batch |-> b, order |-> o])]
    /\ executed' = [executed EXCEPT ![r] = @ \cup {b}]
    /\ queues' = [queues EXCEPT ![r] = [q \in Replica |-> DequeueBatch(@[q], b)]]

LEMMA HandleWaitingDoes ==
    ASSUME TypeInv, NEW r \in Replica, HandleWaiting(r)
    PROVE  \E b \in Batch, o \in Order : Delivers(r, b, o)
  <1> USE DEF TypeInv
  <1>1. epoch[r] \in Epoch
    BY DEF InEpoch, HandleWaiting
  <1>2. HeadQueue(r) \in Queue
    <2>1. r \in Replica /\ Leader(epoch[r]) \in Replica
      BY <1>1, ParamFacts
    <2>2. queues \in [Replica -> [Replica -> Queue]]
      BY DEF Types
    <2> QED BY <2>1, <2>2 DEF HeadQueue
  <1>3. PICK b : b = HeadQueue(r).slots[HeadQueue(r).head]
    OBVIOUS
  <1>4. HeadQueue(r).head \in Slot /\ b # None
    BY <1>3 DEF HandleWaiting, Peek, Present
  <1>5. b \in Batch
    BY <1>2, <1>3, <1>4 DEF Queue
  <1> QED BY <1>1, <1>2, <1>3, <1>4, <1>5 DEF HandleWaiting, Delivers

LEMMA TypeHandleWaiting ==
    ASSUME TypeInv, NEW r \in Replica, HandleWaiting(r)
    PROVE  TypeInv'
  <1> USE DEF TypeInv
  <1>0. PICK b \in Batch, o \in Order : Delivers(r, b, o)
    BY HandleWaitingDoes
  <1>1. /\ epoch[r] \in Epoch
        /\ log' = [log EXCEPT ![r] = Append(@, [epoch |-> epoch[r], batch |-> b, order |-> o])]
        /\ executed' = [executed EXCEPT ![r] = @ \cup {b}]
        /\ queues' = [queues EXCEPT ![r] = [q \in Replica |-> DequeueBatch(@[q], b)]]
    BY <1>0 DEF Delivers
  <1>2. PICK B : B = [epoch |-> epoch[r], batch |-> b, order |-> o]
    OBVIOUS
  <1>3. B \in Block
    BY <1>1, <1>2 DEF Block
  <1>4. log' \in [Replica -> Seq(Block)]
    <2>1. log' = [log EXCEPT ![r] = Append(@, B)]
      BY <1>1, <1>2
    <2>2. log \in [Replica -> Seq(Block)]
      BY DEF Types
    <2> QED BY <1>3, <2>1, <2>2
  <1>5. executed' \in [Replica -> SUBSET Batch]
    BY <1>1 DEF Types
  <1>6. queues' \in [Replica -> [Replica -> Queue]]
    <2>1. \A q \in Replica : DequeueBatch(queues[r][q], b) \in Queue
      <3> SUFFICES ASSUME NEW q \in Replica PROVE DequeueBatch(queues[r][q], b) \in Queue
        OBVIOUS
      <3>1. queues[r][q] \in Queue
        BY DEF Types
      <3> QED BY <3>1, DequeueBatchFields
    <2>2. PICK f : f = [q \in Replica |-> DequeueBatch(queues[r][q], b)]
      OBVIOUS
    <2>3. f \in [Replica -> Queue]
      BY <2>1, <2>2
    <2>4. queues' = [queues EXCEPT ![r] = f]
      BY <1>1, <2>2
    <2> QED BY <2>3, <2>4 DEF Types
  <1>7. /\ epoch' \in [Replica -> 0 .. MaxEpoch]
        /\ mode' \in [Replica -> {"proposing", "ongoing", "waiting"}]
    BY <1>1, ParamFacts DEF HandleWaiting, Types
  <1>8. Types'
    BY <1>4, <1>5, <1>6, <1>7 DEF HandleWaiting, Types, bcVars, baVars, fillVars
  <1>9. InEpoch'
    BY <1>1 DEF HandleWaiting, InEpoch, Types
  <1> QED BY <1>8, <1>9, NoBroadcast DEF HandleWaiting, bcVars

LEMMA TypeHandleFillGap ==
    ASSUME TypeInv, NEW r \in Replica, NEW t \in Replica, NEW q \in Replica,
           NEW s \in 0 .. MaxSlot + 1, HandleFillGap(r, t, q, s)
    PROVE  TypeInv'
  <1> USE DEF TypeInv
  <1>1. queues[t][q] \in Queue
    BY DEF Types
  <1>2. ASSUME Present(queues[t][q], s)
        PROVE  <<r, q, s, queues[t][q].slots[s]>> \in Replica \X Replica \X Slot \X Batch
    <2>1. s \in Slot /\ queues[t][q].slots[s] \in Batch
      BY <1>1, <1>2 DEF Queue, Present
    <2> QED BY <2>1
  <1>3. fillers' \subseteq Replica \X Replica \X Slot \X Batch
    BY <1>2 DEF HandleFillGap, Types
  <1>4. fillGaps' \subseteq fillGaps
    BY DEF HandleFillGap
  <1>5. Types' /\ InEpoch'
    BY <1>3, <1>4 DEF HandleFillGap, Types, InEpoch, bcVars, baVars, stateVars
  <1> QED BY <1>5, NoBroadcast DEF HandleFillGap, bcVars

LEMMA TypeHandleFiller ==
    ASSUME TypeInv, NEW r \in Replica, NEW q \in Replica, NEW s \in Slot, NEW b \in Batch,
           HandleFiller(r, q, s, b)
    PROVE  TypeInv'
  <1> USE DEF TypeInv
  <1>1. PICK Q : Q = Enqueue(queues[r][q], s, b)
    OBVIOUS
  <1>2. Q \in Queue
    <2>1. queues[r][q] \in Queue
      BY DEF Types
    <2> QED BY <1>1, <2>1, EnqueueFields
  <1>3. queues' = queues \/ queues' = [queues EXCEPT ![r][q] = Q]
    BY <1>1 DEF HandleFiller
  <1>4. queues' \in [Replica -> [Replica -> Queue]]
    BY <1>2, <1>3, QueuesStep DEF Types
  <1>5. fillers' \subseteq fillers
    BY DEF HandleFiller
  <1>6. Types' /\ InEpoch'
    BY <1>4, <1>5 DEF HandleFiller, Types, InEpoch, bcVars, baVars, stateVars
  <1> QED BY <1>6, NoBroadcast DEF HandleFiller, bcVars

LEMMA TypeCrash ==
    ASSUME TypeInv, NEW r \in Replica, Crash(r)
    PROVE  TypeInv'
  <1>1. Types' /\ InEpoch'
    BY DEF TypeInv, Crash, Types, InEpoch, bcVars, baVars, stateVars, fillVars
  <1> QED BY <1>1, NoBroadcast DEF Crash, bcVars

LEMMA TypeStays == ASSUME TypeInv, UNCHANGED vars PROVE TypeInv'
  BY DEF TypeInv, Types, InEpoch, HalfDelivered, DeliveredProposed, Proposed, ActiveCounts,
         Ongoing, vars

\* The steps of Fill, with what the messages hold.
LEMMA FillSteps ==
    ASSUME TypeInv, NEW r \in Replica, Fill(r)
    PROVE  \/ \E t \in Replica, q \in Replica, s \in 0 .. MaxSlot + 1 : HandleFillGap(t, r, q, s)
           \/ \E q \in Replica, s \in Slot, b \in Batch : HandleFiller(r, q, s, b)
  <1>1. CASE \E m \in fillGaps : m[2] = r /\ HandleFillGap(m[1], r, m[3], m[4])
    <2>1. PICK m \in fillGaps : m[2] = r /\ HandleFillGap(m[1], r, m[3], m[4])
      BY <1>1
    <2>2. m[1] \in Replica /\ m[3] \in Replica /\ m[4] \in 0 .. MaxSlot + 1
      BY DEF TypeInv, Types
    <2> QED BY <2>1, <2>2
  <1>2. CASE \E m \in fillers : m[1] = r /\ HandleFiller(r, m[2], m[3], m[4])
    <2>1. PICK m \in fillers : m[1] = r /\ HandleFiller(r, m[2], m[3], m[4])
      BY <1>2
    <2>2. m[2] \in Replica /\ m[3] \in Slot /\ m[4] \in Batch
      BY DEF TypeInv, Types
    <2> QED BY <2>1, <2>2
  <1> QED BY <1>1, <1>2 DEF Fill

LEMMA TypeNext == ASSUME TypeInv, [Next]_vars PROVE TypeInv'
  <1>1. CASE UNCHANGED vars
    BY <1>1, TypeStays
  <1>2. CASE Next
    <2>1. PICK r \in Replica :
              \/ \E b \in Batch : TryPropose(r, b)
              \/ \E q \in Replica, s \in Slot : Broadcast(r, q, s)
              \/ Agree(r)
              \/ Decide(r)
              \/ Fill(r)
              \/ Crash(r)
      BY <1>2 DEF Next
    <2>2. CASE \E b \in Batch : TryPropose(r, b)
      BY <2>2, TypeTryPropose
    <2>3. CASE \E q \in Replica, s \in Slot : Broadcast(r, q, s)
      BY <2>3, TypeStartBroadcast, TypeHandleVBroadcastStep, TypeFinishVBroadcastStep DEF Broadcast
    <2>4. CASE Agree(r)
      BY <2>4, TypeHandleProposing, TypeHandleOngoing, TypeHandleWaiting DEF Agree
    <2>5. CASE Decide(r)
      BY <2>5, TypeDecide DEF Decide
    <2>6. CASE Fill(r)
      BY <2>6, FillSteps, TypeHandleFillGap, TypeHandleFiller
    <2>7. CASE Crash(r)
      BY <2>7, TypeCrash
    <2> QED BY <2>1, <2>2, <2>3, <2>4, <2>5, <2>6, <2>7
  <1> QED BY <1>1, <1>2

LEMMA TypeInvAlways == Spec => []TypeInv
  BY TypeInit, TypeNext, PTL DEF Spec

\* Every field of every replica keeps its type; in particular no more broadcasts
\* of a replica are going on than its parameters allow, and no fewer than none.
THEOREM TypeCorrect == Spec => []TypeOK
  BY TypeInvAlways, TypeInvTypes, PTL
-----------------------------------------------------------------------------
(***************************************************************************)
(* The queues.  A slot holds what its proposer broadcast in it, also when  *)
(* it came by a FILLER, and the head is past the removed slots.            *)
(***************************************************************************)
Contents(q, Q) == \A s \in Slot :
    Q.slots[s] # None => Proposed(q, s) /\ Q.slots[s] = proposed[q][s + 1]

QueuesOk == \A r, q \in Replica : HeadOk(queues[r][q])
QueuesContents == \A r, q \in Replica : Contents(q, queues[r][q])
FillersContents == \A m \in fillers :
    Proposed(m[2], m[3]) /\ m[4] = proposed[m[2]][m[3] + 1]
HalfThere == \A r, q \in Replica, s \in Slot :
    <<q, s>> \in enqueued[r] => queues[r][q].slots[s] # None
QueueInv == QueuesOk /\ QueuesContents /\ FillersContents /\ HalfThere

\* What a proposer has proposed stays.
ProposedStays == \A q \in Replica, s \in Slot :
    Proposed(q, s) => Proposed(q, s)' /\ proposed'[q][s + 1] = proposed[q][s + 1]

LEMMA ProposedGrows == ASSUME TypeInv, [Next]_vars PROVE ProposedStays
  <1>1. CASE proposed' = proposed
    BY <1>1 DEF ProposedStays, Proposed
  <1>2. CASE \E p \in Replica, b \in Batch : TryPropose(p, b)
    <2>1. PICK p \in Replica, b \in Batch : proposed' = [proposed EXCEPT ![p] = Append(@, b)]
      BY <1>2 DEF TryPropose
    <2>2. proposed[p] \in Seq(Batch) /\ proposed \in [Replica -> Seq(Batch)]
      BY DEF TypeInv, Types
    <2> SUFFICES ASSUME NEW q \in Replica, NEW s \in Slot, s < Len(proposed[q])
                 PROVE  s < Len(proposed'[q]) /\ proposed'[q][s + 1] = proposed[q][s + 1]
      BY DEF ProposedStays, Proposed
    <2>3. CASE q = p
      <3>1. PICK S \in Seq(Batch) : S = proposed[p]
        BY <2>2
      <3>2. proposed'[p] = Append(S, b)
        BY <2>1, <2>2, <3>1
      <3>3. Len(S) \in Nat /\ s \in Nat /\ s < Len(S) /\ s + 1 \in 1 .. Len(S)
        BY <2>3, <3>1, SlotFacts
      <3>4. Len(Append(S, b)) = Len(S) + 1 /\ Append(S, b)[s + 1] = S[s + 1]
        BY <3>3
      <3> QED BY <2>3, <3>1, <3>2, <3>3, <3>4
    <2>4. CASE q # p
      BY <2>1, <2>2, <2>4
    <2> QED BY <2>3, <2>4
  <1>3. [Next]_vars => proposed' = proposed \/ \E p \in Replica, b \in Batch : TryPropose(p, b)
    <2>1. \A r, q, s : Broadcast(r, q, s) => proposed' = proposed
      BY DEF Broadcast, StartBroadcast, HandleVBroadcastStep, FinishVBroadcastStep
    <2>2. \A r : Agree(r) => proposed' = proposed
      BY DEF Agree, HandleProposing, HandleOngoing, HandleWaiting
    <2>3. \A r : Decide(r) => proposed' = proposed
      BY DEF Decide, DecideAgreement
    <2>4. \A r, t, q, s : HandleFillGap(r, t, q, s) => proposed' = proposed
      BY DEF HandleFillGap
    <2>5. \A r, q, s, b : HandleFiller(r, q, s, b) => proposed' = proposed
      BY DEF HandleFiller
    <2>6. \A r : Fill(r) => proposed' = proposed
      BY <2>4, <2>5 DEF Fill
    <2>7. \A r : Crash(r) => proposed' = proposed
      BY DEF Crash
    <2>8. UNCHANGED vars => proposed' = proposed
      BY DEF vars
    <2> QED BY <2>1, <2>2, <2>3, <2>6, <2>7, <2>8 DEF Next
  <1> QED BY <1>1, <1>2, <1>3

LEMMA ContentsStay ==
    ASSUME ProposedStays, NEW q \in Replica, NEW Q, Contents(q, Q)
    PROVE  Contents(q, Q)'
  BY DEF ProposedStays, Contents

LEMMA FillersStay ==
    ASSUME TypeInv, ProposedStays, FillersContents, fillers' \subseteq fillers
    PROVE  FillersContents'
  <1> SUFFICES ASSUME NEW m \in fillers
               PROVE  Proposed(m[2], m[3])' /\ m[4] = proposed'[m[2]][m[3] + 1]
    BY DEF FillersContents
  <1>1. m[2] \in Replica /\ m[3] \in Slot
    BY DEF TypeInv, Types
  <1>2. Proposed(m[2], m[3]) /\ m[4] = proposed[m[2]][m[3] + 1]
    BY DEF FillersContents
  <1> QED BY <1>1, <1>2 DEF ProposedStays

\* A step that leaves the queues alone.
LEMMA QueuesStay ==
    ASSUME TypeInv, QueueInv, ProposedStays, queues' = queues, fillers' \subseteq fillers,
           \A r \in Replica : enqueued'[r] \subseteq enqueued[r]
    PROVE  QueueInv'
  <1> USE DEF QueueInv
  <1>1. QueuesContents'
    <2> SUFFICES ASSUME NEW r \in Replica, NEW q \in Replica
                 PROVE  Contents(q, queues[r][q])'
      BY DEF QueuesContents
    <2>1. PICK Q : Q = queues[r][q]
      OBVIOUS
    <2>2. Contents(q, Q)'
      BY <2>1, ContentsStay DEF QueuesContents
    <2> QED BY <2>1, <2>2 DEF Contents
  <1> QED BY <1>1, FillersStay DEF QueuesOk, HalfThere

\* A step that changes the queue of q at r.
LEMMA QueueSteps ==
    ASSUME TypeInv, QueueInv, proposed' = proposed, fillers' \subseteq fillers,
           NEW r \in Replica, NEW q \in Replica, NEW Q \in Queue,
           queues' = [queues EXCEPT ![r][q] = Q],
           HeadOk(Q), Contents(q, Q),
           \A s \in Slot : queues[r][q].slots[s] # None => Q.slots[s] # None,
           \A t, u \in Replica, s \in Slot : <<u, s>> \in enqueued'[t] =>
               <<u, s>> \in enqueued[t] \/ (t = r /\ u = q /\ Q.slots[s] # None)
    PROVE  QueueInv'
  <1> USE DEF QueueInv
  <1>1. /\ queues'[r][q] = Q
        /\ \A t, u \in Replica : t # r \/ u # q => queues'[t][u] = queues[t][u]
    <2>1. queues \in [Replica -> [Replica -> Queue]]
      BY DEF TypeInv, Types
    <2> QED BY <2>1
  <1>2. ProposedStays
    BY DEF ProposedStays, Proposed
  <1>3. FillersContents'
    BY <1>2, FillersStay
  <1>4. QueuesOk'
    <2> SUFFICES ASSUME NEW t \in Replica, NEW u \in Replica PROVE HeadOk(queues'[t][u])
      BY DEF QueuesOk
    <2>1. queues'[t][u] = Q \/ queues'[t][u] = queues[t][u]
      BY <1>1
    <2>2. HeadOk(queues[t][u])
      BY DEF QueuesOk
    <2> QED BY <2>1, <2>2
  <1>5. QueuesContents'
    <2> SUFFICES ASSUME NEW t \in Replica, NEW u \in Replica
                 PROVE  Contents(u, queues[t][u])'
      BY DEF QueuesContents
    <2>1. (t = r /\ u = q /\ queues'[t][u] = Q) \/ queues'[t][u] = queues[t][u]
      BY <1>1
    <2>2. Contents(u, queues[t][u])
      BY DEF QueuesContents
    <2> QED BY <2>1, <2>2 DEF Contents, Proposed
  <1>6. HalfThere'
    <2> SUFFICES ASSUME NEW t \in Replica, NEW u \in Replica, NEW s \in Slot,
                        <<u, s>> \in enqueued'[t]
                 PROVE  queues'[t][u].slots[s] # None
      BY DEF HalfThere
    <2>1. CASE t = r /\ u = q
      BY <1>1, <2>1 DEF HalfThere
    <2>2. CASE ~(t = r /\ u = q)
      BY <1>1, <2>2 DEF HalfThere
    <2> QED BY <2>1, <2>2
  <1> QED BY <1>3, <1>4, <1>5, <1>6

LEMMA EnqueueContents ==
    ASSUME NEW q \in Replica, NEW s \in Slot, NEW b \in Batch, Proposed(q, s),
           b = proposed[q][s + 1], NEW Q \in Queue, HeadOk(Q), Contents(q, Q),
           NEW P, P = Enqueue(Q, s, b)
    PROVE  /\ P \in Queue /\ HeadOk(P) /\ Contents(q, P) /\ P.slots[s] = b
           /\ P.removed = Q.removed
           /\ \A t \in Slot : t # s => P.slots[t] = Q.slots[t]
           /\ \A t \in Slot : Q.slots[t] # None => P.slots[t] # None
  <1>1. /\ P \in Queue /\ P.removed = Q.removed
        /\ P.slots[s] = IF Q.slots[s] = None THEN b ELSE Q.slots[s]
        /\ \A t \in Slot : t # s => P.slots[t] = Q.slots[t]
    BY EnqueueFields
  <1>2. HeadOk(P)
    BY EnqueueOk
  <1>3. P.slots[s] = b
    BY <1>1 DEF Contents
  <1>4. \A t \in Slot : Q.slots[t] # None => P.slots[t] # None
    BY <1>1
  <1>5. Contents(q, P)
    BY <1>1, <1>3 DEF Contents
  <1> QED BY <1>1, <1>2, <1>3, <1>4, <1>5

LEMMA QueuesHandleVBroadcastStep ==
    ASSUME TypeInv, QueueInv, NEW r \in Replica, NEW q \in Replica, NEW s \in Slot,
           HandleVBroadcastStep(r, q, s)
    PROVE  QueueInv'
  <1> USE DEF QueueInv
  <1>1. PICK b : b = proposed[q][s + 1]
    OBVIOUS
  <1>2. PICK Q : Q = queues[r][q]
    OBVIOUS
  <1>3. PICK P : P = Enqueue(Q, s, b)
    OBVIOUS
  <1>4. Proposed(q, s) /\ proposed' = proposed /\ fillers' = fillers
    BY DEF HandleVBroadcastStep, fillVars
  <1>5. b \in Batch /\ Q \in Queue /\ HeadOk(Q) /\ Contents(q, Q)
    <2>1. proposed[q] \in Seq(Batch) /\ s + 1 \in 1 .. Len(proposed[q])
      BY <1>4, SlotFacts DEF TypeInv, Types, Proposed
    <2>2. b \in Batch
      BY <1>1, <2>1
    <2> QED BY <1>2, <2>2 DEF TypeInv, Types, QueuesOk, QueuesContents
  <1>6. /\ P \in Queue /\ HeadOk(P) /\ Contents(q, P) /\ P.slots[s] = b
        /\ \A t \in Slot : Q.slots[t] # None => P.slots[t] # None
    BY <1>1, <1>3, <1>4, <1>5, EnqueueContents
  <1>7. CASE queues' = [queues EXCEPT ![r][q] = Dedupe(r, P, b, s)] /\ UNCHANGED enqueued
    <2>1. PICK D : D = Dedupe(r, P, b, s)
      OBVIOUS
    <2>2. D \in Queue /\ HeadOk(D) /\ Contents(q, D) /\ D.slots = P.slots
      <3>1. D \in Queue /\ D.slots = P.slots
        BY <1>5, <1>6, <2>1, DedupeFields
      <3>2. P.slots[s] # None
        BY <1>5, <1>6, SlotFacts
      <3>3. HeadOk(D)
        BY <1>5, <1>6, <2>1, <3>2, DedupeOk
      <3> QED BY <1>6, <3>1, <3>3 DEF Contents
    <2>3. queues' = [queues EXCEPT ![r][q] = D]
      BY <1>7, <2>1
    <2>4. \A t \in Slot : queues[r][q].slots[t] # None => D.slots[t] # None
      BY <1>2, <1>6, <2>2
    <2> QED BY <1>4, <1>7, <2>2, <2>3, <2>4, QueueSteps
  <1>8. CASE queues' = [queues EXCEPT ![r][q] = P]
             /\ enqueued' = [enqueued EXCEPT ![r] = @ \cup {<<q, s>>}]
    <2>1. \A t, u \in Replica, v \in Slot : <<u, v>> \in enqueued'[t] =>
              <<u, v>> \in enqueued[t] \/ (t = r /\ u = q /\ P.slots[v] # None)
      BY <1>5, <1>6, <1>8, SlotFacts DEF TypeInv, Types, Instances
    <2>2. \A t \in Slot : queues[r][q].slots[t] # None => P.slots[t] # None
      BY <1>2, <1>6
    <2> QED BY <1>4, <1>6, <1>8, <2>1, <2>2, QueueSteps
  <1> QED BY <1>1, <1>2, <1>3, <1>7, <1>8 DEF HandleVBroadcastStep

LEMMA QueuesFinishVBroadcastStep ==
    ASSUME TypeInv, QueueInv, NEW r \in Replica, NEW q \in Replica, NEW s \in Slot,
           FinishVBroadcastStep(r, q, s)
    PROVE  QueueInv'
  <1> USE DEF QueueInv
  <1>1. PICK b : b = proposed[q][s + 1]
    OBVIOUS
  <1>2. PICK Q : Q = queues[r][q]
    OBVIOUS
  <1>3. PICK D : D = Dedupe(r, Q, b, s)
    OBVIOUS
  <1>4. proposed' = proposed /\ fillers' = fillers /\ <<q, s>> \in enqueued[r]
    BY DEF FinishVBroadcastStep, fillVars
  <1>5. Q \in Queue /\ HeadOk(Q) /\ Contents(q, Q) /\ Q.slots[s] # None
    BY <1>2, <1>4 DEF TypeInv, Types, QueuesOk, QueuesContents, HalfThere
  <1>6. b \in Batch
    <2>1. proposed[q] \in Seq(Batch) /\ s + 1 \in 1 .. Len(proposed[q])
      BY <1>5, SlotFacts DEF TypeInv, Types, Proposed, Contents
    <2> QED BY <1>1, <2>1
  <1>7. D \in Queue /\ HeadOk(D) /\ Contents(q, D) /\ D.slots = Q.slots
    <2>1. D \in Queue /\ D.slots = Q.slots
      BY <1>3, <1>5, <1>6, DedupeFields
    <2>2. HeadOk(D)
      BY <1>3, <1>5, <1>6, DedupeOk
    <2> QED BY <1>5, <2>1, <2>2 DEF Contents
  <1>8. queues' = [queues EXCEPT ![r][q] = D]
    BY <1>1, <1>2, <1>3 DEF FinishVBroadcastStep
  <1>9. \A t, u \in Replica, v \in Slot : <<u, v>> \in enqueued'[t] => <<u, v>> \in enqueued[t]
    BY DEF FinishVBroadcastStep, TypeInv, Types, Instances
  <1>10. \A t \in Slot : queues[r][q].slots[t] # None => D.slots[t] # None
    BY <1>2, <1>7
  <1> QED BY <1>4, <1>7, <1>8, <1>9, <1>10, QueueSteps

LEMMA QueuesHandleFiller ==
    ASSUME TypeInv, QueueInv, NEW r \in Replica, NEW q \in Replica, NEW s \in Slot,
           NEW b \in Batch, HandleFiller(r, q, s, b)
    PROVE  QueueInv'
  <1> USE DEF QueueInv
  <1>1. proposed' = proposed /\ fillers' \subseteq fillers /\ enqueued' = enqueued
        /\ <<r, q, s, b>> \in fillers
    BY DEF HandleFiller, bcVars
  <1>2. Proposed(q, s) /\ b = proposed[q][s + 1]
    BY <1>1 DEF FillersContents
  <1>3. PICK Q : Q = queues[r][q]
    OBVIOUS
  <1>4. PICK P : P = Enqueue(Q, s, b)
    OBVIOUS
  <1>5. Q \in Queue /\ HeadOk(Q) /\ Contents(q, Q)
    BY <1>3 DEF TypeInv, Types, QueuesOk, QueuesContents
  <1>6. /\ P \in Queue /\ HeadOk(P) /\ Contents(q, P)
        /\ \A t \in Slot : Q.slots[t] # None => P.slots[t] # None
    BY <1>2, <1>4, <1>5, EnqueueContents
  <1>7. CASE queues' = [queues EXCEPT ![r][q] = P]
    BY <1>1, <1>3, <1>6, <1>7, QueueSteps
  <1>8. CASE queues' = queues
    <2>1. ProposedStays
      BY <1>1 DEF ProposedStays, Proposed
    <2> QED BY <1>1, <1>8, <2>1, QueuesStay
  <1> QED BY <1>3, <1>4, <1>7, <1>8 DEF HandleFiller

LEMMA QueuesHandleFillGap ==
    ASSUME TypeInv, QueueInv, NEW r \in Replica, NEW t \in Replica, NEW q \in Replica,
           NEW s \in 0 .. MaxSlot + 1, HandleFillGap(r, t, q, s)
    PROVE  QueueInv'
  <1> USE DEF QueueInv
  <1>1. proposed' = proposed /\ enqueued' = enqueued /\ queues' = queues
    BY DEF HandleFillGap, bcVars
  <1>2. FillersContents'
    <2> SUFFICES ASSUME NEW m \in fillers'
                 PROVE  Proposed(m[2], m[3]) /\ m[4] = proposed[m[2]][m[3] + 1]
      BY <1>1 DEF FillersContents, Proposed
    <2>1. CASE m \in fillers
      BY <2>1 DEF FillersContents
    <2>2. CASE m \notin fillers
      <3>1. Present(queues[t][q], s) /\ m = <<r, q, s, queues[t][q].slots[s]>>
        BY <2>2 DEF HandleFillGap
      <3>2. Contents(q, queues[t][q])
        BY DEF QueuesContents
      <3> QED BY <3>1, <3>2 DEF Present, Contents
    <2> QED BY <2>1, <2>2
  <1> QED BY <1>1, <1>2 DEF QueuesOk, QueuesContents, Contents, Proposed, HalfThere

LEMMA QueuesHandleWaiting ==
    ASSUME TypeInv, QueueInv, NEW r \in Replica, HandleWaiting(r)
    PROVE  QueueInv'
  <1> USE DEF QueueInv
  <1>1. PICK b \in Batch, o \in Order : Delivers(r, b, o)
    BY HandleWaitingDoes
  <1>2. UNCHANGED <<proposed, enqueued, fillers>>
    BY DEF HandleWaiting, bcVars, fillVars
  <1>3. ASSUME NEW t \in Replica, NEW q \in Replica
        PROVE  /\ HeadOk(queues'[t][q])
               /\ queues'[t][q].slots = queues[t][q].slots
    <2>1. queues[t][q] \in Queue /\ HeadOk(queues[t][q])
      BY DEF TypeInv, Types, QueuesOk
    <2>2. CASE t = r
      <3>1. PICK D : D = DequeueBatch(queues[t][q], b)
        OBVIOUS
      <3>2. HeadOk(D) /\ D.slots = queues[t][q].slots
        BY <2>1, <3>1, DequeueBatchFields
      <3>3. queues'[t][q] = D
        BY <1>1, <2>2, <3>1 DEF Delivers, TypeInv, Types
      <3> QED BY <3>2, <3>3
    <2>3. CASE t # r
      <3>1. queues'[t] = queues[t]
        BY <1>1, <2>3 DEF Delivers, TypeInv, Types
      <3> QED BY <2>1, <3>1
    <2> QED BY <2>2, <2>3
  <1>4. QueuesOk'
    BY <1>3 DEF QueuesOk
  <1>5. QueuesContents'
    BY <1>2, <1>3 DEF QueuesContents, Contents, Proposed
  <1>6. HalfThere' /\ FillersContents'
    BY <1>2, <1>3 DEF HalfThere, FillersContents, Proposed
  <1> QED BY <1>4, <1>5, <1>6

LEMMA QueuesNext == ASSUME TypeInv, QueueInv, [Next]_vars PROVE QueueInv'
  <1>0. ProposedStays
    BY ProposedGrows
  <1>1. CASE UNCHANGED <<queues, fillers, enqueued>>
    BY <1>0, <1>1, QueuesStay
  <1>2. CASE Next
    <2>1. PICK r \in Replica :
              \/ \E b \in Batch : TryPropose(r, b)
              \/ \E q \in Replica, s \in Slot : Broadcast(r, q, s)
              \/ Agree(r)
              \/ Decide(r)
              \/ Fill(r)
              \/ Crash(r)
      BY <1>2 DEF Next
    <2>2. CASE \/ \E b \in Batch : TryPropose(r, b)
               \/ \E q \in Replica, s \in Slot : StartBroadcast(r, q, s)
               \/ HandleProposing(r) \/ HandleOngoing(r) \/ Decide(r) \/ Crash(r)
      <3>1. UNCHANGED <<queues, fillers, enqueued>>
        BY <2>2 DEF TryPropose, StartBroadcast, HandleProposing, HandleOngoing, Decide,
                    DecideAgreement, Crash, fillVars, bcVars
      <3> QED BY <1>1, <3>1
    <2>3. CASE \E q \in Replica, s \in Slot : HandleVBroadcastStep(r, q, s)
      BY <2>3, QueuesHandleVBroadcastStep
    <2>4. CASE \E q \in Replica, s \in Slot : FinishVBroadcastStep(r, q, s)
      BY <2>4, QueuesFinishVBroadcastStep
    <2>5. CASE HandleWaiting(r)
      BY <2>5, QueuesHandleWaiting
    <2>6. CASE Fill(r)
      BY <2>6, FillSteps, QueuesHandleFillGap, QueuesHandleFiller
    <2> QED BY <2>1, <2>2, <2>3, <2>4, <2>5, <2>6 DEF Broadcast, Agree
  <1> QED BY <1>1, <1>2 DEF vars

LEMMA QueuesInit == Init => QueueInv
  <1> SUFFICES ASSUME Init PROVE QueueInv
    OBVIOUS
  <1>1. HeadOk(EmptyQueue) /\ \A q \in Replica : Contents(q, EmptyQueue)
    BY SlotFacts DEF HeadOk, EmptyQueue, Contents
  <1>2. \A r, q \in Replica : queues[r][q] = EmptyQueue
    BY DEF Init
  <1>3. QueuesOk /\ QueuesContents
    BY <1>1, <1>2 DEF QueuesOk, QueuesContents
  <1>4. FillersContents /\ HalfThere
    BY DEF Init, FillersContents, HalfThere
  <1> QED BY <1>3, <1>4 DEF QueueInv

\* What a replica offers to the agreement was not executed before: its head is past
\* all removed slots, in whatever order batches are enqueued, executed and filled in.
THEOREM HeadsLive == Spec => []HeadNotRemoved
  <1>1. QueueInv => HeadNotRemoved
    BY ParamFacts DEF QueueInv, QueuesOk, HeadOk, HeadNotRemoved
  <1> QED BY <1>1, TypeInvAlways, QueuesInit, QueuesNext, PTL DEF Spec
-----------------------------------------------------------------------------
(***************************************************************************)
(* What is removed has been executed and nothing else, if no batch is      *)
(* submitted again; or, when it is at other replicas, if a replica has one *)
(* thread and no FILLER is accepted.                                       *)
(***************************************************************************)
Orderly == \/ Repeats = "never"
           \/ Repeats = "elsewhere" /\ Workers = 1 /\ ~Benchmark

Distinct == \A q \in Replica, s, t \in Slot :
    Proposed(q, s) /\ Proposed(q, t) /\ proposed[q][s + 1] = proposed[q][t + 1] => s = t
OneProposer == \A p, q \in Replica, s, t \in Slot :
    Proposed(p, s) /\ Proposed(q, t) /\ proposed[p][s + 1] = proposed[q][t + 1] => p = q
NoHalf == \A r \in Replica : enqueued[r] = {}
Marks(Q, E) == \A s \in Slot : Q.slots[s] # None => (s \in Q.removed <=> Q.slots[s] \in E)
Marking == \A r, q \in Replica : Marks(queues[r][q], executed[r])
ExecutedHeld == \A r \in Replica : \A b \in executed[r] :
    \E q \in Replica, s \in Slot : queues[r][q].slots[s] = b
LiveInv == /\ Distinct /\ Marking /\ ExecutedHeld
           /\ Repeats = "never" => OneProposer
           /\ Repeats # "never" => NoHalf

LEMMA LiveTryPropose ==
    ASSUME Orderly, TypeInv, LiveInv, NEW p \in Replica, NEW b \in Batch, TryPropose(p, b)
    PROVE  LiveInv'
  <1>1. UNCHANGED <<enqueued, queues, executed>>
    BY DEF TryPropose
  <1>2. PICK S \in Seq(Batch) : S = proposed[p]
    BY DEF TypeInv, Types
  <1>3. PICK T : T = Append(S, b)
    OBVIOUS
  <1>4. proposed'[p] = T /\ \A q \in Replica : q # p => proposed'[q] = proposed[q]
    <2>1. proposed' = [proposed EXCEPT ![p] = T]
      BY <1>2, <1>3 DEF TryPropose
    <2> QED BY <2>1 DEF TypeInv, Types
  <1>5. /\ Len(S) \in Nat /\ Len(T) = Len(S) + 1 /\ T[Len(S) + 1] = b
        /\ \A i \in 1 .. Len(S) : T[i] = S[i]
    BY <1>3
  <1>6. \A s \in Slot : s < Len(T) => s = Len(S) \/ (s < Len(S) /\ s + 1 \in 1 .. Len(S))
    BY <1>5, SlotFacts
  <1>7. \A i \in 1 .. Len(S) : S[i] # b
    <2>1. b \notin Proposals(p)
      BY ParamsAssumption DEF Orderly, TryPropose, MaySubmit
    <2> QED BY <1>2, <2>1 DEF Proposals
  <1>8. Distinct'
    <2> SUFFICES ASSUME NEW q \in Replica, NEW s \in Slot, NEW t \in Slot,
                        s < Len(proposed'[q]), t < Len(proposed'[q]),
                        proposed'[q][s + 1] = proposed'[q][t + 1]
                 PROVE  s = t
      BY DEF Distinct, Proposed
    <2>1. CASE q = p
      <3>1. s < Len(T) /\ t < Len(T) /\ T[s + 1] = T[t + 1]
        BY <1>4, <2>1
      <3>2. CASE s < Len(S) /\ t < Len(S)
        <4>1. S[s + 1] = S[t + 1]
          BY <1>5, <1>6, <3>1, <3>2
        <4> QED BY <1>2, <2>1, <3>2, <4>1 DEF LiveInv, Distinct, Proposed
      <3>3. CASE s = Len(S) /\ t < Len(S)
        BY <1>5, <1>6, <1>7, <3>1, <3>3
      <3>4. CASE t = Len(S) /\ s < Len(S)
        BY <1>5, <1>6, <1>7, <3>1, <3>4
      <3> QED BY <1>6, <3>1, <3>2, <3>3, <3>4
    <2>2. CASE q # p
      BY <1>4, <2>2 DEF LiveInv, Distinct, Proposed
    <2> QED BY <2>1, <2>2
  <1>9. ASSUME Repeats = "never"
        PROVE  OneProposer'
    <2>1. \A q \in Replica : b \notin Proposals(q)
      BY <1>9 DEF TryPropose, MaySubmit
    <2>2. ASSUME NEW q \in Replica, q # p, NEW s \in Slot, NEW t \in Slot,
                 s < Len(proposed'[p]), t < Len(proposed'[q]),
                 proposed'[p][s + 1] = proposed'[q][t + 1]
          PROVE  FALSE
      <3>1. s < Len(T) /\ t < Len(proposed[q]) /\ T[s + 1] = proposed[q][t + 1]
        BY <1>4, <2>2
      <3>2. CASE s = Len(S)
        <4>1. t + 1 \in 1 .. Len(proposed[q])
          <5>1. proposed[q] \in Seq(Batch) /\ t \in Nat
            BY SlotFacts DEF TypeInv, Types
          <5> QED BY <3>1, <5>1
        <4>2. proposed[q][t + 1] \in Proposals(q)
          BY <4>1 DEF Proposals
        <4> QED BY <1>5, <2>1, <3>1, <3>2, <4>2
      <3>3. CASE s < Len(S) /\ s + 1 \in 1 .. Len(S)
        <4>1. S[s + 1] = proposed[q][t + 1]
          BY <1>5, <3>1, <3>3
        <4> QED BY <1>2, <1>9, <2>2, <3>1, <3>3, <4>1 DEF LiveInv, OneProposer, Proposed
      <3> QED BY <1>6, <3>1, <3>2, <3>3
    <2> SUFFICES ASSUME NEW u \in Replica, NEW q \in Replica, NEW s \in Slot, NEW t \in Slot,
                        s < Len(proposed'[u]), t < Len(proposed'[q]),
                        proposed'[u][s + 1] = proposed'[q][t + 1], u # q
                 PROVE  FALSE
      BY DEF OneProposer, Proposed
    <2>3. CASE u = p
      BY <2>2, <2>3
    <2>4. CASE q = p
      BY <2>2, <2>4
    <2>5. CASE u # p /\ q # p
      BY <1>4, <1>9, <2>5 DEF LiveInv, OneProposer, Proposed
    <2> QED BY <2>3, <2>4, <2>5
  <1>10. Marking' /\ ExecutedHeld' /\ (Repeats # "never" => NoHalf')
    BY <1>1 DEF LiveInv, Marking, ExecutedHeld, NoHalf
  <1> QED BY <1>8, <1>9, <1>10 DEF LiveInv

\* A step that changes the queue of q at r.
LEMMA LiveQueueSteps ==
    ASSUME TypeInv, LiveInv, UNCHANGED <<proposed, executed>>,
           NEW r \in Replica, NEW q \in Replica, NEW Q \in Queue,
           queues' = [queues EXCEPT ![r][q] = Q], Marks(Q, executed[r]),
           \A s \in Slot : queues[r][q].slots[s] # None => Q.slots[s] = queues[r][q].slots[s],
           Repeats # "never" => NoHalf'
    PROVE  LiveInv'
  <1>1. /\ queues'[r][q] = Q
        /\ \A t, u \in Replica : t # r \/ u # q => queues'[t][u] = queues[t][u]
    <2>1. queues \in [Replica -> [Replica -> Queue]]
      BY DEF TypeInv, Types
    <2> QED BY <2>1
  <1>2. Marking'
    <2> SUFFICES ASSUME NEW t \in Replica, NEW u \in Replica
                 PROVE  Marks(queues'[t][u], executed[t])
      BY DEF Marking
    <2>1. (t = r /\ queues'[t][u] = Q) \/ queues'[t][u] = queues[t][u]
      BY <1>1
    <2>2. Marks(queues[t][u], executed[t])
      BY DEF LiveInv, Marking
    <2> QED BY <2>1, <2>2
  <1>3. ExecutedHeld'
    <2> SUFFICES ASSUME NEW t \in Replica, NEW b \in executed[t]
                 PROVE  \E u \in Replica, s \in Slot : queues'[t][u].slots[s] = b
      BY DEF ExecutedHeld
    <2>1. PICK u \in Replica, s \in Slot : queues[t][u].slots[s] = b
      BY DEF LiveInv, ExecutedHeld
    <2>2. b # None
      BY SlotFacts DEF TypeInv, Types
    <2>3. CASE t = r /\ u = q
      BY <1>1, <2>1, <2>2, <2>3
    <2>4. CASE ~(t = r /\ u = q)
      BY <1>1, <2>1, <2>4
    <2> QED BY <2>3, <2>4
  <1>4. Distinct' /\ (Repeats = "never" => OneProposer')
    BY DEF LiveInv, Distinct, OneProposer, Proposed
  <1> QED BY <1>2, <1>3, <1>4 DEF LiveInv

\* A batch that is submitted once was not executed before it arrived.
LEMMA NeverExecuted ==
    ASSUME Repeats = "never", TypeInv, QueueInv, LiveInv, NEW r \in Replica,
           NEW q \in Replica, NEW s \in Slot, Proposed(q, s), NEW b, b = proposed[q][s + 1],
           queues[r][q].slots[s] = None
    PROVE  b \notin executed[r]
  <1> SUFFICES ASSUME b \in executed[r] PROVE FALSE
    OBVIOUS
  <1>1. PICK u \in Replica, t \in Slot : queues[r][u].slots[t] = b
    BY DEF LiveInv, ExecutedHeld
  <1>2. b # None
    BY SlotFacts DEF TypeInv, Types
  <1>3. Contents(u, queues[r][u])
    BY DEF QueueInv, QueuesContents
  <1>4. Proposed(u, t) /\ b = proposed[u][t + 1]
    BY <1>1, <1>2, <1>3 DEF Contents
  <1>5. u = q
    BY <1>4 DEF LiveInv, OneProposer
  <1>6. t = s
    BY <1>4, <1>5 DEF LiveInv, Distinct
  <1> QED BY <1>1, <1>2, <1>5, <1>6

LEMMA EnqueueMarks ==
    ASSUME NEW q \in Replica, NEW s \in Slot, NEW b \in Batch, Proposed(q, s),
           b = proposed[q][s + 1], NEW Q \in Queue, HeadOk(Q), Contents(q, Q),
           NEW P, P = Enqueue(Q, s, b),
           NEW E, Marks(Q, E), Q.slots[s] = None => b \notin E
    PROVE  Marks(P, E)
  <1>1. /\ P.slots[s] = b /\ P.removed = Q.removed
        /\ \A t \in Slot : t # s => P.slots[t] = Q.slots[t]
    BY EnqueueContents
  <1>2. Q.slots[s] = None => s \notin Q.removed
    BY DEF HeadOk
  <1>3. Q.slots[s] # None => Q.slots[s] = b
    BY DEF Contents
  <1>4. s \in P.removed <=> b \in E
    BY <1>1, <1>2, <1>3 DEF Marks
  <1> QED BY <1>1, <1>4 DEF Marks

\* What both parts of handleVBroadcastStep start from.
LEMMA StepBatch ==
    ASSUME TypeInv, NEW q \in Replica, NEW s \in Slot, Proposed(q, s)
    PROVE  proposed[q][s + 1] \in Batch
  <1>1. proposed[q] \in Seq(Batch) /\ s \in Nat /\ s < Len(proposed[q])
    BY SlotFacts DEF TypeInv, Types, Proposed
  <1>2. s + 1 \in 1 .. Len(proposed[q])
    BY <1>1
  <1> QED BY <1>1, <1>2

LEMMA LiveHandleVBroadcastStep ==
    ASSUME Orderly, TypeInv, QueueInv, LiveInv, NEW r \in Replica, NEW q \in Replica,
           NEW s \in Slot, HandleVBroadcastStep(r, q, s)
    PROVE  LiveInv'
  <1>1. PICK b : b = proposed[q][s + 1]
    OBVIOUS
  <1>2. PICK Q : Q = queues[r][q]
    OBVIOUS
  <1>3. PICK P : P = Enqueue(Q, s, b)
    OBVIOUS
  <1>4. PICK D : D = Dedupe(r, P, b, s)
    OBVIOUS
  <1>5. Proposed(q, s) /\ proposed' = proposed /\ executed' = executed
    BY DEF HandleVBroadcastStep
  <1>6. b \in Batch /\ Q \in Queue /\ HeadOk(Q) /\ Contents(q, Q) /\ Marks(Q, executed[r])
    BY <1>1, <1>2, <1>5, StepBatch
       DEF TypeInv, Types, QueueInv, QueuesOk, QueuesContents, LiveInv, Marking
  <1>7. /\ P \in Queue /\ P.slots[s] = b /\ P.removed = Q.removed
        /\ \A t \in Slot : t # s => P.slots[t] = Q.slots[t]
    BY <1>1, <1>3, <1>5, <1>6, EnqueueContents
  <1>8. \A t \in Slot : Q.slots[t] # None => P.slots[t] = Q.slots[t]
    BY <1>1, <1>6, <1>7 DEF Contents
  <1>9. CASE queues' = [queues EXCEPT ![r][q] = D] /\ enqueued' = enqueued
    <2>1. D \in Queue /\ D.slots = P.slots
      BY <1>4, <1>6, <1>7, DedupeFields
    <2>2. /\ b \in executed[r] => D.removed = P.removed \cup {s}
          /\ b \notin executed[r] => D.removed = P.removed
      BY <1>4, <1>6, <1>7, DedupeRemoves
    <2>3. ASSUME NEW t \in Slot, D.slots[t] # None
          PROVE  t \in D.removed <=> D.slots[t] \in executed[r]
      <3>1. CASE t = s
        <4>1. s \in Q.removed => b \in executed[r]
          BY <1>1, <1>6 DEF HeadOk, Contents, Marks
        <4> QED BY <1>7, <2>1, <2>2, <3>1, <4>1
      <3>2. CASE t # s
        <4>1. t \in D.removed <=> t \in Q.removed
          BY <1>7, <2>2, <3>2
        <4>2. D.slots[t] = Q.slots[t]
          BY <1>7, <2>1, <3>2
        <4> QED BY <1>6, <2>3, <4>1, <4>2 DEF Marks
      <3> QED BY <3>1, <3>2
    <2>4. Marks(D, executed[r])
      BY <2>3 DEF Marks
    <2>5. \A t \in Slot : queues[r][q].slots[t] # None => D.slots[t] = queues[r][q].slots[t]
      BY <1>2, <1>8, <2>1
    <2>6. Repeats # "never" => NoHalf'
      BY <1>9 DEF LiveInv, NoHalf
    <2> QED BY <1>5, <1>9, <2>1, <2>4, <2>5, <2>6, LiveQueueSteps
  <1>10. CASE queues' = [queues EXCEPT ![r][q] = P] /\ Cardinality(enqueued[r]) + 1 < Workers
    <2>1. Repeats = "never"
      <3> SUFFICES ASSUME Repeats # "never" PROVE FALSE
        OBVIOUS
      <3>1. Cardinality({}) = 0
        BY FS_EmptySet, Zenon
      <3>2. enqueued[r] = {} /\ Workers = 1
        BY DEF LiveInv, NoHalf, Orderly
      <3> QED BY <1>10, <3>1, <3>2
    <2>2. Q.slots[s] = None => b \notin executed[r]
      BY <1>1, <1>2, <1>5, <2>1, NeverExecuted
    <2>3. Marks(P, executed[r])
      BY <1>1, <1>3, <1>5, <1>6, <2>2, EnqueueMarks
    <2>4. \A t \in Slot : queues[r][q].slots[t] # None => P.slots[t] = queues[r][q].slots[t]
      BY <1>2, <1>8
    <2> QED BY <1>5, <1>7, <1>10, <2>1, <2>3, <2>4, LiveQueueSteps
  <1> QED BY <1>1, <1>2, <1>3, <1>4, <1>9, <1>10 DEF HandleVBroadcastStep

LEMMA LiveFinishVBroadcastStep ==
    ASSUME TypeInv, QueueInv, LiveInv, NEW r \in Replica, NEW q \in Replica,
           NEW s \in Slot, FinishVBroadcastStep(r, q, s)
    PROVE  LiveInv'
  <1>1. PICK b : b = proposed[q][s + 1]
    OBVIOUS
  <1>2. PICK Q : Q = queues[r][q]
    OBVIOUS
  <1>3. PICK D : D = Dedupe(r, Q, b, s)
    OBVIOUS
  <1>4. /\ <<q, s>> \in enqueued[r] /\ proposed' = proposed /\ executed' = executed
        /\ queues' = [queues EXCEPT ![r][q] = D]
    BY <1>1, <1>2, <1>3 DEF FinishVBroadcastStep
  <1>5. Repeats = "never"
    BY <1>4 DEF LiveInv, NoHalf
  <1>6. Q \in Queue /\ HeadOk(Q) /\ Contents(q, Q) /\ Marks(Q, executed[r]) /\ Q.slots[s] # None
    BY <1>2, <1>4 DEF TypeInv, Types, QueueInv, QueuesOk, QueuesContents, HalfThere, LiveInv, Marking
  <1>7. Proposed(q, s) /\ Q.slots[s] = b
    BY <1>1, <1>6 DEF Contents
  <1>8. b \in Batch
    BY <1>1, <1>7, StepBatch
  <1>9. D \in Queue /\ D.slots = Q.slots
    BY <1>3, <1>6, <1>8, DedupeFields
  <1>10. /\ b \in executed[r] => D.removed = Q.removed \cup {s}
         /\ b \notin executed[r] => D.removed = Q.removed
    BY <1>3, <1>6, <1>8, DedupeRemoves
  <1>11. Marks(D, executed[r])
    BY <1>6, <1>7, <1>9, <1>10 DEF Marks
  <1>12. \A t \in Slot : queues[r][q].slots[t] # None => D.slots[t] = queues[r][q].slots[t]
    BY <1>2, <1>9
  <1> QED BY <1>4, <1>5, <1>9, <1>11, <1>12, LiveQueueSteps

LEMMA LiveHandleFiller ==
    ASSUME Orderly, TypeInv, QueueInv, LiveInv, NEW r \in Replica, NEW q \in Replica,
           NEW s \in Slot, NEW b \in Batch, HandleFiller(r, q, s, b)
    PROVE  LiveInv'
  <1>1. UNCHANGED <<proposed, executed, enqueued>> /\ <<r, q, s, b>> \in fillers
    BY DEF HandleFiller, bcVars
  <1>2. CASE queues' = queues
    BY <1>1, <1>2 DEF LiveInv, Distinct, OneProposer, NoHalf, Marking, ExecutedHeld, Proposed
  <1>3. CASE queues' # queues
    <2>1. PICK Q : Q = queues[r][q]
      OBVIOUS
    <2>2. PICK P : P = Enqueue(Q, s, b)
      OBVIOUS
    <2>3. Benchmark /\ queues' = [queues EXCEPT ![r][q] = P]
      BY <1>3, <2>1, <2>2 DEF HandleFiller
    <2>4. Repeats = "never"
      BY <2>3 DEF Orderly
    <2>5. Proposed(q, s) /\ b = proposed[q][s + 1]
      BY <1>1 DEF QueueInv, FillersContents
    <2>6. Q \in Queue /\ HeadOk(Q) /\ Contents(q, Q) /\ Marks(Q, executed[r])
      BY <2>1 DEF TypeInv, Types, QueueInv, QueuesOk, QueuesContents, LiveInv, Marking
    <2>7. P \in Queue /\ P.slots[s] = b /\ \A t \in Slot : t # s => P.slots[t] = Q.slots[t]
      BY <2>2, <2>5, <2>6, EnqueueContents
    <2>8. \A t \in Slot : queues[r][q].slots[t] # None => P.slots[t] = queues[r][q].slots[t]
      BY <2>1, <2>5, <2>6, <2>7 DEF Contents
    <2>9. Q.slots[s] = None => b \notin executed[r]
      BY <2>1, <2>4, <2>5, NeverExecuted
    <2>10. Marks(P, executed[r])
      BY <2>2, <2>5, <2>6, <2>9, EnqueueMarks
    <2> QED BY <1>1, <2>3, <2>4, <2>7, <2>8, <2>10, LiveQueueSteps
  <1> QED BY <1>2, <1>3

LEMMA SlotsKept ==
    ASSUME TypeInv, NEW r \in Replica, HandleWaiting(r)
    PROVE  \A t, q \in Replica : queues'[t][q].slots = queues[t][q].slots
  <1>1. PICK b \in Batch, o \in Order : Delivers(r, b, o)
    BY HandleWaitingDoes
  <1> SUFFICES ASSUME NEW t \in Replica, NEW q \in Replica
               PROVE  queues'[t][q].slots = queues[t][q].slots
    OBVIOUS
  <1>2. queues[t][q] \in Queue
    BY DEF TypeInv, Types
  <1>3. PICK D : D = DequeueBatch(queues[t][q], b)
    OBVIOUS
  <1>4. D.slots = queues[t][q].slots
    BY <1>2, <1>3, DequeueBatchFields
  <1>5. queues'[t][q] = D \/ queues'[t][q] = queues[t][q]
    BY <1>1, <1>3 DEF Delivers, TypeInv, Types
  <1> QED BY <1>4, <1>5

LEMMA LiveHandleWaiting ==
    ASSUME TypeInv, QueueInv, LiveInv, NEW r \in Replica, HandleWaiting(r)
    PROVE  LiveInv'
  <1> USE DEF LiveInv
  <1>1. PICK b \in Batch, o \in Order : Delivers(r, b, o)
    BY HandleWaitingDoes
  <1>2. UNCHANGED <<proposed, enqueued>>
    BY DEF HandleWaiting, bcVars
  <1>3. executed'[r] = executed[r] \cup {b} /\ \A t \in Replica : t # r => executed'[t] = executed[t]
    BY <1>1 DEF Delivers, TypeInv, Types
  <1>4. ASSUME NEW q \in Replica
        PROVE  Marks(queues'[r][q], executed'[r])
    <2>1. PICK Q : Q = queues[r][q]
      OBVIOUS
    <2>2. PICK D : D = DequeueBatch(Q, b)
      OBVIOUS
    <2>3. Q \in Queue /\ Contents(q, Q) /\ Marks(Q, executed[r])
      BY <2>1 DEF TypeInv, Types, QueueInv, QueuesContents, Marking
    <2>4. /\ D.slots = Q.slots
          /\ \/ D.removed = Q.removed /\ Holding(Q, b) = {}
             \/ \E s \in Holding(Q, b) : D.removed = Q.removed \cup {s}
      BY <2>2, <2>3, DequeueBatchFields
    <2>5. queues'[r][q] = D
      BY <1>1, <2>1, <2>2 DEF Delivers, TypeInv, Types
    <2>6. b # None
      BY SlotFacts
    <2>7. \A s, t \in Holding(Q, b) : s = t
      BY <2>3, <2>6 DEF Holding, Contents, Distinct
    <2>8. D.removed = Q.removed \cup Holding(Q, b)
      BY <2>4, <2>7
    <2> QED BY <1>3, <2>3, <2>4, <2>5, <2>8 DEF Marks, Holding
  <1>5. ASSUME NEW t \in Replica, NEW q \in Replica, t # r
        PROVE  Marks(queues'[t][q], executed'[t])
    <2>1. queues'[t] = queues[t]
      BY <1>1, <1>5 DEF Delivers, TypeInv, Types
    <2> QED BY <1>3, <1>5, <2>1 DEF Marking
  <1>6. Marking'
    BY <1>4, <1>5 DEF Marking
  <1>7. ExecutedHeld'
    <2> SUFFICES ASSUME NEW t \in Replica, NEW c \in executed'[t]
                 PROVE  \E q \in Replica, s \in Slot : queues'[t][q].slots[s] = c
      BY DEF ExecutedHeld
    <2>1. \A u, q \in Replica : queues'[u][q].slots = queues[u][q].slots
      BY SlotsKept
    <2>2. \E q \in Replica, s \in Slot : queues[t][q].slots[s] = c
      <3>1. CASE c \in executed[t]
        BY <3>1 DEF ExecutedHeld
      <3>2. CASE c \notin executed[t]
        <4>1. t = r /\ c = b
          BY <1>3, <3>2
        <4>2. Leader(epoch[r]) \in Replica
          BY <1>1, ParamFacts DEF Delivers
        <4> QED BY <1>1, <4>1, <4>2 DEF Delivers, HeadQueue
      <3> QED BY <3>1, <3>2
    <2> QED BY <2>1, <2>2
  <1> QED BY <1>2, <1>6, <1>7 DEF Distinct, OneProposer, NoHalf, Proposed

LEMMA LiveNext == ASSUME Orderly, TypeInv, QueueInv, LiveInv, [Next]_vars PROVE LiveInv'
  <1>1. ASSUME UNCHANGED <<proposed, queues, executed, enqueued>>
        PROVE  LiveInv'
    BY <1>1 DEF LiveInv, Distinct, OneProposer, NoHalf, Marking, ExecutedHeld, Proposed
  <1>2. CASE Next
    <2>1. PICK r \in Replica :
              \/ \E b \in Batch : TryPropose(r, b)
              \/ \E q \in Replica, s \in Slot : Broadcast(r, q, s)
              \/ Agree(r)
              \/ Decide(r)
              \/ Fill(r)
              \/ Crash(r)
      BY <1>2 DEF Next
    <2>2. CASE \/ \E q \in Replica, s \in Slot : StartBroadcast(r, q, s)
               \/ HandleProposing(r) \/ HandleOngoing(r) \/ Decide(r) \/ Fill(r) \/ Crash(r)
      <3>1. CASE \E q \in Replica, s \in Slot : StartBroadcast(r, q, s)
        BY <1>1, <3>1 DEF StartBroadcast
      <3>2. CASE HandleProposing(r) \/ HandleOngoing(r) \/ Decide(r) \/ Crash(r)
        BY <1>1, <3>2 DEF HandleProposing, HandleOngoing, Decide, DecideAgreement, Crash, bcVars
      <3>3. CASE Fill(r)
        <4>1. ASSUME NEW t \in Replica, NEW q \in Replica, NEW s \in 0 .. MaxSlot + 1,
                     HandleFillGap(t, r, q, s)
              PROVE  LiveInv'
          BY <1>1, <4>1 DEF HandleFillGap, bcVars
        <4> QED BY <3>3, <4>1, FillSteps, LiveHandleFiller
      <3> QED BY <2>2, <3>1, <3>2, <3>3
    <2>3. CASE \E b \in Batch : TryPropose(r, b)
      BY <2>3, LiveTryPropose
    <2>4. CASE \E q \in Replica, s \in Slot : HandleVBroadcastStep(r, q, s)
      BY <2>4, LiveHandleVBroadcastStep
    <2>5. CASE \E q \in Replica, s \in Slot : FinishVBroadcastStep(r, q, s)
      BY <2>5, LiveFinishVBroadcastStep
    <2>6. CASE HandleWaiting(r)
      BY <2>6, LiveHandleWaiting
    <2> QED BY <2>1, <2>2, <2>3, <2>4, <2>5, <2>6 DEF Broadcast, Agree
  <1> QED BY <1>1, <1>2 DEF vars

LEMMA LiveInit == Init => LiveInv
  <1> SUFFICES ASSUME Init PROVE LiveInv
    OBVIOUS
  <1>1. \A q \in Replica : Len(proposed[q]) = 0
    BY DEF Init
  <1>2. Distinct
    BY <1>1, SlotFacts DEF Distinct, Proposed
  <1>3. NoHalf /\ ExecutedHeld
    BY DEF Init, NoHalf, ExecutedHeld
  <1>4. OneProposer
    BY <1>1, SlotFacts DEF OneProposer, Proposed
  <1>5. Marking
    BY SlotFacts DEF Init, Marking, Marks, EmptyQueue
  <1> QED BY <1>2, <1>3, <1>4, <1>5 DEF LiveInv
-----------------------------------------------------------------------------
(***************************************************************************)
(* Logs, as sequences.  A log that ends before epoch e is behind another   *)
(* if it is a prefix of it, and the other goes on at e or later.           *)
(***************************************************************************)
Before(L, i) == {L[j].batch : j \in 1 .. i - 1}
Earlier(L, e) == \A i \in 1 .. Len(L) : L[i].epoch < e
Rising(L) == \A i, j \in 1 .. Len(L) : i < j => L[i].epoch < L[j].epoch
Same(L, M) == \A i \in 1 .. Len(L) : L[i].epoch = M[i].epoch /\ L[i].batch = M[i].batch
Behind(L, M, e) == /\ Len(L) <= Len(M) /\ Same(L, M)
                   /\ \A i \in 1 .. Len(M) : i > Len(L) => M[i].epoch >= e

LEMMA BlockFacts ==
    ASSUME NEW L \in Seq(Block)
    PROVE  /\ Len(L) \in Nat
           /\ \A i \in 1 .. Len(L) : L[i] \in Block /\ L[i].epoch \in Nat /\ L[i].batch \in Batch
  <1>1. Len(L) \in Nat /\ \A i \in 1 .. Len(L) : L[i] \in Block
    OBVIOUS
  <1> QED BY <1>1, ParamFacts DEF Block

LEMMA AppendFacts ==
    ASSUME NEW L \in Seq(Block), NEW B \in Block, NEW M, M = Append(L, B)
    PROVE  /\ M \in Seq(Block) /\ Len(M) = Len(L) + 1 /\ M[Len(L) + 1] = B
           /\ \A i \in 1 .. Len(L) : M[i] = L[i]
  OBVIOUS

LEMMA BehindSkips ==
    ASSUME NEW L \in Seq(Block), NEW M \in Seq(Block), NEW e \in Nat, Behind(L, M, e),
           \A i \in 1 .. Len(M) : M[i].epoch # e
    PROVE  Behind(L, M, e + 1)
  BY BlockFacts DEF Behind

LEMMA BehindBack ==
    ASSUME NEW L \in Seq(Block), NEW M \in Seq(Block), NEW e \in Nat, Behind(L, M, e),
           Earlier(M, e)
    PROVE  Behind(M, L, e)
  <1>0. Len(L) \in Nat /\ Len(M) \in Nat
    OBVIOUS
  <1>1. Len(M) = Len(L)
    <2> SUFFICES ASSUME Len(M) # Len(L) PROVE FALSE
      OBVIOUS
    <2>1. Len(M) \in 1 .. Len(M) /\ Len(M) > Len(L)
      BY <1>0 DEF Behind
    <2>2. M[Len(M)].epoch >= e /\ M[Len(M)].epoch < e /\ M[Len(M)].epoch \in Nat
      BY <2>1, BlockFacts DEF Behind, Earlier
    <2> QED BY <2>2
  <1>2. Same(M, L)
    BY <1>1 DEF Behind, Same
  <1>3. \A i \in 1 .. Len(L) : ~(i > Len(M))
    BY <1>0, <1>1
  <1> QED BY <1>0, <1>1, <1>2, <1>3 DEF Behind

LEMMA BehindAppended ==
    ASSUME NEW L \in Seq(Block), NEW M \in Seq(Block), NEW e \in Nat, Behind(M, L, e),
           NEW B \in Block, B.epoch >= e
    PROVE  Behind(M, Append(L, B), e)
  <1>1. PICK K : K = Append(L, B)
    OBVIOUS
  <1>2. /\ Len(K) = Len(L) + 1 /\ K[Len(L) + 1] = B
        /\ \A i \in 1 .. Len(L) : K[i] = L[i]
    BY <1>1, AppendFacts
  <1>3. Len(L) \in Nat /\ Len(M) \in Nat /\ Len(M) <= Len(L)
    BY DEF Behind
  <1>4. \A i \in 1 .. Len(M) : i \in 1 .. Len(L)
    BY <1>3
  <1>5. Same(M, K)
    BY <1>2, <1>4 DEF Behind, Same
  <1>6. ASSUME NEW i \in 1 .. Len(K), i > Len(M)
        PROVE  K[i].epoch >= e
    <2>1. i = Len(L) + 1 \/ i \in 1 .. Len(L)
      BY <1>2, <1>3
    <2> QED BY <1>2, <1>6, <2>1 DEF Behind
  <1>7. Behind(M, K, e)
    BY <1>2, <1>3, <1>5, <1>6 DEF Behind
  <1> QED BY <1>1, <1>7

LEMMA BeforeSame ==
    ASSUME NEW L \in Seq(Block), NEW M \in Seq(Block), NEW e \in Nat, Behind(L, M, e)
    PROVE  Before(M, Len(L) + 1) = Before(L, Len(L) + 1)
  <1>1. 1 .. (Len(L) + 1) - 1 = 1 .. Len(L)
    <2>1. Len(L) \in Nat
      OBVIOUS
    <2> QED BY <2>1
  <1>2. \A j \in 1 .. Len(L) : L[j].batch = M[j].batch
    BY DEF Behind, Same
  <1>3. Before(L, Len(L) + 1) = {L[j].batch : j \in 1 .. Len(L)}
    BY <1>1, Zenon DEF Before
  <1>4. Before(M, Len(L) + 1) = {M[j].batch : j \in 1 .. Len(L)}
    BY <1>1, Zenon DEF Before
  <1>5. {L[j].batch : j \in 1 .. Len(L)} = {M[j].batch : j \in 1 .. Len(L)}
    <2>1. PICK I : I = 1 .. Len(L)
      OBVIOUS
    <2>2. {L[j].batch : j \in I} = {M[j].batch : j \in I}
      BY <1>2, <2>1
    <2> QED BY <2>1, <2>2
  <1> QED BY <1>3, <1>4, <1>5

\* The entry of epoch e, the first epoch that the shorter log has not got.
LEMMA BehindNext ==
    ASSUME NEW L \in Seq(Block), NEW M \in Seq(Block), NEW e \in Nat, Behind(L, M, e),
           Earlier(L, e), Rising(M), NEW k \in 1 .. Len(M), M[k].epoch = e
    PROVE  k = Len(L) + 1
  <1>1. Len(L) \in Nat /\ Len(M) \in Nat /\ Len(L) <= Len(M)
    BY DEF Behind
  <1>2. k > Len(L)
    <2> SUFFICES ASSUME k \in 1 .. Len(L) PROVE FALSE
      BY <1>1
    <2>1. L[k].epoch = e /\ L[k].epoch < e
      BY DEF Behind, Same, Earlier
    <2> QED BY <2>1
  <1>3. ASSUME k > Len(L) + 1
        PROVE  FALSE
    <2>1. PICK j : j = Len(L) + 1
      OBVIOUS
    <2>2. j \in 1 .. Len(M) /\ j > Len(L) /\ j < k
      BY <1>1, <1>3, <2>1
    <2>3. M[j].epoch >= e /\ M[j].epoch < M[k].epoch /\ M[j].epoch \in Nat
      BY <2>2, BlockFacts DEF Behind, Rising
    <2> QED BY <2>3
  <1> QED BY <1>1, <1>2, <1>3

LEMMA BehindGrows ==
    ASSUME NEW L \in Seq(Block), NEW M \in Seq(Block), NEW e \in Nat, Behind(L, M, e),
           Rising(M), Len(L) + 1 \in 1 .. Len(M), NEW B \in Block, B.epoch = e,
           M[Len(L) + 1].epoch = e, M[Len(L) + 1].batch = B.batch
    PROVE  Behind(Append(L, B), M, e + 1)
  <1>1. PICK K : K = Append(L, B)
    OBVIOUS
  <1>2. /\ Len(K) = Len(L) + 1 /\ K[Len(L) + 1] = B
        /\ \A i \in 1 .. Len(L) : K[i] = L[i]
    BY <1>1, AppendFacts
  <1>3. Len(L) \in Nat /\ Len(M) \in Nat
    OBVIOUS
  <1>4. Same(K, M)
    <2> SUFFICES ASSUME NEW i \in 1 .. Len(K)
                 PROVE  K[i].epoch = M[i].epoch /\ K[i].batch = M[i].batch
      BY DEF Same
    <2>1. i = Len(L) + 1 \/ i \in 1 .. Len(L)
      BY <1>2, <1>3
    <2> QED BY <1>2, <2>1 DEF Behind, Same
  <1>5. ASSUME NEW i \in 1 .. Len(M), i > Len(K)
        PROVE  M[i].epoch >= e + 1
    <2>1. PICK j : j = Len(L) + 1
      OBVIOUS
    <2>2. j \in 1 .. Len(M) /\ j < i
      BY <1>2, <1>3, <1>5, <2>1
    <2>3. M[j].epoch < M[i].epoch
      BY <2>2 DEF Rising
    <2>4. M[j].epoch = e /\ M[i].epoch \in Nat
      BY <2>1, BlockFacts
    <2> QED BY <2>3, <2>4
  <1>6. Behind(K, M, e + 1)
    BY <1>2, <1>3, <1>4, <1>5 DEF Behind
  <1> QED BY <1>1, <1>6
-----------------------------------------------------------------------------
(***************************************************************************)
(* The first batch of a queue that was not executed is what the agreement  *)
(* is about: it is one batch, the same at all replicas that executed the   *)
(* same, and the head of the queue at whoever has it.                      *)
(***************************************************************************)
FirstAt(q, s, b, E) == /\ Proposed(q, s) /\ b = proposed[q][s + 1] /\ b \notin E
                       /\ \A t \in Slot : t < s => proposed[q][t + 1] \in E
First(q, b, E) == \E s \in Slot : FirstAt(q, s, b, E)

LEMMA FirstUnique ==
    ASSUME NEW q \in Replica, NEW E, NEW a, NEW b, First(q, a, E), First(q, b, E)
    PROVE  a = b
  <1>1. PICK s \in Slot : FirstAt(q, s, a, E)
    BY DEF First
  <1>2. PICK t \in Slot : FirstAt(q, t, b, E)
    BY DEF First
  <1>3. s \in Nat /\ t \in Nat
    BY SlotFacts
  <1>4. ~(s < t) /\ ~(t < s)
    BY <1>1, <1>2 DEF FirstAt
  <1>5. s = t
    BY <1>3, <1>4
  <1> QED BY <1>1, <1>2, <1>5 DEF FirstAt

LEMMA FirstAtStays ==
    ASSUME TypeInv, ProposedStays, NEW q \in Replica, NEW s \in Slot, NEW b, NEW E,
           FirstAt(q, s, b, E)
    PROVE  FirstAt(q, s, b, E)'
  <1>1. Proposed(q, s)' /\ proposed'[q][s + 1] = proposed[q][s + 1]
    BY DEF FirstAt, ProposedStays
  <1>2. ASSUME NEW t \in Slot, t < s
        PROVE  proposed'[q][t + 1] \in E
    <2>1. Proposed(q, t)
      <3>1. proposed[q] \in Seq(Batch) /\ s \in Nat /\ t \in Nat
        BY SlotFacts DEF TypeInv, Types
      <3>2. s < Len(proposed[q]) /\ Len(proposed[q]) \in Nat
        BY <3>1 DEF FirstAt, Proposed
      <3> QED BY <1>2, <3>1, <3>2 DEF Proposed
    <2>2. proposed'[q][t + 1] = proposed[q][t + 1]
      BY <2>1 DEF ProposedStays
    <2> QED BY <1>2, <2>2 DEF FirstAt
  <1> QED BY <1>1, <1>2 DEF FirstAt

LEMMA FirstStays ==
    ASSUME TypeInv, ProposedStays, NEW q \in Replica, NEW b, NEW E, First(q, b, E)
    PROVE  First(q, b, E)'
  <1>1. PICK s \in Slot : FirstAt(q, s, b, E)
    BY DEF First
  <1>2. FirstAt(q, s, b, E)'
    BY <1>1, FirstAtStays
  <1> QED BY <1>2 DEF First

\* The head of a queue, when it is there.
LEMMA HeadFirstAt ==
    ASSUME TypeInv, QueueInv, LiveInv, NEW r \in Replica, NEW q \in Replica,
           NEW s \in Slot, s = queues[r][q].head, NEW b \in Batch, b = queues[r][q].slots[s]
    PROVE  FirstAt(q, s, b, executed[r])
  <1>1. PICK Q : Q = queues[r][q]
    OBVIOUS
  <1>2. HeadOk(Q) /\ Contents(q, Q) /\ Marks(Q, executed[r])
    BY <1>1 DEF QueueInv, QueuesOk, QueuesContents, LiveInv, Marking
  <1>3. Proposed(q, s) /\ b = proposed[q][s + 1] /\ b \notin executed[r]
    BY <1>1, <1>2, SlotFacts DEF Contents, HeadOk, Marks
  <1>4. ASSUME NEW t \in Slot, t < s
        PROVE  proposed[q][t + 1] \in executed[r]
    <2>1. t \in 0 .. s - 1
      BY <1>4, SlotFacts
    <2>2. t \in Q.removed /\ Q.slots[t] # None
      BY <1>1, <1>2, <2>1 DEF HeadOk
    <2> QED BY <1>2, <2>2 DEF Contents, Marks
  <1> QED BY <1>3, <1>4 DEF FirstAt

LEMMA HeadFirst ==
    ASSUME TypeInv, QueueInv, LiveInv, NEW r \in Replica, NEW b \in Batch, NEW o \in Order,
           Delivers(r, b, o)
    PROVE  First(Leader(epoch[r]), b, executed[r])
  <1>1. PICK q \in Replica : q = Leader(epoch[r])
    BY ParamFacts DEF Delivers
  <1>2. PICK s \in Slot : s = queues[r][q].head
    BY <1>1 DEF Delivers, HeadQueue
  <1>3. b = queues[r][q].slots[s]
    BY <1>1, <1>2 DEF Delivers, HeadQueue
  <1>4. FirstAt(q, s, b, executed[r])
    BY <1>2, <1>3, HeadFirstAt
  <1> QED BY <1>1, <1>4 DEF First
-----------------------------------------------------------------------------
(***************************************************************************)
(* The order of the logs.  A replica that is in an epoch has decided the   *)
(* earlier ones and has, in its log, the batches of those that ended with  *)
(* true; each is the first batch of the leader's queue that was not in the *)
(* log before it.                                                          *)
(***************************************************************************)
Executes == \A r \in Replica : executed[r] = Before(log[r], Len(log[r]) + 1)
Agreed == \A e \in Epoch, r, t \in Replica :
    \A a \in baDecided[e][r], b \in baDecided[e][t] : a = b
HasEpoch(L, e) == \E i \in 1 .. Len(L) : L[i].epoch = e
Passed == \A r \in Replica, e \in Epoch : e < epoch[r] =>
    /\ baDecided[e][r] # {}
    /\ TRUE \in baDecided[e][r] <=> HasEpoch(log[r], e)
WaitingTrue == \A r \in Replica : mode[r] = "waiting" => TRUE \in baDecided[epoch[r]][r]
LogsEarlier == \A r \in Replica : Earlier(log[r], epoch[r])
LogsRising == \A r \in Replica : Rising(log[r])
FirstOf(L, i) == First(Leader(L[i].epoch), L[i].batch, Before(L, i))
LogsFirst == \A r \in Replica : \A i \in 1 .. Len(log[r]) : FirstOf(log[r], i)
Prefix == \A r, t \in Replica : epoch[r] <= epoch[t] => Behind(log[r], log[t], epoch[r])

OrderInv == /\ Executes /\ Agreed /\ Passed /\ WaitingTrue
            /\ LogsEarlier /\ LogsRising /\ LogsFirst /\ Prefix

LEMMA OrderInit == Init => OrderInv
  <1> SUFFICES ASSUME Init PROVE OrderInv
    OBVIOUS
  <1>1. /\ \A r \in Replica : log[r] = <<>> /\ epoch[r] = 0 /\ executed[r] = {}
                              /\ mode[r] # "waiting"
        /\ \A e \in Epoch, r \in Replica : baDecided[e][r] = {}
    BY DEF Init
  <1>2. Len(<<>>) = 0
    OBVIOUS
  <1>3. Executes /\ LogsEarlier /\ LogsRising /\ LogsFirst /\ Prefix
    BY <1>1, <1>2 DEF Executes, LogsEarlier, LogsRising, LogsFirst, Prefix, Before, Earlier,
                      Rising, Behind, Same
  <1>4. Agreed /\ WaitingTrue
    BY <1>1 DEF Agreed, WaitingTrue
  <1>5. Passed
    <2>1. \A e \in Epoch, r \in Replica : ~(e < epoch[r])
      BY <1>1, ParamFacts
    <2> QED BY <2>1 DEF Passed
  <1> QED BY <1>3, <1>4, <1>5 DEF OrderInv

LEMMA LogsFirstStay ==
    ASSUME TypeInv, OrderInv, ProposedStays, log' = log
    PROVE  LogsFirst'
  <1> SUFFICES ASSUME NEW r \in Replica, NEW i \in 1 .. Len(log[r])
               PROVE  FirstOf(log[r], i)'
    BY DEF LogsFirst
  <1>1. PICK L \in Seq(Block) : L = log[r]
    BY DEF TypeInv, Types
  <1>2. PICK q : q = Leader(L[i].epoch)
    OBVIOUS
  <1>3. q \in Replica
    <2>1. L[i] \in Block
      BY <1>1
    <2> QED BY <1>2, <2>1, ParamFacts DEF Block
  <1>4. PICK b : b = L[i].batch
    OBVIOUS
  <1>5. PICK E : E = Before(L, i)
    OBVIOUS
  <1>6. First(q, b, E)
    BY <1>1, <1>2, <1>4, <1>5 DEF OrderInv, LogsFirst, FirstOf
  <1>7. First(q, b, E)'
    BY <1>3, <1>6, FirstStays
  <1>8. L = log'[r]
    BY <1>1
  <1> QED BY <1>1, <1>2, <1>4, <1>5, <1>7, <1>8 DEF FirstOf

LEMMA OrderStays ==
    ASSUME TypeInv, OrderInv, ProposedStays, UNCHANGED <<log, epoch, executed, baDecided>>,
           \A r \in Replica : mode'[r] = "waiting" =>
               mode[r] = "waiting" \/ TRUE \in baDecided[epoch[r]][r]
    PROVE  OrderInv'
  <1>1. LogsFirst'
    BY LogsFirstStay
  <1>2. Executes' /\ Agreed'
    BY DEF OrderInv, Executes, Agreed
  <1>3. Passed'
    BY DEF OrderInv, Passed
  <1>4. WaitingTrue'
    BY DEF OrderInv, WaitingTrue
  <1>5. LogsEarlier' /\ LogsRising' /\ Prefix'
    BY DEF OrderInv, LogsEarlier, LogsRising, Prefix
  <1> QED BY <1>1, <1>2, <1>3, <1>4, <1>5 DEF OrderInv

LEMMA OrderDecide ==
    ASSUME TypeInv, OrderInv, ProposedStays, NEW r \in Replica, NEW e \in Epoch,
           NEW b \in BOOLEAN, DecideAgreement(e, r, b)
    PROVE  OrderInv'
  <1>1. UNCHANGED <<log, epoch, mode, executed>>
    BY DEF DecideAgreement, stateVars
  <1>2. baDecided[e][r] = {} /\ \A t \in Replica : baDecided[e][t] \subseteq {b}
    BY DEF DecideAgreement
  <1>3. /\ baDecided'[e][r] = {b}
        /\ \A d \in Epoch, t \in Replica : d # e \/ t # r => baDecided'[d][t] = baDecided[d][t]
    <2>1. baDecided' = [baDecided EXCEPT ![e][r] = {b}] /\ baDecided \in Agreements
      BY DEF DecideAgreement, TypeInv, Types
    <2> QED BY <2>1 DEF Agreements
  <1>4. LogsFirst'
    BY <1>1, LogsFirstStay
  <1>5. Executes' /\ LogsEarlier' /\ LogsRising' /\ Prefix'
    BY <1>1 DEF OrderInv, Executes, LogsEarlier, LogsRising, Prefix
  <1>6. Agreed'
    <2> SUFFICES ASSUME NEW d \in Epoch, NEW t \in Replica, NEW u \in Replica,
                        NEW a \in baDecided'[d][t], NEW c \in baDecided'[d][u]
                 PROVE  a = c
      BY DEF Agreed
    <2>1. CASE d = e
      <3>1. \A v \in Replica : baDecided'[e][v] \subseteq {b}
        BY <1>2, <1>3
      <3> QED BY <2>1, <3>1
    <2>2. CASE d # e
      BY <1>3, <2>2 DEF OrderInv, Agreed
    <2> QED BY <2>1, <2>2
  <1>7. Passed'
    <2> SUFFICES ASSUME NEW t \in Replica, NEW d \in Epoch, d < epoch[t]
                 PROVE  /\ baDecided'[d][t] # {}
                        /\ TRUE \in baDecided'[d][t] <=> HasEpoch(log[t], d)
      BY <1>1 DEF Passed
    <2>1. /\ baDecided[d][t] # {}
          /\ TRUE \in baDecided[d][t] <=> HasEpoch(log[t], d)
      BY DEF OrderInv, Passed
    <2>2. baDecided'[d][t] = baDecided[d][t]
      BY <1>2, <1>3, <2>1
    <2> QED BY <2>1, <2>2
  <1>8. WaitingTrue'
    <2> SUFFICES ASSUME NEW t \in Replica, mode[t] = "waiting"
                 PROVE  TRUE \in baDecided'[epoch[t]][t]
      BY <1>1 DEF WaitingTrue
    <2>1. epoch[t] \in Epoch /\ TRUE \in baDecided[epoch[t]][t]
      BY DEF OrderInv, WaitingTrue, TypeInv, InEpoch
    <2>2. baDecided'[epoch[t]][t] = baDecided[epoch[t]][t]
      BY <1>2, <1>3, <2>1
    <2> QED BY <2>1, <2>2
  <1> QED BY <1>4, <1>5, <1>6, <1>7, <1>8 DEF OrderInv

LEMMA NatFacts ==
    ASSUME TypeInv, NEW t \in Replica
    PROVE  epoch[t] \in Nat /\ log[t] \in Seq(Block)
  <1>1. epoch[t] \in 0 .. MaxEpoch /\ log[t] \in Seq(Block)
    BY DEF TypeInv, Types
  <1> QED BY <1>1, ParamFacts

\* A replica leaves epoch e with log L.
LEMMA PrefixStep ==
    ASSUME TypeInv, OrderInv, NEW r \in Replica, NEW e \in Nat, e = epoch[r],
           epoch' = [epoch EXCEPT ![r] = e + 1],
           NEW L \in Seq(Block), log' = [log EXCEPT ![r] = L],
           \A t \in Replica : t # r /\ e < epoch[t] => Behind(L, log[t], e + 1),
           \A t \in Replica : t # r /\ epoch[t] <= e => Behind(log[t], L, epoch[t])
    PROVE  Prefix'
  <1>0. \A t \in Replica : epoch[t] \in Nat /\ log[t] \in Seq(Block)
    BY NatFacts
  <1>1. /\ epoch'[r] = e + 1 /\ log'[r] = L
        /\ \A t \in Replica : t # r => epoch'[t] = epoch[t] /\ log'[t] = log[t]
    BY DEF TypeInv, Types
  <1>2. ASSUME NEW t \in Replica, t # r, epoch[t] <= e + 1
        PROVE  Behind(log[t], L, epoch[t])
    <2>1. CASE epoch[t] <= e
      BY <1>2, <2>1
    <2>2. CASE ~(epoch[t] <= e)
      <3>1. epoch[t] = e + 1 /\ e < epoch[t]
        BY <1>0, <1>2, <2>2
      <3>2. Behind(L, log[t], epoch[t]) /\ Earlier(log[t], epoch[t])
        BY <1>2, <3>1 DEF OrderInv, LogsEarlier
      <3> QED BY <1>0, <3>2, BehindBack
    <2> QED BY <2>1, <2>2
  <1> SUFFICES ASSUME NEW t \in Replica, NEW u \in Replica, epoch'[t] <= epoch'[u]
               PROVE  Behind(log'[t], log'[u], epoch'[t])
    BY DEF Prefix
  <1>3. CASE t # r /\ u # r
    BY <1>1, <1>3 DEF OrderInv, Prefix
  <1>4. CASE t = r /\ u # r
    <2>1. e < epoch[u]
      BY <1>0, <1>1, <1>4
    <2> QED BY <1>1, <1>4, <2>1
  <1>5. CASE t # r /\ u = r
    BY <1>1, <1>2, <1>5
  <1>6. CASE t = r /\ u = r
    BY <1>1, <1>6 DEF Behind, Same
  <1> QED BY <1>3, <1>4, <1>5, <1>6

\* A replica leaves an epoch that ended with false.
LEMMA OrderSkip ==
    ASSUME TypeInv, OrderInv, ProposedStays, NEW r \in Replica, NEW e \in Epoch, e = epoch[r],
           baDecided[e][r] = {FALSE}, epoch' = [epoch EXCEPT ![r] = e + 1],
           mode' = [mode EXCEPT ![r] = "proposing"], UNCHANGED <<log, executed, baDecided>>
    PROVE  OrderInv'
  <1>0. e \in Nat /\ \A t \in Replica : epoch[t] \in Nat /\ log[t] \in Seq(Block)
    BY NatFacts, ParamFacts
  <1>1. /\ epoch'[r] = e + 1 /\ mode'[r] = "proposing"
        /\ \A t \in Replica : t # r => epoch'[t] = epoch[t] /\ mode'[t] = mode[t]
    BY DEF TypeInv, Types
  <1>2. \A t \in Replica : Earlier(log[t], epoch[t])
    BY DEF OrderInv, LogsEarlier
  <1>3. ASSUME NEW t \in Replica, t # r, e < epoch[t]
        PROVE  \A i \in 1 .. Len(log[t]) : log[t][i].epoch # e
    <2>1. TRUE \in baDecided[e][t] <=> HasEpoch(log[t], e)
      BY <1>3 DEF OrderInv, Passed
    <2>2. TRUE \notin baDecided[e][t]
      BY DEF OrderInv, Agreed
    <2> QED BY <2>1, <2>2 DEF HasEpoch
  <1>4. Executes' /\ Agreed'
    BY DEF OrderInv, Executes, Agreed
  <1>5. LogsRising'
    BY DEF OrderInv, LogsRising
  <1>6. LogsFirst'
    BY LogsFirstStay
  <1>7. WaitingTrue'
    BY <1>1 DEF OrderInv, WaitingTrue
  <1>8. Earlier(log[r], e + 1)
    <2>1. \A i \in 1 .. Len(log[r]) : log[r][i].epoch \in Nat
      BY <1>0, BlockFacts
    <2> QED BY <1>0, <1>2, <2>1 DEF Earlier
  <1>9. LogsEarlier'
    BY <1>1, <1>2, <1>8 DEF LogsEarlier
  <1>10. Passed'
    <2> SUFFICES ASSUME NEW t \in Replica, NEW d \in Epoch, d < epoch'[t]
                 PROVE  /\ baDecided[d][t] # {}
                        /\ TRUE \in baDecided[d][t] <=> HasEpoch(log[t], d)
      BY DEF Passed
    <2>1. CASE d < epoch[t]
      BY <2>1 DEF OrderInv, Passed
    <2>2. CASE ~(d < epoch[t])
      <3>1. d \in Nat
        BY ParamFacts
      <3>2. t = r /\ d = e
        BY <1>0, <1>1, <2>2, <3>1
      <3>3. ~HasEpoch(log[r], e)
        BY <1>0, <1>2, BlockFacts DEF Earlier, HasEpoch
      <3> QED BY <3>2, <3>3
    <2> QED BY <2>1, <2>2
  <1>11. \A t \in Replica : t # r /\ e < epoch[t] => Behind(log[r], log[t], e + 1)
    <2> SUFFICES ASSUME NEW t \in Replica, t # r, e < epoch[t]
                 PROVE  Behind(log[r], log[t], e + 1)
      OBVIOUS
    <2>1. Behind(log[r], log[t], e)
      BY <1>0 DEF OrderInv, Prefix
    <2> QED BY <1>0, <1>3, <2>1, BehindSkips
  <1>12. \A t \in Replica : t # r /\ epoch[t] <= e => Behind(log[t], log[r], epoch[t])
    BY DEF OrderInv, Prefix
  <1>13. Prefix'
    <2>1. log' = [log EXCEPT ![r] = log[r]]
      BY DEF TypeInv, Types
    <2> QED BY <1>0, <1>11, <1>12, <2>1, PrefixStep
  <1> QED BY <1>4, <1>5, <1>6, <1>7, <1>9, <1>10, <1>13 DEF OrderInv

EntryAt(M, n, e, b) == n \in 1 .. Len(M) /\ M[n].epoch = e /\ M[n].batch = b

\* Whoever is past the epoch that r is in, and in which r delivers, has in its log
\* what r has, and then the same batch.
LEMMA AheadDelivered ==
    ASSUME TypeInv, OrderInv, NEW r \in Replica, NEW t \in Replica, NEW e \in Epoch,
           e = epoch[r], e < epoch[t], TRUE \in baDecided[e][r],
           NEW b \in Batch, First(Leader(e), b, executed[r]), NEW n, n = Len(log[r]) + 1
    PROVE  EntryAt(log[t], n, e, b)
  <1>1. PICK L \in Seq(Block), M \in Seq(Block) : L = log[r] /\ M = log[t]
    BY NatFacts
  <1>2. e \in Nat /\ epoch[t] \in Nat
    BY NatFacts, ParamFacts
  <1>3. Behind(L, M, e) /\ Earlier(L, e) /\ Rising(M)
    BY <1>1, <1>2 DEF OrderInv, Prefix, LogsEarlier, LogsRising
  <1>4. TRUE \in baDecided[e][t]
    <2>1. baDecided[e][t] # {}
      BY DEF OrderInv, Passed
    <2>2. \A a \in baDecided[e][r], c \in baDecided[e][t] : a = c
      BY DEF OrderInv, Agreed
    <2> QED BY <2>1, <2>2
  <1>5. PICK k \in 1 .. Len(M) : M[k].epoch = e
    <2>1. HasEpoch(log[t], e)
      BY <1>4 DEF OrderInv, Passed
    <2> QED BY <1>1, <2>1 DEF HasEpoch
  <1>6. k = Len(L) + 1
    BY <1>2, <1>3, <1>5, BehindNext
  <1>7. First(Leader(e), M[k].batch, Before(M, k))
    BY <1>1, <1>5 DEF OrderInv, LogsFirst, FirstOf
  <1>8. Before(M, k) = executed[r]
    BY <1>1, <1>2, <1>3, <1>6, BeforeSame DEF OrderInv, Executes
  <1>9. Leader(e) \in Replica
    BY ParamFacts
  <1>10. M[k].batch = b
    BY <1>7, <1>8, <1>9, FirstUnique
  <1> QED BY <1>1, <1>5, <1>6, <1>10 DEF EntryAt

LEMMA OrderDeliver ==
    ASSUME TypeInv, QueueInv, LiveInv, OrderInv, NEW r \in Replica, HandleWaiting(r)
    PROVE  OrderInv'
  <1>1. PICK b \in Batch, o \in Order : Delivers(r, b, o)
    BY HandleWaitingDoes
  <1>2. PICK e \in Epoch : e = epoch[r]
    BY <1>1 DEF Delivers
  <1>3. PICK B \in Block : B = [epoch |-> e, batch |-> b, order |-> o]
    BY DEF Block
  <1>4. B.epoch = e /\ B.batch = b
    BY <1>3
  <1>5. PICK L \in Seq(Block) : L = log[r]
    BY NatFacts
  <1>6. PICK K : K = Append(L, B)
    OBVIOUS
  <1>7. /\ K \in Seq(Block) /\ Len(K) = Len(L) + 1 /\ K[Len(L) + 1] = B
        /\ \A i \in 1 .. Len(L) : K[i] = L[i]
    BY <1>6, AppendFacts
  <1>8. /\ UNCHANGED <<proposed, baDecided>> /\ mode[r] = "waiting"
        /\ epoch' = [epoch EXCEPT ![r] = e + 1] /\ mode' = [mode EXCEPT ![r] = "proposing"]
    BY <1>2 DEF HandleWaiting, baVars
  <1>9. log' = [log EXCEPT ![r] = K] /\ executed' = [executed EXCEPT ![r] = @ \cup {b}]
    BY <1>1, <1>2, <1>3, <1>5, <1>6 DEF Delivers
  <1>10. /\ epoch'[r] = e + 1 /\ mode'[r] = "proposing" /\ log'[r] = K
         /\ executed'[r] = executed[r] \cup {b}
         /\ \A t \in Replica : t # r => /\ epoch'[t] = epoch[t] /\ mode'[t] = mode[t]
                                        /\ log'[t] = log[t] /\ executed'[t] = executed[t]
    BY <1>8, <1>9 DEF TypeInv, Types
  <1>11. e \in Nat /\ Len(L) \in Nat /\ \A t \in Replica : epoch[t] \in Nat /\ log[t] \in Seq(Block)
    BY NatFacts, ParamFacts
  <1>12. First(Leader(e), b, executed[r])
    BY <1>1, <1>2, HeadFirst
  <1>13. TRUE \in baDecided[e][r]
    BY <1>2, <1>8 DEF OrderInv, WaitingTrue
  <1>14. executed[r] = Before(L, Len(L) + 1) /\ Earlier(L, e) /\ Rising(L)
    BY <1>2, <1>5 DEF OrderInv, Executes, LogsEarlier, LogsRising
  <1>15. \A i \in 1 .. Len(K) : i = Len(L) + 1 \/ i \in 1 .. Len(L)
    BY <1>7, <1>11
  <1>16. \A i \in 1 .. Len(L) + 1 : Before(K, i) = Before(L, i)
    <2> SUFFICES ASSUME NEW i \in 1 .. Len(L) + 1 PROVE Before(K, i) = Before(L, i)
      OBVIOUS
    <2>1. \A j \in 1 .. i - 1 : j \in 1 .. Len(L)
      BY <1>11
    <2>2. \A j \in 1 .. i - 1 : K[j].batch = L[j].batch
      BY <1>7, <2>1
    <2> QED BY <2>2 DEF Before
  <1>17. Executes'
    <2>1. Before(K, Len(K) + 1) = Before(L, Len(L) + 1) \cup {b}
      <3>1. 1 .. (Len(K) + 1) - 1 = 1 .. Len(L) + 1 /\ 1 .. (Len(L) + 1) - 1 = 1 .. Len(L)
        BY <1>7, <1>11
      <3>2. 1 .. Len(L) + 1 = (1 .. Len(L)) \cup {Len(L) + 1}
        BY <1>11
      <3>3. Before(K, Len(K) + 1) = {K[j].batch : j \in (1 .. Len(L)) \cup {Len(L) + 1}}
        BY <3>1, <3>2 DEF Before
      <3>4. Before(L, Len(L) + 1) = {L[j].batch : j \in 1 .. Len(L)}
        BY <3>1 DEF Before
      <3>5. \A j \in 1 .. Len(L) : K[j].batch = L[j].batch
        BY <1>7
      <3>6. K[Len(L) + 1].batch = b
        BY <1>4, <1>7
      <3> QED BY <3>3, <3>4, <3>5, <3>6
    <2> QED BY <1>10, <1>14, <2>1 DEF OrderInv, Executes
  <1>18. Agreed'
    BY <1>8 DEF OrderInv, Agreed
  <1>19. WaitingTrue'
    BY <1>8, <1>10 DEF OrderInv, WaitingTrue
  <1>20. LogsEarlier'
    <2>1. \A i \in 1 .. Len(K) : K[i].epoch < e + 1
      <3>1. \A i \in 1 .. Len(L) : L[i].epoch < e /\ L[i].epoch \in Nat
        BY <1>14, BlockFacts DEF Earlier
      <3> QED BY <1>4, <1>7, <1>11, <1>15, <3>1
    <2> QED BY <1>10, <2>1 DEF OrderInv, LogsEarlier, Earlier
  <1>21. LogsRising'
    <2> SUFFICES ASSUME NEW i \in 1 .. Len(K), NEW j \in 1 .. Len(K), i < j
                 PROVE  K[i].epoch < K[j].epoch
      BY <1>10 DEF OrderInv, LogsRising, Rising
    <2>1. i \in 1 .. Len(L)
      BY <1>7, <1>11
    <2>2. CASE j = Len(L) + 1
      BY <1>4, <1>7, <1>14, <2>1, <2>2 DEF Earlier
    <2>3. CASE j \in 1 .. Len(L)
      BY <1>7, <1>14, <2>1, <2>3 DEF Rising
    <2> QED BY <1>15, <2>2, <2>3
  <1>22. Passed'
    <2> SUFFICES ASSUME NEW t \in Replica, NEW d \in Epoch, d < epoch'[t]
                 PROVE  /\ baDecided[d][t] # {}
                        /\ TRUE \in baDecided[d][t] <=> HasEpoch(log'[t], d)
      BY <1>8 DEF Passed
    <2>1. CASE t # r
      BY <1>10, <2>1 DEF OrderInv, Passed
    <2>2. CASE t = r /\ d = e
      <3>1. Len(L) + 1 \in 1 .. Len(K)
        BY <1>7, <1>11
      <3>2. HasEpoch(K, e)
        BY <1>4, <1>7, <3>1 DEF HasEpoch
      <3> QED BY <1>10, <1>13, <2>2, <3>2
    <2>3. CASE t = r /\ d # e
      <3>1. d < e
        <4>1. d \in Nat
          BY ParamFacts
        <4> QED BY <1>10, <1>11, <2>3, <4>1
      <3>2. HasEpoch(K, d) <=> HasEpoch(L, d)
        <4>1. \A i \in 1 .. Len(L) : i \in 1 .. Len(K)
          BY <1>7, <1>11
        <4> QED BY <1>4, <1>7, <1>15, <2>3, <4>1 DEF HasEpoch
      <3>3. /\ baDecided[d][r] # {}
            /\ TRUE \in baDecided[d][r] <=> HasEpoch(L, d)
        BY <1>2, <1>5, <3>1 DEF OrderInv, Passed
      <3> QED BY <1>10, <2>3, <3>2, <3>3
    <2> QED BY <2>1, <2>2, <2>3
  <1>23. LogsFirst'
    <2>1. \A q, c, E : First(q, c, E)' <=> First(q, c, E)
      BY <1>8 DEF First, FirstAt, Proposed
    <2>2. \A i \in 1 .. Len(K) : FirstOf(K, i)
      <3> SUFFICES ASSUME NEW i \in 1 .. Len(K) PROVE FirstOf(K, i)
        OBVIOUS
      <3>1. i \in 1 .. Len(L) + 1
        BY <1>7
      <3>2. Before(K, i) = Before(L, i)
        BY <1>16, <3>1
      <3>3. CASE i = Len(L) + 1
        BY <1>4, <1>7, <1>12, <1>14, <3>2, <3>3 DEF FirstOf
      <3>4. CASE i \in 1 .. Len(L)
        <4>1. FirstOf(L, i)
          BY <1>5, <3>4 DEF OrderInv, LogsFirst
        <4> QED BY <1>7, <3>2, <3>4, <4>1 DEF FirstOf
      <3> QED BY <1>15, <3>3, <3>4
    <2>3. \A t \in Replica : t # r => \A i \in 1 .. Len(log'[t]) : FirstOf(log'[t], i)
      BY <1>10 DEF OrderInv, LogsFirst
    <2>4. \A t \in Replica : \A i \in 1 .. Len(log'[t]) : FirstOf(log'[t], i)
      BY <1>10, <2>2, <2>3
    <2> QED BY <2>1, <2>4 DEF LogsFirst, FirstOf, Before
  <1>24. ASSUME NEW t \in Replica, e < epoch[t]
         PROVE  Behind(K, log[t], e + 1)
    <2>1. PICK M \in Seq(Block) : M = log[t]
      BY NatFacts
    <2>2. Len(L) + 1 \in 1 .. Len(M) /\ M[Len(L) + 1].epoch = e /\ M[Len(L) + 1].batch = B.batch
      <3>1. PICK n : n = Len(log[r]) + 1
        OBVIOUS
      <3>2. EntryAt(log[t], n, e, b)
        BY <1>2, <1>12, <1>13, <1>24, <3>1, AheadDelivered
      <3> QED BY <1>4, <1>5, <2>1, <3>1, <3>2 DEF EntryAt
    <2>3. Behind(L, M, e) /\ Rising(M)
      BY <1>2, <1>5, <1>11, <1>24, <2>1 DEF OrderInv, Prefix, LogsRising
    <2> QED BY <1>4, <1>6, <1>11, <2>1, <2>2, <2>3, BehindGrows
  <1>25. ASSUME NEW t \in Replica, epoch[t] <= e
         PROVE  Behind(log[t], K, epoch[t])
    <2>1. Behind(log[t], L, epoch[t])
      BY <1>2, <1>5, <1>25 DEF OrderInv, Prefix
    <2> QED BY <1>4, <1>6, <1>11, <1>25, <2>1, BehindAppended
  <1>26. Prefix'
    BY <1>2, <1>7, <1>8, <1>9, <1>11, <1>24, <1>25, PrefixStep
  <1> QED BY <1>17, <1>18, <1>19, <1>20, <1>21, <1>22, <1>23, <1>26 DEF OrderInv

LEMMA OrderNext ==
    ASSUME Orderly, TypeInv, QueueInv, LiveInv, OrderInv, [Next]_vars
    PROVE  OrderInv'
  <1>0. ProposedStays
    BY ProposedGrows
  <1>1. ASSUME UNCHANGED <<log, epoch, executed, baDecided, mode>>
        PROVE  OrderInv'
    BY <1>0, <1>1, OrderStays
  <1>2. CASE Next
    <2>1. PICK r \in Replica :
              \/ \E b \in Batch : TryPropose(r, b)
              \/ \E q \in Replica, s \in Slot : Broadcast(r, q, s)
              \/ Agree(r)
              \/ Decide(r)
              \/ Fill(r)
              \/ Crash(r)
      BY <1>2 DEF Next
    <2>2. CASE \E b \in Batch : TryPropose(r, b)
      BY <1>1, <2>2 DEF TryPropose, stateVars, baVars
    <2>3. CASE \E q \in Replica, s \in Slot : Broadcast(r, q, s)
      BY <1>1, <2>3 DEF Broadcast, StartBroadcast, HandleVBroadcastStep, FinishVBroadcastStep,
                        stateVars, baVars
    <2>4. CASE HandleProposing(r)
      <3>1. UNCHANGED <<log, epoch, executed, baDecided>>
        BY <2>4 DEF HandleProposing
      <3>2. \A t \in Replica : mode'[t] = "waiting" => mode[t] = "waiting"
        BY <2>4 DEF HandleProposing, TypeInv, Types
      <3> QED BY <1>0, <3>1, <3>2, OrderStays
    <2>5. CASE HandleOngoing(r)
      <3>1. PICK e \in Epoch : e = epoch[r]
        BY <2>5 DEF HandleOngoing, TypeInv, InEpoch
      <3>2. UNCHANGED <<log, executed, baDecided>>
        BY <2>5 DEF HandleOngoing, baVars
      <3>3. \/ /\ baDecided[e][r] = {FALSE}
               /\ epoch' = [epoch EXCEPT ![r] = e + 1]
               /\ mode' = [mode EXCEPT ![r] = "proposing"]
            \/ /\ baDecided[e][r] = {TRUE}
               /\ epoch' = epoch
               /\ mode' = [mode EXCEPT ![r] = "waiting"]
        BY <2>5, <3>1 DEF HandleOngoing
      <3>4. CASE /\ baDecided[e][r] = {FALSE}
                 /\ epoch' = [epoch EXCEPT ![r] = e + 1]
                 /\ mode' = [mode EXCEPT ![r] = "proposing"]
        BY <1>0, <3>1, <3>2, <3>4, OrderSkip
      <3>5. CASE /\ baDecided[e][r] = {TRUE}
                 /\ epoch' = epoch
                 /\ mode' = [mode EXCEPT ![r] = "waiting"]
        <4>1. \A t \in Replica : mode'[t] = "waiting" =>
                  mode[t] = "waiting" \/ TRUE \in baDecided[epoch[t]][t]
          BY <3>1, <3>5 DEF TypeInv, Types
        <4> QED BY <1>0, <3>2, <3>5, <4>1, OrderStays
      <3> QED BY <3>3, <3>4, <3>5
    <2>6. CASE HandleWaiting(r)
      BY <2>6, OrderDeliver
    <2>7. CASE Decide(r)
      BY <1>0, <2>7, OrderDecide DEF Decide
    <2>8. CASE Fill(r)
      BY <1>1, <2>8 DEF Fill, HandleFillGap, HandleFiller, stateVars, baVars
    <2>9. CASE Crash(r)
      BY <1>1, <2>9 DEF Crash, stateVars, baVars
    <2> QED BY <2>1, <2>2, <2>3, <2>4, <2>5, <2>6, <2>7, <2>8, <2>9 DEF Agree
  <1>3. CASE UNCHANGED vars
    BY <1>1, <1>3 DEF vars
  <1> QED BY <1>2, <1>3

LEMMA OrderAlways ==
    ASSUME Orderly
    PROVE  Spec => [](TypeInv /\ QueueInv /\ LiveInv /\ OrderInv)
  BY TypeInit, TypeNext, QueuesInit, QueuesNext, LiveInit, LiveNext, OrderInit, OrderNext,
     PTL DEF Spec
-----------------------------------------------------------------------------
\* The slot that NextSlot chooses is the first, from 0 on, that is live.
Live(q, E, s) == s >= Len(proposed[q]) \/ proposed[q][s + 1] \notin E
FirstSlot(q, E, n) == /\ n \in 0 .. Len(proposed[q]) /\ Live(q, E, n)
                      /\ \A t \in 0 .. n - 1 : ~Live(q, E, t)

LEMMA FirstSlotUnique ==
    ASSUME NEW q, NEW E, NEW n, NEW m, Len(proposed[q]) \in Nat,
           FirstSlot(q, E, n), FirstSlot(q, E, m)
    PROVE  n = m
  <1>1. n \in Nat /\ m \in Nat
    BY DEF FirstSlot
  <1>2. ~(n < m) /\ ~(m < n)
    BY <1>1 DEF FirstSlot
  <1> QED BY <1>1, <1>2

LEMMA NextSlotFirst ==
    ASSUME TypeInv, QueueInv, LiveInv, NEW r \in Replica, NEW q \in Replica
    PROVE  FirstSlot(q, executed[r], NextSlot(r, q))
  <1>1. PICK Q : Q = queues[r][q]
    OBVIOUS
  <1>2. PICK h : h = Q.head
    OBVIOUS
  <1>3. PICK n : n = Len(proposed[q])
    OBVIOUS
  <1>4. PICK E : E = executed[r]
    OBVIOUS
  <1>5. Q \in Queue /\ HeadOk(Q) /\ Contents(q, Q) /\ Marks(Q, E)
    BY <1>1, <1>4 DEF TypeInv, Types, QueueInv, QueuesOk, QueuesContents, LiveInv, Marking
  <1>6. h \in Nat /\ n \in Nat /\ proposed[q] \in Seq(Batch)
    BY <1>2, <1>3, <1>5, SlotFacts DEF Queue, TypeInv, Types
  <1>7. ASSUME NEW s \in 0 .. h - 1
        PROVE  s < n /\ proposed[q][s + 1] \in E
    <2>1. s \in Q.removed /\ s \in Slot /\ Q.slots[s] # None
      BY <1>2, <1>5 DEF HeadOk, Queue
    <2>2. Proposed(q, s) /\ Q.slots[s] = proposed[q][s + 1] /\ Q.slots[s] \in E
      BY <1>5, <2>1 DEF Contents, Marks
    <2> QED BY <1>3, <2>2 DEF Proposed
  <1>8. h <= n
    <2>1. CASE h = 0
      BY <1>6, <2>1
    <2>2. CASE h # 0
      <3>1. h - 1 \in 0 .. h - 1
        BY <1>6, <2>2
      <3>2. h - 1 < n
        BY <1>7, <3>1
      <3> QED BY <1>6, <3>2
    <2> QED BY <2>1, <2>2
  <1>9. \A s \in 0 .. h - 1 : ~Live(q, E, s)
    <2>1. \A s \in 0 .. h - 1 : ~(s >= n)
      BY <1>6, <1>7
    <2> QED BY <1>3, <1>7, <2>1 DEF Live
  <1>10. \E s \in h .. n : Live(q, E, s) /\ \A t \in h .. s - 1 : ~Live(q, E, t)
    <2>1. PICK S : S = {s \in h .. n : Live(q, E, s)}
      OBVIOUS
    <2>2. S \in SUBSET Nat
      BY <1>6, <2>1
    <2>3. Live(q, E, n)
      BY <1>3, <1>6 DEF Live
    <2>4. n \in S
      BY <1>6, <1>8, <2>1, <2>3
    <2>5. PICK s \in S : \A t \in S : s <= t
      BY <2>2, <2>4, Least
    <2>6. s \in h .. n /\ Live(q, E, s)
      BY <2>1, <2>5
    <2>7. ASSUME NEW t \in h .. s - 1
          PROVE  ~Live(q, E, t)
      <3>1. t \in h .. n /\ ~(s <= t)
        BY <1>6, <2>6
      <3> QED BY <2>1, <2>5, <3>1
    <2> QED BY <2>6, <2>7
  <1>11. PICK c : c = CHOOSE s \in h .. n : Live(q, E, s) /\ \A t \in h .. s - 1 : ~Live(q, E, t)
    OBVIOUS
  <1>12. c \in h .. n /\ Live(q, E, c) /\ \A t \in h .. c - 1 : ~Live(q, E, t)
    BY <1>10, <1>11
  <1>13. c = NextSlot(r, q)
    BY <1>1, <1>2, <1>3, <1>4, <1>11 DEF NextSlot, Live
  <1>14. \A t \in 0 .. c - 1 : t \in 0 .. h - 1 \/ t \in h .. c - 1
    BY <1>6, <1>12
  <1>15. \A t \in 0 .. c - 1 : ~Live(q, E, t)
    BY <1>9, <1>12, <1>14
  <1>16. c \in 0 .. n
    BY <1>6, <1>12
  <1>17. FirstSlot(q, E, c)
    BY <1>3, <1>12, <1>15, <1>16 DEF FirstSlot
  <1> QED BY <1>4, <1>13, <1>17

LEMMA SameExecuted ==
    ASSUME TypeInv, OrderInv, NEW r \in Replica, NEW t \in Replica, epoch[r] = epoch[t]
    PROVE  executed[r] = executed[t]
  <1>1. PICK L \in Seq(Block), M \in Seq(Block) : L = log[r] /\ M = log[t]
    BY NatFacts
  <1>2. PICK e \in Nat : e = epoch[r]
    BY NatFacts
  <1>3. e <= epoch[t] /\ epoch[t] <= e
    BY <1>2
  <1>4. Behind(L, M, e) /\ Behind(M, L, e)
    BY <1>1, <1>2, <1>3 DEF OrderInv, Prefix
  <1>5. Len(L) = Len(M)
    <2>1. Len(L) \in Nat /\ Len(M) \in Nat
      OBVIOUS
    <2> QED BY <1>4, <2>1 DEF Behind
  <1>6. Before(M, Len(L) + 1) = Before(L, Len(L) + 1)
    BY <1>4, BeforeSame
  <1> QED BY <1>1, <1>5, <1>6 DEF OrderInv, Executes

\* Correct replicas that are in one epoch executed the same batches and ask the
\* agreement about one slot, if no batch is submitted twice; or, if it is at other
\* replicas, when a replica has one thread and takes no FILLER.
THEOREM HeadsAgreeAlways ==
    ASSUME Orderly
    PROVE  Spec => []HeadsAgree
  <1>1. TypeInv /\ QueueInv /\ LiveInv /\ OrderInv => HeadsAgree
    <2> SUFFICES ASSUME TypeInv, QueueInv, LiveInv, OrderInv PROVE HeadsAgree
      OBVIOUS
    <2> SUFFICES ASSUME NEW r \in Correct, NEW t \in Correct, epoch[r] = epoch[t]
                 PROVE  /\ executed[r] = executed[t]
                        /\ \A q \in Replica : NextSlot(r, q) = NextSlot(t, q)
      BY DEF HeadsAgree
    <2>1. r \in Replica /\ t \in Replica
      BY DEF Correct
    <2>2. executed[r] = executed[t]
      BY <2>1, SameExecuted
    <2>3. ASSUME NEW q \in Replica
          PROVE  NextSlot(r, q) = NextSlot(t, q)
      <3>1. PICK E : E = executed[r] /\ E = executed[t]
        BY <2>2
      <3>2. FirstSlot(q, E, NextSlot(r, q)) /\ FirstSlot(q, E, NextSlot(t, q))
        BY <2>1, <3>1, NextSlotFirst
      <3>3. Len(proposed[q]) \in Nat
        <4>1. proposed[q] \in Seq(Batch)
          BY DEF TypeInv, Types
        <4> QED BY <4>1
      <3> QED BY <3>2, <3>3, FirstSlotUnique
    <2> QED BY <2>2, <2>3
  <1> QED BY <1>1, OrderAlways, PTL
-----------------------------------------------------------------------------
(***************************************************************************)
(* The refinement: a client's batch is submitted, HandleWaiting delivers,  *)
(* all other steps stutter.                                                *)
(***************************************************************************)
Submitted == UNION {Proposals(p) : p \in Replica}
Delivered == [r \in Correct |-> Batches(r)]

LEMMA SubmittedIs ==
    ASSUME NEW b
    PROVE  b \in Submitted <=> \E p \in Replica : b \in Proposals(p)
  BY DEF Submitted

LEMMA RefinesInit == ASSUME Init PROVE AB!Init
  <1>1. Submitted = {}
    <2>1. \A p \in Replica : Proposals(p) = {}
      BY DEF Init, Proposals
    <2> QED BY <2>1 DEF Submitted
  <1>2. Delivered = [r \in Correct |-> <<>>]
    <2>1. \A r \in Correct : log[r] = <<>>
      BY DEF Init, Correct
    <2>2. \A r \in Correct : Batches(r) = <<>>
      BY <2>1 DEF Batches
    <2> QED BY <2>2 DEF Delivered
  <1> QED BY <1>1, <1>2 DEF AB!Init, Submitted, Delivered

LEMMA RefinesSubmit ==
    ASSUME TypeInv, NEW p \in Replica, NEW b \in Batch, TryPropose(p, b)
    PROVE  AB!Submit(b)
  <1>1. proposed[p] \in Seq(Batch) /\ proposed' = [proposed EXCEPT ![p] = Append(@, b)]
    BY DEF TypeInv, Types, TryPropose
  <1>2. PICK S \in Seq(Batch) : S = proposed[p]
    BY <1>1
  <1>3. PICK T : T = Append(S, b)
    OBVIOUS
  <1>4. proposed'[p] = T /\ \A q \in Replica : q # p => proposed'[q] = proposed[q]
    BY <1>1, <1>2, <1>3 DEF TypeInv, Types
  <1>5. /\ Len(S) \in Nat /\ Len(T) = Len(S) + 1 /\ T[Len(S) + 1] = b
        /\ \A i \in 1 .. Len(S) : T[i] = S[i]
    BY <1>3
  <1>6. {T[i] : i \in 1 .. Len(T)} = {S[i] : i \in 1 .. Len(S)} \cup {b}
    <2>1. 1 .. Len(T) = (1 .. Len(S)) \cup {Len(S) + 1}
      BY <1>5
    <2> QED BY <1>5, <2>1
  <1>7. Proposals(p)' = Proposals(p) \cup {b}
    BY <1>2, <1>4, <1>6 DEF Proposals
  <1>8. \A q \in Replica : q # p => Proposals(q)' = Proposals(q)
    BY <1>4 DEF Proposals
  <1>9. Submitted' = Submitted \cup {b}
    BY <1>7, <1>8 DEF Submitted
  <1>10. Delivered' = Delivered
    BY DEF Delivered, Batches, TryPropose
  <1> QED BY <1>9, <1>10 DEF AB!Submit, Submitted, Delivered

LEMMA RefinesDeliver ==
    ASSUME TypeInv, QueueInv, LiveInv, OrderInv, OrderInv', NEW r \in Correct,
           NEW b \in Batch, NEW o \in Order, Delivers(r, b, o), UNCHANGED proposed,
           epoch' = [epoch EXCEPT ![r] = @ + 1]
    PROVE  AB!Deliver(r, b)
  <1>0. r \in Replica
    BY DEF Correct
  <1>1. PICK L \in Seq(Block) : L = log[r]
    BY <1>0, NatFacts
  <1>2. PICK B \in Block : B.batch = b /\ log' = [log EXCEPT ![r] = Append(L, B)]
    <2>1. [epoch |-> epoch[r], batch |-> b, order |-> o] \in Block
      BY DEF Block, Delivers
    <2> QED BY <1>1, <2>1 DEF Delivers
  <1>3. PICK K : K = Append(L, B)
    OBVIOUS
  <1>4. /\ K \in Seq(Block) /\ Len(K) = Len(L) + 1 /\ K[Len(L) + 1] = B
        /\ \A i \in 1 .. Len(L) : K[i] = L[i]
    BY <1>3, AppendFacts
  <1>5. log'[r] = K /\ \A t \in Replica : t # r => log'[t] = log[t]
    BY <1>0, <1>2, <1>3 DEF TypeInv, Types
  <1>6. \A t \in Correct : Delivered[t] = Batches(t) /\ Delivered'[t] = Batches(t)'
    BY DEF Delivered
  <1>7. Len(Delivered[r]) = Len(L) /\ \A i \in 1 .. Len(L) : Delivered[r][i] = L[i].batch
    <2>1. Delivered[r] = [i \in 1 .. Len(L) |-> L[i].batch]
      BY <1>1, <1>6 DEF Batches
    <2>2. Len(L) \in Nat
      OBVIOUS
    <2> QED BY <2>1, <2>2
  <1>8. First(Leader(epoch[r]), b, executed[r])
    BY <1>0, HeadFirst
  <1>9. b \in Submitted
    <2>1. PICK q \in Replica : q = Leader(epoch[r])
      BY ParamFacts DEF Delivers
    <2>2. PICK s \in Slot : s < Len(proposed[q]) /\ b = proposed[q][s + 1]
      BY <1>8, <2>1 DEF First, FirstAt, Proposed
    <2>3. s + 1 \in 1 .. Len(proposed[q])
      <3>1. proposed[q] \in Seq(Batch) /\ s \in Nat
        BY SlotFacts DEF TypeInv, Types
      <3> QED BY <2>2, <3>1
    <2>4. b \in Proposals(q)
      BY <2>2, <2>3 DEF Proposals
    <2> QED BY <2>4, SubmittedIs
  <1>10. \A i \in 1 .. Len(L) : L[i].batch # b
    <2>1. b \notin executed[r]
      BY <1>8 DEF First, FirstAt
    <2>2. executed[r] = Before(L, Len(L) + 1)
      BY <1>0, <1>1 DEF OrderInv, Executes
    <2>3. (Len(L) + 1) - 1 = Len(L)
      OBVIOUS
    <2> QED BY <2>1, <2>2, <2>3 DEF Before
  <1>11. ASSUME NEW t \in Correct, Len(log[t]) >= Len(L) + 1
         PROVE  log[t][Len(L) + 1].batch = b
    <2>1. t \in Replica /\ Len(L) \in Nat
      BY DEF Correct
    <2>2. PICK M \in Seq(Block) : M = log[t]
      BY <2>1, NatFacts
    <2>3. t # r
      BY <1>1, <1>11, <2>1
    <2>4. PICK n : n = Len(L) + 1
      OBVIOUS
    <2>5. n \in 1 .. Len(M) /\ n \in 1 .. Len(K) /\ K[n] = B
      BY <1>4, <1>11, <2>1, <2>2, <2>4
    <2>6. epoch'[r] \in Nat /\ epoch'[t] \in Nat
      <3>1. epoch[r] \in Nat /\ epoch[t] \in Nat
        BY <1>0, <2>1, NatFacts
      <3>2. epoch'[r] = epoch[r] + 1 /\ epoch'[t] = epoch[t]
        BY <1>0, <2>1, <2>3 DEF TypeInv, Types
      <3> QED BY <3>1, <3>2
    <2>7. epoch'[r] <= epoch'[t] => Behind(K, M, epoch'[r])
      BY <1>0, <1>5, <2>1, <2>2, <2>3 DEF OrderInv, Prefix
    <2>8. epoch'[t] <= epoch'[r] => Behind(M, K, epoch'[t])
      BY <1>0, <1>5, <2>1, <2>2, <2>3 DEF OrderInv, Prefix
    <2>9. Same(K, M) \/ Same(M, K)
      BY <2>6, <2>7, <2>8 DEF Behind
    <2>10. K[n].batch = M[n].batch
      BY <2>5, <2>9 DEF Same
    <2> QED BY <1>2, <2>2, <2>4, <2>5, <2>10
  <1>12. \A t \in Correct : Len(Delivered[t]) >= Len(L) + 1 => Delivered[t][Len(L) + 1] = b
    <2> SUFFICES ASSUME NEW t \in Correct, Len(Delivered[t]) >= Len(L) + 1
                 PROVE  Delivered[t][Len(L) + 1] = b
      OBVIOUS
    <2>1. PICK M \in Seq(Block) : M = log[t]
      BY NatFacts DEF Correct
    <2>2. Len(M) \in Nat /\ Len(L) \in Nat
      OBVIOUS
    <2>3. Delivered[t] = [i \in 1 .. Len(M) |-> M[i].batch]
      BY <1>6, <2>1 DEF Batches
    <2>4. Len(Delivered[t]) = Len(M)
      BY <2>2, <2>3
    <2>5. Len(L) + 1 \in 1 .. Len(M)
      BY <2>2, <2>4
    <2>6. M[Len(L) + 1].batch = b
      BY <1>11, <2>1, <2>2, <2>4
    <2> QED BY <2>3, <2>5, <2>6
  <1>13. Delivered' = [Delivered EXCEPT ![r] = Append(@, b)]
    <2>1. PICK D : D = [i \in 1 .. Len(L) |-> L[i].batch]
      OBVIOUS
    <2>2. [i \in 1 .. Len(K) |-> K[i].batch] = Append(D, b)
      <3>1. D \in Seq(Batch) /\ Len(D) = Len(L)
        BY <2>1, BlockFacts
      <3>2. Len(Append(D, b)) = Len(K) /\ Append(D, b)[Len(L) + 1] = b
        BY <1>4, <3>1
      <3>3. \A i \in 1 .. Len(L) : Append(D, b)[i] = L[i].batch
        BY <2>1, <3>1
      <3>4. \A i \in 1 .. Len(K) : i = Len(L) + 1 \/ i \in 1 .. Len(L)
        BY <1>4
      <3>5. \A i \in 1 .. Len(K) : Append(D, b)[i] = K[i].batch
        BY <1>2, <1>4, <3>2, <3>3, <3>4
      <3>6. PICK T : T = Append(D, b)
        OBVIOUS
      <3>7. T \in Seq(Batch)
        BY <3>1, <3>6
      <3>8. T = [i \in 1 .. Len(T) |-> T[i]]
        BY <3>7
      <3> QED BY <3>2, <3>5, <3>6, <3>8
    <2>3. Batches(r) = D /\ Batches(r)' = Append(D, b)
      BY <1>1, <1>5, <2>1, <2>2 DEF Batches
    <2>4. \A t \in Correct : t # r => Batches(t)' = Batches(t)
      BY <1>5 DEF Batches, Correct
    <2> QED BY <2>3, <2>4 DEF Delivered
  <1>14. Submitted' = Submitted
    BY DEF Submitted, Proposals
  <1>15. (Len(L) + 1) - 1 = Len(L)
    OBVIOUS
  <1>16. \A i \in 1 .. Len(L) : Delivered[r][i] # b
    BY <1>7, <1>10
  <1> QED BY <1>7, <1>9, <1>12, <1>13, <1>14, <1>15, <1>16
          DEF AB!Deliver, Submitted, Delivered

LEMMA RefinesStutter ==
    ASSUME UNCHANGED proposed, \A r \in Correct : log'[r] = log[r]
    PROVE  UNCHANGED AB!vars
  <1>1. Submitted' = Submitted
    BY DEF Submitted, Proposals
  <1>2. Delivered' = Delivered
    BY DEF Delivered, Batches
  <1> QED BY <1>1, <1>2 DEF AB!vars, Submitted, Delivered

LEMMA RefinesNext ==
    ASSUME TypeInv, QueueInv, LiveInv, OrderInv, OrderInv', [Next]_vars
    PROVE  [AB!Next]_AB!vars
  <1>1. ASSUME UNCHANGED <<proposed, log>>
        PROVE  UNCHANGED AB!vars
    BY <1>1, RefinesStutter
  <1>2. CASE Next
    <2>1. PICK r \in Replica :
              \/ \E b \in Batch : TryPropose(r, b)
              \/ \E q \in Replica, s \in Slot : Broadcast(r, q, s)
              \/ Agree(r)
              \/ Decide(r)
              \/ Fill(r)
              \/ Crash(r)
      BY <1>2 DEF Next
    <2>2. CASE \E b \in Batch : TryPropose(r, b)
      <3>1. PICK b \in Batch : AB!Submit(b)
        BY <2>2, RefinesSubmit
      <3> QED BY <3>1 DEF AB!Next
    <2>3. CASE \E q \in Replica, s \in Slot : Broadcast(r, q, s)
      BY <1>1, <2>3 DEF Broadcast, StartBroadcast, HandleVBroadcastStep, FinishVBroadcastStep
    <2>4. CASE HandleProposing(r) \/ HandleOngoing(r)
      BY <1>1, <2>4 DEF HandleProposing, HandleOngoing
    <2>5. CASE HandleWaiting(r)
      <3>1. PICK b \in Batch, o \in Order : Delivers(r, b, o)
        BY <2>5, HandleWaitingDoes
      <3>2. proposed' = proposed /\ epoch' = [epoch EXCEPT ![r] = @ + 1]
        BY <2>5 DEF HandleWaiting
      <3>3. CASE r \in Correct
        <4>1. AB!Deliver(r, b)
          BY <3>1, <3>2, <3>3, RefinesDeliver
        <4> QED BY <3>3, <4>1 DEF AB!Next
      <3>4. CASE r \notin Correct
        <4>1. \A t \in Correct : log'[t] = log[t]
          BY <3>1, <3>4 DEF Delivers, TypeInv, Types, Correct
        <4> QED BY <3>2, <4>1, RefinesStutter
      <3> QED BY <3>3, <3>4
    <2>6. CASE Decide(r)
      BY <1>1, <2>6 DEF Decide, DecideAgreement
    <2>7. CASE Fill(r)
      BY <1>1, <2>7 DEF Fill, HandleFillGap, HandleFiller
    <2>8. CASE Crash(r)
      BY <1>1, <2>8 DEF Crash
    <2> QED BY <2>1, <2>2, <2>3, <2>4, <2>5, <2>6, <2>7, <2>8 DEF Agree
  <1>3. CASE UNCHANGED vars
    BY <1>1, <1>3 DEF vars
  <1> QED BY <1>2, <1>3

\* Correct replicas deliver the same batches in one order and each once, however
\* many replicas stop and whatever they leave unfinished, under the assumptions of
\* HeadsAgreeAlways: Alea implements atomic broadcast.
THEOREM Implements ==
    ASSUME Orderly
    PROVE  Spec => ImplementsAtomicBroadcast
  <1>1. TypeInv /\ QueueInv /\ LiveInv /\ OrderInv /\ OrderInv' /\ [Next]_vars
            => [AB!Next]_AB!vars
    BY RefinesNext
  <1> QED BY <1>1, RefinesInit, OrderAlways, PTL
          DEF Spec, ImplementsAtomicBroadcast, AB!Spec
-----------------------------------------------------------------------------
(***************************************************************************)
(* The protocols Alea is composed of.  To the replicas, the agreement of   *)
(* each epoch is a BinaryAgreement and the broadcast of each slot is a     *)
(* ConsistentBroadcast: a replica gives an agreement one input, and a      *)
(* proposer uses a slot once.                                              *)
(***************************************************************************)
BA(e) == INSTANCE BinaryAgreement WITH
             proposed <- [r \in Correct |-> baInput[e][r]],
             decided <- [r \in Correct |-> baDecided[e][r]]

\* A replica has given its input to the agreements of the epochs it is past, and to
\* that of its epoch unless it is proposing; what is decided is such an input.
InputOnce == \A e \in Epoch, r \in Replica :
    baInput[e][r] # {} => e < epoch[r] \/ (e = epoch[r] /\ mode[r] # "proposing")
DecidedInput == \A e \in Epoch, r \in Replica : \A b \in baDecided[e][r] :
    \E s \in Correct : b \in baInput[e][s]
AgreeInv == InputOnce /\ DecidedInput

\* What an agreement has is left as it is by all steps but three.
LEMMA AgreementSteps ==
    ASSUME TypeInv, [Next]_vars
    PROVE  \/ UNCHANGED <<baInput, baDecided, epoch, mode>>
           \/ \E r \in Replica : HandleProposing(r)
           \/ \E r \in Replica, e \in Epoch, b \in BOOLEAN : DecideAgreement(e, r, b)
           \/ \E r \in Replica : HandleOngoing(r) \/ HandleWaiting(r)
  <1>1. CASE UNCHANGED vars
    BY <1>1 DEF vars
  <1>2. CASE Next
    <2>1. PICK r \in Replica :
              \/ \E b \in Batch : TryPropose(r, b)
              \/ \E q \in Replica, s \in Slot : Broadcast(r, q, s)
              \/ Agree(r)
              \/ Decide(r)
              \/ Fill(r)
              \/ Crash(r)
      BY <1>2 DEF Next
    <2>2. CASE \E b \in Batch : TryPropose(r, b)
      BY <2>2 DEF TryPropose, stateVars, baVars
    <2>3. CASE \E q \in Replica, s \in Slot : Broadcast(r, q, s)
      BY <2>3 DEF Broadcast, StartBroadcast, HandleVBroadcastStep, FinishVBroadcastStep,
                  stateVars, baVars
    <2>4. CASE Fill(r)
      BY <2>4 DEF Fill, HandleFillGap, HandleFiller, stateVars, baVars
    <2>5. CASE Crash(r)
      BY <2>5 DEF Crash, stateVars, baVars
    <2> QED BY <2>1, <2>2, <2>3, <2>4, <2>5 DEF Agree, Decide
  <1> QED BY <1>1, <1>2

\* The epoch of a replica and its state, after a step of its agreement.
LEMMA StateSteps ==
    ASSUME TypeInv, NEW r \in Replica,
           HandleProposing(r) \/ HandleOngoing(r) \/ HandleWaiting(r)
    PROVE  /\ epoch[r] \in Epoch
           /\ \A t \in Replica : t # r => epoch'[t] = epoch[t] /\ mode'[t] = mode[t]
           /\ \/ epoch'[r] = epoch[r] /\ mode'[r] # "proposing"
              \/ epoch'[r] = epoch[r] + 1 /\ mode'[r] = "proposing"
  <1>1. epoch[r] \in Epoch
    BY DEF TypeInv, InEpoch, HandleProposing, HandleOngoing, HandleWaiting
  <1>2. \/ epoch' = epoch /\ mode' = [mode EXCEPT ![r] = "ongoing"]
        \/ epoch' = epoch /\ mode' = [mode EXCEPT ![r] = "waiting"]
        \/ epoch' = [epoch EXCEPT ![r] = epoch[r] + 1] /\ mode' = [mode EXCEPT ![r] = "proposing"]
    BY DEF HandleProposing, HandleOngoing, HandleWaiting
  <1> QED BY <1>1, <1>2 DEF TypeInv, Types

\* The input a replica gives is the first it gives to that agreement.
LEMMA GivesInput ==
    ASSUME TypeInv, AgreeInv, NEW r \in Replica, HandleProposing(r), NEW b,
           b = Peek(HeadQueue(r))
    PROVE  /\ b \in BOOLEAN /\ epoch[r] \in Epoch /\ baInput[epoch[r]][r] = {}
           /\ baInput' = [baInput EXCEPT ![epoch[r]][r] = {b}] /\ baDecided' = baDecided
  <1>1. b \in BOOLEAN
    BY DEF Peek, Present
  <1>2. epoch[r] \in Epoch /\ mode[r] = "proposing"
    BY DEF HandleProposing
  <1>3. epoch[r] \in Nat
    BY NatFacts
  <1>4. baInput[epoch[r]][r] = {}
    BY <1>2, <1>3 DEF AgreeInv, InputOnce
  <1> QED BY <1>1, <1>2, <1>4 DEF HandleProposing

LEMMA AgreeStep ==
    ASSUME TypeInv, AgreeInv, [Next]_vars
    PROVE  AgreeInv'
  <1>1. ASSUME UNCHANGED <<baInput, baDecided, epoch, mode>> PROVE AgreeInv'
    BY <1>1 DEF AgreeInv, InputOnce, DecidedInput
  <1>2. ASSUME NEW r \in Replica, HandleProposing(r) PROVE AgreeInv'
    <2>1. PICK b : b = Peek(HeadQueue(r))
      OBVIOUS
    <2>2. PICK e \in Epoch : e = epoch[r]
      BY <1>2 DEF HandleProposing
    <2>3. baInput[e][r] = {} /\ baInput' = [baInput EXCEPT ![e][r] = {b}] /\ baDecided' = baDecided
      BY <1>2, <2>1, <2>2, GivesInput
    <2>4. /\ baInput'[e][r] = {b}
          /\ \A d \in Epoch, t \in Replica : d # e \/ t # r => baInput'[d][t] = baInput[d][t]
      BY <2>3 DEF TypeInv, Types, Agreements
    <2>5. epoch' = epoch /\ mode' = [mode EXCEPT ![r] = "ongoing"]
      BY <1>2 DEF HandleProposing
    <2>6. InputOnce'
      <3> SUFFICES ASSUME NEW d \in Epoch, NEW t \in Replica, baInput'[d][t] # {}
                   PROVE  d < epoch[t] \/ (d = epoch[t] /\ mode'[t] # "proposing")
        BY <2>5 DEF InputOnce
      <3>1. CASE d = e /\ t = r
        BY <2>2, <2>5, <3>1 DEF TypeInv, Types
      <3>2. CASE ~(d = e /\ t = r)
        <4>1. d < epoch[t] \/ (d = epoch[t] /\ mode[t] # "proposing")
          BY <2>4, <3>2 DEF AgreeInv, InputOnce
        <4>2. mode[t] # "proposing" => mode'[t] # "proposing"
          BY <2>5 DEF TypeInv, Types
        <4> QED BY <4>1, <4>2
      <3> QED BY <3>1, <3>2
    <2>7. \A d \in Epoch, t \in Replica : baInput[d][t] \subseteq baInput'[d][t]
      <3> SUFFICES ASSUME NEW d \in Epoch, NEW t \in Replica
                   PROVE  baInput[d][t] \subseteq baInput'[d][t]
        OBVIOUS
      <3> QED BY <2>3, <2>4
    <2>8. DecidedInput'
      BY <2>3, <2>7, ParamFacts DEF AgreeInv, DecidedInput
    <2> QED BY <2>6, <2>8 DEF AgreeInv
  <1>3. ASSUME NEW r \in Replica, NEW e \in Epoch, NEW b \in BOOLEAN, DecideAgreement(e, r, b)
        PROVE  AgreeInv'
    <2>1. UNCHANGED <<baInput, epoch, mode>> /\ \E s \in Correct : baInput[e][s] = {b}
      BY <1>3 DEF DecideAgreement, stateVars
    <2>2. /\ baDecided'[e][r] = {b}
          /\ \A d \in Epoch, t \in Replica : d # e \/ t # r => baDecided'[d][t] = baDecided[d][t]
      <3>1. baDecided' = [baDecided EXCEPT ![e][r] = {b}]
        BY <1>3 DEF DecideAgreement
      <3> QED BY <3>1 DEF TypeInv, Types, Agreements
    <2>3. DecidedInput'
      <3> SUFFICES ASSUME NEW d \in Epoch, NEW t \in Replica, NEW c \in baDecided'[d][t]
                   PROVE  \E s \in Correct : c \in baInput[d][s]
        BY <2>1 DEF DecidedInput
      <3>1. CASE d = e /\ t = r
        BY <2>1, <2>2, <3>1
      <3>2. CASE ~(d = e /\ t = r)
        BY <2>2, <3>2 DEF AgreeInv, DecidedInput
      <3> QED BY <3>1, <3>2
    <2> QED BY <2>1, <2>3 DEF AgreeInv, InputOnce
  <1>4. ASSUME NEW r \in Replica, HandleOngoing(r) \/ HandleWaiting(r) PROVE AgreeInv'
    <2>1. UNCHANGED <<baInput, baDecided>> /\ mode[r] # "proposing"
      BY <1>4 DEF HandleOngoing, HandleWaiting, baVars
    <2>2. /\ epoch[r] \in Epoch
          /\ \A t \in Replica : t # r => epoch'[t] = epoch[t] /\ mode'[t] = mode[t]
          /\ \/ epoch'[r] = epoch[r] /\ mode'[r] # "proposing"
             \/ epoch'[r] = epoch[r] + 1 /\ mode'[r] = "proposing"
      BY <1>4, StateSteps
    <2>3. InputOnce'
      <3> SUFFICES ASSUME NEW d \in Epoch, NEW t \in Replica, baInput[d][t] # {}
                   PROVE  d < epoch'[t] \/ (d = epoch'[t] /\ mode'[t] # "proposing")
        BY <2>1 DEF InputOnce
      <3>1. d < epoch[t] \/ (d = epoch[t] /\ mode[t] # "proposing")
        BY DEF AgreeInv, InputOnce
      <3>2. d \in Nat /\ epoch[t] \in Nat
        BY NatFacts, ParamFacts
      <3> QED BY <2>2, <3>1, <3>2
    <2> QED BY <2>1, <2>3 DEF AgreeInv, DecidedInput
  <1> QED BY <1>1, <1>2, <1>3, <1>4, AgreementSteps

LEMMA AgreeInit == Init => AgreeInv
  BY ParamFacts DEF Init, AgreeInv, InputOnce, DecidedInput

LEMMA AgreeAlways == Spec => [](TypeInv /\ AgreeInv)
  BY TypeInit, TypeNext, AgreeInit, AgreeStep, PTL DEF Spec

\* A step of the replicas is a step of the agreement of epoch e, or none of its.
LEMMA AgreementStep ==
    ASSUME NEW e \in Epoch, TypeInv, AgreeInv, [Next]_vars
    PROVE  [BA(e)!Next]_(BA(e)!vars)
  <1>1. ASSUME UNCHANGED <<baInput, baDecided>> PROVE UNCHANGED BA(e)!vars
    BY <1>1 DEF BA!vars
  <1>2. ASSUME NEW r \in Replica, HandleProposing(r) PROVE [BA(e)!Next]_(BA(e)!vars)
    <2>1. PICK b : b = Peek(HeadQueue(r))
      OBVIOUS
    <2>2. PICK d \in Epoch : d = epoch[r]
      BY <1>2 DEF HandleProposing
    <2>3. /\ b \in BOOLEAN /\ baInput[d][r] = {} /\ baDecided' = baDecided
          /\ baInput' = [baInput EXCEPT ![d][r] = {b}]
      BY <1>2, <2>1, <2>2, GivesInput
    <2>4. CASE d = e /\ r \in Correct
      <3>1. [s \in Correct |-> baInput'[e][s]] = [[s \in Correct |-> baInput[e][s]] EXCEPT ![r] = {b}]
        BY <2>3, <2>4, ParamFacts DEF TypeInv, Types, Agreements
      <3>2. BA(e)!Propose(r, b)
        BY <2>3, <2>4, <3>1 DEF BA!Propose
      <3> QED BY <2>3, <2>4, <3>2 DEF BA!Next
    <2>5. CASE ~(d = e /\ r \in Correct)
      <3>1. [s \in Correct |-> baInput'[e][s]] = [s \in Correct |-> baInput[e][s]]
        BY <2>3, <2>5, ParamFacts DEF TypeInv, Types, Agreements
      <3> QED BY <2>3, <3>1 DEF BA!vars
    <2> QED BY <2>4, <2>5
  <1>3. ASSUME NEW r \in Replica, NEW d \in Epoch, NEW b \in BOOLEAN, DecideAgreement(d, r, b)
        PROVE  [BA(e)!Next]_(BA(e)!vars)
    <2>1. /\ baInput' = baInput /\ baDecided' = [baDecided EXCEPT ![d][r] = {b}]
          /\ baDecided[d][r] = {} /\ \A s \in Replica : baDecided[d][s] \subseteq {b}
          /\ \E s \in Correct : baInput[d][s] = {b}
      BY <1>3 DEF DecideAgreement
    <2>2. CASE d = e /\ r \in Correct
      <3>1. [s \in Correct |-> baDecided'[e][s]]
                = [[s \in Correct |-> baDecided[e][s]] EXCEPT ![r] = {b}]
        BY <2>1, <2>2, ParamFacts DEF TypeInv, Types, Agreements
      <3>2. BA(e)!Decide(r, b)
        BY <2>1, <2>2, <3>1, ParamFacts DEF BA!Decide
      <3> QED BY <2>2, <3>2 DEF BA!Next
    <2>3. CASE ~(d = e /\ r \in Correct)
      <3>1. [s \in Correct |-> baDecided'[e][s]] = [s \in Correct |-> baDecided[e][s]]
        BY <2>1, <2>3, ParamFacts DEF TypeInv, Types, Agreements
      <3> QED BY <2>1, <3>1 DEF BA!vars
    <2> QED BY <2>2, <2>3
  <1>4. ASSUME NEW r \in Replica, HandleOngoing(r) \/ HandleWaiting(r)
        PROVE  UNCHANGED <<baInput, baDecided>>
    BY <1>4 DEF HandleOngoing, HandleWaiting, baVars
  <1> QED BY <1>1, <1>2, <1>3, <1>4, AgreementSteps

\* The replicas' use of each epoch's agreement is one BinaryAgreement allows, for all
\* parameters: none gives it a second input when it comes back to ProposingState, and
\* none reads a decision that the agreement did not make.
THEOREM EpochsAreAgreements == ASSUME NEW e \in Epoch PROVE Spec => BA(e)!Spec
  <1>1. Init => BA(e)!Init
    BY ParamFacts DEF Init, BA!Init
  <1>2. TypeInv /\ AgreeInv /\ [Next]_vars => [BA(e)!Next]_(BA(e)!vars)
    BY AgreementStep
  <1> QED BY <1>1, <1>2, AgreeAlways, PTL DEF Spec, BA!Spec

\* The broadcast of slot s of q's queue.  q runs the code, until it stops, so that it
\* counts as correct.
SlotInput(q, s) == IF Proposed(q, s) THEN proposed[q][s + 1] ELSE None
SlotOutput(r, q, s) == IF <<q, s>> \in bcDelivered[r] THEN SlotInput(q, s) ELSE None
CB(q, s) == INSTANCE ConsistentBroadcast WITH
                Value <- Batch,
                ProposerCorrect <- TRUE,
                proposal <- SlotInput(q, s),
                delivered <- [r \in Correct |-> SlotOutput(r, q, s)]

LEMMA BroadcastSteps ==
    ASSUME TypeInv, [Next]_vars
    PROVE  \/ UNCHANGED <<proposed, bcDelivered>>
           \/ \E p \in Replica, b \in Batch : TryPropose(p, b)
           \/ \E r, p \in Replica, t \in Slot : HandleVBroadcastStep(r, p, t)
  <1>1. CASE UNCHANGED vars
    BY <1>1 DEF vars
  <1>2. CASE Next
    <2>1. PICK r \in Replica :
              \/ \E b \in Batch : TryPropose(r, b)
              \/ \E q \in Replica, s \in Slot : Broadcast(r, q, s)
              \/ Agree(r)
              \/ Decide(r)
              \/ Fill(r)
              \/ Crash(r)
      BY <1>2 DEF Next
    <2>2. CASE Agree(r)
      BY <2>2 DEF Agree, HandleProposing, HandleOngoing, HandleWaiting, bcVars
    <2>3. CASE Decide(r) \/ Crash(r)
      BY <2>3 DEF Decide, DecideAgreement, Crash, bcVars
    <2>4. CASE Fill(r)
      BY <2>4 DEF Fill, HandleFillGap, HandleFiller, bcVars
    <2>5. CASE \E q \in Replica, s \in Slot : Broadcast(r, q, s)
      BY <2>5 DEF Broadcast, StartBroadcast, FinishVBroadcastStep
    <2> QED BY <2>1, <2>2, <2>3, <2>4, <2>5
  <1> QED BY <1>1, <1>2

LEMMA SlotInputs ==
    ASSUME TypeInv, NEW q \in Replica, NEW s \in Slot
    PROVE  /\ Proposed(q, s) => SlotInput(q, s) \in Batch /\ SlotInput(q, s) # None
           /\ ~Proposed(q, s) => SlotInput(q, s) = None
           /\ \A r \in Replica : <<q, s>> \in bcDelivered[r] => Proposed(q, s)
  BY StepBatch, SlotFacts DEF SlotInput, TypeInv, DeliveredProposed

\* A step of the replicas is a step of the broadcast of the slot, or none of its.
LEMMA SlotStep ==
    ASSUME NEW q \in Replica, NEW s \in Slot, TypeInv, TypeInv', [Next]_vars
    PROVE  [CB(q, s)!Next]_(CB(q, s)!vars)
  <1>1. ASSUME UNCHANGED <<proposed, bcDelivered>> PROVE UNCHANGED CB(q, s)!vars
    BY <1>1 DEF CB!vars, SlotInput, SlotOutput, Proposed
  <1>2. ASSUME NEW p \in Replica, NEW b \in Batch, TryPropose(p, b)
        PROVE  [CB(q, s)!Next]_(CB(q, s)!vars)
    <2>1. bcDelivered' = bcDelivered
      BY <1>2 DEF TryPropose
    <2>2. CASE Proposed(q, s)
      <3>1. SlotInput(q, s)' = SlotInput(q, s)
        BY <2>2, ProposedGrows DEF ProposedStays, SlotInput
      <3> QED BY <2>1, <3>1 DEF CB!vars, SlotOutput
    <2>3. CASE ~Proposed(q, s) /\ Proposed(q, s)'
      <3>1. PICK v \in Batch : v = SlotInput(q, s)'
        <4>1. proposed'[q] \in Seq(Batch) /\ s \in Nat /\ s < Len(proposed'[q])
          BY <2>3, SlotFacts DEF TypeInv, Types, Proposed
        <4>2. s + 1 \in 1 .. Len(proposed'[q])
          BY <4>1
        <4> QED BY <2>3, <4>1, <4>2 DEF SlotInput
      <3>2. \A r \in Replica : <<q, s>> \notin bcDelivered[r]
        BY <2>3, SlotInputs
      <3>3. [r \in Correct |-> SlotOutput(r, q, s)'] = [r \in Correct |-> SlotOutput(r, q, s)]
        BY <2>1, <3>2, ParamFacts DEF SlotOutput
      <3>4. CB(q, s)!Propose(v)
        BY <2>3, <3>1, <3>3, SlotInputs DEF CB!Propose
      <3> QED BY <3>4 DEF CB!Next
    <2>4. CASE ~Proposed(q, s) /\ ~Proposed(q, s)'
      <3>1. SlotInput(q, s)' = SlotInput(q, s)
        BY <2>4 DEF SlotInput
      <3> QED BY <2>1, <3>1 DEF CB!vars, SlotOutput
    <2> QED BY <2>2, <2>3, <2>4
  <1>3. ASSUME NEW r \in Replica, NEW p \in Replica, NEW t \in Slot, HandleVBroadcastStep(r, p, t)
        PROVE  [CB(q, s)!Next]_(CB(q, s)!vars)
    <2>1. /\ proposed' = proposed /\ Proposed(p, t) /\ <<p, t>> \notin bcDelivered[r]
          /\ bcDelivered' = [bcDelivered EXCEPT ![r] = @ \cup {<<p, t>>}]
      BY <1>3 DEF HandleVBroadcastStep
    <2>2. SlotInput(q, s)' = SlotInput(q, s)
      BY <2>1 DEF SlotInput, Proposed
    <2>3. \A u \in Replica : <<q, s>> \in bcDelivered'[u] <=>
              <<q, s>> \in bcDelivered[u] \/ (u = r /\ p = q /\ t = s)
      BY <2>1 DEF TypeInv, Types, Instances
    <2>4. CASE p = q /\ t = s /\ r \in Correct
      <3>1. PICK v \in Batch : v = SlotInput(q, s)
        BY <2>1, <2>4, SlotInputs
      <3>2. v # None
        BY SlotFacts
      <3>3. \A u \in Replica : SlotOutput(u, q, s)' = IF u = r THEN v ELSE SlotOutput(u, q, s)
        BY <2>2, <2>3, <2>4, <3>1 DEF SlotOutput
      <3>4. \A u \in Replica : SlotOutput(u, q, s) \in {None, v}
        BY <3>1 DEF SlotOutput
      <3>5. SlotOutput(r, q, s) = None
        BY <2>1, <2>4 DEF SlotOutput
      <3>6. [u \in Correct |-> SlotOutput(u, q, s)']
                = [[u \in Correct |-> SlotOutput(u, q, s)] EXCEPT ![r] = v]
        BY <2>4, <3>3, ParamFacts
      <3>7. CB(q, s)!Deliver(r, v)
        BY <2>2, <2>4, <3>1, <3>2, <3>4, <3>5, <3>6, ParamFacts DEF CB!Deliver
      <3> QED BY <2>4, <3>7 DEF CB!Next
    <2>5. CASE ~(p = q /\ t = s /\ r \in Correct)
      <3>1. [u \in Correct |-> SlotOutput(u, q, s)'] = [u \in Correct |-> SlotOutput(u, q, s)]
        BY <2>2, <2>3, <2>5, ParamFacts DEF SlotOutput
      <3> QED BY <2>2, <3>1 DEF CB!vars
    <2> QED BY <2>4, <2>5
  <1> QED BY <1>1, <1>2, <1>3, BroadcastSteps

\* The replicas' use of each slot's broadcast is one ConsistentBroadcast allows, for all
\* parameters: a proposer broadcasts one batch in a slot, and no replica takes a second
\* output from it or one that was not broadcast.
THEOREM SlotsAreBroadcasts ==
    ASSUME NEW q \in Replica, NEW s \in Slot PROVE Spec => CB(q, s)!Spec
  <1>1. Init => CB(q, s)!Init
    <2>1. ASSUME Init PROVE ~Proposed(q, s) /\ \A r \in Replica : bcDelivered[r] = {}
      BY <2>1, SlotFacts DEF Init, Proposed
    <2> QED BY <2>1, ParamFacts DEF CB!Init, SlotInput, SlotOutput
  <1>2. TypeInv /\ TypeInv' /\ [Next]_vars => [CB(q, s)!Next]_(CB(q, s)!vars)
    BY SlotStep
  <1> QED BY <1>1, <1>2, TypeInvAlways, PTL DEF Spec, CB!Spec
-----------------------------------------------------------------------------
(***************************************************************************)
(* Waiting.  A replica that offers true has the batch it offers; the       *)
(* batch agreed upon is then at a correct replica, in the slot where it is *)
(* the first that the waiting replica has not executed: the slot that the  *)
(* waiting replica asks for.                                               *)
(***************************************************************************)
Has(r, q, s) == queues[r][q].slots[s] # None

\* A queue keeps what was put in it, and a broadcast that ended put its batch there.
LEMMA HasEnqueued ==
    ASSUME TypeInv, QueueInv, NEW r \in Replica, NEW q \in Replica, NEW s \in Slot,
           NEW b \in Batch, Proposed(q, s), b = proposed[q][s + 1],
           NEW P, P = Enqueue(queues[r][q], s, b), NEW D \in Queue, D.slots = P.slots,
           queues' = [queues EXCEPT ![r][q] = D]
    PROVE  /\ Has(r, q, s)'
           /\ \A t, u \in Replica, v \in Slot : Has(t, u, v) => Has(t, u, v)'
  <1>1. PICK Q : Q = queues[r][q]
    OBVIOUS
  <1>2. Q \in Queue /\ HeadOk(Q) /\ Contents(q, Q)
    BY <1>1 DEF TypeInv, Types, QueueInv, QueuesOk, QueuesContents
  <1>3. P.slots[s] = b /\ \A v \in Slot : Q.slots[v] # None => P.slots[v] # None
    BY <1>1, <1>2, EnqueueContents
  <1>4. /\ queues'[r][q] = D
        /\ \A t, u \in Replica : t # r \/ u # q => queues'[t][u] = queues[t][u]
    <2>1. queues \in [Replica -> [Replica -> Queue]]
      BY DEF TypeInv, Types
    <2> QED BY <2>1
  <1>5. Has(r, q, s)'
    BY <1>3, <1>4, SlotFacts DEF Has
  <1>6. ASSUME NEW t \in Replica, NEW u \in Replica, NEW v \in Slot, Has(t, u, v)
        PROVE  Has(t, u, v)'
    BY <1>1, <1>3, <1>4, <1>6 DEF Has
  <1> QED BY <1>5, <1>6

LEMMA HasDelivered ==
    ASSUME TypeInv, QueueInv, NEW r \in Replica, NEW q \in Replica, NEW s \in Slot,
           HandleVBroadcastStep(r, q, s)
    PROVE  /\ Has(r, q, s)'
           /\ \A t, u \in Replica, v \in Slot : Has(t, u, v) => Has(t, u, v)'
  <1>1. PICK b : b = proposed[q][s + 1]
    OBVIOUS
  <1>2. PICK P : P = Enqueue(queues[r][q], s, b)
    OBVIOUS
  <1>3. Proposed(q, s)
    BY DEF HandleVBroadcastStep
  <1>4. b \in Batch
    BY <1>1, <1>3, StepBatch
  <1>5. P \in Queue
    <2>1. queues[r][q] \in Queue
      BY DEF TypeInv, Types
    <2> QED BY <1>2, <1>4, <2>1, EnqueueFields
  <1>6. PICK D : D = Dedupe(r, P, b, s)
    OBVIOUS
  <1>7. D \in Queue /\ D.slots = P.slots
    BY <1>4, <1>5, <1>6, DedupeFields
  <1>8. CASE queues' = [queues EXCEPT ![r][q] = D]
    BY <1>1, <1>2, <1>3, <1>4, <1>7, <1>8, HasEnqueued
  <1>9. CASE queues' = [queues EXCEPT ![r][q] = P]
    BY <1>1, <1>2, <1>3, <1>4, <1>5, <1>9, HasEnqueued
  <1> QED BY <1>1, <1>2, <1>6, <1>8, <1>9 DEF HandleVBroadcastStep

LEMMA HasFinished ==
    ASSUME TypeInv, QueueInv, NEW r \in Replica, NEW q \in Replica, NEW s \in Slot,
           FinishVBroadcastStep(r, q, s)
    PROVE  \A t, u \in Replica, v \in Slot : Has(t, u, v) => Has(t, u, v)'
  <1>1. PICK b : b = proposed[q][s + 1]
    OBVIOUS
  <1>2. PICK Q : Q = queues[r][q]
    OBVIOUS
  <1>3. PICK D : D = Dedupe(r, Q, b, s)
    OBVIOUS
  <1>4. Contents(q, Q) /\ Q.slots[s] # None
    BY <1>2 DEF QueueInv, QueuesContents, HalfThere, FinishVBroadcastStep
  <1>5. Q \in Queue
    BY <1>2 DEF TypeInv, Types
  <1>6. b \in Batch
    BY <1>1, <1>4, StepBatch DEF Contents
  <1>7. D \in Queue /\ D.slots = Q.slots
    BY <1>3, <1>5, <1>6, DedupeFields
  <1>8. queues' = [queues EXCEPT ![r][q] = D]
    BY <1>1, <1>2, <1>3 DEF FinishVBroadcastStep
  <1>9. /\ queues'[r][q] = D
        /\ \A t, u \in Replica : t # r \/ u # q => queues'[t][u] = queues[t][u]
    <2>1. queues \in [Replica -> [Replica -> Queue]]
      BY DEF TypeInv, Types
    <2> QED BY <1>8, <2>1
  <1> QED BY <1>2, <1>7, <1>9 DEF Has

LEMMA HasFilled ==
    ASSUME TypeInv, QueueInv, NEW r \in Replica, NEW q \in Replica, NEW s \in Slot,
           NEW b \in Batch, HandleFiller(r, q, s, b)
    PROVE  /\ Benchmark => Has(r, q, s)'
           /\ \A t, u \in Replica, v \in Slot : Has(t, u, v) => Has(t, u, v)'
  <1>1. Proposed(q, s) /\ b = proposed[q][s + 1]
    BY DEF HandleFiller, QueueInv, FillersContents
  <1>2. PICK P : P = Enqueue(queues[r][q], s, b)
    OBVIOUS
  <1>3. P \in Queue
    <2>1. queues[r][q] \in Queue
      BY DEF TypeInv, Types
    <2> QED BY <1>2, <2>1, EnqueueFields
  <1>4. CASE Benchmark /\ ~Present(queues[r][q], s)
    <2>1. queues' = [queues EXCEPT ![r][q] = P]
      BY <1>2, <1>4 DEF HandleFiller
    <2> QED BY <1>1, <1>2, <1>3, <2>1, HasEnqueued
  <1>5. CASE ~(Benchmark /\ ~Present(queues[r][q], s))
    BY <1>5 DEF HandleFiller, Present, Has
  <1> QED BY <1>4, <1>5

LEMMA HasStays ==
    ASSUME TypeInv, QueueInv, [Next]_vars, NEW t \in Replica, NEW u \in Replica,
           NEW v \in Slot, Has(t, u, v)
    PROVE  Has(t, u, v)'
  <1>1. ASSUME UNCHANGED queues PROVE Has(t, u, v)'
    BY <1>1 DEF Has
  <1>2. CASE UNCHANGED vars
    BY <1>1, <1>2 DEF vars
  <1>3. CASE Next
    <2>1. PICK r \in Replica :
              \/ \E b \in Batch : TryPropose(r, b)
              \/ \E q \in Replica, s \in Slot : Broadcast(r, q, s)
              \/ Agree(r)
              \/ Decide(r)
              \/ Fill(r)
              \/ Crash(r)
      BY <1>3 DEF Next
    <2>2. CASE \/ \E b \in Batch : TryPropose(r, b)
               \/ \E q \in Replica, s \in Slot : StartBroadcast(r, q, s)
               \/ HandleProposing(r) \/ HandleOngoing(r) \/ Decide(r) \/ Crash(r)
      BY <1>1, <2>2 DEF TryPropose, StartBroadcast, HandleProposing, HandleOngoing, Decide,
                        DecideAgreement, Crash
    <2>3. CASE \E q \in Replica, s \in Slot : HandleVBroadcastStep(r, q, s)
      BY <2>3, HasDelivered
    <2>4. CASE \E q \in Replica, s \in Slot : FinishVBroadcastStep(r, q, s)
      BY <2>4, HasFinished
    <2>5. CASE HandleWaiting(r)
      BY <2>5, SlotsKept DEF Has
    <2>6. CASE Fill(r)
      <3>1. CASE \E p \in Replica, q \in Replica, s \in 0 .. MaxSlot + 1 :
                     HandleFillGap(p, r, q, s)
        BY <1>1, <3>1 DEF HandleFillGap
      <3>2. CASE \E q \in Replica, s \in Slot, b \in Batch : HandleFiller(r, q, s, b)
        BY <3>2, HasFilled
      <3> QED BY <2>6, <3>1, <3>2, FillSteps
    <2> QED BY <2>1, <2>2, <2>3, <2>4, <2>5, <2>6 DEF Broadcast, Agree
  <1> QED BY <1>2, <1>3

\* A replica offers true with the first batch of the leader that is not in its log
\* before the epoch, and has it in its queue; what a broadcast delivered is there.
BatchesBefore(L, e) == {c \in Batch : \E i \in 1 .. Len(L) : L[i].epoch < e /\ L[i].batch = c}
Backs(s, e, g, b) == /\ FirstAt(Leader(e), g, b, BatchesBefore(log[s], e))
                     /\ Has(s, Leader(e), g)
TrueInput == \A e \in Epoch, s \in Replica :
    TRUE \in baInput[e][s] => \E g \in Slot, b \in Batch : Backs(s, e, g, b)
DeliveredThere == \A r, q \in Replica, s \in Slot : <<q, s>> \in bcDelivered[r] => Has(r, q, s)
OfferInv == TrueInput /\ DeliveredThere

\* Later entries of the log do not change what it has before an epoch.
LEMMA BatchesBeforeAppended ==
    ASSUME NEW L \in Seq(Block), NEW B \in Block, NEW e \in Nat, e <= B.epoch,
           NEW M, M = Append(L, B)
    PROVE  BatchesBefore(M, e) = BatchesBefore(L, e)
  <1>1. /\ Len(L) \in Nat /\ Len(M) = Len(L) + 1 /\ M[Len(L) + 1] = B
        /\ \A i \in 1 .. Len(L) : M[i] = L[i]
    BY AppendFacts
  <1>2. B.epoch \in Nat
    BY ParamFacts DEF Block
  <1>3. \A i \in 1 .. Len(M) : i = Len(L) + 1 \/ i \in 1 .. Len(L)
    BY <1>1
  <1>4. \A i \in 1 .. Len(L) : i \in 1 .. Len(M)
    BY <1>1
  <1>5. ~(B.epoch < e)
    BY <1>2
  <1>6. ASSUME NEW c
        PROVE  (\E i \in 1 .. Len(M) : M[i].epoch < e /\ M[i].batch = c)
                   <=> (\E i \in 1 .. Len(L) : L[i].epoch < e /\ L[i].batch = c)
    BY <1>1, <1>3, <1>4, <1>5
  <1> QED BY <1>6 DEF BatchesBefore

\* All of the log is before the epoch a replica is in.
LEMMA AllBefore ==
    ASSUME TypeInv, OrderInv, NEW r \in Replica
    PROVE  executed[r] = BatchesBefore(log[r], epoch[r])
  <1>1. PICK L \in Seq(Block) : L = log[r]
    BY NatFacts
  <1>2. PICK e : e = epoch[r]
    OBVIOUS
  <1>3. executed[r] = {L[j].batch : j \in 1 .. Len(L)}
    <2>1. Len(L) \in Nat
      OBVIOUS
    <2>2. 1 .. (Len(L) + 1) - 1 = 1 .. Len(L)
      BY <2>1
    <2>3. executed[r] = Before(L, Len(L) + 1)
      BY <1>1 DEF OrderInv, Executes
    <2> QED BY <2>2, <2>3 DEF Before
  <1>4. \A i \in 1 .. Len(L) : L[i].epoch < e /\ L[i].batch \in Batch
    BY <1>1, <1>2, BlockFacts DEF OrderInv, LogsEarlier, Earlier
  <1>5. BatchesBefore(L, e) = {L[j].batch : j \in 1 .. Len(L)}
    BY <1>4 DEF BatchesBefore
  <1> QED BY <1>1, <1>2, <1>3, <1>5

\* A log that is behind another has what the other has before the epoch.
LEMMA BehindBefore ==
    ASSUME NEW L \in Seq(Block), NEW M \in Seq(Block), NEW e \in Nat, Behind(L, M, e),
           Earlier(L, e)
    PROVE  BatchesBefore(M, e) = BatchesBefore(L, e)
  <1>1. Len(L) \in Nat /\ Len(M) \in Nat /\ Len(L) <= Len(M)
    BY DEF Behind
  <1>2. \A i \in 1 .. Len(L) : i \in 1 .. Len(M)
    BY <1>1
  <1>3. \A i \in 1 .. Len(L) : L[i].epoch = M[i].epoch /\ L[i].batch = M[i].batch
    BY DEF Behind, Same
  <1>4. ASSUME NEW i \in 1 .. Len(M), M[i].epoch < e
        PROVE  i \in 1 .. Len(L)
    <2> SUFFICES ASSUME i > Len(L) PROVE FALSE
      BY <1>1
    <2>1. M[i].epoch >= e /\ M[i].epoch \in Nat
      BY BlockFacts DEF Behind
    <2> QED BY <1>4, <2>1
  <1>5. ASSUME NEW c
        PROVE  (\E i \in 1 .. Len(M) : M[i].epoch < e /\ M[i].batch = c)
                   <=> (\E i \in 1 .. Len(L) : L[i].epoch < e /\ L[i].batch = c)
    BY <1>2, <1>3, <1>4
  <1> QED BY <1>5 DEF BatchesBefore

LEMMA LogSteps ==
    ASSUME TypeInv, [Next]_vars, NEW s \in Replica
    PROVE  \/ log'[s] = log[s]
           \/ \E B \in Block : log'[s] = Append(log[s], B) /\ B.epoch = epoch[s]
  <1>1. log' = log \/ \E r \in Replica : HandleWaiting(r)
    <2>1. \A r, q, v : Broadcast(r, q, v) => log' = log
      BY DEF Broadcast, StartBroadcast, HandleVBroadcastStep, FinishVBroadcastStep
    <2>2. \A r : Agree(r) => log' = log \/ HandleWaiting(r)
      BY DEF Agree, HandleProposing, HandleOngoing
    <2>3. \A r : Decide(r) => log' = log
      BY DEF Decide, DecideAgreement
    <2>4. \A r, t, q, v : HandleFillGap(r, t, q, v) => log' = log
      BY DEF HandleFillGap
    <2>5. \A r, q, v, b : HandleFiller(r, q, v, b) => log' = log
      BY DEF HandleFiller
    <2>6. \A r : Fill(r) => log' = log
      BY <2>4, <2>5 DEF Fill
    <2>7. \A r, b : Crash(r) \/ TryPropose(r, b) => log' = log
      BY DEF Crash, TryPropose
    <2>8. UNCHANGED vars => log' = log
      BY DEF vars
    <2> QED BY <2>1, <2>2, <2>3, <2>6, <2>7, <2>8 DEF Next
  <1>2. ASSUME NEW r \in Replica, HandleWaiting(r)
        PROVE  \/ log'[s] = log[s]
               \/ \E B \in Block : log'[s] = Append(log[s], B) /\ B.epoch = epoch[s]
    <2>1. PICK b \in Batch, o \in Order : Delivers(r, b, o)
      BY <1>2, HandleWaitingDoes
    <2>2. PICK B \in Block : B = [epoch |-> epoch[r], batch |-> b, order |-> o]
      BY <2>1 DEF Block, Delivers
    <2>3. log' = [log EXCEPT ![r] = Append(@, B)]
      BY <2>1, <2>2 DEF Delivers
    <2>4. B.epoch = epoch[r]
      BY <2>2
    <2>5. \/ s = r /\ log'[s] = Append(log[s], B)
          \/ log'[s] = log[s]
      BY <2>3 DEF TypeInv, Types
    <2> QED BY <2>4, <2>5
  <1> QED BY <1>1, <1>2

LEMMA BacksStays ==
    ASSUME TypeInv, QueueInv, [Next]_vars, NEW s \in Replica, NEW e \in Epoch,
           e <= epoch[s], NEW g \in Slot, NEW b \in Batch, Backs(s, e, g, b)
    PROVE  Backs(s, e, g, b)'
  <1>1. PICK q \in Replica : q = Leader(e)
    BY ParamFacts
  <1>2. PICK E : E = BatchesBefore(log[s], e)
    OBVIOUS
  <1>3. FirstAt(q, g, b, E) /\ Has(s, q, g)
    BY <1>1, <1>2 DEF Backs
  <1>4. Has(s, q, g)'
    BY <1>3, HasStays
  <1>5. FirstAt(q, g, b, E)'
    BY <1>3, ProposedGrows, FirstAtStays
  <1>6. BatchesBefore(log'[s], e) = E
    <2>1. CASE log'[s] = log[s]
      BY <1>2, <2>1
    <2>2. CASE \E B \in Block : log'[s] = Append(log[s], B) /\ B.epoch = epoch[s]
      <3>1. PICK B \in Block : log'[s] = Append(log[s], B) /\ B.epoch = epoch[s]
        BY <2>2
      <3>2. PICK M : M = log'[s]
        OBVIOUS
      <3>3. PICK L \in Seq(Block) : L = log[s]
        BY NatFacts
      <3>4. e \in Nat
        BY ParamFacts
      <3>5. BatchesBefore(M, e) = BatchesBefore(L, e)
        BY <3>1, <3>2, <3>3, <3>4, BatchesBeforeAppended
      <3> QED BY <1>2, <3>2, <3>3, <3>5
    <2> QED BY <2>1, <2>2, LogSteps
  <1>7. FirstAt(q, g, b, BatchesBefore(log[s], e))'
    <2>1. BatchesBefore(log[s], e)' = E
      BY <1>6 DEF BatchesBefore
    <2> QED BY <1>5, <2>1 DEF FirstAt
  <1> QED BY <1>1, <1>4, <1>7 DEF Backs

\* The replica that gives the input true.
LEMMA OffersHead ==
    ASSUME TypeInv, QueueInv, LiveInv, OrderInv, NEW r \in Replica, HandleProposing(r),
           Peek(HeadQueue(r))
    PROVE  \E g \in Slot, b \in Batch : Backs(r, epoch[r], g, b)'
  <1>1. epoch[r] \in Epoch /\ UNCHANGED <<queues, proposed, epoch, log>>
    BY DEF HandleProposing
  <1>2. PICK q \in Replica : q = Leader(epoch[r])
    BY <1>1, ParamFacts
  <1>3. PICK Q \in Queue : Q = queues[r][q]
    BY DEF TypeInv, Types
  <1>4. PICK g \in Slot : g = Q.head /\ Q.slots[g] # None
    BY <1>2, <1>3 DEF Peek, Present, HeadQueue
  <1>5. PICK b \in Batch : b = Q.slots[g]
    BY <1>3, <1>4 DEF Queue
  <1>6. FirstAt(q, g, b, executed[r])
    BY <1>3, <1>4, <1>5, HeadFirstAt
  <1>7. FirstAt(q, g, b, BatchesBefore(log[r], epoch[r]))
    BY <1>6, AllBefore
  <1>8. Has(r, q, g)
    BY <1>3, <1>4 DEF Has
  <1>9. Backs(r, epoch[r], g, b)
    BY <1>2, <1>7, <1>8 DEF Backs
  <1>10. Backs(r, epoch[r], g, b)'
    BY <1>1, <1>9 DEF Backs, FirstAt, Proposed, Has, BatchesBefore
  <1> QED BY <1>10

LEMMA OfferStep ==
    ASSUME TypeInv, QueueInv, LiveInv, OrderInv, AgreeInv, OfferInv, [Next]_vars
    PROVE  OfferInv'
  <1>1. TrueInput'
    <2> SUFFICES ASSUME NEW e \in Epoch, NEW s \in Replica, TRUE \in baInput'[e][s]
                 PROVE  \E g \in Slot, b \in Batch : Backs(s, e, g, b)'
      BY DEF TrueInput
    <2>1. CASE TRUE \in baInput[e][s]
      <3>1. PICK g \in Slot, b \in Batch : Backs(s, e, g, b)
        BY <2>1 DEF OfferInv, TrueInput
      <3>2. e \in Nat /\ epoch[s] \in Nat /\ (e < epoch[s] \/ e = epoch[s])
        BY <2>1, ParamFacts, NatFacts DEF AgreeInv, InputOnce
      <3>3. e <= epoch[s]
        BY <3>2
      <3>4. Backs(s, e, g, b)'
        BY <3>1, <3>3, BacksStays
      <3> QED BY <3>4
    <2>2. CASE TRUE \notin baInput[e][s]
      <3>1. PICK r \in Replica : HandleProposing(r)
        BY <2>2, AgreementSteps DEF DecideAgreement, HandleOngoing, HandleWaiting, baVars
      <3>2. PICK c : c = Peek(HeadQueue(r))
        OBVIOUS
      <3>3. epoch[r] \in Epoch /\ baInput' = [baInput EXCEPT ![epoch[r]][r] = {c}]
        BY <3>1, <3>2, GivesInput
      <3>4. s = r /\ e = epoch[r] /\ c = TRUE
        BY <2>2, <3>3 DEF TypeInv, Types, Agreements
      <3>5. \E g \in Slot, b \in Batch : Backs(r, epoch[r], g, b)'
        BY <3>1, <3>2, <3>4, OffersHead
      <3>6. epoch' = epoch
        BY <3>1 DEF HandleProposing
      <3> QED BY <3>4, <3>5, <3>6
    <2> QED BY <2>1, <2>2
  <1>2. DeliveredThere'
    <2> SUFFICES ASSUME NEW r \in Replica, NEW q \in Replica, NEW s \in Slot,
                        <<q, s>> \in bcDelivered'[r]
                 PROVE  Has(r, q, s)'
      BY DEF DeliveredThere
    <2>1. CASE <<q, s>> \in bcDelivered[r]
      BY <2>1, HasStays DEF OfferInv, DeliveredThere
    <2>2. CASE <<q, s>> \notin bcDelivered[r]
      <3>1. bcDelivered' # bcDelivered
        BY <2>2
      <3>2. PICK t, u \in Replica, v \in Slot : HandleVBroadcastStep(t, u, v)
        BY <3>1, BroadcastSteps DEF TryPropose
      <3>3. t = r /\ u = q /\ v = s
        BY <2>2, <3>2 DEF HandleVBroadcastStep, TypeInv, Types, Instances
      <3> QED BY <3>2, <3>3, HasDelivered
    <2> QED BY <2>1, <2>2
  <1> QED BY <1>1, <1>2 DEF OfferInv

LEMMA OfferInit == Init => OfferInv
  BY DEF Init, OfferInv, TrueInput, DeliveredThere

\* When the agreement of the epoch of r ended with true, a correct replica has the
\* batch, in the slot of the first batch that r has not executed.
LEMMA SomebodyHas ==
    ASSUME TypeInv, OrderInv, AgreeInv, OfferInv, NEW r \in Replica, NEW e \in Epoch,
           e = epoch[r], TRUE \in baDecided[e][r], NEW q, q = Leader(e)
    PROVE  \E s \in Correct, g \in Slot, b \in Batch :
               FirstAt(q, g, b, executed[r]) /\ Has(s, q, g)
  <1>1. PICK s \in Correct : TRUE \in baInput[e][s]
    BY DEF AgreeInv, DecidedInput
  <1>2. s \in Replica
    BY DEF Correct
  <1>3. PICK g \in Slot, b \in Batch : Backs(s, e, g, b)
    BY <1>1, <1>2 DEF OfferInv, TrueInput
  <1>4. e \in Nat /\ epoch[s] \in Nat
    BY <1>2, ParamFacts, NatFacts
  <1>5. epoch[r] <= epoch[s]
    <2>1. e < epoch[s] \/ e = epoch[s]
      BY <1>1, <1>2 DEF AgreeInv, InputOnce
    <2> QED BY <1>4, <2>1
  <1>6. PICK L \in Seq(Block), M \in Seq(Block) : L = log[r] /\ M = log[s]
    BY <1>2, NatFacts
  <1>7. Behind(L, M, e) /\ Earlier(L, e)
    BY <1>2, <1>5, <1>6 DEF OrderInv, Prefix, LogsEarlier
  <1>8. BatchesBefore(M, e) = BatchesBefore(L, e)
    BY <1>4, <1>7, BehindBefore
  <1>9. executed[r] = BatchesBefore(L, e)
    BY <1>6, AllBefore
  <1> QED BY <1>3, <1>6, <1>8, <1>9 DEF Backs

\* The head of the queue is the slot of the first batch that was not executed, if the
\* slots before it are there.
LEMMA HeadIs ==
    ASSUME TypeInv, QueueInv, LiveInv, NEW r \in Replica, NEW q \in Replica, NEW g \in Slot,
           NEW b, FirstAt(q, g, b, executed[r]), \A t \in Slot : t < g => Has(r, q, t)
    PROVE  queues[r][q].head = g
  <1>1. PICK Q \in Queue : Q = queues[r][q]
    BY DEF TypeInv, Types
  <1>2. HeadOk(Q) /\ Contents(q, Q) /\ Marks(Q, executed[r])
    BY <1>1 DEF QueueInv, QueuesOk, QueuesContents, LiveInv, Marking
  <1>3. PICK h : h = Q.head
    OBVIOUS
  <1>4. h \in Nat /\ g \in Nat
    BY <1>3, SlotFacts DEF Queue
  <1>5. ~(h < g)
    <2> SUFFICES ASSUME h < g PROVE FALSE
      OBVIOUS
    <2>1. h \in Slot
      BY <1>4, SlotFacts
    <2>2. Q.slots[h] # None
      BY <1>1, <2>1 DEF Has
    <2>3. Q.slots[h] = proposed[q][h + 1] /\ proposed[q][h + 1] \in executed[r]
      BY <1>2, <2>1, <2>2 DEF Contents, FirstAt
    <2>4. h \in Q.removed
      BY <1>2, <2>1, <2>2, <2>3 DEF Marks
    <2> QED BY <1>2, <1>3, <2>4 DEF HeadOk
  <1>6. ~(g < h)
    <2> SUFFICES ASSUME g < h PROVE FALSE
      OBVIOUS
    <2>1. g \in 0 .. Q.head - 1
      BY <1>3, <1>4
    <2>2. g \in Q.removed /\ Q.slots[g] # None
      BY <1>2, <2>1 DEF HeadOk
    <2>3. Q.slots[g] = b
      BY <1>2, <2>2 DEF Contents, FirstAt
    <2> QED BY <1>2, <2>2, <2>3 DEF Marks, FirstAt
  <1> QED BY <1>1, <1>3, <1>4, <1>5, <1>6

\* What was executed is there, if no batch is submitted again.
LEMMA ExecutedThere ==
    ASSUME Repeats = "never", TypeInv, QueueInv, LiveInv, NEW r \in Replica, NEW q \in Replica,
           NEW g \in Slot, NEW b, FirstAt(q, g, b, executed[r]), NEW t \in Slot, t < g
    PROVE  Has(r, q, t)
  <1>1. Proposed(q, t)
    <2>1. proposed[q] \in Seq(Batch) /\ g \in Nat /\ t \in Nat
      BY SlotFacts DEF TypeInv, Types
    <2>2. g < Len(proposed[q]) /\ Len(proposed[q]) \in Nat
      BY <2>1 DEF FirstAt, Proposed
    <2> QED BY <2>1, <2>2 DEF Proposed
  <1>2. PICK c : c = proposed[q][t + 1]
    OBVIOUS
  <1>3. c \in executed[r]
    BY <1>2 DEF FirstAt
  <1>4. queues[r][q].slots[t] = None => c \notin executed[r]
    BY <1>1, <1>2, NeverExecuted
  <1> QED BY <1>3, <1>4 DEF Has

\* A waiting replica has the batch, or a correct replica that has it was asked and has
\* not answered yet, or the answer is on its way.
Coming(r, q, g) == \/ Has(r, q, g)
                   \/ \E t \in Correct : <<r, t, q, g>> \in fillGaps /\ Has(t, q, g)
                   \/ \E c \in Batch : <<r, q, g, c>> \in fillers
AskedFor(r, q) == \E g \in Slot, b \in Batch : FirstAt(q, g, b, executed[r]) /\ Coming(r, q, g)
Asked == Benchmark => \A r \in Replica : mode[r] = "waiting" => AskedFor(r, Leader(epoch[r]))

LEMMA MessageSteps ==
    ASSUME TypeInv, [Next]_vars
    PROVE  \/ fillGaps \subseteq fillGaps' /\ fillers' = fillers
           \/ \E r, t, q \in Replica, s \in 0 .. MaxSlot + 1 : HandleFillGap(r, t, q, s)
           \/ \E r, q \in Replica, s \in Slot, b \in Batch : HandleFiller(r, q, s, b)
  <1>1. CASE UNCHANGED vars
    BY <1>1 DEF vars
  <1>2. CASE Next
    <2>1. PICK r \in Replica :
              \/ \E b \in Batch : TryPropose(r, b)
              \/ \E q \in Replica, s \in Slot : Broadcast(r, q, s)
              \/ Agree(r)
              \/ Decide(r)
              \/ Fill(r)
              \/ Crash(r)
      BY <1>2 DEF Next
    <2>2. CASE (\E b \in Batch : TryPropose(r, b)) \/ Decide(r) \/ Crash(r)
      BY <2>2 DEF TryPropose, Decide, DecideAgreement, Crash, fillVars
    <2>3. CASE \E q \in Replica, s \in Slot : Broadcast(r, q, s)
      BY <2>3 DEF Broadcast, StartBroadcast, HandleVBroadcastStep, FinishVBroadcastStep, fillVars
    <2>4. CASE Agree(r)
      <3>1. CASE HandleProposing(r) \/ HandleWaiting(r)
        BY <3>1 DEF HandleProposing, HandleWaiting, fillVars
      <3>2. CASE HandleOngoing(r)
        BY <3>2 DEF HandleOngoing
      <3> QED BY <2>4, <3>1, <3>2 DEF Agree
    <2>5. CASE Fill(r)
      BY <2>5, FillSteps
    <2> QED BY <2>1, <2>2, <2>3, <2>4, <2>5
  <1> QED BY <1>1, <1>2

\* No step loses what is coming: a replica that has a batch answers with it, whether
\* it has removed it since or not, and the answer is accepted.
LEMMA ComingStays ==
    ASSUME Benchmark, TypeInv, QueueInv, [Next]_vars, NEW r \in Replica, NEW q \in Replica,
           NEW g \in Slot, Coming(r, q, g)
    PROVE  Coming(r, q, g)'
  <1>1. CASE Has(r, q, g)
    BY <1>1, HasStays DEF Coming
  <1>2. CASE \E t \in Correct : <<r, t, q, g>> \in fillGaps /\ Has(t, q, g)
    <2>1. PICK t \in Correct : <<r, t, q, g>> \in fillGaps /\ Has(t, q, g)
      BY <1>2
    <2>2. t \in Replica
      BY DEF Correct
    <2>3. Has(t, q, g)'
      BY <2>1, <2>2, HasStays
    <2>4. CASE <<r, t, q, g>> \in fillGaps'
      BY <2>3, <2>4 DEF Coming, Correct
    <2>5. CASE <<r, t, q, g>> \notin fillGaps'
      <3>1. PICK p, u, w \in Replica, v \in 0 .. MaxSlot + 1 : HandleFillGap(p, u, w, v)
        BY <2>1, <2>5, MessageSteps DEF HandleFiller
      <3>2. p = r /\ u = t /\ w = q /\ v = g
        BY <2>1, <2>5, <3>1 DEF HandleFillGap
      <3>3. PICK c : c = queues[t][q].slots[g]
        OBVIOUS
      <3>4. c \in Batch
        <4>1. queues[t][q] \in Queue
          BY <2>2 DEF TypeInv, Types
        <4> QED BY <2>1, <3>3, <4>1 DEF Has, Queue
      <3>5. <<r, q, g, c>> \in fillers'
        BY <2>1, <3>1, <3>2, <3>3 DEF HandleFillGap, Present, Has
      <3> QED BY <3>4, <3>5 DEF Coming
    <2> QED BY <2>4, <2>5
  <1>3. CASE \E c \in Batch : <<r, q, g, c>> \in fillers
    <2>1. PICK c \in Batch : <<r, q, g, c>> \in fillers
      BY <1>3
    <2>2. CASE <<r, q, g, c>> \in fillers'
      BY <2>2 DEF Coming
    <2>3. CASE <<r, q, g, c>> \notin fillers'
      <3>1. PICK p, w \in Replica, v \in Slot, d \in Batch : HandleFiller(p, w, v, d)
        BY <2>1, <2>3, MessageSteps DEF HandleFillGap
      <3>2. p = r /\ w = q /\ v = g
        BY <2>1, <2>3, <3>1 DEF HandleFiller
      <3>3. Has(r, q, g)'
        BY <3>1, <3>2, HasFilled
      <3> QED BY <3>3 DEF Coming
    <2> QED BY <2>2, <2>3
  <1> QED BY <1>1, <1>2, <1>3 DEF Coming

\* A replica that enters WaitingState asks for the slot that it needs.
LEMMA AsksFor ==
    ASSUME Repeats = "never", TypeInv, QueueInv, LiveInv, OrderInv, AgreeInv, OfferInv,
           [Next]_vars, NEW r \in Replica, NEW e \in Epoch, e = epoch[r],
           HandleOngoing(r), TRUE \in baDecided[e][r], NEW q \in Replica, q = Leader(e)
    PROVE  AskedFor(r, q)'
  <1>1. PICK s \in Correct, g \in Slot, b \in Batch :
            FirstAt(q, g, b, executed[r]) /\ Has(s, q, g)
    BY SomebodyHas
  <1>2. s \in Replica
    BY DEF Correct
  <1>3. queues[r][q].head = g
    BY <1>1, ExecutedThere, HeadIs
  <1>4. UNCHANGED <<proposed, executed, queues>>
    BY DEF HandleOngoing
  <1>5. fillGaps' = IF Peek(queues[r][q]) THEN fillGaps
                    ELSE fillGaps \cup ({r} \X Replica \X {q} \X {g})
    BY <1>3 DEF HandleOngoing, HeadQueue
  <1>6. CASE Has(r, q, g)
    BY <1>1, <1>4, <1>6 DEF AskedFor, Coming, FirstAt, Proposed, Has
  <1>7. CASE ~Has(r, q, g)
    <2>1. <<r, s, q, g>> \in fillGaps'
      BY <1>2, <1>3, <1>5, <1>7 DEF Peek, Present, Has
    <2>2. Coming(r, q, g)'
      BY <1>1, <1>4, <2>1 DEF Coming, Correct, Has
    <2>3. FirstAt(q, g, b, executed[r])'
      BY <1>1, <1>4 DEF FirstAt, Proposed
    <2> QED BY <2>2, <2>3 DEF AskedFor
  <1> QED BY <1>6, <1>7

LEMMA WaitingSteps ==
    ASSUME TypeInv, [Next]_vars, NEW r \in Replica, mode'[r] = "waiting"
    PROVE  /\ epoch'[r] = epoch[r]
           /\ \/ mode[r] = "waiting" /\ executed'[r] = executed[r]
              \/ HandleOngoing(r) /\ TRUE \in baDecided[epoch[r]][r]
  <1>1. ASSUME UNCHANGED <<epoch, mode, executed>>
        PROVE  epoch'[r] = epoch[r] /\ mode[r] = "waiting" /\ executed'[r] = executed[r]
    BY <1>1
  <1>2. CASE UNCHANGED vars
    BY <1>1, <1>2 DEF vars
  <1>3. CASE Next
    <2>1. PICK t \in Replica :
              \/ \E b \in Batch : TryPropose(t, b)
              \/ \E q \in Replica, s \in Slot : Broadcast(t, q, s)
              \/ Agree(t)
              \/ Decide(t)
              \/ Fill(t)
              \/ Crash(t)
      BY <1>3 DEF Next
    <2>2. CASE (\E b \in Batch : TryPropose(t, b)) \/ Decide(t) \/ Crash(t)
      BY <1>1, <2>2 DEF TryPropose, Decide, DecideAgreement, Crash, stateVars
    <2>3. CASE \E q \in Replica, s \in Slot : Broadcast(t, q, s)
      BY <1>1, <2>3 DEF Broadcast, StartBroadcast, HandleVBroadcastStep, FinishVBroadcastStep,
                        stateVars
    <2>4. CASE Fill(t)
      BY <1>1, <2>4 DEF Fill, HandleFillGap, HandleFiller, stateVars
    <2>5. CASE HandleProposing(t)
      BY <2>5 DEF HandleProposing, TypeInv, Types
    <2>6. CASE HandleOngoing(t)
      BY <2>6 DEF HandleOngoing, TypeInv, Types
    <2>7. CASE HandleWaiting(t)
      BY <2>7 DEF HandleWaiting, TypeInv, Types
    <2> QED BY <2>1, <2>2, <2>3, <2>4, <2>5, <2>6, <2>7 DEF Agree
  <1> QED BY <1>2, <1>3

LEMMA AskedStep ==
    ASSUME Orderly, TypeInv, QueueInv, LiveInv, OrderInv, AgreeInv, OfferInv, Asked,
           [Next]_vars
    PROVE  Asked'
  <1> SUFFICES ASSUME Benchmark, NEW r \in Replica, mode'[r] = "waiting"
               PROVE  AskedFor(r, Leader(epoch[r]))'
    BY DEF Asked
  <1>1. /\ epoch'[r] = epoch[r]
        /\ \/ mode[r] = "waiting" /\ executed'[r] = executed[r]
           \/ HandleOngoing(r) /\ TRUE \in baDecided[epoch[r]][r]
    BY WaitingSteps
  <1>2. PICK e \in Epoch : e = epoch[r]
    BY <1>1 DEF TypeInv, InEpoch, HandleOngoing
  <1>3. PICK q \in Replica : q = Leader(e)
    BY ParamFacts
  <1>4. AskedFor(r, q)'
    <2>1. CASE mode[r] = "waiting" /\ executed'[r] = executed[r]
      <3>1. PICK g \in Slot, b \in Batch : FirstAt(q, g, b, executed[r]) /\ Coming(r, q, g)
        BY <1>2, <1>3, <2>1 DEF Asked, AskedFor
      <3>2. PICK E : E = executed[r]
        OBVIOUS
      <3>3. FirstAt(q, g, b, E)'
        BY <3>1, <3>2, ProposedGrows, FirstAtStays
      <3>4. FirstAt(q, g, b, executed[r])'
        BY <2>1, <3>2, <3>3 DEF FirstAt
      <3>5. Coming(r, q, g)'
        BY <3>1, ComingStays
      <3> QED BY <3>4, <3>5 DEF AskedFor
    <2>2. CASE HandleOngoing(r) /\ TRUE \in baDecided[epoch[r]][r]
      BY <1>2, <1>3, <2>2, AsksFor DEF Orderly
    <2> QED BY <1>1, <2>1, <2>2
  <1>5. Leader(epoch[r])' = q
    BY <1>1, <1>2, <1>3 DEF Leader
  <1> QED BY <1>4, <1>5

LEMMA AskedInit == Init => Asked
  BY DEF Init, Asked

\* At rest, the first batch that was not executed is at the head of the leader's queue.
LEMMA RestHead ==
    ASSUME Orderly, Faulty = {} \/ Benchmark, TypeInv, QueueInv, LiveInv, OrderInv, AgreeInv,
           OfferInv, Asked, AtRest
    PROVE  \A r \in Correct : mode[r] # "waiting"
  <1> SUFFICES ASSUME NEW r \in Correct, mode[r] = "waiting" PROVE FALSE
    OBVIOUS
  <1>1. r \in Replica
    BY DEF Correct
  <1>2. PICK e \in Epoch : e = epoch[r]
    BY <1>1 DEF TypeInv, InEpoch
  <1>3. PICK q \in Replica : q = Leader(e)
    BY ParamFacts
  <1>4. \E g \in Slot, b \in Batch : /\ FirstAt(q, g, b, executed[r]) /\ Has(r, q, g)
                                     /\ \A t \in Slot : t < g => Has(r, q, t)
    <2>1. CASE Benchmark
      <3>1. PICK g \in Slot, b \in Batch : FirstAt(q, g, b, executed[r]) /\ Coming(r, q, g)
        BY <1>1, <1>2, <1>3, <2>1 DEF Asked, AskedFor
      <3>2. \A t \in Correct : <<r, t, q, g>> \notin fillGaps
        BY DEF AtRest
      <3>3. \A c \in Batch : <<r, q, g, c>> \notin fillers
        BY DEF AtRest
      <3>4. Has(r, q, g)
        BY <3>1, <3>2, <3>3 DEF Coming
      <3>5. Repeats = "never"
        BY <2>1 DEF Orderly
      <3> QED BY <1>1, <3>1, <3>4, <3>5, ExecutedThere
    <2>2. CASE Faulty = {}
      <3>1. TRUE \in baDecided[e][r]
        BY <1>1, <1>2 DEF OrderInv, WaitingTrue
      <3>2. PICK g \in Slot, b \in Batch : FirstAt(q, g, b, executed[r])
        BY <1>1, <1>2, <1>3, <3>1, SomebodyHas
      <3>3. ASSUME NEW t \in Slot, Proposed(q, t)
            PROVE  Has(r, q, t)
        <4>1. q \in Correct
          BY <2>2 DEF Correct
        <4> QED BY <1>1, <3>3, <4>1 DEF AtRest, OfferInv, DeliveredThere
      <3>4. \A t \in Slot : t <= g => Proposed(q, t)
        <4>1. proposed[q] \in Seq(Batch) /\ g \in Nat /\ \A t \in Slot : t \in Nat
          BY SlotFacts DEF TypeInv, Types
        <4>2. g < Len(proposed[q]) /\ Len(proposed[q]) \in Nat
          BY <3>2, <4>1 DEF FirstAt, Proposed
        <4> QED BY <4>1, <4>2 DEF Proposed
      <3>5. g \in Nat /\ \A t \in Slot : t \in Nat
        BY SlotFacts
      <3> QED BY <3>2, <3>3, <3>4, <3>5
    <2> QED BY <2>1, <2>2
  <1>5. PICK g \in Slot, b \in Batch : /\ FirstAt(q, g, b, executed[r]) /\ Has(r, q, g)
                                       /\ \A t \in Slot : t < g => Has(r, q, t)
    BY <1>4
  <1>6. queues[r][q].head = g
    BY <1>1, <1>5, HeadIs
  <1>7. Peek(HeadQueue(r))
    BY <1>2, <1>3, <1>5, <1>6 DEF Peek, Present, Has, HeadQueue
  <1> QED BY <1>7 DEF AtRest

\* No correct replica is left waiting for the batch agreed upon, when everything that
\* could still give it the batch has happened: if no replica stops, or if a FILLER is
\* accepted without its proof, whichever replicas a proposer that stopped had reached.
\* Some replica that offered true is correct; it keeps the batch for good, also after
\* it has removed its slot, and the slot it is asked for is the one it offered.
THEOREM NobodyLeftWaiting ==
    ASSUME Orderly, Faulty = {} \/ Benchmark
    PROVE  Spec => []WaitingEnds
  <1>1. TypeInv /\ QueueInv /\ LiveInv /\ OrderInv /\ AgreeInv /\ OfferInv /\ Asked
            => WaitingEnds
    BY RestHead DEF WaitingEnds
  <1>2. Init => AgreeInv /\ OfferInv /\ Asked
    BY AgreeInit, OfferInit, AskedInit
  <1>3. AgreeInv /\ OfferInv /\ Asked /\ TypeInv /\ QueueInv /\ LiveInv
            /\ OrderInv /\ [Next]_vars
            => AgreeInv' /\ OfferInv' /\ Asked'
    BY AgreeStep, OfferStep, AskedStep
  <1>4. Spec => [](TypeInv /\ QueueInv /\ LiveInv /\ OrderInv)
    BY OrderAlways
  <1>5. Spec => [](AgreeInv /\ OfferInv /\ Asked)
    BY <1>2, <1>3, <1>4, PTL DEF Spec
  <1> QED BY <1>1, <1>4, <1>5, PTL
-----------------------------------------------------------------------------
(***************************************************************************)
(* Delivery, as far as safety reaches.  When no correct replica has a step *)
(* left to take, every batch of a correct proposer has been executed by    *)
(* every correct replica that has epochs left: a replica that is behind    *)
(* all others sees the batch at the head of a queue, the replicas that are *)
(* in its epoch have therefore given their input, and the agreement ends.  *)
(***************************************************************************)
\* A replica that is past proposing has given its input.
InputGiven == \A e \in Epoch, r \in Replica :
    e < epoch[r] \/ (e = epoch[r] /\ mode[r] # "proposing")
        => \E b \in BOOLEAN : baInput[e][r] = {b}
\* Batches are proposed in slots that there are.
Bounded == \A q \in Replica : Len(proposed[q]) <= MaxSlot + 1
\* An instance that was started and has no output yet is of a broadcast that was
\* started by its proposer, and it is given up when its output has been handled.
Started == \A r, q \in Replica, s \in Slot : <<q, s>> \in bcInstances[r] =>
    Proposed(q, s) /\ (<<q, s>> \in bcDelivered[r] => <<q, s>> \in enqueued[r])

LEMMA BoundedStep == ASSUME TypeInv, Bounded, [Next]_vars PROVE Bounded'
  <1>1. CASE proposed' = proposed
    BY <1>1 DEF Bounded
  <1>2. CASE \E p \in Replica, b \in Batch : TryPropose(p, b)
    <2>1. PICK p \in Replica, b \in Batch :
              proposed' = [proposed EXCEPT ![p] = Append(proposed[p], b)]
                  /\ Len(proposed[p]) <= MaxSlot
      BY <1>2 DEF TryPropose
    <2>2. proposed[p] \in Seq(Batch) /\ proposed \in [Replica -> Seq(Batch)]
      BY DEF TypeInv, Types
    <2>3. Len(Append(proposed[p], b)) = Len(proposed[p]) + 1 /\ Len(proposed[p]) \in Nat
      BY <2>2
    <2>4. \A q \in Replica : q # p => proposed'[q] = proposed[q]
      BY <2>1, <2>2
    <2>5. proposed'[p] = Append(proposed[p], b)
      BY <2>1, <2>2
    <2>6. Len(proposed'[p]) <= MaxSlot + 1
      BY <2>1, <2>3, <2>5, SlotFacts
    <2> QED BY <2>4, <2>6 DEF Bounded
  <1>3. CASE \E r, p \in Replica, t \in Slot : HandleVBroadcastStep(r, p, t)
    BY <1>1, <1>3 DEF HandleVBroadcastStep
  <1> QED BY <1>1, <1>2, <1>3, BroadcastSteps

LEMMA InputGivenStep ==
    ASSUME TypeInv, AgreeInv, InputGiven, [Next]_vars
    PROVE  InputGiven'
  <1>1. ASSUME UNCHANGED <<baInput, baDecided, epoch, mode>> PROVE InputGiven'
    BY <1>1 DEF InputGiven
  <1>2. ASSUME NEW r \in Replica, HandleProposing(r) PROVE InputGiven'
    <2>1. PICK b : b = Peek(HeadQueue(r))
      OBVIOUS
    <2>2. PICK e \in Epoch : e = epoch[r]
      BY <1>2 DEF HandleProposing
    <2>3. b \in BOOLEAN /\ baInput' = [baInput EXCEPT ![e][r] = {b}]
      BY <1>2, <2>1, <2>2, GivesInput
    <2>4. /\ baInput'[e][r] = {b}
          /\ \A d \in Epoch, t \in Replica : d # e \/ t # r => baInput'[d][t] = baInput[d][t]
      BY <2>3 DEF TypeInv, Types, Agreements
    <2>5. epoch' = epoch /\ mode' = [mode EXCEPT ![r] = "ongoing"]
      BY <1>2 DEF HandleProposing
    <2> SUFFICES ASSUME NEW d \in Epoch, NEW t \in Replica,
                        d < epoch[t] \/ (d = epoch[t] /\ mode'[t] # "proposing")
                 PROVE  \E c \in BOOLEAN : baInput'[d][t] = {c}
      BY <2>5 DEF InputGiven
    <2>6. CASE d = e /\ t = r
      BY <2>3, <2>4, <2>6
    <2>7. CASE ~(d = e /\ t = r)
      <3>1. d < epoch[t] \/ (d = epoch[t] /\ mode[t] # "proposing")
        <4>1. CASE t = r
          <5>1. d # epoch[t]
            BY <2>2, <2>7, <4>1
          <5> QED BY <5>1
        <4>2. CASE t # r
          BY <2>5, <4>2 DEF TypeInv, Types
        <4> QED BY <4>1, <4>2
      <3> QED BY <2>4, <2>7, <3>1 DEF InputGiven
    <2> QED BY <2>6, <2>7
  <1>3. ASSUME NEW r \in Replica, NEW e \in Epoch, NEW b \in BOOLEAN, DecideAgreement(e, r, b)
        PROVE  InputGiven'
    BY <1>3 DEF DecideAgreement, stateVars, InputGiven
  <1>4. ASSUME NEW r \in Replica, HandleOngoing(r) \/ HandleWaiting(r) PROVE InputGiven'
    <2>1. UNCHANGED baInput /\ mode[r] # "proposing"
      BY <1>4 DEF HandleOngoing, HandleWaiting, baVars
    <2>2. /\ epoch[r] \in Epoch
          /\ \A t \in Replica : t # r => epoch'[t] = epoch[t] /\ mode'[t] = mode[t]
          /\ \/ epoch'[r] = epoch[r] /\ mode'[r] # "proposing"
             \/ epoch'[r] = epoch[r] + 1 /\ mode'[r] = "proposing"
      BY <1>4, StateSteps
    <2> SUFFICES ASSUME NEW d \in Epoch, NEW t \in Replica,
                        d < epoch'[t] \/ (d = epoch'[t] /\ mode'[t] # "proposing")
                 PROVE  \E c \in BOOLEAN : baInput[d][t] = {c}
      BY <2>1 DEF InputGiven
    <2>3. d \in Nat /\ epoch[t] \in Nat
      BY NatFacts, ParamFacts
    <2>4. d < epoch[t] \/ (d = epoch[t] /\ mode[t] # "proposing")
      <3>1. CASE t = r
        BY <2>1, <2>2, <2>3, <3>1
      <3>2. CASE t # r
        BY <2>2, <3>2
      <3> QED BY <3>1, <3>2
    <2> QED BY <2>4 DEF InputGiven
  <1> QED BY <1>1, <1>2, <1>3, <1>4, AgreementSteps

\* The steps that an instance of a broadcast takes.
LEMMA InstanceSteps ==
    ASSUME TypeInv, [Next]_vars
    PROVE  \/ UNCHANGED <<proposed, bcInstances, bcDelivered, enqueued>>
           \/ \E p \in Replica, b \in Batch : TryPropose(p, b)
           \/ \E r, q \in Replica, s \in Slot : Broadcast(r, q, s)
  <1>1. CASE UNCHANGED vars
    BY <1>1 DEF vars
  <1>2. CASE Next
    <2>1. PICK r \in Replica :
              \/ \E b \in Batch : TryPropose(r, b)
              \/ \E q \in Replica, s \in Slot : Broadcast(r, q, s)
              \/ Agree(r)
              \/ Decide(r)
              \/ Fill(r)
              \/ Crash(r)
      BY <1>2 DEF Next
    <2>2. CASE Agree(r)
      BY <2>2 DEF Agree, HandleProposing, HandleOngoing, HandleWaiting, bcVars
    <2>3. CASE Decide(r) \/ Crash(r)
      BY <2>3 DEF Decide, DecideAgreement, Crash, bcVars
    <2>4. CASE Fill(r)
      BY <2>4 DEF Fill, HandleFillGap, HandleFiller, bcVars
    <2> QED BY <2>1, <2>2, <2>3, <2>4
  <1> QED BY <1>1, <1>2

LEMMA StartedStep ==
    ASSUME TypeInv, Started, [Next]_vars
    PROVE  Started'
  <1>0. /\ bcInstances \in Instances /\ bcDelivered \in Instances /\ enqueued \in Instances
        /\ ProposedStays
    BY ProposedGrows DEF TypeInv, Types
  <1>1. CASE UNCHANGED <<proposed, bcInstances, bcDelivered, enqueued>>
    BY <1>1 DEF Started, Proposed
  <1>2. ASSUME NEW p \in Replica, NEW b \in Batch, TryPropose(p, b) PROVE Started'
    <2>1. PICK n : n = Len(proposed[p])
      OBVIOUS
    <2>2. /\ bcInstances' = [bcInstances EXCEPT ![p] = bcInstances[p] \cup {<<p, n>>}]
          /\ proposed' = [proposed EXCEPT ![p] = Append(proposed[p], b)]
          /\ bcDelivered' = bcDelivered /\ enqueued' = enqueued
      BY <1>2, <2>1 DEF TryPropose
    <2> SUFFICES ASSUME NEW r \in Replica, NEW q \in Replica, NEW s \in Slot,
                        <<q, s>> \in bcInstances'[r]
                 PROVE  /\ Proposed(q, s)'
                        /\ <<q, s>> \in bcDelivered[r] => <<q, s>> \in enqueued[r]
      BY <2>2 DEF Started
    <2>3. CASE <<q, s>> \in bcInstances[r]
      BY <1>0, <2>3 DEF Started, ProposedStays
    <2>4. CASE <<q, s>> \notin bcInstances[r]
      <3>1. r = p /\ q = p /\ s = n
        BY <1>0, <2>2, <2>4 DEF Instances
      <3>2. ~Proposed(q, s) /\ Proposed(q, s)'
        <4>1. proposed[p] \in Seq(Batch) /\ proposed \in [Replica -> Seq(Batch)]
          BY DEF TypeInv, Types
        <4>2. n \in Nat /\ Len(Append(proposed[p], b)) = n + 1
          BY <2>1, <4>1
        <4>3. proposed'[p] = Append(proposed[p], b)
          BY <2>2, <4>1
        <4> QED BY <2>1, <3>1, <4>2, <4>3 DEF Proposed
      <3> QED BY <3>2 DEF TypeInv, DeliveredProposed
    <2> QED BY <2>3, <2>4
  <1>3. ASSUME NEW r \in Replica, NEW q \in Replica, NEW s \in Slot, Broadcast(r, q, s)
        PROVE  Started'
    <2>1. proposed' = proposed
      BY <1>3 DEF Broadcast, StartBroadcast, HandleVBroadcastStep, FinishVBroadcastStep
    <2>2. \/ /\ bcInstances' = [bcInstances EXCEPT ![r] = bcInstances[r] \cup {<<q, s>>}]
             /\ Proposed(q, s) /\ <<q, s>> \notin bcDelivered[r]
             /\ bcDelivered' = bcDelivered /\ enqueued' = enqueued
          \/ /\ bcInstances' = [bcInstances EXCEPT ![r] = bcInstances[r] \ {<<q, s>>}]
             /\ bcDelivered' = [bcDelivered EXCEPT ![r] = bcDelivered[r] \cup {<<q, s>>}]
             /\ enqueued' = enqueued
          \/ /\ bcInstances' = bcInstances
             /\ bcDelivered' = [bcDelivered EXCEPT ![r] = bcDelivered[r] \cup {<<q, s>>}]
             /\ enqueued' = [enqueued EXCEPT ![r] = enqueued[r] \cup {<<q, s>>}]
          \/ /\ bcInstances' = [bcInstances EXCEPT ![r] = bcInstances[r] \ {<<q, s>>}]
             /\ bcDelivered' = bcDelivered
             /\ enqueued' = [enqueued EXCEPT ![r] = enqueued[r] \ {<<q, s>>}]
      <3>1. CASE StartBroadcast(r, q, s)
        BY <3>1 DEF StartBroadcast
      <3>2. CASE HandleVBroadcastStep(r, q, s)
        BY <3>2 DEF HandleVBroadcastStep, EndBroadcast
      <3>3. CASE FinishVBroadcastStep(r, q, s)
        BY <3>3 DEF FinishVBroadcastStep, EndBroadcast
      <3> QED BY <1>3, <3>1, <3>2, <3>3 DEF Broadcast
    <2> SUFFICES ASSUME NEW t \in Replica, NEW p \in Replica, NEW v \in Slot,
                        <<p, v>> \in bcInstances'[t]
                 PROVE  /\ Proposed(p, v)
                        /\ <<p, v>> \in bcDelivered'[t] => <<p, v>> \in enqueued'[t]
      BY <2>1 DEF Started, Proposed
    <2>3. PICK x : x = <<q, s>>
      OBVIOUS
    <2>4. PICK y : y = <<p, v>>
      OBVIOUS
    <2>5. y \in bcInstances[t] => Proposed(p, v) /\ (y \in bcDelivered[t] => y \in enqueued[t])
      BY <2>4 DEF Started
    <2>6. x = y => p = q /\ v = s
      BY <2>3, <2>4
    <2>7. CASE t # r
      <3>1. /\ bcInstances'[t] = bcInstances[t] /\ bcDelivered'[t] = bcDelivered[t]
            /\ enqueued'[t] = enqueued[t]
        BY <1>0, <2>2, <2>7 DEF Instances
      <3> QED BY <2>4, <2>5, <3>1
    <2>8. CASE t = r
      <3>1. \/ /\ bcInstances'[t] = bcInstances[t] \cup {x}
               /\ Proposed(q, s) /\ x \notin bcDelivered[t]
               /\ bcDelivered'[t] = bcDelivered[t] /\ enqueued'[t] = enqueued[t]
            \/ /\ bcInstances'[t] = bcInstances[t] \ {x}
               /\ bcDelivered'[t] = bcDelivered[t] \cup {x}
               /\ enqueued'[t] = enqueued[t]
            \/ /\ bcInstances'[t] = bcInstances[t]
               /\ bcDelivered'[t] = bcDelivered[t] \cup {x}
               /\ enqueued'[t] = enqueued[t] \cup {x}
            \/ /\ bcInstances'[t] = bcInstances[t] \ {x}
               /\ bcDelivered'[t] = bcDelivered[t]
               /\ enqueued'[t] = enqueued[t] \ {x}
        BY <1>0, <2>2, <2>3, <2>8 DEF Instances
      <3>2. y \in bcInstances'[t]
        BY <2>4
      <3>3. Proposed(p, v) /\ (y \in bcDelivered'[t] => y \in enqueued'[t])
        BY <2>5, <2>6, <3>1, <3>2
      <3> QED BY <2>4, <3>3
    <2> QED BY <2>7, <2>8
  <1> QED BY <1>1, <1>2, <1>3, InstanceSteps

RestInv == InputGiven /\ Bounded /\ Started

LEMMA RestInit == Init => RestInv
  <1> SUFFICES ASSUME Init PROVE RestInv
    OBVIOUS
  <1>1. \A q \in Replica : Len(proposed[q]) = 0
    BY DEF Init
  <1>2. \A r \in Replica : epoch[r] = 0 /\ mode[r] = "proposing" /\ bcInstances[r] = {}
    BY DEF Init
  <1>3. \A e \in Epoch : ~(e < 0)
    BY ParamFacts
  <1> QED BY <1>1, <1>2, <1>3, SlotFacts DEF RestInv, InputGiven, Bounded, Started

\* No correct replica can do anything: AtRest holds, none can give an input, go on
\* from a decision, or learn one.
NothingToDo ==
    /\ AtRest
    /\ \A r \in Correct :
          /\ mode[r] = "proposing" /\ epoch[r] \in Epoch /\ SomethingQueued(r) =>
                 /\ ~Peek(HeadQueue(r))
                 /\ DelayBc /\ BroadcastOngoing(r, Leader(epoch[r]), HeadQueue(r).head)
          /\ mode[r] = "ongoing" => baDecided[epoch[r]][r] = {}
          /\ \A e \in Epoch, b \in BOOLEAN :
                 /\ baDecided[e][r] = {}
                 /\ Cardinality({s \in Replica : baInput[e][s] # {}}) >= N - F
                 /\ \E s \in Correct : baInput[e][s] = {b}
                 => \E s \in Replica : ~(baDecided[e][s] \subseteq {b})

RestsDelivered ==
    NothingToDo => \A p \in Correct : \A b \in Proposals(p), r \in Correct :
                       b \in executed[r] \/ epoch[r] = MaxEpoch

\* At rest, a batch of a correct proposer that was not executed, or one before it, is at
\* the head of its queue.
LEMMA RestQueued ==
    ASSUME TypeInv, QueueInv, LiveInv, OfferInv, Bounded, AtRest, NEW r \in Correct,
           NEW p \in Correct, NEW b \in Proposals(p), b \notin executed[r]
    PROVE  SomethingQueued(r)
  <1>1. r \in Replica /\ p \in Replica
    BY DEF Correct
  <1>2. PICK n \in Nat : n = Len(proposed[p]) /\ n <= MaxSlot + 1
    <2>1. proposed[p] \in Seq(Batch)
      BY <1>1 DEF TypeInv, Types
    <2> QED BY <1>1, <2>1 DEF Bounded
  <1>3. PICK i \in 1 .. n : b = proposed[p][i]
    BY <1>2 DEF Proposals
  <1>4. PICK S : S = {s \in Slot : s < n /\ proposed[p][s + 1] \notin executed[r]}
    OBVIOUS
  <1>5. S \in SUBSET Nat
    BY <1>4, SlotFacts
  <1>6. i - 1 \in S
    <2>1. i - 1 \in Slot /\ i - 1 < n /\ (i - 1) + 1 = i
      BY <1>2, SlotFacts
    <2> QED BY <1>3, <1>4, <2>1
  <1>7. PICK g \in S : \A t \in S : g <= t
    BY <1>5, <1>6, Least
  <1>8. g \in Slot /\ g \in Nat /\ g < n /\ proposed[p][g + 1] \notin executed[r]
    BY <1>4, <1>5, <1>7
  <1>9. ASSUME NEW t \in Slot, t <= g
        PROVE  Proposed(p, t) /\ Has(r, p, t)
    <2>1. t \in Nat
      BY SlotFacts
    <2>2. Proposed(p, t)
      BY <1>2, <1>8, <1>9, <2>1 DEF Proposed
    <2>3. <<p, t>> \in bcDelivered[r]
      BY <2>2 DEF AtRest
    <2> QED BY <1>1, <2>2, <2>3 DEF OfferInv, DeliveredThere
  <1>10. ASSUME NEW t \in Slot, t < g
         PROVE  proposed[p][t + 1] \in executed[r]
    <2>1. t \in Nat
      BY SlotFacts
    <2>2. t \notin S
      BY <1>7, <1>8, <1>10, <2>1
    <2>3. t < n
      BY <1>2, <1>8, <1>10, <2>1
    <2> QED BY <1>4, <2>2, <2>3
  <1>11. PICK c : c = proposed[p][g + 1]
    OBVIOUS
  <1>12. FirstAt(p, g, c, executed[r])
    BY <1>8, <1>9, <1>10, <1>11 DEF FirstAt
  <1>13. \A t \in Slot : t < g => Has(r, p, t)
    BY <1>8, <1>9, SlotFacts
  <1>14. queues[r][p].head = g
    BY <1>1, <1>8, <1>12, <1>13, HeadIs
  <1>15. Peek(queues[r][p])
    BY <1>8, <1>9, <1>14 DEF Peek, Present, Has
  <1> QED BY <1>1, <1>15 DEF SomethingQueued

\* No broadcast holds a replica back at rest: all are over, or none is waited for.
LEMMA RestProposes ==
    ASSUME Faulty = {} \/ ~DelayBc, TypeInv, Started, NothingToDo, NEW r \in Correct,
           epoch[r] \in Epoch, SomethingQueued(r)
    PROVE  mode[r] # "proposing"
  <1> SUFFICES ASSUME mode[r] = "proposing" PROVE FALSE
    OBVIOUS
  <1>1. r \in Replica
    BY DEF Correct
  <1>2. PICK q \in Replica : q = Leader(epoch[r])
    BY ParamFacts
  <1>3. PICK h : h = HeadQueue(r).head
    OBVIOUS
  <1>4. DelayBc /\ BroadcastOngoing(r, q, h)
    BY <1>2, <1>3 DEF NothingToDo
  <1>5. <<q, h>> \in bcInstances[r]
    BY <1>4 DEF BroadcastOngoing
  <1>6. h \in Slot
    <2>1. bcInstances[r] \subseteq Replica \X Slot
      BY <1>1 DEF TypeInv, Types, Instances
    <2> QED BY <1>5, <2>1
  <1>7. Proposed(q, h) /\ (<<q, h>> \in bcDelivered[r] => <<q, h>> \in enqueued[r])
    BY <1>1, <1>5, <1>6 DEF Started
  <1>8. q \in Correct
    BY <1>4 DEF Correct
  <1> QED BY <1>6, <1>7, <1>8 DEF NothingToDo, AtRest

\* The correct replicas are enough for an agreement.
LEMMA CorrectEnough ==
    ASSUME Cardinality(Faulty) <= F, NEW S \in SUBSET Replica, Correct \subseteq S
    PROVE  Cardinality(S) >= N - F
  <1>1. N \in Nat /\ F \in Nat /\ Replica = 0 .. N - 1 /\ Faulty \subseteq Replica
    BY ReplicaAssumption DEF Replica
  <1>2. IsFiniteSet(Replica) /\ Cardinality(Replica) = N
    <2>1. IsFiniteSet(0 .. N - 1)
          /\ Cardinality(0 .. N - 1) = IF 0 > N - 1 THEN 0 ELSE (N - 1) - 0 + 1
      BY <1>1, FS_Interval
    <2> QED BY <1>1, <2>1
  <1>3. IsFiniteSet(Faulty) /\ Cardinality(Faulty) \in Nat
    BY <1>1, <1>2, FS_Subset, FS_CardinalityType
  <1>4. Replica \cap Faulty = Faulty
    BY <1>1
  <1>5. Cardinality(Correct) = N - Cardinality(Faulty)
    BY <1>2, <1>4, FS_Difference DEF Correct
  <1>6. IsFiniteSet(S) /\ Cardinality(Correct) <= Cardinality(S) /\ Cardinality(S) \in Nat
    BY <1>2, FS_Subset, FS_CardinalityType
  <1> QED BY <1>1, <1>3, <1>5, <1>6

\* When all correct replicas gave their input, the agreement has not ended only at
\* replicas that can still learn how it did.
LEMMA RestDecided ==
    ASSUME TypeInv, OrderInv, AgreeInv, InputGiven, Cardinality(Faulty) <= F, NothingToDo,
           NEW r \in Correct, NEW e \in Epoch,
           \A s \in Correct : e < epoch[s] \/ (e = epoch[s] /\ mode[s] # "proposing")
    PROVE  baDecided[e][r] # {}
  <1> SUFFICES ASSUME baDecided[e][r] = {} PROVE FALSE
    OBVIOUS
  <1>1. \A s \in Correct : s \in Replica
    BY DEF Correct
  <1>2. \A s \in Correct : \E b \in BOOLEAN : baInput[e][s] = {b}
    BY <1>1 DEF InputGiven
  <1>3. Cardinality({s \in Replica : baInput[e][s] # {}}) >= N - F
    <2>1. PICK S : S = {s \in Replica : baInput[e][s] # {}}
      OBVIOUS
    <2>2. S \in SUBSET Replica /\ Correct \subseteq S
      BY <1>1, <1>2, <2>1
    <2>3. Cardinality(S) >= N - F
      BY <2>2, CorrectEnough
    <2> QED BY <2>1, <2>3
  <1>4. \E b \in BOOLEAN : /\ \E s \in Correct : baInput[e][s] = {b}
                           /\ \A s \in Replica : baDecided[e][s] \subseteq {b}
    <2>1. CASE \A s \in Replica : baDecided[e][s] = {}
      BY <1>2, <2>1
    <2>2. CASE \E t \in Replica : baDecided[e][t] # {}
      <3>1. PICK t \in Replica : baDecided[e][t] # {}
        BY <2>2
      <3>2. PICK b : b \in baDecided[e][t]
        BY <3>1
      <3>3. b \in BOOLEAN
        BY <3>2 DEF TypeInv, Types, Agreements
      <3>4. \A s \in Replica : baDecided[e][s] \subseteq {b}
        BY <3>2 DEF OrderInv, Agreed
      <3>5. PICK s \in Correct : b \in baInput[e][s]
        BY <3>2 DEF AgreeInv, DecidedInput
      <3>6. baInput[e][s] = {b}
        BY <1>2, <3>5
      <3> QED BY <3>3, <3>4, <3>5, <3>6
    <2> QED BY <2>1, <2>2
  <1>5. PICK b \in BOOLEAN : /\ \E s \in Correct : baInput[e][s] = {b}
                             /\ \A s \in Replica : baDecided[e][s] \subseteq {b}
    BY <1>4
  <1>6. \E s \in Replica : ~(baDecided[e][s] \subseteq {b})
    BY <1>3, <1>5 DEF NothingToDo
  <1> QED BY <1>5, <1>6

\* The replica that is behind has executed what the others have.
LEMMA BehindExecuted ==
    ASSUME TypeInv, OrderInv, NEW m \in Replica, NEW r \in Replica, epoch[m] <= epoch[r]
    PROVE  executed[m] \subseteq executed[r]
  <1>1. PICK L \in Seq(Block), M \in Seq(Block) : L = log[m] /\ M = log[r]
    BY NatFacts
  <1>2. Behind(L, M, epoch[m])
    BY <1>1 DEF OrderInv, Prefix
  <1>3. Len(L) \in Nat /\ Len(M) \in Nat /\ Len(L) <= Len(M)
    BY <1>2 DEF Behind
  <1>4. executed[m] = {L[j].batch : j \in 1 .. (Len(L) + 1) - 1}
        /\ executed[r] = {M[j].batch : j \in 1 .. (Len(M) + 1) - 1}
    BY <1>1 DEF OrderInv, Executes, Before
  <1>5. ASSUME NEW c \in executed[m] PROVE c \in executed[r]
    <2>1. PICK j \in 1 .. Len(L) : c = L[j].batch
      BY <1>3, <1>4, <1>5
    <2>2. j \in 1 .. Len(M) /\ c = M[j].batch
      BY <1>2, <1>3, <2>1 DEF Behind, Same
    <2> QED BY <1>3, <1>4, <2>2
  <1> QED BY <1>5

LEMMA LeastEpoch ==
    ASSUME TypeInv, NEW r \in Correct
    PROVE  \E m \in Correct : \A s \in Correct : epoch[m] <= epoch[s]
  <1>1. PICK S : S = {epoch[s] : s \in Correct}
    OBVIOUS
  <1>2. S \in SUBSET Nat
    BY <1>1, NatFacts DEF Correct
  <1>3. epoch[r] \in S
    BY <1>1
  <1>4. PICK n \in S : \A k \in S : n <= k
    BY <1>2, <1>3, Least
  <1>5. PICK m \in Correct : n = epoch[m]
    BY <1>1, <1>4
  <1> QED BY <1>1, <1>4, <1>5

LEMMA RestDelivers ==
    ASSUME Orderly, Faulty = {} \/ (Benchmark /\ ~DelayBc), Cardinality(Faulty) <= F,
           TypeInv, QueueInv, LiveInv, OrderInv, AgreeInv, OfferInv, Asked, RestInv
    PROVE  RestsDelivered
  <1> SUFFICES ASSUME NothingToDo, NEW p \in Correct, NEW b \in Proposals(p), NEW r \in Correct,
                      b \notin executed[r], epoch[r] # MaxEpoch
               PROVE  FALSE
    BY DEF RestsDelivered
  <1>1. AtRest /\ InputGiven /\ Bounded /\ Started
    BY DEF NothingToDo, RestInv
  <1>2. PICK m \in Correct : \A s \in Correct : epoch[m] <= epoch[s]
    BY LeastEpoch
  <1>3. m \in Replica /\ r \in Replica /\ p \in Replica
    BY DEF Correct
  <1>4. PICK e : e = epoch[m]
    OBVIOUS
  <1>5. e \in Epoch
    <2>1. epoch[m] \in 0 .. MaxEpoch /\ epoch[r] \in 0 .. MaxEpoch /\ MaxEpoch \in Nat
      BY <1>3, ParamFacts DEF TypeInv, Types
    <2>2. epoch[m] <= epoch[r]
      BY <1>2
    <2> QED BY <1>4, <2>1, <2>2 DEF Epoch
  <1>6. b \notin executed[m]
    BY <1>2, <1>3, BehindExecuted
  <1>7. ASSUME NEW s \in Correct, epoch[s] = e
        PROVE  mode[s] = "ongoing"
    <2>1. s \in Replica
      BY DEF Correct
    <2>2. executed[s] = executed[m]
      BY <1>3, <1>4, <1>7, <2>1, SameExecuted
    <2>3. SomethingQueued(s)
      BY <1>1, <1>6, <2>2, RestQueued
    <2>4. mode[s] # "proposing"
      BY <1>1, <1>5, <1>7, <2>3, RestProposes
    <2>5. mode[s] # "waiting"
      BY <1>1, RestHead
    <2> QED BY <2>1, <2>4, <2>5 DEF TypeInv, Types
  <1>8. ASSUME NEW s \in Correct
        PROVE  e < epoch[s] \/ (e = epoch[s] /\ mode[s] # "proposing")
    <2>1. s \in Replica /\ e \in Nat
      BY <1>5, ParamFacts DEF Correct
    <2>2. e <= epoch[s] /\ epoch[s] \in Nat
      BY <1>2, <1>4, <2>1, NatFacts
    <2>3. epoch[s] = e => mode[s] = "ongoing"
      BY <1>7
    <2> QED BY <2>1, <2>2, <2>3
  <1>9. baDecided[e][m] # {}
    BY <1>1, <1>5, <1>8, RestDecided
  <1>10. mode[m] = "ongoing" => baDecided[e][m] = {}
    BY <1>4 DEF NothingToDo
  <1> QED BY <1>4, <1>7, <1>9, <1>10

\* A system that has come to rest has delivered every batch of a correct proposer, at
\* every correct replica that has epochs left: nothing holds an epoch up for good, no
\* batch is forgotten in a queue, and no agreement lacks inputs because some replicas see
\* a batch in their queues and others do not.  It is the part of Delivery that does not
\* speak of fairness.  Either no replica stops; or as many may as an agreement tolerates,
\* if a FILLER is accepted without its proof and no replica withholds its input until a
\* broadcast that may never end has ended.
THEOREM AllDelivered ==
    ASSUME Orderly, Faulty = {} \/ (Benchmark /\ ~DelayBc), Cardinality(Faulty) <= F
    PROVE  Spec => []RestsDelivered
  <1>1. TypeInv /\ QueueInv /\ LiveInv /\ OrderInv /\ AgreeInv /\ OfferInv /\ Asked /\ RestInv
            => RestsDelivered
    BY RestDelivers
  <1>2. Init => AgreeInv /\ OfferInv /\ Asked /\ RestInv
    BY AgreeInit, OfferInit, AskedInit, RestInit
  <1>3. AgreeInv /\ OfferInv /\ Asked /\ RestInv /\ TypeInv /\ QueueInv /\ LiveInv
            /\ OrderInv /\ [Next]_vars
            => AgreeInv' /\ OfferInv' /\ Asked' /\ RestInv'
    BY AgreeStep, OfferStep, AskedStep, InputGivenStep, BoundedStep, StartedStep DEF RestInv
  <1>4. Spec => [](TypeInv /\ QueueInv /\ LiveInv /\ OrderInv)
    BY OrderAlways
  <1>5. Spec => [](AgreeInv /\ OfferInv /\ Asked /\ RestInv)
    BY <1>2, <1>3, <1>4, PTL DEF Spec
  <1> QED BY <1>1, <1>4, <1>5, PTL
-----------------------------------------------------------------------------
\* A block of an epoch that q leads holds the first batch of q that no earlier block
\* holds.
InQueueOrder == \A r \in Replica : \A k \in 1 .. Len(log[r]) :
    \E s \in Slot :
        /\ Proposed(Leader(log[r][k].epoch), s)
        /\ log[r][k].batch = proposed[Leader(log[r][k].epoch)][s + 1]
        /\ \A t \in Slot : t < s =>
              \E l \in 1 .. k - 1 : log[r][l].batch = proposed[Leader(log[r][k].epoch)][t + 1]

\* The batches of a proposer are delivered in the order in which it proposed them, also
\* where its broadcasts end, its slots are filled and replicas catch up out of order: a
\* batch comes out of an epoch that its proposer leads after all batches that the
\* proposer put in its queue before it.
THEOREM ProposerOrder == ASSUME Orderly PROVE Spec => []InQueueOrder
  <1>1. TypeInv /\ OrderInv => InQueueOrder
    <2> SUFFICES ASSUME TypeInv, OrderInv, NEW r \in Replica, NEW k \in 1 .. Len(log[r]),
                        NEW q, q = Leader(log[r][k].epoch)
                 PROVE  \E s \in Slot :
                            /\ Proposed(q, s) /\ log[r][k].batch = proposed[q][s + 1]
                            /\ \A t \in Slot : t < s =>
                                  \E l \in 1 .. k - 1 : log[r][l].batch = proposed[q][t + 1]
      BY DEF InQueueOrder
    <2>1. PICK L : L = log[r]
      OBVIOUS
    <2>2. First(q, L[k].batch, Before(L, k))
      BY <2>1 DEF OrderInv, LogsFirst, FirstOf
    <2>3. PICK s \in Slot : FirstAt(q, s, L[k].batch, Before(L, k))
      BY <2>2 DEF First
    <2>4. ASSUME NEW t \in Slot, t < s
          PROVE  \E l \in 1 .. k - 1 : L[l].batch = proposed[q][t + 1]
      BY <2>3, <2>4 DEF FirstAt, Before
    <2> QED BY <2>1, <2>3, <2>4 DEF FirstAt
  <1> QED BY <1>1, OrderAlways, PTL
=============================================================================
