-------------------------------- MODULE Alea --------------------------------
(***************************************************************************)
(* P/abc/alea at every replica.  Each replica broadcasts its batches with  *)
(* one VCBC instance per slot of its own queue; in epoch e the replicas    *)
(* agree, with one binary agreement, whether the head of the queue of      *)
(* replica e % N is the next batch.  A replica is proposing (ProposingState*)
(* before the agreement has its input), ongoing (OngoingState) or waiting  *)
(* for the batch agreed upon (WaitingState).                               *)
(*                                                                         *)
(* A VCBC instance is the broadcast promised by ConsistentBroadcast with a *)
(* correct proposer, or one that stops: one value, delivered at most once  *)
(* at each replica.  A binary agreement is the one promised by             *)
(* BinaryAgreement.  tryProgress runs from one state of the replica to the *)
(* next while it can; other threads enqueue, decide and answer meanwhile,  *)
(* so each state change is an action.                                      *)
(***************************************************************************)
EXTENDS AleaQueue, Sequences, FiniteSets

CONSTANTS
    N, F,
    Faulty,        \* replicas that may stop
    MaxEpoch,      \* bound: the epochs are 0 .. MaxEpoch - 1
    MaxSlot,       \* bound: a proposer has the slots 0 .. MaxSlot
    MaxConcurrent, \* params.getMaxConcurrentBroadcasts()
    MaxOffset,     \* params.getMaxPipelineOffset()
    DelayBc,       \* Utils.DELAY_BC
    Benchmark,     \* params.isBenchmark(): a FILLER needs no valid proof
    Workers,       \* threads of a replica that run handleVBroadcastStep
    Repeats,       \* whether a batch may be submitted again: "never", "elsewhere"
                   \* (at another replica) or "anywhere"
    BatchSize      \* params.getBatchSize()

Replica == 0 .. N - 1
Correct == Replica \ Faulty
Epoch == 0 .. MaxEpoch - 1

ASSUME SlotAssumption == MaxSlot \in Nat /\ Slot = 0 .. MaxSlot /\ None \notin Batch
ASSUME ReplicaAssumption == N \in Nat \ {0} /\ F \in Nat /\ F < N /\ Faulty \subseteq Replica
ASSUME ParamsAssumption ==
    /\ MaxEpoch \in Nat /\ MaxConcurrent \in Nat /\ MaxOffset \in Nat
    /\ DelayBc \in BOOLEAN /\ Benchmark \in BOOLEAN /\ Workers \in Nat \ {0}
    /\ Repeats \in {"never", "elsewhere", "anywhere"} /\ BatchSize \in Nat \ {0}

VARIABLES
    proposed,      \* [Replica -> Seq(Batch)]: the inputs of the proposer's VCBCs
    active,        \* [Replica -> Int]: broadcastState
    crashed,       \* the faulty replicas that have stopped
    bcInstances,   \* [Replica -> SUBSET (Replica \X Slot)]: started, no output yet
    bcDelivered,   \* [Replica -> SUBSET (Replica \X Slot)]: VCBC outputs
    enqueued,      \* [Replica -> SUBSET (Replica \X Slot)]: outputs of which
                   \* handleVBroadcastStep has done the enqueue only
    queues,        \* [Replica -> [Replica -> queue]]
    executed,      \* [Replica -> SUBSET Batch]
    epoch, mode,   \* [Replica -> ...]: agreementState
    baInput,       \* [Epoch -> [Replica -> SUBSET BOOLEAN]]
    baDecided,     \* [Epoch -> [Replica -> SUBSET BOOLEAN]]
    fillGaps,      \* FILL_GAP messages in transit: asker, asked, queue, slot
    fillers,       \* FILLER messages in transit: receiver, queue, slot, batch
    log            \* [Replica -> Seq([epoch, batch, order])]: blocks delivered

vars == <<proposed, active, crashed, bcInstances, bcDelivered, enqueued, queues,
          executed, epoch, mode, baInput, baDecided, fillGaps, fillers, log>>

bcVars == <<bcInstances, bcDelivered, enqueued>>
baVars == <<baInput, baDecided>>
fillVars == <<fillGaps, fillers>>
stateVars == <<epoch, mode>>

\* The order in which decodeBatchEntries yields the entries of a batch: that of
\* a HashSet of arrays, hashed by identity.
Order == {o \in [1 .. BatchSize -> 1 .. BatchSize] :
             \A i, j \in 1 .. BatchSize : i # j => o[i] # o[j]}

TypeOK ==
    /\ proposed \in [Replica -> Seq(Batch)]
    /\ active \in [Replica -> 0 .. MaxConcurrent]
    /\ crashed \subseteq Faulty
    /\ \A f \in {bcInstances, bcDelivered, enqueued} :
           f \in [Replica -> SUBSET (Replica \X Slot)]
    /\ queues \in [Replica -> [Replica -> [head : 0 .. MaxSlot + 1,
                                           slots : [Slot -> Batch \cup {None}],
                                           removed : SUBSET Slot]]]
    /\ executed \in [Replica -> SUBSET Batch]
    /\ epoch \in [Replica -> 0 .. MaxEpoch]
    /\ mode \in [Replica -> {"proposing", "ongoing", "waiting"}]
    /\ \A f \in {baInput, baDecided} : f \in [Epoch -> [Replica -> SUBSET BOOLEAN]]
    /\ fillGaps \subseteq Replica \X Replica \X Replica \X (0 .. MaxSlot + 1)
    /\ fillers \subseteq Replica \X Replica \X Slot \X Batch
    /\ \A r \in Replica : \A i \in 1 .. Len(log[r]) :
           log[r][i] \in [epoch : Epoch, batch : Batch, order : Order]

Init ==
    /\ proposed = [r \in Replica |-> <<>>]
    /\ active = [r \in Replica |-> 0]
    /\ crashed = {}
    /\ bcInstances = [r \in Replica |-> {}]
    /\ bcDelivered = [r \in Replica |-> {}]
    /\ enqueued = [r \in Replica |-> {}]
    /\ queues = [r \in Replica |-> [q \in Replica |-> EmptyQueue]]
    /\ executed = [r \in Replica |-> {}]
    /\ epoch = [r \in Replica |-> 0]
    /\ mode = [r \in Replica |-> "proposing"]
    /\ baInput = [e \in Epoch |-> [r \in Replica |-> {}]]
    /\ baDecided = [e \in Epoch |-> [r \in Replica |-> {}]]
    /\ fillGaps = {}
    /\ fillers = {}
    /\ log = [r \in Replica |-> <<>>]
-----------------------------------------------------------------------------
Alive(r) == r \notin crashed
Leader(e) == e % N
HeadQueue(r) == queues[r][Leader(epoch[r])]

\* The clients' part: which batches may be in pending at replica p.
Proposals(p) == {proposed[p][i] : i \in 1 .. Len(proposed[p])}
MaySubmit(p, b) ==
    CASE Repeats = "never" -> \A q \in Replica : b \notin Proposals(q)
      [] Repeats = "elsewhere" -> b \notin Proposals(p)
      [] Repeats = "anywhere" -> TRUE

\* tryPropose: priority is the number of batches proposed so far.
TryPropose(p, b) ==
    /\ Alive(p)
    /\ Len(proposed[p]) <= MaxSlot
    /\ MaySubmit(p, b)
    /\ active[p] < MaxConcurrent
    /\ Len(proposed[p]) - queues[p][p].head < MaxOffset
    /\ active' = [active EXCEPT ![p] = @ + 1]
    /\ proposed' = [proposed EXCEPT ![p] = Append(@, b)]
    /\ bcInstances' = [bcInstances EXCEPT ![p] = @ \cup {<<p, Len(proposed[p])>>}]
    /\ UNCHANGED <<crashed, bcDelivered, enqueued, queues, executed, stateVars,
                   baVars, fillVars, log>>

\* getVBroadcastInstance, on the first message of an instance.
Proposed(q, s) == s < Len(proposed[q])
StartBroadcast(r, q, s) ==
    /\ Alive(r)
    /\ Proposed(q, s)
    /\ <<q, s>> \notin bcInstances[r] \cup bcDelivered[r]
    /\ bcInstances' = [bcInstances EXCEPT ![r] = @ \cup {<<q, s>>}]
    /\ UNCHANGED <<proposed, active, crashed, bcDelivered, enqueued, queues, executed,
                   stateVars, baVars, fillVars, log>>

\* Mutants of Dedupe: never, and the condition negated.
NoDedupe(r, queue, b, s) == queue
DedupeNew(r, queue, b, s) == IF b \in executed[r] THEN queue ELSE DequeueSlot(queue, s)

\* handleVBroadcastStep with an output.  After the enqueue it takes the lock on
\* the queues and removes the slot if its batch was executed before.
Dedupe(r, queue, b, s) == IF b \in executed[r] THEN DequeueSlot(queue, s) ELSE queue

\* Mutant: the end of any broadcast frees a place of the replica's own.
EndAnyBroadcast(r, q, s) ==
    /\ bcInstances' = [bcInstances EXCEPT ![r] = @ \ {<<q, s>>}]
    /\ active' = [active EXCEPT ![r] = @ - 1]

EndBroadcast(r, q, s) ==
    /\ bcInstances' = [bcInstances EXCEPT ![r] = @ \ {<<q, s>>}]
    /\ active' = IF r = q THEN [active EXCEPT ![r] = @ - 1] ELSE active

HandleVBroadcastStep(r, q, s) ==
    /\ Alive(r)
    /\ Proposed(q, s)
    /\ <<q, s>> \notin bcDelivered[r]
    /\ bcDelivered' = [bcDelivered EXCEPT ![r] = @ \cup {<<q, s>>}]
    /\ LET b == proposed[q][s + 1]
           queue == Enqueue(queues[r][q], s, b)
       IN  \/ /\ queues' = [queues EXCEPT ![r][q] = Dedupe(r, queue, b, s)]
              /\ EndBroadcast(r, q, s)
              /\ UNCHANGED enqueued
           \/ /\ Cardinality(enqueued[r]) + 1 < Workers
              /\ queues' = [queues EXCEPT ![r][q] = queue]
              /\ enqueued' = [enqueued EXCEPT ![r] = @ \cup {<<q, s>>}]
              /\ UNCHANGED <<bcInstances, active>>
    /\ UNCHANGED <<proposed, crashed, executed, stateVars, baVars, fillVars, log>>

FinishVBroadcastStep(r, q, s) ==
    /\ Alive(r)
    /\ <<q, s>> \in enqueued[r]
    /\ enqueued' = [enqueued EXCEPT ![r] = @ \ {<<q, s>>}]
    /\ queues' = [queues EXCEPT ![r][q] = Dedupe(r, @, proposed[q][s + 1], s)]
    /\ EndBroadcast(r, q, s)
    /\ UNCHANGED <<proposed, crashed, bcDelivered, executed, stateVars, baVars,
                   fillVars, log>>

\* ProposingState.tryProgress: whether the leader's head is there is the input
\* of the agreement.  DELAY_BC holds it back while that broadcast is going on.
SomethingQueued(r) == \E q \in Replica : Peek(queues[r][q])
BroadcastOngoing(r, q, s) == <<q, s>> \in bcInstances[r]

\* Mutant: true is the input whether the batch is there or not.
HandleProposingBlind(r) ==
    /\ Alive(r)
    /\ mode[r] = "proposing" /\ epoch[r] \in Epoch
    /\ SomethingQueued(r)
    /\ baInput' = [baInput EXCEPT ![epoch[r]][r] = {TRUE}]
    /\ mode' = [mode EXCEPT ![r] = "ongoing"]
    /\ UNCHANGED <<proposed, active, crashed, bcVars, queues, executed, epoch,
                   baDecided, fillVars, log>>

HandleProposing(r) ==
    /\ Alive(r)
    /\ mode[r] = "proposing" /\ epoch[r] \in Epoch
    /\ SomethingQueued(r)
    /\ LET e == epoch[r]
           queue == HeadQueue(r)
       IN  /\ Peek(queue) \/ ~(DelayBc /\ BroadcastOngoing(r, Leader(e), queue.head))
           /\ baInput' = [baInput EXCEPT ![e][r] = {Peek(queue)}]
    /\ mode' = [mode EXCEPT ![r] = "ongoing"]
    /\ UNCHANGED <<proposed, active, crashed, bcVars, queues, executed, epoch,
                   baDecided, fillVars, log>>

\* The binary agreement of epoch e: N - f inputs, one decision, the input of a
\* correct replica.  A replica may learn it before it gives its own input.
DecideAgreement(e, r, b) ==
    /\ Alive(r)
    /\ baDecided[e][r] = {}
    /\ Cardinality({s \in Replica : baInput[e][s] # {}}) >= N - F
    /\ \E s \in Correct : baInput[e][s] = {b}
    /\ \A s \in Replica : baDecided[e][s] \subseteq {b}
    /\ baDecided' = [baDecided EXCEPT ![e][r] = {b}]
    /\ UNCHANGED <<proposed, active, crashed, bcVars, queues, executed, stateVars,
                   baInput, fillVars, log>>

\* OngoingState.tryProgress.  Entering WaitingState without the batch, a
\* replica multicasts FILL_GAP, this once.
HandleOngoing(r) ==
    /\ Alive(r)
    /\ mode[r] = "ongoing"
    /\ LET e == epoch[r]  queue == HeadQueue(r) IN
       \/ /\ baDecided[e][r] = {FALSE}
          /\ epoch' = [epoch EXCEPT ![r] = e + 1]
          /\ mode' = [mode EXCEPT ![r] = "proposing"]
          /\ UNCHANGED fillGaps
       \/ /\ baDecided[e][r] = {TRUE}
          /\ mode' = [mode EXCEPT ![r] = "waiting"]
          /\ fillGaps' = IF Peek(queue) THEN fillGaps
                         ELSE fillGaps \cup ({r} \X Replica \X {Leader(e)} \X {queue.head})
          /\ UNCHANGED epoch
    /\ UNCHANGED <<proposed, active, crashed, bcVars, queues, executed, baVars,
                   fillers, log>>

\* Mutant: the batch is not remembered as executed.
HandleWaitingForgets(r) ==
    /\ Alive(r)
    /\ mode[r] = "waiting"
    /\ Peek(HeadQueue(r))
    /\ LET b == HeadQueue(r).slots[HeadQueue(r).head]
       IN  /\ \E o \in Order :
                 log' = [log EXCEPT ![r] =
                            Append(@, [epoch |-> epoch[r], batch |-> b, order |-> o])]
           /\ queues' = [queues EXCEPT ![r] = [q \in Replica |-> DequeueBatch(@[q], b)]]
    /\ epoch' = [epoch EXCEPT ![r] = @ + 1]
    /\ mode' = [mode EXCEPT ![r] = "proposing"]
    /\ UNCHANGED <<proposed, active, crashed, bcVars, executed, baVars, fillVars>>

\* WaitingState.tryProgress with the batch at the head: the block is delivered,
\* its batch executed and dequeued from every queue.
HandleWaiting(r) ==
    /\ Alive(r)
    /\ mode[r] = "waiting"
    /\ Peek(HeadQueue(r))
    /\ LET b == HeadQueue(r).slots[HeadQueue(r).head]
       IN  /\ \E o \in Order :
                 log' = [log EXCEPT ![r] =
                            Append(@, [epoch |-> epoch[r], batch |-> b, order |-> o])]
           /\ executed' = [executed EXCEPT ![r] = @ \cup {b}]
           /\ queues' = [queues EXCEPT ![r] = [q \in Replica |-> DequeueBatch(@[q], b)]]
    /\ epoch' = [epoch EXCEPT ![r] = @ + 1]
    /\ mode' = [mode EXCEPT ![r] = "proposing"]
    /\ UNCHANGED <<proposed, active, crashed, bcVars, baVars, fillVars>>

\* Mutant: only a slot that was not dequeued yet is answered.
HandleFillGapLive(r, t, q, s) ==
    /\ Alive(t)
    /\ <<r, t, q, s>> \in fillGaps
    /\ fillGaps' = fillGaps \ {<<r, t, q, s>>}
    /\ fillers' = IF Present(queues[t][q], s) /\ s \notin queues[t][q].removed
                  THEN fillers \cup {<<r, q, s, queues[t][q].slots[s]>>} ELSE fillers
    /\ UNCHANGED <<proposed, active, crashed, bcVars, queues, executed, stateVars,
                   baVars, log>>

\* handleFillGapMessage: whoever has the slot answers, the others ignore it.
HandleFillGap(r, t, q, s) ==
    /\ Alive(t)
    /\ <<r, t, q, s>> \in fillGaps
    /\ fillGaps' = fillGaps \ {<<r, t, q, s>>}
    /\ fillers' = IF Present(queues[t][q], s)
                  THEN fillers \cup {<<r, q, s, queues[t][q].slots[s]>>} ELSE fillers
    /\ UNCHANGED <<proposed, active, crashed, bcVars, queues, executed, stateVars,
                   baVars, log>>

\* handleFillerMessage.  The proof is the VCBC's, over the digest of the batch,
\* and is verified over the batch itself: it is never found valid.
HandleFiller(r, q, s, b) ==
    /\ Alive(r)
    /\ <<r, q, s, b>> \in fillers
    /\ fillers' = fillers \ {<<r, q, s, b>>}
    /\ queues' = IF Benchmark /\ ~Present(queues[r][q], s)
                 THEN [queues EXCEPT ![r][q] = Enqueue(@, s, b)] ELSE queues
    /\ UNCHANGED <<proposed, active, crashed, bcVars, executed, stateVars, baVars,
                   fillGaps, log>>

\* A faulty replica stops; its last multicasts may reach some replicas only.
Crash(r) ==
    /\ r \in Faulty \ crashed
    /\ crashed' = crashed \cup {r}
    /\ UNCHANGED <<proposed, active, bcVars, queues, executed, stateVars, baVars,
                   fillVars, log>>

Broadcast(r, q, s) == \/ StartBroadcast(r, q, s)
                      \/ HandleVBroadcastStep(r, q, s)
                      \/ FinishVBroadcastStep(r, q, s)
Agree(r) == HandleProposing(r) \/ HandleOngoing(r) \/ HandleWaiting(r)
Decide(r) == \E e \in Epoch, b \in BOOLEAN : DecideAgreement(e, r, b)
Fill(r) == \/ \E m \in fillGaps : m[2] = r /\ HandleFillGap(m[1], r, m[3], m[4])
           \/ \E m \in fillers : m[1] = r /\ HandleFiller(r, m[2], m[3], m[4])

Next ==
    \E r \in Replica :
        \/ \E b \in Batch : TryPropose(r, b)
        \/ \E q \in Replica, s \in Slot : Broadcast(r, q, s)
        \/ Agree(r)
        \/ Decide(r)
        \/ Fill(r)
        \/ Crash(r)

Spec == Init /\ [][Next]_vars

\* Correct replicas are scheduled, the broadcasts of correct proposers complete
\* at correct replicas, agreements end, and TCP delivers.  Nothing is assumed of
\* the clients, of a faulty replica, or of a broadcast it proposed.
Progress(r) == \/ \E q \in Correct, s \in Slot : Broadcast(r, q, s)
               \/ \E q \in Faulty, s \in Slot : FinishVBroadcastStep(r, q, s)
               \/ Agree(r) \/ Decide(r) \/ Fill(r)

FairSpec == Spec /\ \A r \in Correct : WF_vars(Progress(r))
-----------------------------------------------------------------------------
Batches(r) == [i \in 1 .. Len(log[r]) |-> log[r][i].batch]

\* The slots below the head have been removed, and the head has not: a batch
\* that was executed is never offered to the agreement again.
HeadNotRemoved ==
    \A r \in Correct, q \in Replica :
        LET queue == queues[r][q]
        IN  /\ \A s \in 0 .. queue.head - 1 : s \in queue.removed
            /\ Peek(queue) => queue.head \notin queue.removed

\* At the boundary of an epoch all correct replicas look at one slot of a queue,
\* up to slots that hold batches executed before.
NextSlot(r, q) ==
    LET queue == queues[r][q]
        live(s) == s >= Len(proposed[q]) \/ proposed[q][s + 1] \notin executed[r]
    IN  CHOOSE s \in queue.head .. Len(proposed[q]) :
            live(s) /\ \A t \in queue.head .. s - 1 : ~live(t)

HeadsAgree ==
    \A r, t \in Correct : epoch[r] = epoch[t] =>
        /\ executed[r] = executed[t]
        /\ \A q \in Replica : enqueued[r] = {} /\ enqueued[t] = {} => NextSlot(r, q) = NextSlot(t, q)

\* Two correct replicas deliver the same batches in the same order and each once.
AB == INSTANCE AtomicBroadcast WITH
          submitted <- UNION {Proposals(p) : p \in Replica},
          delivered <- [r \in Correct |-> Batches(r)]

ImplementsAtomicBroadcast == AB!Spec

\* A batch that a correct replica proposes is delivered everywhere, whatever the
\* faulty replicas left unfinished, if the epochs of the instance suffice.
Delivery ==
    \A p \in Correct, b \in Batch :
        b \in Proposals(p) ~>
            (\A r \in Correct : b \in executed[r] \/ epoch[r] = MaxEpoch)

\* Nothing is left that could give a correct replica a batch: the broadcasts of
\* correct proposers are over, all FILL_GAPs and FILLERs are handled, and whoever
\* has the batch agreed upon has delivered it.
AtRest ==
    \A r \in Correct :
        /\ \A q \in Correct, s \in Slot : Proposed(q, s) => <<q, s>> \in bcDelivered[r]
        /\ enqueued[r] = {}
        /\ \A m \in fillGaps : m[2] # r
        /\ \A m \in fillers : m[1] # r
        /\ mode[r] = "waiting" => ~Peek(HeadQueue(r))

\* No replica is left waiting for the batch agreed upon, also when its proposer
\* stopped before its FINAL was everywhere (WaitingState, "Wait until I know of
\* the value that was agreed upon").
WaitingEnds == AtRest => \A r \in Correct : mode[r] # "waiting"

\* A replica whose agreement ended with true delivers the batch of the epoch
\* (WaitingState, "Binary agreement ended with True (node needs to get the slot)").
AgreedIsDelivered ==
    \A r \in Correct, e \in Epoch : baDecided[e][r] = {TRUE} ~> epoch[r] > e

\* Two correct replicas deliver the same blocks, entry by entry.
SameBlocks ==
    \A r, t \in Correct : \A i \in 1 .. Len(log[r]) :
        i <= Len(log[t]) => log[r][i] = log[t][i]
=============================================================================
