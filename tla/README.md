# Alea-BFT in TLA+

This directory verifies the protocol core of the replica in `alea-java`: the
broadcast, the binary agreement and the atomic broadcast that a replica runs when
it is started with the protocol `ALEA`, and the other broadcast and atomic broadcast
it runs when it is started with `HB` (HoneyBadger). Paths below are relative to
`src/alea-java/`; `P` is
`protocols/src/main/java/pt/tecnico/ulisboa/hbbft` and `R` is
`replica/src/main/java/pt/ulisboa/tecnico/replica`.

    tlc -workers 2 -config Vcbc_byzreplica.cfg MCEchoVBroadcast2
    tlapm EchoVBroadcast2_proofs.tla

`PROJECT.json` lists the components, the runs, for every property a mutation of the
code that breaks it, the source lines each definition stands for, the findings, the
hazards and the theorems.

## 1. The system

Clients stream transactions to a replica over gRPC; the replicas put them into one
order with a Byzantine fault tolerant protocol over TCP. A replica is one JVM, and a
message is handled by whichever of the 8 worker threads of its connection takes it:
apart from the locks named below, handlers of one replica run concurrently.

| component | state it keeps | operations | talks to |
|---|---|---|---|
| Verifiable consistent broadcast (VCBC), `P/vbroadcast/echo/EchoVBroadcast2` | `sendSent`, `echoSent`, `finalSent`, `terminated`, `echoMessages`, `output` of one instance | `handleInput`, `handleSendMessage`, `handleEchoMessage`, `handleFinalMessage` | its peers by SEND, ECHO, FINAL; Alea by its output |
| Binary agreement (ABA), `P/binaryagreement/moustefaoui` | per round: received BVAL, AUX, CONF, `bin_values`, the coin; `round`, `decision`, `receivedTerm`, `incomingQueue` | `handleInput`, a handler for BVAL, AUX, CONF, COIN, TERM | its peers; Alea by its decision |
| Queues, `P/abc/alea/queue` | `head`, the slots, which of them are removed | `enqueue`, `dequeue` by slot and by batch, `get`, `peek`, each under the queue's lock | Alea |
| Alea, `P/abc/alea/Alea` and `state/` | `pending`, `priority`, `broadcastState`, the instances, `queues`, `executed`, `agreementState`, `waitingForLock` | `handleInput`/`tryPropose`, `handleVBroadcastStep`, `handleBinaryAgreementStep`, `tryProgress` through Proposing, Ongoing and Waiting, `FILL_GAP`, `FILLER` | VCBC and ABA by call, peers by message, the replica by the blocks it outputs |
| Reliable broadcast (RBC), `P/broadcast/bracha2/BrachaBroadcast2` | `sendSent`, `echoSent`, `readySent`, `echos`, `readies`, `blocksReceived`, `sizes`, `knownHashes`, `decided` of one instance | `handleInput`, `handleSendMessage`, `handleEchoMessage`, `handleReadyMessage` | its peers by SEND, ECHO, READY; a proposal by its output |
| Common subset, `P/subset/hbbft/HoneyBadgerSubset`, `Proposal` and `state/` | a state per proposal: ongoing, has value, accepted, complete | `handleInput`, `handleMessage`, `tryOutput` | an RBC and an ABA per proposal; the epoch |
| HoneyBadger, `P/abc/acs/AcsAtomicBroadcast`, `Epoch`, `TransactionQueue` | `epoch`, `hasInput`, `epochs`, `queue` | `handleInput`, `handleMessage`, `tryPropose`, `handleEpochStep` | the subset of each epoch, the replica by the blocks it outputs |
| Replica, `R/domain/Replica` | the instance, the sender threads | decodes and dispatches messages, sends those of a step, delivers its blocks | Alea, transport, service |
| Service, `R/domain/grpc/StateMachineServiceImpl` | `pending` transactions | `handleRequest` (submit, then remember), `confirm` | clients, replica |
| Transport, `R/utils/transport` | sockets, worker pools | send, listen | replica |

Other protocols in the tree (an earlier HoneyBadger, Dumbo, PRBC, MVBA, AVID, a
first Bracha and a first echo broadcast) and the vendored and measuring code are
listed in `PROJECT.json` with the reason why they are not modelled.

How a batch travels: `tryPropose` takes entries from `pending` and gives them to the
VCBC instance of the proposer's next slot. A replica that gets the output puts the
batch into slot *s* of its copy of the proposer's queue. In epoch *e* the replicas run
one ABA on "is the head of the queue of replica *e mod n* here?". On `true` the batch
at the head is delivered and dequeued from all queues; a replica that does not have it
asks the others with `FILL_GAP`. On `false` the next epoch starts.

How a transaction travels with `HB`: `handleInput` puts it into the queue. A replica
that has something queued and no proposal in the current epoch gives its RBC of that
epoch a random part of the queue. There is one ABA per proposal; a replica votes yes
when it has the value, and no on all others once N - F are accepted. When every ABA
has ended and the accepted values are there, they are the block of the epoch; what is
in it leaves the queue and the next epoch begins.

### What is hard about it

* **Byzantine senders.** SENDs, ECHOs, FINALs and all ABA messages may be anything;
  ECHO shares and coin shares are not verified when they arrive.
* **Threads.** Test-then-set of `echoSent`; enqueue before the test of `executed`;
  `tryProgress` threads that give up because another one waits for the lock;
  HoneyBadger's `handleInput`, which takes no lock, beside its `handleMessage`, which does.
* **Order.** Messages are reordered by two sender threads per target and eight
  workers per connection; CONFs arrive before the bits they carry are accepted;
  replicas see the broadcasts in different orders.
* **Stale state.** `confValues` is the same object as `bin_values`; an instance counts
  as ongoing although its proposer is gone.
* **Stopped replicas.** A SEND without a FINAL, a FINAL that reaches some, TERMs of
  one round that are needed in a later one.
* **What is not under the hash.** The length of an RBC input and the place of a block
  are taken as their sender gives them; the one decoding attempt may be spent on them.
* **Removed state.** A VCBC instance is removed when it has output, and made again by
  any message that comes late.
* **Duplicates.** A batch may be in several slots of several queues and must be
  delivered once.

### What makes each component correct

* VCBC: a correct replica signs one digest; correct replicas deliver one value; it is
  the input when the proposer is correct; and then everybody delivers.
* ABA: agreement; a decision is an input of a correct replica; everybody decides; and,
  inside a round, no two opposite singletons after AUX.
* Queues: a removed slot is never at the head again, nothing live is skipped.
* Alea: one log, every batch once, only what was submitted; every replica looks at the
  same slot in the same epoch; nobody waits for ever; what is proposed is delivered.
* `tryProgress`: no event stays unseen.
* RBC: correct replicas deliver one root, which correct replicas have the blocks for;
  the same bytes; the proposer's input when it is correct.
* HoneyBadger: one sequence of blocks, none left out, each of N - F proposals; no
  transaction lost or delivered twice; an epoch that can end does.

## 2. Modules

| module | models | implements |
|---|---|---|
| `ConsistentBroadcast` | what one VCBC instance promises | |
| `EchoVBroadcast2` | one VCBC instance at all replicas | `ConsistentBroadcast` |
| `BinaryAgreement` | what one ABA instance promises | |
| `MoustefaouiBinaryAgreement` | one ABA instance at all replicas, rounds and coin included | `BinaryAgreement` |
| `AleaQueue` | `PriorityQueue` as operators on a record | |
| `AtomicBroadcast` | what Alea promises | |
| `Alea` | Alea at all replicas over the two abstract protocols, EXTENDS `AleaQueue` | `AtomicBroadcast` |
| `BrachaBroadcast2` | one RBC instance at all replicas | `ConsistentBroadcast`, of roots |
| `AcsAtomicBroadcast` | HoneyBadger at all replicas over the promises of RBC and ABA | `AtomicBroadcast`, of blocks |
| `AleaTryProgress` | the threads of one replica in `tryProgress`, operation by operation | |
| `MC...` | constants, symmetry and bounds for TLC | |
| `..._proofs` | theorems about the module of that name | |

The composition is by the abstract modules: `Alea` takes a VCBC to be what
`ConsistentBroadcast` allows when its proposer is correct or stops, and an ABA to be
what `BinaryAgreement` allows; the two detailed modules are shown to implement those.
`AcsAtomicBroadcast` takes of an ABA what `BinaryAgreement` says and of an RBC what
`BrachaBroadcast2` shows where replicas only stop.

**EchoVBroadcast2.** The variables are the fields of the instance. A digest is its
value; a signature is the fact that it is, or is not, made of 2f+1 good shares of
distinct replicas. The call of a handler on the replica's own message happens inside
`send()`, so `HandleInput` is SEND, its own ECHO and the acceptance of that ECHO in
one step. `handleSendMessage` is two actions, since the test and the set of `echoSent`
are two operations that `Workers` threads interleave. With `Removal` an instance that has
output may be removed, which `Alea` does, and what it remembered of its SEND and FINAL is
gone when a message makes it again. With the fault model `stop` a
faulty replica may stop anywhere, with `badshare` it runs the code and signs garbage
(`Utils.BYZ`), with `arbitrary` it sends anything: its share exists over every value,
so a FINAL of its own verifies as soon as the others have signed enough.

**MoustefaouiBinaryAgreement.** `local[p]` is the record of the instance's fields; a
handler, with every handler it calls on the way, is an operator from record to record.
There is no network variable: what a replica has sent can be read off its record, so
a message is in transit while its sender has sent it and its receiver has not got it,
and any of them may be next. A message of a later round stays in transit until its
receiver is there, which is `incomingQueue`. CONF is encoded after the handler has
returned, from the live `bin_values` object, hence the two possible contents in
`ReceiveConf`. The coin of a round is a constant drawn in `Init`; where a bad share is
combined the result is any bit.

**Alea, AleaQueue.** `queues` is the map of `PriorityQueue`s; `epoch` and `mode` are the
`AgreementState` object; `bcInstances` is the instance table, `enqueued` the threads that
are between `queue.enqueue` and the lock on `queues`. Each of the three states'
`tryProgress` is an action: other threads enqueue, decide and answer between them.
The loop over the queues in `WaitingState` and the insertion in `executed` are under
one lock and one action. The next batch of `pending` is any batch that `Repeats`
allows. FILL_GAPs and FILLERs are sets of messages in transit. An agreement ends when
N - F replicas have given their input and with the input of a correct one.

**BrachaBroadcast2.** `local[r]` is the record of the instance's fields and a handler an
operator on it, as in `MoustefaouiBinaryAgreement`; there is no network variable. The
handlers run under the lock of `AcsAtomicBroadcast.handleMessage`, so each is a step. A
root stands for the input it is made of, `Junk` for a root that is nobody's; a block is
good or bad, a length right, padded or other. Erasure code and Merkle tree are what the
code learns from them: N - F good blocks of a root with the right length, or with a
longer one in the same padding, give an input whose root is this root again, everything
else does not. Who has faults, and whether it stops or does anything, is drawn in `Init`.

**AcsAtomicBroadcast.** `state` is the class of each `Proposal`'s state object; an RBC is
the set of who has echoed it, an ABA the votes and the decision. A handler of a message is
one step and leaves its thread at `handleEpochStep`. `thread` is where the message thread,
one at a time under the lock of `handleMessage`, and the callers of `handleInput`, which
takes no lock, are in `handleEpochStep` and `tryPropose`, which they share; `Caller` are the
threads of a replica that clients call (`StateMachineServiceImpl.handleRequest`). What a
call sends is in the Step it returns, which `Replica.handleStep` takes to the senders when
the call is over: the epochs a thread has proposed in are `unsent` until it is back at
`Idle`, and nobody else echoes such a proposal (`Sent`). The votes and ECHOs of the thread
that handles a message count from the handler on: until it returns, what happens at its
replica does not depend on what others do with them, so that every behaviour of the model is
one of the code with those steps of others moved behind the return. A proposal is one
transaction, which is what `proposalSize` is with the batch size of the defaults.

**AleaTryProgress.** Each operation on `waitingForLock` and on the lock is an action of a
thread. `canProgress` is read without the lock and may answer for the state before. The
state machine looks until it finds nothing to do.

## 3. Runs

| run | what it checks | result |
|---|---|---|
| `Vcbc_byzproposer` | 4 replicas, an arbitrary proposer, one thread each and no removal, two values: `Consistency`, the refinement of `ConsistentBroadcast` | holds |
| `Vcbc_byzreplica` | 4 replicas, an arbitrary one that is not the proposer, shares verified, two threads each, instances removed and made again: `Integrity`, `FinalBacked`, `Totality` | holds |
| `Aba_byz` | 4 replicas, an arbitrary one, one round, mixed and unanimous inputs: `Validity`, `OneSingleton`, `OnlyConfsStall`, the refinement of `BinaryAgreement` (hence agreement) | holds |
| `Aba_early` | `EARLY_ABA`, no faults: `Agreement` | **violated** |
| `Aba_conf` | 4 replicas, one of which may stop: `ConfQuorumActedOn` | **violated** |
| `Alea_elsewhere` | 2 replicas, batches submitted at both: `HeadNotRemoved`, `HeadsAgree`, the refinement of `AtomicBroadcast` | holds |
| `Alea_live` | 2 replicas, two threads each, `DELAY_BC`: the refinement, `Delivery`, `AgreedIsDelivered` | holds |
| `Alea_fill` | 4 replicas, one stops with its FINAL half sent, FILLERs accepted: `WaitingEnds` | holds |
| `Bracha` | 4 replicas, one that stops, an arbitrary proposer or an arbitrary replica: `ReadiesAgree`, `Retrievable`, `Integrity`, `StopConsistency`, `Delivery`, the refinement of `ConsistentBroadcast` | holds |
| `Acs` | 3 replicas, one late or stopped, 2 epochs, `handleInput` without a lock, as it is: `SameBlocks`, `NothingLost`, `SkipsOnlyByRepeat`, `EpochsEnd`, `RestsBetweenEpochs`, the refinement of `AtomicBroadcast` | holds |
| `Acs_race` | the same: `EarliestEpoch` | **violated** |
| `AleaTryProgress` | 4 threads: `OneRuns`, `EventSeen`, `EventuallySeen` | holds |

`TypeOK` is an invariant of one run of each module.

The three violations say what the code does:

* `Aba_early`: with `EARLY_ABA`, a default, a replica decides *b* when it has BVAL(*b*) of
  all (`MoustefaouiBinaryAgreement.java:395`). BVALs are echoed, so with mixed inputs all
  replicas send both; whichever set fills first is decided, and not the same one
  everywhere.
* `Aba_conf`: a CONF counts when its bits are in `bin_values`, and the quorum of CONFs is
  looked for when a CONF comes (`MoustefaouiBinaryAgreement.java:407`, 475). When the bit that
  makes the last of them count comes afterwards, by BVAL, nobody counts again, and the replica
  invokes its coin only if a further CONF comes. Where one replica has stopped there may be
  none, and the instance ends undecided (`Termination`, section 5). `OnlyConfsStall`, in
  `Aba_byz`, is that there is no other such gap in a round.
* `Acs_race`: the threads of `handleInput` and `handleMessage` both see the epoch terminated
  (`AcsAtomicBroadcast.java:151`) before one of them goes to the next (186). The block is
  output twice and `epoch` is incremented twice; the epoch in between is left out. In the run
  the thread of the late replica's client is still inside with the proposal nobody has seen,
  while the two others' proposals end the epoch; with F = 0 the epoch would wait for it.
  `SkipsOnlyByRepeat`, in `Acs`, is that this is the only way to leave an epoch out.

### Bounds, and why they are enough

* VCBC: 4 replicas with F = 1 is the smallest instance with a fault, two values the
  smallest with an equivocation. The safety results are also proved for any size.
* ABA: 4 replicas, F = 1. `Aba_byz` has `MaxRound = 0`: messages of the first round
  only, from BVAL to the coin and the decision, and `MaxFaulty = 1` message of the
  arbitrary replica, of any kind to any replica at any time. One message is enough for
  each mutant in `PROJECT.json` to be found; what two or more do, and what the rounds do to
  each other, is covered by the proofs, which are for any size, any number of rounds and
  messages and every order.
  `InputSets` fixes who inputs TRUE:
  {a, b} is mixed, {a, b, c} is unanimous among the correct replicas; the other inputs
  are these with the bits or the replicas renamed. `Schedule` bounds the order of the
  steps: inputs come first; of equal messages the one of the first sender is received
  first (the handlers count senders; schedules in which it matters whose TERM meets
  whose earlier message are partly left out); a message that crosses no threshold is
  received at once; of the replicas with one input the first hears from the arbitrary
  one. What comes to rest in `OnlyConfsStall` does so whatever the order, so it loses nothing
  by these but the schedules of TERMs; it is proved for every order.
* Alea: `Alea_elsewhere` has 2 replicas, since what is checked is the bookkeeping of
  duplicates between queues, two slots per queue and one broadcast at a time, so that a
  place in `broadcastState` is taken, freed and taken again, and four epochs, so that each
  queue is looked at twice. `Alea_live` has three epochs and one batch per replica.
  `Alea_fill` needs a stopped replica and N - F others, so 4 with F = 1.
  `OwnBatch` ties batch *i* to replica *i*. `OneFirst` puts the batch of replica 1
  everywhere first, since a replica with empty queues does not take part in an
  agreement (a finding of its own, below). `ZeroStops`, `LastMisses` and `StartsUnseen`
  in `Alea_fill` leave only the schedules in which replica 0 stops before it agrees
  and the last replica is the one that misses its batch, and start a broadcast
  together with its end, which without `DELAY_BC` nobody can tell.
  The safety of larger systems is covered by the proofs.
* RBC: 4 replicas with F = 1, two values. What an arbitrary replica sends is `MCSend` and
  `MCEcho`: any root, lengths that are right or wrong, a block of its own place or of the
  place of another, bad blocks under the place of the proposer. Receptions at different
  replicas commute, since each handler reads its own record only and nothing sent is
  taken back, so `Schedule` fixes an order of them: SENDs, ECHOs one replica after the
  other, READYs; an arbitrary replica's ECHO comes first or completes a quorum;
  messages that cross no threshold are received at once. The safety results are also
  proved for any size and every order.
* HoneyBadger: 3 replicas with F = 1, which is `n / 3` for n = 3, so that N - F = 2 of 3
  proposals make a block and one may be late, refused or never come; two epochs, and two
  transactions at two of the replicas, so that a refused one is proposed again. `Schedule`
  lets clients of these submit first and runs their threads to the end of a call when
  they are in it; the third, `Late`, is where threads take their time: its one client may
  call at any time and be anywhere inside while messages are handled there and elsewhere. With
  the message thread it makes two threads in the shared code, which is what the hazards of
  that code need. Messages that bring no vote and end no epoch are received at once; two
  of the replicas take the others in a fixed order and `Late` is as late as it likes with the
  first epoch. When it stops it does so in the first epoch, or after its proposal in the second,
  and its threads do not take their time. What follows once a replica has output a
  block twice is left out (`UntilRepeat`); `SameBlocks` and `NothingLost` are proved there too.
  `Acs_race` is the same instance. The safety results are also proved for any size,
  any number of epochs and callers, and every order.
* `AleaTryProgress`: 4 threads let one run, one wait, one be between the test and the
  increment and one give up. The safety results are proved for any number.

`CHECK_DEADLOCK FALSE` is in every configuration: the instances are finite and stop
when their messages, slots, epochs or events are used up.

### Fairness

Worker threads are scheduled by the JVM and TCP delivers between correct replicas; so
`EchoVBroadcast2` has weak fairness of each handler of a correct replica (for the
messages of a correct proposer), `MoustefaouiBinaryAgreement` of the delivery to each
correct replica, `Alea` of the steps of each correct replica, where the broadcasts of
correct proposers complete but those of a stopped one need not and agreements end, `BrachaBroadcast2` of
what each correct replica receives from correct ones, `AcsAtomicBroadcast` of the threads
of each correct replica and of the end of agreements that N - F have voted in (which ABA's
`Termination` would give, and `Aba_conf` keeps it from: what is shown of HoneyBadger and of
Alea is that nothing else holds them up), and `AleaTryProgress` of each thread. Nothing is assumed of faulty replicas, of clients or of when an input
arrives. The lock of `AleaTryProgress` need not be fair: `EventuallySeen` holds because a
thread that finds somebody waiting leaves. Constraints in liveness runs do not cut off
a fair behaviour: `OwnBatch` and `OneFirst` restrict what clients submit, on which
there is no fairness.

## 4. Proofs

`EchoVBroadcast2_proofs` (any replicas, any F, any values, all fault models):

* `TypeCorrect` - `TypeOK`.
* `Consistent` - `Consistency`, assuming `OneDigest` and `Resilient`. `OneDigest` is that the
  proposer runs the code, or each replica handles SENDs in one thread and no instance is made
  again; `Resilient`, that there are at most 3F+1 replicas and at most F faulty. `BackedInv`
  says that a delivered value, and a valid FINAL, has a quorum of signers (`Certified`); two
  quorums meet in a correct replica (`QuorumsMeet`), and that has signed one digest (lemma
  `SignsOnce`): nothing but the input if the proposer runs the code (`InputInv`), and by
  `OnceInv` otherwise, which says that a replica has signed only if `echoSent` is set and that
  nothing is past the test once it is. With two threads it is false, and against an
  arbitrary proposer so is `Consistency`.
* `InputDelivered` - `Integrity`, assuming `EnoughRun`, that at most F replicas are faulty if
  they may send anything: among 2F+1 signers one runs the code, and under a correct
  proposer it signs the input only. Neither one thread nor the bound on n is needed, and
  instances may be removed and made again.
* `Implements` - every step is a step of `ConsistentBroadcast` or none, under the
  assumptions of `Consistent`.
* `ImplementsForProposer` - the same for a proposer that runs the code, assuming
  `EnoughRun` alone. This is the use `Alea` makes of it: several threads, instances removed
  and made again, proposers that may stop.
* `NoStall` - with a correct proposer that verifies shares, faulty replicas that stop or
  sign garbage and 2F+1 correct ones, an instance that has handled all messages among
  correct replicas (`AllHandled`) has given all of them the input. `FinalSentInv` says that
  ECHOs of 2F+1 replicas and an unsent FINAL do not go together. It is `Totality`
  without its fairness, for any size.
* `FinalsBacked` - `FinalBacked`, assuming `~QuickSigVer`: a share that is not good is never
  counted (`FinalInv`), so that 2F+1 of them verify; also with instances removed. `QuickSigVer`
  is a default of the code: section 5 shows what happens then.

`OneDigest` and `Resilient` are not in the code: against a proposer that does not run the code
the first would be a lock (or `getAndSet`) around the test of `echoSent` and a memory of the
slots that have been signed (`Alea.java:321` removes it); `Resilient` is not enforced by
`ReplicaMain.java:95`, which takes F = n/3 for any n. Section 5 shows that each matters.

`AleaTryProgress_proofs` (any finite set of threads): `TypeCorrect`, `OneThreadRuns` and
`EventsAreSeen`. The inductive invariant is that `waitingForLock` is the number of threads
between the increment and the decrement, that the lock is held by the one thread past
it, and that a pending event has a thread that will look. A thread gives up only when
the counter is not 0, so another one is before its decrement and has not looked yet:
the "hack" of the comment at `Alea.java:440` is sound.

`MoustefaouiBinaryAgreement_proofs` (any replicas, any F, any number of rounds, any coin, all
fault models). `FewFaults` is that at most F replicas are faulty; `Resilient` that n > 3F
as well, that `EarlyAba` is off and that no bad coin share is sent:

* `TypeCorrect` - `TypeOK`. `TypeInv` adds what the counting rests on: a replica that has not
  sent BVAL(*b*) has at most F of them.
* `DecisionsValid` - `Validity`, assuming `FewFaults` alone: neither the bound on n, nor a
  common coin, nor the absence of `EarlyAba` is needed. Whoever sends or accepts a bit, or
  decides it, has F+1 BVALs or TERMs behind it, one of a correct replica (`Backed`).
* `DecisionsAgree` - `Agreement`, assuming `Resilient`. This is where rounds and TERMs meet.
  `Big` says of a bit and a round that enough replicas may have sent its AUX for a CONF to hold
  it alone; it can be so for one bit only, since two sets of N - F meet in a correct
  replica and that sends one AUX per round (`OneBig`). A bit is sent in a round only if
  each round before had it as its coin or as its `Big` bit (`Path`), or if somebody has
  decided it. What is decided was `Locked`: in some round it was the coin and the `Big` bit,
  so that after this round there is a `Path` for no other bit. A TERM is as good as its
  sender's decision, which is why `Locked` is about a round up to the sender's own and not
  the receiver's.
* `SingletonsAgree` - `OneSingleton`, assuming `Resilient`. It is said of a round only as long
  as nothing has been decided in a later one: a replica left behind takes TERMs of the later
  decision for AUXs of its round.
* `Implements` - every step is a step of `BinaryAgreement` or none, assuming `Resilient`.

The inductive invariant `Knows` is `TypeInv` and, for each correct replica, that what its
record says others sent they did send (`HeardBVal`, `HeardAux`, `HeardTerm`), that what it
sends and decides it may (`Supports`, `Decides`), and that its coins are the coins (`Tosses`).
All of it is kept when others go on (`AllGrow`), so each handler is followed at one
replica, through the handlers it calls (`Goes`). `EarlyAba` is on by default, coin shares
are not verified and F is n/3: `Resilient` is an assumption about how the code is run.
`Aba_early` and section 5 show that without it `Agreement` and `CommonCoin` fail.

`MoustefaouiAtRest_proofs` (the same instance, any replicas, any F, any number of rounds, any
coin, all fault models, with or without `EarlyAba`):

* `RoundsEnd` - `OnlyConfsStall`, assuming `FewFaults` and n > 3F: when all correct replicas have their inputs and each
  other's messages (`Quiescent`), none has decided, and each has acted on the CONFs it
  holds (`ConfQuorumActedOn`), then every round has ended: the instance is not stuck in one.
  It is what `Termination` rests on, for any size, and it says which of the quorums may
  be missed: `ConfQuorumActedOn` is false in the code (`Aba_conf`), the others hold.
  `Steady` says of every threshold of a round (2F+1 BVALs, N - F AUXs, 2F+1 coin shares,
  a known coin) that an undecided replica which has reached it has acted, whatever the order in
  which messages came and through whichever handler the last of them did; of CONF alone
  it cannot, since the bit that a CONF waited for may enter bin_values in a handler that does
  not look at the CONFs. `HeardConf` is that a CONF holds bits that its sender keeps. The
  theorem is about the earliest round that a correct replica is in: what F+1 of them support
  all support (`SupportSpreads`), bin_values is the same everywhere and not empty
  (`BinSpreads`, `SomeBin`), so all send CONF (`AuxsSpread`), invoke the coin
  (`ConfsSpread`) and leave the round (`RoundLeft`).

`Alea_proofs` (any replicas, any of them faulty, any batches, any number of slots, epochs and
threads). `Orderly` is that no batch is submitted twice, or that it may be at two replicas
but each runs `handleVBroadcastStep` in one thread and takes no FILLER:

* `TypeCorrect` - `TypeOK`. `ActiveCounts` says that `active` is the number of the replica's own
  broadcasts that have not ended there, so that it is not decremented below 0.
* `HeadsLive` - `HeadNotRemoved`, from no assumption. `HeadOk` is kept by every operation of a
  queue (`AdvanceHeadOk`, `EnqueueOk`, `DequeueSlotFields`, `DequeueBatchFields`): the loop of
  `AdvanceHead` ends at the first slot that is not removed. `QueuesContents` is that a slot
  holds what its proposer broadcast in it, also when it came by a FILLER.
* `HeadsAgreeAlways` - `HeadsAgree`, assuming `Orderly`. `LiveInv` says that a slot is removed
  at a replica if and only if its batch was executed there (`Marking`). This is what breaks
  without `Orderly`: a batch that was executed arrives in a slot that is not removed.
  So the head is the first slot of the proposer whose batch was not executed, whichever
  slots have arrived (`HeadFirst`).
* `Implements` - every step is a step of `AtomicBroadcast` or none, assuming `Orderly`.
  `OrderInv` ties the log of a replica to the agreements of the epochs it has left
  (`Passed`), and each entry to the first batch of the leader's queue that is not in the
  log before it (`LogsFirst`). Two replicas may be any number of epochs apart: the log of the
  one behind is a prefix of the other's, which goes on in a later epoch (`Prefix`). The
  one behind therefore delivers, of an epoch, what the other delivered of it
  (`AheadDelivered`).
* `ProposerOrder` - a block of an epoch holds the first batch of its leader that no earlier
  block holds, assuming `Orderly`: a proposer's batches are delivered in the order it
  proposed them, however its slots arrive.
* `NobodyLeftWaiting` - `WaitingEnds`, assuming `Orderly` and that no replica stops or
  FILLERs are accepted (`Benchmark`). `AgreeInv` and `OfferInv` follow the decision back to a
  correct replica that offered true, which then had the batch in its queue and keeps it;
  `Asked` says that a replica waiting for a batch has asked for that slot or is sent it.
* `AllDelivered` - when no correct replica can take another step (`NothingToDo`), every batch
  of a correct proposer is executed at every correct replica that has epochs left,
  assuming `Orderly` and that no replica stops; or that at most F do, FILLERs are accepted and
  `DELAY_BC` is off. It is `Delivery` without its fairness. `RestInv` says which replicas have
  given an agreement its input (`InputGiven`) and that a decision of an epoch needed it.
  The counterexamples of section 5 to `WaitingEnds` and `Delivery` are where these
  assumptions fail.
* `EpochsAreAgreements`, `SlotsAreBroadcasts` - what `Alea` does with the agreement of an epoch is
  a behaviour of `BinaryAgreement`, what it does with a slot one of `ConsistentBroadcast`, for
  all parameters. So the interface `Alea` is modelled over is the one the modules below are
  proved to implement: one input per replica, one output, none that was not given.

`Orderly` is about the clients and the parameters, and the code checks none of it. Three rows of
section 5 show that with a batch at two replicas one thread and no FILLER are needed, and
that a batch proposed twice by one replica is too much. The proofs rest on what
`ConsistentBroadcast` and `BinaryAgreement` promise, which is proved of the modules below
them under the assumptions named there.

`BrachaBroadcast2_proofs` (any replicas, any F, any sets of inputs, sizes and messages).
`FewFaults` is that at most F replicas are faulty, `Resilient` that n > 3F as well:

* `TypeCorrect` - `TypeOK`.
* `ReadyForOne` - `ReadiesAgree`, assuming `Resilient`. The invariant `SupportInv` says that
  what a correct replica holds under a root, a faulty replica sent or a replica whose
  own ECHO was of this root; `ReadyInv` that a READY has N - F such holdings behind it.
  Two quorums of N - F meet in a correct replica, and it echoes once.
* `CanBeRetrieved` - `Retrievable`, assuming `FewFaults`.
* `OnlyInput` - `Integrity`, assuming `FewFaults` and n > 2F: of N - F echoers one is correct,
  and under a correct proposer it echoed the proposer's SEND (`SentInv`).
* `SameBytes` - `StopConsistency`, from no assumption at all: when replicas only stop, every
  length in the system is the right one (`StopInv`).
* `Implements` - every step is a step of `ConsistentBroadcast`, of roots, or none,
  assuming `Resilient`.
* `NoStall` - where faulty replicas only stop, at most F of them, and n > 3F: when every
  message among correct replicas was received (`Handled`), a correct proposer's input was
  delivered at all of them. `RecoverInv` says that the tests that set `readySent` and `output`,
  each made once, when a message comes, miss none. It is `Delivery` without its fairness.

`AcsAtomicBroadcast_proofs` (any replicas, any F, any transactions, any number of epochs):

* `TypeCorrect` - `TypeOK`.
* `LosesNothing` - `NothingLost`: a transaction leaves a queue in `Finish` alone, with the block
  it is in.
* `OneBlock` - `SameBlocks`: an epoch ends where every proposal is complete, which is a decided
  agreement each (`StateDecided`, `EndsTerminated`), and what is decided stays decided
  (`DecidedOnce`). So its block is the decided set (`BlockInv`), whichever thread of
  whichever replica makes it, and however often.
* `OnlyRepeatsSkip` - `SkipsOnlyByRepeat`. `epoch` is the number of blocks output (`Counted`),
  and a thread ends an epoch that was current when it looked, so not a later one than now is
  (`EndsReached`). If it is now the current one its block is next in turn, and if it is
  not, it is one of those before, which has a block already as long as they are in order.
* `Implements` - every step is a step of `AtomicBroadcast` or none, where of each correct
  replica the blocks count up to the first that comes out of its turn (`InTurn`). With
  `OnlyRepeatsSkip` that is all of them as long as none is output twice.
* `NoStall` - `RestsBetweenEpochs`: when no thread is inside and no message, vote or decision
  is left to take (`AtRest`), an epoch in which N - F correct replicas proposed has ended at
  all of them, unless one has output a block twice. `VotesInv` ties votes, values and
  decisions to the state of a proposal; `Awake` is that of the threads which leave a terminated
  epoch to each other, one that will look is inside. It is `EpochsEnd` without its fairness.

None of them assumes that `handleInput` takes the lock, and the number of callers is any. The
one assumption beside the types is `QuorumAssumption`, N >= F + 2: a broadcast needs the
ECHO of a replica other than its proposer.

Model-checked only: liveness itself (`Totality`, `Delivery`, `AgreedIsDelivered`, `EpochsEnd`,
`EventuallySeen`), since fairness and ENABLED are out of the prover's reach. What
can be said of it without them is proved: the system does not come to rest short of its
goal (`NoStall` thrice, `NobodyLeftWaiting`, `AllDelivered`, `RoundsEnd`, `EventsAreSeen`). What
remains is that steps go on being taken and that there are finitely many of them; for ABA
also that a coin of some round is the bit that all support.

## 5. More counterexamples

Properties that a module states and the code does not have, beside those of the runs.
Each is found by TLC with the run named, its properties replaced by this one and its
constants changed as said.

| property | start from | change | what happens |
|---|---|---|---|
| `SignOnce` | `Vcbc_byzproposer` | `Workers = 2` | two SENDs pass the test at `EchoVBroadcast2.java:148` before either sets the flag at 158 |
| `SignOnce`, `Consistency` | `Vcbc_byzproposer` | `Removal = TRUE` | a removed instance (`Alea.java:321`) is made again and signs another digest of its slot; NetworkInfo.java:54 promises correctness for f faulty replicas |
| `FinalBacked` | `Vcbc_byzreplica` | `QuickSigVer = TRUE`, the default | an ECHO counts without its share being verified (`EchoVBroadcast2.java:206`); one bad share among the first 2f+1 makes the FINAL unverifiable, and `finalSent` stands against another |
| `Consistency` | `Vcbc_byzproposer` | a fifth replica d, F still 1 | 2f+1 = 3 of 5 is no majority of correct replicas (line 224) |
| `TerminatedDecided` | `Vcbc_byzreplica` | | a FINAL that does not verify latches `terminated` (line 259); `Totality` is that nobody else is kept from the input |
| `Termination` | `Aba_conf` under `FairSpec` | `Hears` all five kinds | after what `Aba_conf` shows no further CONF comes, one replica having stopped, and no replica invokes a coin again |
| `CommonCoin` | `Aba_byz` | "badcoin", `InputSets = {{a, b, c}}`, EARLY_ABA on | one bad share among 2f+1 (line 522) |
| `ConfValuesHeard` | `Aba_byz` | "crash", EARLY_ABA on, `InputSets = {{a, b}}` | `confValues` is `bin_values` (line 608) and goes on growing |
| `TermsCarryOn` | `Aba_byz` | "crash", `MaxRound = 1`, `InputSets = {{a, b}}` | a TERM counts in its own round only (line 540), and its sender is silent in later ones |
| `ImplementsAtomicBroadcast` | `Alea_elsewhere` | one batch, `MaxSlot = 0`, `Workers = 2` | the batch is agreed upon between the enqueue (`Alea.java:310`) and the test of `executed` (315), and delivered twice |
| `ImplementsAtomicBroadcast` | `Alea_elsewhere` | `Repeats = "anywhere"` | a batch in two slots of one queue is dequeued once (`PriorityQueue.java:76`) |
| `ImplementsAtomicBroadcast` | `Alea_elsewhere` | `Benchmark = TRUE` | a FILLER enqueues a batch that was executed (`Alea.java:292`) |
| `SameBlocks` | `Alea_live` under `Spec` | `BatchSize = 2` | `decodeBatchEntries` collects arrays in a `HashSet` (`Alea.java:590`): identity order |
| `WaitingEnds` | `Alea_fill` | `Benchmark = FALSE` | a FILLER's proof is verified over the batch, not its digest (`Alea.java:283`): never valid |
| `AgreedIsDelivered` | `Alea_fill` under `FairSpec` | `Batch = {0}`, no constraint but `OwnBatch` | a replica with empty queues does not look at the decision (`ProposingState.java:53`) |
| `Delivery` | `Alea_fill` under `FairSpec` | `DelayBc = TRUE`, a default, `MaxEpoch = 2`, no constraint but `OwnBatch` and `OneFirst` | a replica gives no input while the broadcast of the head is ongoing (`ProposingState.java:36`); that of a stopped proposer is ongoing for ever, and the agreement stays short of N - F inputs |
| `Totality` | `Bracha` | | no READY is sent on f+1 READYs (`BrachaBroadcast2.java:262`), so a replica short of N - F good blocks never delivers what others did |
| `Consistency` | `Bracha` | `FaultySend <- Send` | an arbitrary proposer tells two replicas two lengths with the same padding (line 203): the same root, not the same bytes |
| `DeliveredOnce` | `Acs_race` | | the block that two threads output twice; so is a batch that is read (`AcsAtomicBroadcast.java:127`) before the epoch that delivers it ends, and proposed in the next one (141) |
| `DeliveredOnce` | `Acs_race` | `Replica = {a, b}`, `StopSets = {{}}`, `F = 0`, `Late = b`, `MaxEpoch = 0`, `Each = 1`, `Clients <- Everywhere`, no constraint | one transaction in two proposals: the block is a `HashSet` of arrays (line 158), which keeps both |
| `Delivery` of `AcsAtomicBroadcast` | `Acs` | `Each = 1` | a refused transaction waits for N - F proposals, and replicas with empty queues make none (line 129) |

## 6. Not modelled

* Cryptography: 2f+1 good shares make a signature or a coin, fewer do not; hashes do
  not collide; FILL_GAP and FILLER are not forged.
* Handlers of one ABA instance that run at the same time in several threads: a handler
  is one step. `round`, `decision` and `incomingQueue` are read and written unlocked.
* What a removed and re-made VCBC instance does to `bcStarts` and `broadcastState` of `Alea`
  (`Alea.java:322, 328`); what it does to the broadcast is `Removal` of `EchoVBroadcast2`.
* An exception in `agreementState.tryProgress()`: the lock at `Alea.java:444` is not
  released in a `finally`.
* Byzantine replicas in `Alea`: its faulty replicas stop. A faulty proposer's broadcast
  is covered by `EchoVBroadcast2`, a faulty voter by `MoustefaouiBinaryAgreement`.
* Byzantine replicas and lost broadcasts in `AcsAtomicBroadcast`: its faulty replicas stop,
  between two messages. One that stops in the middle of a multicast leaves some correct
  replicas short of ECHOs for ever (`Totality` above), and since a later epoch's end removes
  the instances (`AcsAtomicBroadcast.java:186`, 96) a replica left behind is not helped.
  Encryption, which `Replica.java:162` switches off.
* Finer steps of two threads in `AcsAtomicBroadcast`: `Finish` does the output, `removeAll`, the
  change of epoch and the reset of `hasInput` in one step, `Propose` and `Test` read `epoch` and
  look its `Epoch` up in `epochs` (lines 140, 150) in one, and `Epoch.handleInput` of a caller
  is not interleaved with `Epoch.handleMessage`, which work on the same RBC.
* The order in which two worker threads hand the blocks of their steps to the service
  (`Replica.java:238`), after the protocol's lock is released.
* Admission and confirmation (`StateMachineServiceImpl`: `submit` before `pending.put`), the
  pending containers, the averages of `DELAY_ABA`, `reset`, the benchmark logs.
* A lost connection: a message that `Connection.send` fails to write is not repeated.
* The earlier HoneyBadger, Dumbo and what only they use (PRBC, MVBA, election, AVID).

## 7. Plan

Written so far, in this order: VCBC with its proofs, ABA, queues, Alea, `tryProgress`
with its proofs, removal in VCBC, the RBC and HoneyBadger with their proofs, the proofs of
ABA and of Alea. Next:

1. The ABA handlers at thread level; `incomingQueue` explicitly.
2. `StateMachineServiceImpl` over `AtomicBroadcast`: admission, `submit`, `confirm` and their
   race; the tables of `Alea` with instances made again.
