--------------------------- MODULE BrachaBroadcast2 ---------------------------
(***************************************************************************)
(* One instance of the reliable broadcast the HoneyBadger replicas run,    *)
(* P/broadcast/bracha2/BrachaBroadcast2.java, at every replica.  The       *)
(* proposer cuts its input into n blocks by an erasure code and sends      *)
(* every replica one of them with the root of a Merkle tree over all; the  *)
(* replicas ECHO their blocks, whoever has n - f blocks of a root recovers *)
(* the input and multicasts READY, and 2f+1 READYs deliver it.             *)
(*                                                                         *)
(* A root is its input, or Junk when its leaves are the blocks of no       *)
(* input.  A block is good or bad: bad is one that makes the decoding      *)
(* yield something else, although its branch verifies (merkleVerify adds   *)
(* the two children, so it accepts a block at the place of another).  The  *)
(* length of the input is not under the root.  Given a wrong one the       *)
(* decoder yields something of another root ("other"), or the input with   *)
(* zeros at its end, whose root is the same ("padded").                    *)
(*                                                                         *)
(* AcsAtomicBroadcast.handleMessage and Proposal are synchronized, so a    *)
(* handler is one step, with the messages the replica sends to itself.     *)
(* As in MoustefaouiBinaryAgreement there is no network: what a replica    *)
(* has sent can be read off its fields, and is in transit until received.  *)
(***************************************************************************)
EXTENDS Integers, FiniteSets

CONSTANTS
    Replica,
    Proposer,        \* proposerId
    F,               \* networkInfo.getF()
    Value,
    Junk,
    None,
    StopSets,        \* the sets of replicas that may be those that stop,
    ArbitrarySets,   \* and those that may be the ones that do anything:
    FaultySend,      \* bound: the SENDs
    FaultyEcho       \* bound: and the ECHOs of an arbitrary replica

ASSUME ReplicaAssumption == /\ IsFiniteSet(Replica) /\ Proposer \in Replica
                            /\ StopSets \cup ArbitrarySets \subseteq SUBSET Replica
ASSUME FAssumption == F \in Nat
ASSUME ValueAssumption == None \notin Value /\ Junk \notin Value /\ Junk # None

N == Cardinality(Replica)
Root == Value \cup {Junk}
Size == {"right", "padded", "other"}
\* What a SEND carries besides the block; unsound is a block whose branch does
\* not verify.
Send == [root : Root, size : Size, sound : BOOLEAN]
Echo == [root : Root, size : Size, block : Replica, content : {"good", "bad"}]
Recovered == [root : Value, size : Size]

ASSUME NoneAssumption == None \notin Size \cup Send \cup Recovered
ASSUME FaultyAssumption == FaultySend \subseteq Send /\ FaultyEcho \subseteq Echo

VARIABLES
    faulty,     \* the replicas with faults, and
    arbitrary,  \* whether they do anything or only stop: both never change
    input,      \* the proposer's input; None is sendSent = false
    local       \* [Replica -> the fields of its instance]

vars == <<faulty, arbitrary, input, local>>

Correct == Replica \ faulty
\* The replicas that run the code; one that stops is only owed no fairness.
Running == IF arbitrary THEN Correct ELSE Replica

Fields == [echoed    : Send \cup {None},     \* the SEND accepted: echoSent
           echos     : SUBSET Replica,       \* whose ECHO was accepted
           sizes     : [Root -> Size \cup {None}],
           blocks    : [Root -> [Replica -> {"none", "good", "bad"}]],
           readySent : BOOLEAN,
           known     : Recovered \cup {None},  \* the one entry of knownHashes
           readies   : [Replica -> Root \cup {None}],
           output    : Recovered \cup {None}]

TypeOK ==
    /\ faulty \subseteq Replica /\ arbitrary \in BOOLEAN
    /\ input \in Value \cup {None}
    /\ local \in [Replica -> Fields]

Init ==
    /\ \/ faulty \in StopSets /\ arbitrary = FALSE
       \/ faulty \in ArbitrarySets /\ arbitrary = TRUE
    /\ input = None
    /\ local = [r \in Replica |->
           [echoed    |-> None,
            echos     |-> {},
            sizes     |-> [v \in Root |-> None],
            blocks    |-> [v \in Root |-> [q \in Replica |-> "none"]],
            readySent |-> FALSE,
            known     |-> None,
            readies   |-> [q \in Replica |-> None],
            output    |-> None]]
-----------------------------------------------------------------------------
Received(s, v) == {q \in Replica : s.blocks[v][q] # "none"}

\* Mutants of tryOutput: the input is delivered by itself, without its length.
TryOutputRoot(s, v) ==
    IF /\ s.known # None /\ s.known.root = v
       /\ Cardinality({q \in Replica : s.readies[q] = v}) >= 2 * F + 1
       /\ s.output = None
    THEN [s EXCEPT !.output = v] ELSE s

\* tryOutput: the input of the root is known and 2f+1 replicas are ready.
TryOutput(s, v) ==
    IF /\ s.known # None /\ s.known.root = v
       /\ Cardinality({q \in Replica : s.readies[q] = v}) >= 2 * F + 1
       /\ s.output = None
    THEN [s EXCEPT !.output = s.known] ELSE s

\* Mutant of BlocksNeeded: as many as the decoder needs.
BlocksDecodable == N - 2 * F
BlocksNeeded == N - F

\* The part of handleEchoMessage at n - f blocks: decode, encode again, compare
\* the roots.  readySent is set first, so there is one attempt in all.  The
\* proposer decodes with the length of its own input.  The READY multicast is
\* also the replica's own; its known.root is what it tells the others.
DecodeSizeOfBlocks(r, s, v) == IF r = Proposer THEN "right" ELSE "padded"
DecodeSize(r, s, v) == IF r = Proposer THEN "right" ELSE s.sizes[v]
Recovers(r, s, v) == /\ v # Junk
                     /\ \A q \in Received(s, v) : s.blocks[v][q] = "good"
                     /\ DecodeSize(r, s, v) # "other"

\* Mutants: the roots are not compared, or the own READY is not counted.
TrySendReadyUnchecked(r, s, v) ==
    IF Cardinality(Received(s, v)) # BlocksNeeded \/ s.readySent THEN s
    ELSE LET size == IF Recovers(r, s, v) THEN DecodeSize(r, s, v) ELSE "other"
         IN  TryOutput([s EXCEPT !.readySent = TRUE,
                                 !.known = [root |-> v, size |-> size],
                                 !.readies[r] = v], v)
TrySendReadyToOthers(r, s, v) ==
    IF Cardinality(Received(s, v)) # BlocksNeeded \/ s.readySent THEN s
    ELSE IF ~Recovers(r, s, v) THEN [s EXCEPT !.readySent = TRUE]
    ELSE TryOutput([s EXCEPT !.readySent = TRUE,
                             !.known = [root |-> v, size |-> DecodeSize(r, s, v)]], v)

TrySendReady(r, s, v) ==
    IF Cardinality(Received(s, v)) # BlocksNeeded \/ s.readySent THEN s
    ELSE IF ~Recovers(r, s, v) THEN [s EXCEPT !.readySent = TRUE]
    ELSE TryOutput([s EXCEPT !.readySent = TRUE,
                             !.known = [root |-> v, size |-> DecodeSize(r, s, v)],
                             !.readies[r] = v], v)

\* handleEchoMessage.  The first ECHO of a root fixes the length, the first
\* block at a place stays there.
StoreEcho(s, q, e) ==
    [s EXCEPT !.echos = @ \cup {q},
              !.sizes[e.root] = IF @ = None THEN e.size ELSE @,
              !.blocks[e.root][e.block] = IF @ = "none" THEN e.content ELSE @]

HandleEchoMessage(r, s, q, e) ==
    IF q \in s.echos THEN s
    ELSE TryOutput(TrySendReady(r, StoreEcho(s, q, e), e.root), e.root)

\* handleSendMessage: ECHO the block, as it came, to all and to itself.  Nobody
\* accepts an unsound one.
EchoOf(r, m) == [root |-> m.root, size |-> m.size, block |-> r, content |-> "good"]
HandleSendMessage(r, s, m) ==
    IF s.echoed # None THEN s
    ELSE LET t == [s EXCEPT !.echoed = m]
         IN  IF m.sound THEN HandleEchoMessage(r, t, r, EchoOf(r, m)) ELSE t

\* handleReadyMessage: one READY per sender.
HandleReadyMessage(s, q, v) ==
    IF s.readies[q] # None THEN s
    ELSE TryOutput([s EXCEPT !.readies[q] = v], v)

\* The messages from q to r: those q has sent, or any when q is arbitrary.
SendOf(v) == [root |-> v, size |-> "right", sound |-> TRUE]
SendsTo(r) == IF Proposer \notin Running THEN FaultySend
              ELSE IF input = None THEN {} ELSE {SendOf(input)}
EchosFrom(q) == IF q \notin Running THEN FaultyEcho
                ELSE LET m == local[q].echoed
                     IN  IF m = None \/ ~m.sound THEN {} ELSE {EchoOf(q, m)}
ReadiesFrom(q) == IF q \notin Running THEN Root
                  ELSE IF local[q].known = None THEN {} ELSE {local[q].known.root}

HandleInput(v) ==
    /\ Proposer \in Running
    /\ input = None
    /\ input' = v
    /\ local' = [local EXCEPT ![Proposer] = HandleSendMessage(Proposer, @, SendOf(v))]
    /\ UNCHANGED <<faulty, arbitrary>>

HandleSend(r) ==
    /\ r \in Running \ {Proposer}
    /\ local[r].echoed = None
    /\ \E m \in SendsTo(r) : local' = [local EXCEPT ![r] = HandleSendMessage(r, @, m)]
    /\ UNCHANGED <<faulty, arbitrary, input>>

HandleEcho(r, q) ==
    /\ r \in Running
    /\ q \notin local[r].echos
    /\ \E e \in EchosFrom(q) : local' = [local EXCEPT ![r] = HandleEchoMessage(r, @, q, e)]
    /\ UNCHANGED <<faulty, arbitrary, input>>

HandleReady(r, q) ==
    /\ r \in Running
    /\ local[r].readies[q] = None
    /\ \E v \in ReadiesFrom(q) : local' = [local EXCEPT ![r] = HandleReadyMessage(@, q, v)]
    /\ UNCHANGED <<faulty, arbitrary, input>>

Next ==
    \/ \E v \in Value : HandleInput(v)
    \/ \E r \in Replica :
          \/ HandleSend(r)
          \/ \E q \in Replica \ {r} : HandleEcho(r, q) \/ HandleReady(r, q)

Spec == Init /\ [][Next]_vars

\* TCP delivers what a correct replica sends to a correct one; each step receives
\* one of finitely many messages, so none is left out.
ReceiveFromCorrect(r) ==
    /\ r \in Correct
    /\ \/ Proposer \in Correct /\ HandleSend(r)
       \/ \E q \in Correct \ {r} : HandleEcho(r, q) \/ HandleReady(r, q)

Fairness == \A r \in Replica : WF_vars(ReceiveFromCorrect(r))

FairSpec == Spec /\ Fairness
-----------------------------------------------------------------------------
\* What is decoded to another length is not the input of the root.
RootOf(x) == IF x = None THEN None ELSE IF x.size = "other" THEN Junk ELSE x.root

\* No two correct replicas are ready for different roots, whatever blocks the
\* faulty ones echo under which place (handleEchoMessage, one ECHO per sender).
ReadiesAgree ==
    \A r, q \in Correct : local[r].known # None /\ local[q].known # None
                              => local[r].known.root = local[q].known.root

\* What a correct replica delivers can be decoded from the blocks that correct
\* replicas hold: n - 2f of them echo it (handleEchoMessage, "recover message").
Retrievable ==
    \A r \in Correct : local[r].output # None =>
        Cardinality({q \in Correct : /\ local[q].echoed # None
                                     /\ local[q].echoed.root = local[r].output.root})
            >= N - 2 * F

\* Correct replicas deliver the same bytes, lengths included.  The code has
\* this when faulty replicas only stop.
Consistency ==
    \A r, q \in Correct : local[r].output # None /\ local[q].output # None
                              => local[r].output = local[q].output
StopConsistency == ~arbitrary => Consistency

\* With a correct proposer only its input is delivered, or its input with zeros
\* at its end.
Integrity ==
    Proposer \in Correct => \A r \in Correct : RootOf(local[r].output) \in {None, input}

\* The roots delivered at the correct replicas are those of a consistent
\* broadcast: one root, once.
CB == INSTANCE ConsistentBroadcast WITH
          Correct <- Replica,
          ProposerCorrect <- FALSE,
          proposal <- input,
          Value <- Root,
          delivered <- [r \in Replica |->
                           IF r \in Correct THEN RootOf(local[r].output) ELSE None]

\* Every step is a step of ConsistentBroadcast, or none of its.
ImplementsConsistentBroadcast == CB!Spec

\* Where faulty replicas only stop, the input of a correct proposer is delivered
\* everywhere.
Delivery ==
    (~arbitrary /\ Proposer \in Correct /\ input # None)
        ~> (\A r \in Correct : RootOf(local[r].output) = input)

\* What one correct replica delivers all do (the reliable in reliable broadcast).
\* The code does not have it: no READY is sent on f+1 READYs, and a replica that
\* is short of n - f blocks never recovers.
Totality == \A r, q \in Replica :
    (r \in Correct /\ q \in Correct /\ local[r].output # None) ~> (local[q].output # None)
=============================================================================
