---------------------- MODULE MoustefaouiBinaryAgreement ----------------------
(***************************************************************************)
(* One instance of P/binaryagreement/moustefaoui, the binary agreement that *)
(* Alea runs once per epoch, at every replica.  A round r is BVAL, AUX,     *)
(* CONF and COIN messages; a replica that decides multicasts TERM and takes *)
(* part in no later round.                                                 *)
(*                                                                         *)
(* local[p] holds the fields of the instance at p, those the code keeps in  *)
(* maps keyed by round as functions of the round.  A message handler, with  *)
(* every handler it calls on the way (a replica handles its own messages    *)
(* inside send...Message), is an operator from the old record to the new   *)
(* one, and one action applies one of them.  What a replica has sent can be *)
(* read off its record, so there is no variable for the network: a message *)
(* that was sent and not yet received is in transit, and messages are       *)
(* received in any order.  A message of a later round stays in transit     *)
(* until its receiver gets there; the code keeps it in incomingQueue.       *)
(***************************************************************************)
EXTENDS Integers, FiniteSets

CONSTANTS
    Replica,
    Faulty,
    F,             \* networkInfo.getF()
    EarlyAba,      \* Utils.EARLY_ABA
    FaultModel,    \* what a faulty replica does: nothing ("silent": Utils.BYZ,
                   \* or crashed before the start), its input and no more
                   \* ("crash"), anything ("arbitrary"), anything and bad coin
                   \* shares ("badcoin")
    MaxRound,      \* bound: messages of rounds after MaxRound are not received
    MaxFaulty      \* bound: messages of faulty replicas that are received, in all

N == Cardinality(Replica)
Correct == Replica \ Faulty
Running == IF FaultModel = "crash" THEN Replica ELSE Correct
Anything == FaultModel \in {"arbitrary", "badcoin"}

ASSUME ReplicaAssumption == IsFiniteSet(Replica) /\ Faulty \subseteq Replica
ASSUME FAssumption == F \in Nat \ {0} /\ N >= F + 3
ASSUME ModeAssumption == /\ EarlyAba \in BOOLEAN
                         /\ FaultModel \in {"silent", "crash", "arbitrary", "badcoin"}
                         /\ MaxRound \in Nat /\ MaxFaulty \in Nat

\* The rounds whose messages are received, and the one after them, which a
\* replica may enter.
Round == 0 .. MaxRound
AnyRound == 0 .. MaxRound + 1

VARIABLES
    local,         \* [Running -> Local]
    coin,          \* [Round -> BOOLEAN]: what 2f+1 good coin shares combine to
    garbled,       \* [Running -> BOOLEAN]: what the replica gets from a bad share
    fromFaulty     \* messages received from replicas with arbitrary faults

vars == <<local, coin, garbled, fromFaulty>>

\* A Boolean that may be null is a set with at most one element.
Bit == {{}, {TRUE}, {FALSE}}

Local == [
    round : AnyRound,
    input : Bit,                                    \* estimate of round 0
    decision : Bit,
    termRound : AnyRound,                           \* round of the TERM sent
    receivedBVal : [AnyRound -> [BOOLEAN -> SUBSET Replica]],
    sentBVal : [AnyRound -> SUBSET BOOLEAN],
    binValues : [AnyRound -> SUBSET BOOLEAN],
    sentAux : [AnyRound -> SUBSET BOOLEAN],
    receivedAux : [AnyRound -> [BOOLEAN -> SUBSET Replica]],
    sentConf : [AnyRound -> SUBSET BOOLEAN],        \* {}: sbvTerminated is false
    receivedConf : [AnyRound -> [Replica -> SUBSET BOOLEAN]],
    confFrom : [AnyRound -> SUBSET Replica],        \* CONFs that have arrived
    coinStarted : [AnyRound -> BOOLEAN],
    coinShares : [AnyRound -> SUBSET Replica],
    coinValue : [AnyRound -> Bit],
    receivedTerm : [AnyRound -> [Replica -> Bit]]]

TypeOK == /\ local \in [Running -> Local]
          /\ coin \in [Round -> BOOLEAN]
          /\ garbled \in [Running -> BOOLEAN]
          /\ fromFaulty \in 0 .. MaxFaulty

Init0 == [
    round |-> 0, input |-> {}, decision |-> {}, termRound |-> 0,
    receivedBVal |-> [r \in AnyRound |-> [b \in BOOLEAN |-> {}]],
    sentBVal |-> [r \in AnyRound |-> {}],
    binValues |-> [r \in AnyRound |-> {}],
    sentAux |-> [r \in AnyRound |-> {}],
    receivedAux |-> [r \in AnyRound |-> [b \in BOOLEAN |-> {}]],
    sentConf |-> [r \in AnyRound |-> {}],
    receivedConf |-> [r \in AnyRound |-> [s \in Replica |-> {}]],
    confFrom |-> [r \in AnyRound |-> {}],
    coinStarted |-> [r \in AnyRound |-> FALSE],
    coinShares |-> [r \in AnyRound |-> {}],
    coinValue |-> [r \in AnyRound |-> {}],
    receivedTerm |-> [r \in AnyRound |-> [s \in Replica |-> {}]]]

Init == /\ local = [p \in Running |-> Init0]
        /\ coin \in [Round -> BOOLEAN]
        /\ garbled \in IF FaultModel = "badcoin" THEN [Running -> BOOLEAN]
                                                 ELSE {[p \in Running |-> TRUE]}
        /\ fromFaulty = 0
-----------------------------------------------------------------------------
(***************************************************************************)
(* The handlers, from the innermost.  L is the record of replica p.        *)
(***************************************************************************)

\* decide and sendTermMessage.  Its own TERM is only recorded, as the decision
\* is latched by then.
Decide(p, L, bit) ==
    [L EXCEPT !.decision = bit, !.termRound = L.round,
              !.receivedTerm[L.round][p] = IF @ = {} THEN bit ELSE @]

\* updateRound: the next round starts with BVAL(estimate).  The BVAL is counted
\* at once, but with at most f TERMs for the same bit ahead of it it is not the
\* (2f+1)-st.
UpdateRound(p, L, r, bit) ==
    IF r < L.round THEN L
    ELSE LET n == L.round + 1
         IN  IF n > MaxRound THEN [L EXCEPT !.round = n]
             ELSE [L EXCEPT !.round = n,
                            !.sentBVal[n] = @ \cup bit,
                            !.receivedBVal[n] =
                                [b \in BOOLEAN |-> IF b \in bit THEN @[b] \cup {p}
                                                               ELSE @[b]]]

\* tryUpdateRound.  confValues is the BoolSet object binValues, so what is read
\* here is binValues as it is now, not as it was when CONF was sent.
ConfValues(L, r) == IF L.sentConf[r] = {} THEN {} ELSE L.binValues[r]

\* Mutant: decides when the coin is one of the values instead of the only one.
TryUpdateRoundContains(p, L, r) ==
    IF L.decision # {} \/ L.coinValue[r] = {} \/ ConfValues(L, r) = {} THEN L
    ELSE IF L.coinValue[r] \subseteq ConfValues(L, r) THEN Decide(p, L, ConfValues(L, r))
    ELSE UpdateRound(p, L, r, ConfValues(L, r))

TryUpdateRound(p, L, r) ==
    IF L.decision # {} \/ L.coinValue[r] = {} \/ ConfValues(L, r) = {} THEN L
    ELSE IF ConfValues(L, r) = L.coinValue[r] THEN Decide(p, L, L.coinValue[r])
    ELSE UpdateRound(p, L, r, IF Cardinality(ConfValues(L, r)) = 1
                                  THEN ConfValues(L, r) ELSE L.coinValue[r])

\* handleCoinMessage and Coin.addShare: the shares are combined unverified, so
\* a bad one among the 2f+1 makes the outcome arbitrary.
CombinedCoin(p, shares, r) ==
    IF FaultModel = "badcoin" /\ shares \cap Faulty # {} THEN {garbled[p]} ELSE {coin[r]}

HandleCoin(p, L, s, r) ==
    IF L.coinValue[r] # {} THEN L
    ELSE LET shares == L.coinShares[r] \cup {s}
             M == [L EXCEPT !.coinShares[r] = shares]
         IN  IF Cardinality(shares) < 2 * F + 1 THEN M
             ELSE TryUpdateRound(p, [M EXCEPT !.coinValue[r] = CombinedCoin(p, shares, r)], r)

\* tryFinishConfRound.
CountConf(L, r) == Cardinality({s \in Replica : /\ L.receivedConf[r][s] # {}
                                                /\ L.receivedConf[r][s] \subseteq L.binValues[r]})

TryFinishConfRound(p, L, r) ==
    IF \/ ConfValues(L, r) = {}
       \/ CountConf(L, r) < N - F
       \/ L.coinStarted[r]
    THEN L
    ELSE TryUpdateRound(p, HandleCoin(p, [L EXCEPT !.coinStarted[r] = TRUE], p, r), r)

\* handleConfMessage.
HandleConf(p, L, s, values, r) ==
    TryFinishConfRound(p, [L EXCEPT !.receivedConf[r][s] = IF @ = {} THEN values ELSE @], r)

\* tryOutputSbv and sendConfMessage.  A sender is counted once for each of its
\* AUX values that is in binValues.
CountAux(L, r) == LET count(b) == IF b \in L.binValues[r]
                                      THEN Cardinality(L.receivedAux[r][b]) ELSE 0
                  IN  count(TRUE) + count(FALSE)

\* Mutant: f + 1 AUX messages are taken for N - f.
TryOutputSbvEarly(p, L, r) ==
    IF L.sentConf[r] # {} \/ L.binValues[r] = {} \/ CountAux(L, r) < F + 1 THEN L
    ELSE HandleConf(p, [L EXCEPT !.sentConf[r] = L.binValues[r],
                                 !.confFrom[r] = @ \cup {p}], p, L.binValues[r], r)

TryOutputSbv(p, L, r) ==
    IF L.sentConf[r] # {} \/ L.binValues[r] = {} \/ CountAux(L, r) < N - F THEN L
    ELSE HandleConf(p, [L EXCEPT !.sentConf[r] = L.binValues[r],
                                 !.confFrom[r] = @ \cup {p}], p, L.binValues[r], r)

\* handleAuxMessage.
HandleAux(p, L, s, b, r) ==
    IF s \in L.receivedAux[r][b] THEN L
    ELSE TryOutputSbv(p, [L EXCEPT !.receivedAux[r][b] = @ \cup {s}], r)

\* handleBValMessage without the echo: early ending, then binValues and AUX.
EarlyDecide(p, L, b, r) ==
    IF EarlyAba /\ L.receivedBVal[r][b] = Replica /\ L.decision = {}
    THEN Decide(p, L, {b}) ELSE L

\* Mutant: when the second bit enters, nobody looks at the AUX messages again.
InsertBinValueQuiet(p, L, b, r) ==
    IF Cardinality(L.receivedBVal[r][b]) < 2 * F + 1 THEN L
    ELSE LET M == [L EXCEPT !.binValues[r] = @ \cup {b}]
         IN  IF M.binValues[r] # BOOLEAN
             THEN HandleAux(p, [M EXCEPT !.sentAux[r] = @ \cup {b}], p, b, r)
             ELSE M

InsertBinValue(p, L, b, r) ==
    IF Cardinality(L.receivedBVal[r][b]) < 2 * F + 1 THEN L
    ELSE LET M == [L EXCEPT !.binValues[r] = @ \cup {b}]
         IN  IF M.binValues[r] # BOOLEAN
             THEN HandleAux(p, [M EXCEPT !.sentAux[r] = @ \cup {b}], p, b, r)
             ELSE TryOutputSbv(p, M, r)

CountBVal(p, L, s, b, r) ==
    IF s \in L.receivedBVal[r][b] THEN L
    ELSE LET M == [L EXCEPT !.receivedBVal[r][b] = @ \cup {s}]
         IN  InsertBinValue(p, EarlyDecide(p, M, b, r), b, r)

\* handleBValMessage: the (f+1)-st BVAL(b) is echoed, to itself too.
HandleBVal(p, L, s, b, r) ==
    LET M == CountBVal(p, L, s, b, r)
    IN  IF /\ s \notin L.receivedBVal[r][b]
           /\ Cardinality(L.receivedBVal[r][b]) = F
           /\ b \notin M.sentBVal[r]
        THEN CountBVal(p, [M EXCEPT !.sentBVal[r] = @ \cup {b}], p, b, r)
        ELSE M

\* Mutant: f TERMs are enough to decide.
HandleTermTooFew(p, L, s, b, r) ==
    LET M == [L EXCEPT !.receivedTerm[r][s] = IF @ = {} THEN {b} ELSE @]
    IN  IF M.decision # {} THEN M
        ELSE IF Cardinality({t \in Replica : M.receivedTerm[r][t] = {b}}) >= F
        THEN Decide(p, M, {b})
        ELSE HandleConf(p, HandleAux(p, HandleBVal(p, M, s, b, r), s, b, r), s, {b}, r)

\* handleTermMessage: more than f TERMs for b in round r decide; fewer count as
\* the BVAL, the AUX and the CONF of round r.
HandleTerm(p, L, s, b, r) ==
    LET M == [L EXCEPT !.receivedTerm[r][s] = IF @ = {} THEN {b} ELSE @]
    IN  IF M.decision # {} THEN M
        ELSE IF Cardinality({t \in Replica : M.receivedTerm[r][t] = {b}}) > F
        THEN Decide(p, M, {b})
        ELSE HandleConf(p, HandleAux(p, HandleBVal(p, M, s, b, r), s, b, r), s, {b}, r)
-----------------------------------------------------------------------------
(***************************************************************************)
(* The actions: the input, and the receipt of each kind of message by p    *)
(* from s.  A faulty replica with arbitrary faults may have sent anything. *)
(***************************************************************************)
Receive(p, s, L) == /\ local' = [local EXCEPT ![p] = L]
                    /\ fromFaulty' = IF s \in Running THEN fromFaulty ELSE fromFaulty + 1
                    /\ UNCHANGED <<coin, garbled>>

\* A message of a later round waits in incomingQueue.
Reached(p, r) == r <= local[p].round

HandleInput(p, b) ==
    /\ local[p].round = 0 /\ local[p].input = {}
    /\ LET L == [local[p] EXCEPT !.input = {b}]
       IN  Receive(p, p, IF b \in L.sentBVal[0] THEN L
                      ELSE HandleBVal(p, [L EXCEPT !.sentBVal[0] = @ \cup {b}], p, b, 0))

ReceiveBVal(p, s, b, r) ==
    /\ Reached(p, r)
    /\ s \notin local[p].receivedBVal[r][b]
    /\ s \in Running => b \in local[s].sentBVal[r]
    /\ Receive(p, s, HandleBVal(p, local[p], s, b, r))

ReceiveAux(p, s, b, r) ==
    /\ Reached(p, r)
    /\ s \notin local[p].receivedAux[r][b]
    /\ s \in Running => b \in local[s].sentAux[r]
    /\ Receive(p, s, HandleAux(p, local[p], s, b, r))

\* CONF is encoded by a sender thread after the handler has returned, from the
\* BoolSet that is still binValues: its content is that of some later moment.
ReceiveConf(p, s, values, r) ==
    /\ Reached(p, r)
    /\ s \notin local[p].confFrom[r]
    /\ s \in Running => /\ local[s].sentConf[r] # {}
                        /\ values \in {local[s].sentConf[r], local[s].binValues[r]}
    /\ Receive(p, s, HandleConf(p, [local[p] EXCEPT !.confFrom[r] = @ \cup {s}], s, values, r))

ReceiveCoin(p, s, r) ==
    /\ Reached(p, r)
    /\ s \notin local[p].coinShares[r]
    /\ local[p].coinValue[r] = {}
    /\ s \in Running => local[s].coinStarted[r]
    /\ Receive(p, s, HandleCoin(p, local[p], s, r))

ReceiveTerm(p, s, b, r) ==
    /\ local[p].receivedTerm[r][s] = {}
    /\ s \in Running => local[s].decision = {b} /\ local[s].termRound = r
    /\ Receive(p, s, HandleTerm(p, local[p], s, b, r))

\* The replicas p may hear from.
Sender(p) == (IF Anything /\ fromFaulty < MaxFaulty THEN Replica ELSE Running) \ {p}

Deliver(p) ==
    \E s \in Sender(p), r \in Round :
        \/ \E b \in BOOLEAN : \/ ReceiveBVal(p, s, b, r)
                              \/ ReceiveAux(p, s, b, r)
                              \/ ReceiveTerm(p, s, b, r)
        \/ \E values \in (SUBSET BOOLEAN) \ {{}} : ReceiveConf(p, s, values, r)
        \/ ReceiveCoin(p, s, r)

Next == \/ \E p \in Running, b \in BOOLEAN : HandleInput(p, b)
        \/ \E p \in Correct : Deliver(p)

Spec == Init /\ [][Next]_vars

\* Correct replicas are scheduled, and TCP delivers what a correct replica sent.
FairSpec == Spec /\ \A p \in Correct : WF_vars(Deliver(p))
-----------------------------------------------------------------------------
Decision(p) == local[p].decision

\* No two correct replicas decide differently.
Agreement == \A p, q \in Correct : Decision(p) = {} \/ Decision(q) = {} \/ Decision(p) = Decision(q)

\* A decision is the input of a correct replica: f faulty ones cannot push a
\* bit of their own through BVAL (f + 1 to be echoed) or through TERM (> f).
Validity == \A p \in Correct : \A b \in Decision(p) : \E q \in Correct : local[q].input = {b}

\* Two correct replicas past the CONF of a round never hold opposite singletons:
\* otherwise one may decide a bit and the other carry the opposite one on.  Once
\* a later round has decided, no more is said of round r: a replica still in it
\* decides on the TERMs of the later round, and its TERM stands for an AUX of r.
OneSingleton ==
    \A p, q \in Correct, r \in Round :
        (/\ Cardinality(ConfValues(local[p], r)) = 1
         /\ Cardinality(ConfValues(local[q], r)) = 1
         /\ \A s \in Correct : Decision(s) # {} => local[s].round <= r)
            => ConfValues(local[p], r) = ConfValues(local[q], r)

\* Every coin of a round that is known is the same ("This round's common coin").
CommonCoin ==
    \A p, q \in Correct, r \in Round :
        \/ local[p].coinValue[r] = {} \/ local[q].coinValue[r] = {}
        \/ local[p].coinValue[r] = local[q].coinValue[r]

\* A replica that holds N - f CONFs with values in bin_values has invoked the
\* coin (handleConfMessage, "When N - f Conf messages with values in bin_values
\* have been received, updates the epoch or decides").
ConfQuorumActedOn ==
    \A p \in Correct, r \in Round :
        ConfValues(local[p], r) # {} /\ CountConf(local[p], r) >= N - F
            => local[p].coinStarted[r] \/ Decision(p) # {}

\* Nothing more can happen at the correct replicas: they have their inputs, and
\* have received what the replicas that run the code have sent.
Received(p, s, r) ==
    LET L == local[p]  M == local[s] IN
    /\ r <= L.round =>
          /\ \A b \in M.sentBVal[r] : s \in L.receivedBVal[r][b]
          /\ \A b \in M.sentAux[r] : s \in L.receivedAux[r][b]
          /\ M.sentConf[r] # {} => s \in L.confFrom[r]
          /\ M.coinStarted[r] => s \in L.coinShares[r] \/ L.coinValue[r] # {}
    /\ M.decision # {} /\ M.termRound = r => L.receivedTerm[r][s] # {}

Quiescent ==
    /\ \A p \in Running : local[p].input # {} \/ local[p].round > 0
    /\ \A p \in Correct, s \in Running, r \in Round : p = s \/ Received(p, s, r)

\* The replicas do not come to rest in a round, all undecided, but by the race of CONF:
\* if each has acted on the CONFs it holds (ConfQuorumActedOn), no handler has missed a
\* quorum of BVAL, AUX or COIN (tryOutputSbv, Coin.addShare, tryUpdateRound).
OnlyConfsStall ==
    Quiescent /\ ConfQuorumActedOn /\ (\A p \in Correct : Decision(p) = {})
        => \A p \in Correct : local[p].round > MaxRound

\* When a correct replica has decided, the others do not come to rest without a
\* decision, whatever round they are in (receivedTerm: Terms "count as BVal, Aux
\* and Conf messages for all future epochs").
TermsCarryOn ==
    (Quiescent /\ ConfQuorumActedOn /\ \E p \in Correct : Decision(p) # {})
        => \A p \in Correct : Decision(p) # {} \/ local[p].round > MaxRound

\* confValues holds values of the AUX messages received ("The values we found
\* in the first N - f Aux messages that were in bin_values").
ConfValuesHeard ==
    \A p \in Correct, r \in Round :
        \A b \in ConfValues(local[p], r) : local[p].receivedAux[r][b] # {}

\* Once every correct replica has its input they all decide, if the bit they
\* support comes up as the coin of a round: nobody is left waiting for a quorum.
\* The code does not have it, since ConfQuorumActedOn fails (handleConfMessage).
Termination ==
    (\A p \in Correct : local[p].input # {})
        ~> (\A p \in Correct : Decision(p) # {} \/ local[p].round > MaxRound)

BA == INSTANCE BinaryAgreement WITH
          proposed <- [p \in Correct |-> local[p].input],
          decided <- [p \in Correct |-> local[p].decision]

\* Every step of the instance is a step of BinaryAgreement, or none of its.
ImplementsBinaryAgreement == BA!Spec
=============================================================================
