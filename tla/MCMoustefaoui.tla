---------------------------- MODULE MCMoustefaoui ----------------------------
(***************************************************************************)
(* MoustefaouiBinaryAgreement on small instances, and the bounds that keep *)
(* them small: the inputs, and what the replicas get to hear.              *)
(***************************************************************************)
EXTENDS MoustefaouiBinaryAgreement

CONSTANTS
    InputSets,     \* bound: who inputs TRUE is one of these sets, the others FALSE
    Hears          \* bound: the kinds of message received from other replicas

Got(p, kind) ==
    LET L == local[p] IN
    CASE kind = "BVAL" -> UNION {L.receivedBVal[r][b] : r \in Round, b \in BOOLEAN}
      [] kind = "AUX"  -> UNION {L.receivedAux[r][b] : r \in Round, b \in BOOLEAN}
      [] kind = "CONF" -> UNION {L.confFrom[r] : r \in Round}
      [] kind = "COIN" -> UNION {L.coinShares[r] : r \in Round}
      [] kind = "TERM" -> {s \in Replica : \E r \in Round : L.receivedTerm[r][s] # {}}

InputBound ==
    \E trueInputs \in InputSets : \A p \in Running : local[p].input \subseteq {p \in trueInputs}
HearBound ==
    \A p \in Correct, kind \in {"BVAL", "AUX", "CONF", "COIN", "TERM"} \ Hears :
        Got(p, kind) \subseteq {p}
Bound == InputBound /\ HearBound

\* An order on the replicas, for the runs without symmetry.
Rank == CHOOSE f \in [Replica -> 1 .. N] : \A p, q \in Replica : p # q => f[p] # f[q]

\* What waits for p: the senders of a message it has not received.
WaitingBVal(p, r, b) ==
    {t \in Running \ local[p].receivedBVal[r][b] : b \in local[t].sentBVal[r]}
WaitingAux(p, r, b) ==
    {t \in Running \ local[p].receivedAux[r][b] : b \in local[t].sentAux[r]}
WaitingConf(p, r, s) ==
    {t \in Running \ local[p].confFrom[r] :
        /\ local[t].sentConf[r] = local[s].sentConf[r]
        /\ local[t].binValues[r] = local[s].binValues[r]}
WaitingCoin(p, r) ==
    {t \in Running \ local[p].coinShares[r] : local[t].coinStarted[r] /\ local[p].coinValue[r] = {}}

\* bound: of the messages that wait for it and say the same, a replica receives
\* the one of the first sender first.  The handlers count the senders; only the
\* TERM of a sender, which is also its BVAL, AUX and CONF, tells them apart.
First(p, new, waiting) == \A s \in new \ {p}, t \in waiting \ {p} : Rank[s] <= Rank[t]

InOrder ==
    \A p \in Running, r \in Round :
        LET L == local[p]  M == local'[p] IN
        \/ L = M \/ M.receivedTerm # L.receivedTerm
        \/ /\ \A b \in BOOLEAN :
                /\ First(p, M.receivedBVal[r][b] \ L.receivedBVal[r][b], WaitingBVal(p, r, b))
                /\ First(p, M.receivedAux[r][b] \ L.receivedAux[r][b], WaitingAux(p, r, b))
           /\ First(p, M.coinShares[r] \ L.coinShares[r], WaitingCoin(p, r))
           /\ \A s \in M.confFrom[r] \ L.confFrom[r] :
                s \in Running => First(p, {s}, WaitingConf(p, r, s))

\* A BVAL or a COIN that crosses no threshold is only counted, and so changes
\* nothing but the count: such messages are received as soon as they are sent,
\* by the first replica that has some.
QuietBVal(p, r, b) ==
    LET L == local[p]
        own == IF b \in L.sentBVal[r] THEN 0 ELSE 1
        count == Cardinality(L.receivedBVal[r][b]) + 1
    IN  /\ WaitingBVal(p, r, b) # {} /\ r <= L.round
        /\ \/ count + own <= 2 * F /\ (own = 0 \/ count # F + 1)
           \/ count > 2 * F + 1 /\ ~(EarlyAba /\ count = N)
QuietCoin(p, r) ==
    LET own == IF local[p].coinStarted[r] THEN 0 ELSE 1
    IN  WaitingCoin(p, r) # {} /\ r <= local[p].round
        /\ Cardinality(local[p].coinShares[r]) + 1 + own <= 2 * F

Quiet(p) == \E r \in Round : QuietCoin(p, r) \/ \E b \in BOOLEAN : QuietBVal(p, r, b)
TakesQuiet(p) ==
    \E r \in Round :
        \/ QuietCoin(p, r) /\ local'[p].coinShares[r] # local[p].coinShares[r]
        \/ \E b \in BOOLEAN : /\ QuietBVal(p, r, b)
                             /\ local'[p].receivedBVal[r][b] # local[p].receivedBVal[r][b]
                             /\ local'[p].receivedTerm = local[p].receivedTerm
QuietFirst ==
    \A p \in Correct : Quiet(p) =>
        TakesQuiet(p) \/ \E q \in Correct : Rank[q] < Rank[p] /\ Quiet(q)

\* bound: of the correct replicas with one input, the first hears from the faulty.
HearsFaulty ==
    fromFaulty' = fromFaulty \/
        \A p, q \in Correct :
            local'[p] # local[p] /\ local[q].input = local[p].input => Rank[p] <= Rank[q]

\* bound: every replica has its input before any message is received.
Schedule ==
    IF \E p \in Running : local[p].input = {}
    THEN \E p \in Running : local'[p].input # local[p].input
    ELSE HearsFaulty /\ InOrder /\ QuietFirst
=============================================================================
