------------------ MODULE MoustefaouiBinaryAgreement_proofs ------------------
(***************************************************************************)
(* What MoustefaouiBinaryAgreement guarantees for every number of replicas, *)
(* every F, every number of rounds and whatever arbitrary replicas send.   *)
(***************************************************************************)
EXTENDS MoustefaouiBinaryAgreement, FiniteSetTheorems, TLAPS
Votes == [AnyRound -> [BOOLEAN -> SUBSET Replica]]
Bits == [AnyRound -> SUBSET BOOLEAN]
SameState(L, M) == M.round = L.round /\ M.input = L.input /\ M.decision = L.decision
SameBVals(L, M) == M.receivedBVal = L.receivedBVal /\ M.sentBVal = L.sentBVal
SameAuxs(L, M) == /\ M.receivedAux = L.receivedAux /\ M.sentAux = L.sentAux
                  /\ M.binValues = L.binValues
SameCoins(L, M) == /\ M.sentConf = L.sentConf
                   /\ M.coinShares = L.coinShares /\ M.coinValue = L.coinValue
SameTerms(L, M) == M.receivedTerm = L.receivedTerm

LEMMA FieldTypes ==
    ASSUME NEW L \in Local
    PROVE  /\ L.receivedBVal \in Votes /\ L.sentBVal \in Bits
           /\ L.receivedAux \in Votes /\ L.sentAux \in Bits /\ L.binValues \in Bits
           /\ L.sentConf \in Bits /\ L.coinShares \in [AnyRound -> SUBSET Replica]
           /\ L.coinValue \in [AnyRound -> Bit]
           /\ L.receivedTerm \in [AnyRound -> [Replica -> Bit]]
           /\ L.round \in AnyRound /\ L.input \in Bit /\ L.decision \in Bit
  BY DEF Local, Votes, Bits

LEMMA VotesGrow ==
    ASSUME NEW f \in Votes, NEW r \in AnyRound, NEW b \in BOOLEAN, NEW s \in Replica
    PROVE  [f EXCEPT ![r][b] = @ \cup {s}] \in Votes
  BY DEF Votes

LEMMA BitsGrow ==
    ASSUME NEW f \in Bits, NEW r \in AnyRound, NEW b \in BOOLEAN
    PROVE  [f EXCEPT ![r] = @ \cup {b}] \in Bits
  BY DEF Bits

LEMMA ReceivedBValFields ==
    ASSUME NEW L \in Local, NEW f \in Votes, NEW M, M = [L EXCEPT !.receivedBVal = f]
    PROVE  /\ M \in Local /\ M.receivedBVal = f /\ M.sentBVal = L.sentBVal
           /\ SameState(L, M) /\ SameAuxs(L, M) /\ SameCoins(L, M) /\ SameTerms(L, M)
  BY DEF Local, Votes, SameState, SameAuxs, SameCoins, SameTerms
LEMMA SentBValFields ==
    ASSUME NEW L \in Local, NEW f \in Bits, NEW M, M = [L EXCEPT !.sentBVal = f]
    PROVE  /\ M \in Local /\ M.sentBVal = f /\ M.receivedBVal = L.receivedBVal
           /\ SameState(L, M) /\ SameAuxs(L, M) /\ SameCoins(L, M) /\ SameTerms(L, M)
  BY DEF Local, Bits, SameState, SameAuxs, SameCoins, SameTerms
LEMMA ReceivedAuxFields ==
    ASSUME NEW L \in Local, NEW f \in Votes, NEW M, M = [L EXCEPT !.receivedAux = f]
    PROVE  /\ M \in Local /\ M.receivedAux = f /\ M.sentAux = L.sentAux
           /\ M.binValues = L.binValues
           /\ SameState(L, M) /\ SameBVals(L, M) /\ SameCoins(L, M) /\ SameTerms(L, M)
  BY DEF Local, Votes, SameState, SameBVals, SameCoins, SameTerms
LEMMA SentAuxFields ==
    ASSUME NEW L \in Local, NEW f \in Bits, NEW M, M = [L EXCEPT !.sentAux = f]
    PROVE  /\ M \in Local /\ M.sentAux = f /\ M.receivedAux = L.receivedAux
           /\ M.binValues = L.binValues
           /\ SameState(L, M) /\ SameBVals(L, M) /\ SameCoins(L, M) /\ SameTerms(L, M)
  BY DEF Local, Bits, SameState, SameBVals, SameCoins, SameTerms
LEMMA BinValuesFields ==
    ASSUME NEW L \in Local, NEW f \in Bits, NEW M, M = [L EXCEPT !.binValues = f]
    PROVE  /\ M \in Local /\ M.binValues = f /\ M.receivedAux = L.receivedAux
           /\ M.sentAux = L.sentAux
           /\ SameState(L, M) /\ SameBVals(L, M) /\ SameCoins(L, M) /\ SameTerms(L, M)
  BY DEF Local, Bits, SameState, SameBVals, SameCoins, SameTerms
\* A CONF is sent.
SendConf(L, p, values, r) == [L EXCEPT !.sentConf[r] = values, !.confFrom[r] = @ \cup {p}]

LEMMA SendConfFields ==
    ASSUME NEW L \in Local, NEW r \in AnyRound, NEW values \in SUBSET BOOLEAN, NEW s \in Replica,
           NEW M, M = SendConf(L, s, values, r)
    PROVE  /\ M \in Local /\ M.sentConf = [L.sentConf EXCEPT ![r] = values]
           /\ M.coinShares = L.coinShares /\ M.coinValue = L.coinValue
           /\ SameState(L, M) /\ SameBVals(L, M) /\ SameAuxs(L, M) /\ SameTerms(L, M)
  <1>1. PICK f : f = [L.sentConf EXCEPT ![r] = values]
    OBVIOUS
  <1>2. PICK g : g = [L.confFrom EXCEPT ![r] = @ \cup {s}]
    OBVIOUS
  <1>3. f \in Bits /\ g \in [AnyRound -> SUBSET Replica]
    BY <1>1, <1>2 DEF Local, Bits
  <1>4. M = [[L EXCEPT !.sentConf = f] EXCEPT !.confFrom = g]
    <2>1. PICK K : K = [L EXCEPT !.sentConf = f]
      OBVIOUS
    <2>2. K.confFrom = L.confFrom
      BY <2>1 DEF Local
    <2> QED BY <1>1, <1>2, <2>1, <2>2 DEF SendConf
  <1> QED BY <1>1, <1>3, <1>4 DEF Local, Bits, SameState, SameBVals, SameAuxs, SameTerms

\* Fields the proofs do not look at.
Same(L, M) == /\ SameState(L, M) /\ SameBVals(L, M) /\ SameAuxs(L, M) /\ SameCoins(L, M)
              /\ SameTerms(L, M)
LEMMA ReceivedConfFields ==
    ASSUME NEW L \in Local, NEW r \in AnyRound, NEW values \in SUBSET BOOLEAN, NEW s \in Replica,
           NEW M, M = [L EXCEPT !.receivedConf[r][s] = IF @ = {} THEN values ELSE @]
    PROVE  M \in Local /\ Same(L, M)
  <1>1. L.receivedConf \in [AnyRound -> [Replica -> SUBSET BOOLEAN]]
    BY DEF Local
  <1>2. PICK v \in SUBSET BOOLEAN :
            v = IF L.receivedConf[r][s] = {} THEN values ELSE L.receivedConf[r][s]
    BY <1>1
  <1>3. PICK f : f = [L.receivedConf EXCEPT ![r][s] = v]
    OBVIOUS
  <1>4. f \in [AnyRound -> [Replica -> SUBSET BOOLEAN]]
    BY <1>1, <1>3
  <1>5. M = [L EXCEPT !.receivedConf = f]
    BY <1>2, <1>3
  <1> QED
    BY <1>4, <1>5 DEF Local, Same, SameState, SameBVals, SameAuxs, SameTerms, SameCoins
LEMMA ConfFromFields ==
    ASSUME NEW L \in Local, NEW r \in AnyRound, NEW s \in Replica,
           NEW M, M = [L EXCEPT !.confFrom[r] = @ \cup {s}]
    PROVE  M \in Local /\ Same(L, M)
  <1>1. PICK f : f = [L.confFrom EXCEPT ![r] = @ \cup {s}]
    OBVIOUS
  <1>2. f \in [AnyRound -> SUBSET Replica] /\ M = [L EXCEPT !.confFrom = f]
    BY <1>1 DEF Local
  <1> QED
    BY <1>2 DEF Local, Same, SameState, SameBVals, SameAuxs, SameTerms, SameCoins
LEMMA CoinStartedFields ==
    ASSUME NEW L \in Local, NEW r \in AnyRound, NEW M, M = [L EXCEPT !.coinStarted[r] = TRUE]
    PROVE  M \in Local /\ Same(L, M)
  BY DEF Local, Same, SameState, SameBVals, SameAuxs, SameTerms, SameCoins
LEMMA CoinSharesFields ==
    ASSUME NEW L \in Local, NEW r \in AnyRound, NEW S \in SUBSET Replica,
           NEW M, M = [L EXCEPT !.coinShares[r] = S]
    PROVE  /\ M \in Local /\ M.coinShares = [L.coinShares EXCEPT ![r] = S]
           /\ M.sentConf = L.sentConf /\ M.coinValue = L.coinValue
           /\ SameState(L, M) /\ SameBVals(L, M) /\ SameAuxs(L, M) /\ SameTerms(L, M)
  BY DEF Local, SameState, SameBVals, SameAuxs, SameTerms
LEMMA CoinValueFields ==
    ASSUME NEW L \in Local, NEW r \in AnyRound, NEW v \in Bit,
           NEW M, M = [L EXCEPT !.coinValue[r] = v]
    PROVE  /\ M \in Local /\ M.coinValue = [L.coinValue EXCEPT ![r] = v]
           /\ M.sentConf = L.sentConf /\ M.coinShares = L.coinShares
           /\ SameState(L, M) /\ SameBVals(L, M) /\ SameAuxs(L, M) /\ SameTerms(L, M)
  BY DEF Local, SameState, SameBVals, SameAuxs, SameTerms

\* A TERM is kept.
StoreTerm(L, s, bit, r) == [L EXCEPT !.receivedTerm[r][s] = IF @ = {} THEN bit ELSE @]

LEMMA ReceivedTermFields ==
    ASSUME NEW L \in Local, NEW r \in AnyRound, NEW s \in Replica, NEW b \in Bit,
           NEW M, M = StoreTerm(L, s, b, r)
    PROVE  /\ M \in Local
           /\ SameState(L, M) /\ SameBVals(L, M) /\ SameAuxs(L, M) /\ SameCoins(L, M)
           /\ M.receivedTerm[r][s] \in {L.receivedTerm[r][s], b}
           /\ \A q \in AnyRound, t \in Replica :
                  q # r \/ t # s => M.receivedTerm[q][t] = L.receivedTerm[q][t]
  <1>1. L.receivedTerm \in [AnyRound -> [Replica -> Bit]]
    BY DEF Local
  <1>2. PICK v \in Bit : /\ v \in {L.receivedTerm[r][s], b}
                         /\ v = IF L.receivedTerm[r][s] = {} THEN b ELSE L.receivedTerm[r][s]
    BY <1>1
  <1>3. PICK f : f = [L.receivedTerm EXCEPT ![r][s] = v]
    OBVIOUS
  <1>4. /\ f \in [AnyRound -> [Replica -> Bit]]
        /\ f[r][s] = v
        /\ \A q \in AnyRound, t \in Replica : q # r \/ t # s => f[q][t] = L.receivedTerm[q][t]
    BY <1>1, <1>3
  <1>5. M = [L EXCEPT !.receivedTerm = f]
    BY <1>2, <1>3 DEF StoreTerm
  <1>6. M.receivedTerm = f
    BY <1>5 DEF Local
  <1>7. M \in Local /\ SameState(L, M) /\ SameBVals(L, M) /\ SameAuxs(L, M) /\ SameCoins(L, M)
    <2>1. f \in [AnyRound -> [Replica -> Bit]]
      BY <1>4
    <2>2. M \in Local
      BY <2>1, <1>5 DEF Local
    <2> QED BY <2>2, <1>5 DEF Local, SameState, SameBVals, SameAuxs, SameCoins
  <1> QED BY <1>2, <1>4, <1>6, <1>7

LEMMA DecideFields ==
    ASSUME NEW p \in Replica, NEW L \in Local, NEW bit \in Bit,
           NEW M, M = Decide(p, L, bit)
    PROVE  /\ M \in Local
           /\ M.round = L.round /\ M.input = L.input /\ M.decision = bit
           /\ SameBVals(L, M) /\ SameAuxs(L, M) /\ SameCoins(L, M)
           /\ M.receivedTerm[L.round][p] \in {L.receivedTerm[L.round][p], bit}
           /\ \A q \in AnyRound, t \in Replica :
                  q # L.round \/ t # p => M.receivedTerm[q][t] = L.receivedTerm[q][t]
  <1>1. PICK K : K = [[L EXCEPT !.decision = bit] EXCEPT !.termRound = L.round]
    OBVIOUS
  <1>2. /\ K \in Local /\ K.round = L.round /\ K.input = L.input /\ K.decision = bit
        /\ SameBVals(L, K) /\ SameAuxs(L, K) /\ SameCoins(L, K)
        /\ K.receivedTerm = L.receivedTerm
    BY <1>1 DEF Local, SameBVals, SameAuxs, SameCoins
  <1>3. L.round \in AnyRound
    BY DEF Local
  <1>4. M = StoreTerm(K, p, bit, L.round)
    BY <1>1, <1>2 DEF Decide, StoreTerm
  <1>5. /\ M \in Local
        /\ SameState(K, M) /\ SameBVals(K, M) /\ SameAuxs(K, M) /\ SameCoins(K, M)
    BY <1>2, <1>3, <1>4, ReceivedTermFields
  <1>6. /\ M.receivedTerm[L.round][p] \in {K.receivedTerm[L.round][p], bit}
        /\ \A q \in AnyRound, t \in Replica :
               q # L.round \/ t # p => M.receivedTerm[q][t] = K.receivedTerm[q][t]
    BY <1>2, <1>3, <1>4, ReceivedTermFields
  <1> QED BY <1>2, <1>5, <1>6 DEF SameState, SameBVals, SameAuxs, SameCoins

LEMMA DecideTerms ==
    ASSUME NEW p \in Replica, NEW L \in Local, NEW bit \in Bit,
           NEW M, M = Decide(p, L, bit), NEW q \in AnyRound, NEW t \in Replica
    PROVE  M.receivedTerm[q][t] = L.receivedTerm[q][t] \/ (t = p /\ M.receivedTerm[q][t] = bit)
  BY DecideFields

LEMMA RoundFields ==
    ASSUME NEW L \in Local, NEW n \in AnyRound, NEW M, M = [L EXCEPT !.round = n]
    PROVE  /\ M \in Local /\ M.round = n /\ M.input = L.input /\ M.decision = L.decision
           /\ SameBVals(L, M) /\ SameAuxs(L, M) /\ SameCoins(L, M) /\ SameTerms(L, M)
  BY DEF Local, SameBVals, SameAuxs, SameCoins, SameTerms

LEMMA InputFields ==
    ASSUME NEW L \in Local, NEW b \in Bit, NEW M, M = [L EXCEPT !.input = b]
    PROVE  /\ M \in Local /\ M.input = b /\ M.round = L.round /\ M.decision = L.decision
           /\ SameBVals(L, M) /\ SameAuxs(L, M) /\ SameCoins(L, M) /\ SameTerms(L, M)
  BY DEF Local, SameBVals, SameAuxs, SameCoins, SameTerms

LEMMA UpdateRoundFields ==
    ASSUME NEW p \in Replica, NEW L \in Local, NEW r \in Round, NEW bit \in Bit,
           NEW M, M = UpdateRound(p, L, r, bit)
    PROVE  /\ M \in Local /\ M.input = L.input /\ M.decision = L.decision
           /\ SameAuxs(L, M) /\ SameCoins(L, M) /\ SameTerms(L, M)
           /\ L.round <= M.round
           /\ \A q \in AnyRound, b \in BOOLEAN :
                  /\ b \in L.sentBVal[q] => b \in M.sentBVal[q]
                  /\ b \in M.sentBVal[q] => \/ b \in L.sentBVal[q]
                                            \/ L.round <= r /\ q = L.round + 1 /\ b \in bit
                  /\ \/ M.receivedBVal[q][b] = L.receivedBVal[q][b]
                     \/ /\ b \in M.sentBVal[q]
                        /\ M.receivedBVal[q][b] = L.receivedBVal[q][b] \cup {p}
  <1> DEFINE n == L.round + 1
  <1>1. L.round \in Nat /\ MaxRound \in Nat /\ r \in Nat /\ r <= MaxRound
    BY ModeAssumption DEF Local, AnyRound, Round
  <1>2. CASE M = L
    BY <1>1, <1>2 DEF SameAuxs, SameCoins, SameTerms
  <1>3. CASE L.round <= r /\ M = [L EXCEPT !.round = n]
    <2>1. n \in AnyRound
      BY <1>1, <1>3 DEF AnyRound
    <2>2. /\ M \in Local /\ M.round = n /\ M.input = L.input /\ M.decision = L.decision
          /\ SameBVals(L, M) /\ SameAuxs(L, M) /\ SameCoins(L, M) /\ SameTerms(L, M)
      BY <1>3, <2>1, RoundFields
    <2> QED BY <1>1, <2>2 DEF SameBVals
  <1>4. CASE /\ L.round <= r /\ n <= MaxRound
             /\ M = [L EXCEPT !.round = n,
                              !.sentBVal[n] = @ \cup bit,
                              !.receivedBVal[n] =
                                  [b \in BOOLEAN |-> IF b \in bit THEN @[b] \cup {p} ELSE @[b]]]
    <2>1. n \in AnyRound
      BY <1>1, <1>3, <1>4 DEF AnyRound
    <2>2. L.sentBVal \in Bits /\ L.receivedBVal \in Votes
      BY FieldTypes
    <2>3. PICK g : g = [b \in BOOLEAN |-> IF b \in bit THEN L.receivedBVal[n][b] \cup {p}
                                                       ELSE L.receivedBVal[n][b]]
      OBVIOUS
    <2>4. PICK f : f = [L.receivedBVal EXCEPT ![n] = g]
      OBVIOUS
    <2>5. PICK h : h = [L.sentBVal EXCEPT ![n] = @ \cup bit]
      OBVIOUS
    <2>6. g \in [BOOLEAN -> SUBSET Replica]
      BY <2>1, <2>2, <2>3 DEF Votes
    <2>7. f \in Votes /\ h \in Bits
      BY <2>1, <2>2, <2>4, <2>5, <2>6 DEF Votes, Bits, Bit
    <2>8. PICK K : K = [L EXCEPT !.round = n]
      OBVIOUS
    <2>9. /\ K \in Local /\ K.input = L.input /\ K.decision = L.decision /\ K.round = n
          /\ SameBVals(L, K) /\ SameAuxs(L, K) /\ SameCoins(L, K) /\ SameTerms(L, K)
      BY <2>1, <2>8, RoundFields
    <2>13. PICK J : J = [K EXCEPT !.sentBVal = h]
      OBVIOUS
    <2>14. /\ J \in Local /\ J.sentBVal = h /\ J.receivedBVal = L.receivedBVal
           /\ SameState(K, J) /\ SameAuxs(K, J) /\ SameCoins(K, J) /\ SameTerms(K, J)
      BY <2>7, <2>9, <2>13, SentBValFields DEF SameBVals
    <2>15. M = [J EXCEPT !.receivedBVal = f]
      BY <1>4, <2>3, <2>4, <2>5, <2>8, <2>9, <2>13, <2>14 DEF SameBVals
    <2>16. /\ M \in Local /\ M.receivedBVal = f /\ M.sentBVal = h
           /\ SameState(J, M) /\ SameAuxs(J, M) /\ SameCoins(J, M) /\ SameTerms(J, M)
      BY <2>7, <2>14, <2>15, ReceivedBValFields
    <2>17. /\ M \in Local /\ M.input = L.input /\ M.decision = L.decision /\ M.round = n
           /\ SameAuxs(L, M) /\ SameCoins(L, M) /\ SameTerms(L, M)
           /\ M.sentBVal = h /\ M.receivedBVal = f
      BY <2>9, <2>14, <2>16 DEF SameState, SameAuxs, SameCoins, SameTerms
    <2>10. \A q \in AnyRound, b \in BOOLEAN :
               /\ b \in h[q] <=> b \in L.sentBVal[q] \/ (q = n /\ b \in bit)
               /\ \/ f[q][b] = L.receivedBVal[q][b]
                  \/ q = n /\ b \in bit /\ f[q][b] = L.receivedBVal[q][b] \cup {p}
      BY <2>1, <2>2, <2>3, <2>4, <2>5 DEF Votes, Bits
    <2> HIDE DEF n
    <2>11. L.round <= M.round
      BY <1>1, <2>17 DEF n
    <2>12. \A q \in AnyRound, b \in BOOLEAN :
               /\ b \in L.sentBVal[q] => b \in M.sentBVal[q]
               /\ b \in M.sentBVal[q] => \/ b \in L.sentBVal[q]
                                         \/ L.round <= r /\ q = n /\ b \in bit
               /\ \/ M.receivedBVal[q][b] = L.receivedBVal[q][b]
                  \/ /\ b \in M.sentBVal[q]
                     /\ M.receivedBVal[q][b] = L.receivedBVal[q][b] \cup {p}
      <3> SUFFICES ASSUME NEW q \in AnyRound, NEW b \in BOOLEAN
                   PROVE  /\ b \in M.sentBVal[q] => \/ b \in L.sentBVal[q]
                                                    \/ L.round <= r /\ q = n /\ b \in bit
                          /\ b \in L.sentBVal[q] => b \in M.sentBVal[q]
                          /\ \/ M.receivedBVal[q][b] = L.receivedBVal[q][b]
                             \/ /\ b \in M.sentBVal[q]
                                /\ M.receivedBVal[q][b] = L.receivedBVal[q][b] \cup {p}
        OBVIOUS
      <3>1. b \in M.sentBVal[q] <=> b \in L.sentBVal[q] \/ (q = n /\ b \in bit)
        BY <2>17, <2>10
      <3>2. \/ M.receivedBVal[q][b] = L.receivedBVal[q][b]
            \/ q = n /\ b \in bit /\ M.receivedBVal[q][b] = L.receivedBVal[q][b] \cup {p}
        BY <2>17, <2>10
      <3> QED BY <1>4, <3>1, <3>2
    <2> QED BY <2>17, <2>11, <2>12 DEF n
  <1>5. \/ M = L
        \/ L.round <= r /\ M = [L EXCEPT !.round = n]
        \/ /\ L.round <= r /\ n <= MaxRound
           /\ M = [L EXCEPT !.round = n,
                            !.sentBVal[n] = @ \cup bit,
                            !.receivedBVal[n] =
                                [b \in BOOLEAN |-> IF b \in bit THEN @[b] \cup {p} ELSE @[b]]]
    BY <1>1 DEF UpdateRound
  <1> QED BY <1>2, <1>3, <1>4, <1>5
-----------------------------------------------------------------------------
(***************************************************************************)
(* The types, and what every handler keeps: the input, a decision, what    *)
(* was sent, and that at most F BVALs of a bit come before a replica's own. *)
(***************************************************************************)
KeepsOwn(L, M) == /\ M \in Local
                  /\ M.input = L.input
                  /\ L.decision # {} => M.decision = L.decision
Keeps(L, M) ==
    /\ KeepsOwn(L, M)
    /\ \A r \in AnyRound, b \in BOOLEAN :
          /\ b \in L.sentBVal[r] => b \in M.sentBVal[r]
          /\ M.receivedBVal[r][b] = L.receivedBVal[r][b] \/ b \in M.sentBVal[r]

LEMMA KeepsTransitive ==
    ASSUME NEW L \in Local, NEW K, NEW M, Keeps(L, K), Keeps(K, M)
    PROVE  Keeps(L, M)
  BY DEF Keeps, KeepsOwn

LEMMA SameKeeps ==
    ASSUME NEW L \in Local, NEW M \in Local,
           SameBVals(L, M), M.input = L.input, M.decision = L.decision
    PROVE  Keeps(L, M)
  BY DEF Keeps, KeepsOwn, SameBVals

LEMMA SelfKeeps == \A L \in Local : Keeps(L, L)
  BY DEF Keeps, KeepsOwn

LEMMA RoundTypes == /\ Round \subseteq AnyRound /\ 0 \in Round /\ Running \subseteq Replica
                    /\ Correct \subseteq Running
                    /\ \A r \in AnyRound : r \in Nat
  BY ReplicaAssumption, ModeAssumption DEF Round, AnyRound, Running, Correct

LEMMA ConfValuesType ==
    ASSUME NEW L \in Local, NEW r \in AnyRound
    PROVE  /\ ConfValues(L, r) \in SUBSET BOOLEAN
           /\ Cardinality(ConfValues(L, r)) = 1 => ConfValues(L, r) \in Bit
           /\ ConfValues(L, r) # {} /\ Cardinality(ConfValues(L, r)) # 1 => ConfValues(L, r) = BOOLEAN
  <1>1. ConfValues(L, r) \in SUBSET BOOLEAN
    BY FieldTypes DEF ConfValues, Bits
  <1>2. \A S \in SUBSET BOOLEAN : S \in {{}, {TRUE}, {FALSE}, BOOLEAN}
    OBVIOUS
  <1>3. Cardinality({}) = 0
    BY FS_EmptySet, Zenon
  <1>4. PICK S : S = ConfValues(L, r)
    OBVIOUS
  <1>5. S \in {{}, {TRUE}, {FALSE}, BOOLEAN}
    BY <1>1, <1>2, <1>4
  <1>6. S = BOOLEAN => Cardinality(S) # 1
    <2>1. BOOLEAN = {TRUE} \cup {FALSE} /\ FALSE \notin {TRUE}
      OBVIOUS
    <2>2. IsFiniteSet({TRUE}) /\ Cardinality({TRUE}) = 1
      BY FS_Singleton, Zenon
    <2>3. Cardinality({TRUE} \cup {FALSE}) = Cardinality({TRUE}) + 1
      BY <2>1, <2>2, FS_AddElement, Zenon
    <2>4. Cardinality(BOOLEAN) = Cardinality({TRUE}) + 1
      BY <2>1, <2>3, Zenon
    <2> QED BY <2>2, <2>4
  <1>7. S = {} => Cardinality(S) # 1
    BY <1>3
  <1>8. Cardinality(S) = 1 => S \in Bit
    BY <1>5, <1>6, <1>7, Zenon DEF Bit
  <1>10. S = {TRUE} \/ S = {FALSE} => Cardinality(S) = 1
    BY FS_Singleton, Zenon
  <1>9. S # {} /\ Cardinality(S) # 1 => S = BOOLEAN
    BY <1>5, <1>10, Zenon
  <1> QED BY <1>1, <1>4, <1>8, <1>9, Zenon

Coins == coin \in [Round -> BOOLEAN] /\ garbled \in [Running -> BOOLEAN]

LEMMA DecideKeeps ==
    ASSUME NEW p \in Running, NEW L \in Local, NEW bit \in Bit, L.decision = {}
    PROVE  Keeps(L, Decide(p, L, bit))
  <1>1. PICK M : M = Decide(p, L, bit)
    OBVIOUS
  <1> QED BY <1>1, DecideFields, RoundTypes DEF Keeps, KeepsOwn, SameBVals

LEMMA TryUpdateRoundKeeps ==
    ASSUME NEW p \in Running, NEW L \in Local, NEW r \in Round
    PROVE  Keeps(L, TryUpdateRound(p, L, r))
  <1>1. L.coinValue[r] \in Bit
    BY FieldTypes, RoundTypes
  <1>2. CASE L.decision = {} /\ TryUpdateRound(p, L, r) = Decide(p, L, L.coinValue[r])
    BY <1>1, <1>2, DecideKeeps
  <1>3. ASSUME NEW bit \in Bit PROVE Keeps(L, UpdateRound(p, L, r, bit))
    <2>1. PICK M : M = UpdateRound(p, L, r, bit)
      OBVIOUS
    <2> QED BY <2>1, UpdateRoundFields, RoundTypes DEF Keeps, KeepsOwn
  <1>4. CASE \E bit \in Bit : TryUpdateRound(p, L, r) = UpdateRound(p, L, r, bit)
    BY <1>3, <1>4
  <1>5. CASE TryUpdateRound(p, L, r) = L
    BY <1>5, SelfKeeps
  <1> QED BY <1>1, <1>2, <1>4, <1>5, ConfValuesType, RoundTypes DEF TryUpdateRound

LEMMA CombinedCoinType ==
    ASSUME Coins, NEW p \in Running, NEW S, NEW r \in Round
    PROVE  CombinedCoin(p, S, r) \in Bit
  BY DEF Coins, CombinedCoin, Bit

LEMMA HandleCoinKeeps ==
    ASSUME Coins, NEW p \in Running, NEW L \in Local, NEW s \in Replica, NEW r \in Round
    PROVE  Keeps(L, HandleCoin(p, L, s, r))
  <1>1. PICK shares : shares = L.coinShares[r] \cup {s}
    OBVIOUS
  <1>2. PICK M : M = [L EXCEPT !.coinShares[r] = shares]
    OBVIOUS
  <1>3. PICK K : K = [M EXCEPT !.coinValue[r] = CombinedCoin(p, shares, r)]
    OBVIOUS
  <1>4. shares \in SUBSET Replica
    BY <1>1, FieldTypes, RoundTypes
  <1>5. M \in Local /\ Keeps(L, M)
    BY <1>2, <1>4, CoinSharesFields, RoundTypes, SameKeeps DEF SameState
  <1>6. K \in Local /\ Keeps(M, K)
    BY <1>3, <1>5, CombinedCoinType, CoinValueFields, RoundTypes, SameKeeps DEF SameState
  <1>7. Keeps(K, TryUpdateRound(p, K, r))
    BY <1>6, TryUpdateRoundKeeps
  <1>8. HandleCoin(p, L, s, r) \in {L, M, TryUpdateRound(p, K, r)}
    BY <1>1, <1>2, <1>3 DEF HandleCoin
  <1> QED BY <1>5, <1>6, <1>7, <1>8, KeepsTransitive, SelfKeeps

LEMMA HandleConfKeeps ==
    ASSUME Coins, NEW p \in Running, NEW L \in Local, NEW s \in Replica,
           NEW values \in SUBSET BOOLEAN, NEW r \in Round
    PROVE  Keeps(L, HandleConf(p, L, s, values, r))
  <1>1. PICK M : M = [L EXCEPT !.receivedConf[r][s] = IF @ = {} THEN values ELSE @]
    OBVIOUS
  <1>2. M \in Local /\ Keeps(L, M)
    BY <1>1, ReceivedConfFields, RoundTypes, SameKeeps DEF Same, SameState
  <1>3. PICK K : K = [M EXCEPT !.coinStarted[r] = TRUE]
    OBVIOUS
  <1>4. K \in Local /\ Keeps(M, K)
    BY <1>2, <1>3, CoinStartedFields, RoundTypes, SameKeeps DEF Same, SameState
  <1>5. PICK J : J = HandleCoin(p, K, p, r)
    OBVIOUS
  <1>6. J \in Local /\ Keeps(K, J)
    BY <1>4, <1>5, HandleCoinKeeps, RoundTypes DEF Keeps, KeepsOwn
  <1>7. Keeps(J, TryUpdateRound(p, J, r))
    BY <1>6, TryUpdateRoundKeeps
  <1>8. HandleConf(p, L, s, values, r) \in {M, TryUpdateRound(p, J, r)}
    BY <1>1, <1>3, <1>5 DEF HandleConf, TryFinishConfRound
  <1>9. Keeps(M, TryUpdateRound(p, J, r))
    BY <1>2, <1>4, <1>6, <1>7, KeepsTransitive
  <1> QED BY <1>2, <1>8, <1>9, KeepsTransitive

LEMMA TryOutputSbvKeeps ==
    ASSUME Coins, NEW p \in Running, NEW L \in Local, NEW r \in Round
    PROVE  Keeps(L, TryOutputSbv(p, L, r))
  <1>1. PICK values : values = L.binValues[r]
    OBVIOUS
  <1>2. values \in SUBSET BOOLEAN
    BY <1>1, FieldTypes, RoundTypes DEF Bits
  <1>3. PICK M : M = SendConf(L, p, values, r)
    OBVIOUS
  <1>4. M \in Local /\ Keeps(L, M)
    BY <1>2, <1>3, SendConfFields, RoundTypes, SameKeeps DEF SameState
  <1>5. Keeps(M, HandleConf(p, M, p, values, r))
    BY <1>2, <1>4, HandleConfKeeps, RoundTypes
  <1>6. TryOutputSbv(p, L, r) \in {L, HandleConf(p, M, p, values, r)}
    BY <1>1, <1>3 DEF TryOutputSbv, SendConf
  <1> QED BY <1>4, <1>5, <1>6, KeepsTransitive, SelfKeeps

LEMMA HandleAuxKeeps ==
    ASSUME Coins, NEW p \in Running, NEW L \in Local, NEW s \in Replica, NEW b \in BOOLEAN,
           NEW r \in Round
    PROVE  Keeps(L, HandleAux(p, L, s, b, r))
  <1>1. PICK f : f = [L.receivedAux EXCEPT ![r][b] = @ \cup {s}]
    OBVIOUS
  <1>2. PICK M : M = [L EXCEPT !.receivedAux = f]
    OBVIOUS
  <1>3. f \in Votes
    BY <1>1, FieldTypes, VotesGrow, RoundTypes
  <1>4. M \in Local /\ Keeps(L, M)
    BY <1>2, <1>3, ReceivedAuxFields, SameKeeps DEF SameState
  <1>5. Keeps(M, TryOutputSbv(p, M, r))
    BY <1>4, TryOutputSbvKeeps
  <1>6. HandleAux(p, L, s, b, r) \in {L, TryOutputSbv(p, M, r)}
    BY <1>1, <1>2 DEF HandleAux
  <1> QED BY <1>4, <1>5, <1>6, KeepsTransitive, SelfKeeps

LEMMA InsertBinValueKeeps ==
    ASSUME Coins, NEW p \in Running, NEW L \in Local, NEW b \in BOOLEAN, NEW r \in Round
    PROVE  Keeps(L, InsertBinValue(p, L, b, r))
  <1>1. PICK f : f = [L.binValues EXCEPT ![r] = @ \cup {b}]
    OBVIOUS
  <1>2. PICK M : M = [L EXCEPT !.binValues = f]
    OBVIOUS
  <1>3. f \in Bits
    BY <1>1, FieldTypes, BitsGrow, RoundTypes
  <1>4. M \in Local /\ Keeps(L, M)
    BY <1>2, <1>3, BinValuesFields, SameKeeps DEF SameState
  <1>5. PICK g : g = [M.sentAux EXCEPT ![r] = @ \cup {b}]
    OBVIOUS
  <1>6. PICK K : K = [M EXCEPT !.sentAux = g]
    OBVIOUS
  <1>7. g \in Bits
    BY <1>4, <1>5, FieldTypes, BitsGrow, RoundTypes
  <1>8. K \in Local /\ Keeps(M, K)
    BY <1>4, <1>6, <1>7, SentAuxFields, SameKeeps DEF SameState
  <1>9. /\ Keeps(K, HandleAux(p, K, p, b, r))
        /\ Keeps(M, TryOutputSbv(p, M, r))
    BY <1>4, <1>8, HandleAuxKeeps, TryOutputSbvKeeps, RoundTypes
  <1>10. InsertBinValue(p, L, b, r) \in {L, HandleAux(p, K, p, b, r), TryOutputSbv(p, M, r)}
    BY <1>1, <1>2, <1>5, <1>6 DEF InsertBinValue
  <1>11. /\ Keeps(M, HandleAux(p, K, p, b, r))
    BY <1>4, <1>8, <1>9, KeepsTransitive
  <1> QED BY <1>4, <1>9, <1>10, <1>11, KeepsTransitive, SelfKeeps

LEMMA EarlyDecideKeeps ==
    ASSUME NEW p \in Running, NEW L \in Local, NEW b \in BOOLEAN, NEW r
    PROVE  Keeps(L, EarlyDecide(p, L, b, r))
  <1>1. {b} \in Bit
    BY DEF Bit
  <1> QED BY <1>1, DecideKeeps, SelfKeeps DEF EarlyDecide

\* At most F replicas support a bit before a replica supports it itself.
FewBVals(L, r, b) == b \notin L.sentBVal[r] => Cardinality(L.receivedBVal[r][b]) <= F
Echoed(L) == \A r \in AnyRound, b \in BOOLEAN : FewBVals(L, r, b)

LEMMA KeepsEchoed ==
    ASSUME NEW L \in Local, NEW M, Keeps(L, M), NEW r \in AnyRound, NEW b \in BOOLEAN,
           FewBVals(L, r, b)
    PROVE  FewBVals(M, r, b)
  BY DEF Keeps, FewBVals

LEMMA CountsOne ==
    ASSUME NEW S \in SUBSET Replica, NEW s \in Replica
    PROVE  /\ IsFiniteSet(S) /\ Cardinality(S) \in Nat
           /\ s \notin S => Cardinality(S \cup {s}) = Cardinality(S) + 1
           /\ s \in S => S \cup {s} = S
  BY ReplicaAssumption, FS_Subset, FS_CardinalityType, FS_AddElement

\* A BVAL is counted, a BVAL is sent.
StoreBVal(L, s, b, r) == [L EXCEPT !.receivedBVal[r][b] = @ \cup {s}]
SendBVal(L, b, r) == [L EXCEPT !.sentBVal[r] = @ \cup {b}]

\* What SendBVal adds to, and what StoreBVal leaves as it was.
SendsToo(L, M, r, b) ==
    \A q \in AnyRound, d \in BOOLEAN :
        d \in M.sentBVal[q] <=> d \in L.sentBVal[q] \/ (q = r /\ d = b)
OtherVotesStay(L, M, r, b) ==
    \A q \in AnyRound, d \in BOOLEAN :
        q # r \/ d # b => M.receivedBVal[q][d] = L.receivedBVal[q][d]

LEMMA StoreBValFields ==
    ASSUME NEW L \in Local, NEW s \in Replica, NEW b \in BOOLEAN, NEW r \in AnyRound,
           NEW M, M = StoreBVal(L, s, b, r)
    PROVE  /\ M \in Local /\ M.sentBVal = L.sentBVal
           /\ SameState(L, M) /\ SameAuxs(L, M) /\ SameCoins(L, M) /\ SameTerms(L, M)
           /\ M.receivedBVal[r][b] = L.receivedBVal[r][b] \cup {s}
           /\ OtherVotesStay(L, M, r, b)
  <1>1. PICK f : f = [L.receivedBVal EXCEPT ![r][b] = @ \cup {s}]
    OBVIOUS
  <1>2. f \in Votes
    BY <1>1, FieldTypes, VotesGrow
  <1>3. M = [L EXCEPT !.receivedBVal = f]
    BY <1>1 DEF StoreBVal
  <1>4. /\ f[r][b] = L.receivedBVal[r][b] \cup {s}
        /\ \A q \in AnyRound, d \in BOOLEAN : q # r \/ d # b => f[q][d] = L.receivedBVal[q][d]
    <2>1. L.receivedBVal \in [AnyRound -> [BOOLEAN -> SUBSET Replica]]
      BY FieldTypes DEF Votes
    <2>2. PICK g : g = L.receivedBVal
      OBVIOUS
    <2> QED BY <1>1, <2>1, <2>2
  <1>5. /\ M \in Local /\ M.sentBVal = L.sentBVal /\ M.receivedBVal = f
        /\ SameState(L, M) /\ SameAuxs(L, M) /\ SameCoins(L, M) /\ SameTerms(L, M)
    BY <1>2, <1>3, ReceivedBValFields
  <1> QED BY <1>4, <1>5 DEF OtherVotesStay

LEMMA SendBValFields ==
    ASSUME NEW L \in Local, NEW b \in BOOLEAN, NEW r \in AnyRound,
           NEW M, M = SendBVal(L, b, r)
    PROVE  /\ M \in Local /\ M.receivedBVal = L.receivedBVal
           /\ SameState(L, M) /\ SameAuxs(L, M) /\ SameCoins(L, M) /\ SameTerms(L, M)
           /\ SendsToo(L, M, r, b)
  <1>1. PICK f : f = [L.sentBVal EXCEPT ![r] = @ \cup {b}]
    OBVIOUS
  <1>2. f \in Bits
    BY <1>1, FieldTypes, BitsGrow
  <1>3. M = [L EXCEPT !.sentBVal = f]
    BY <1>1 DEF SendBVal
  <1>4. \A q \in AnyRound, d \in BOOLEAN :
            d \in f[q] <=> d \in L.sentBVal[q] \/ (q = r /\ d = b)
    BY <1>1, FieldTypes DEF Bits
  <1> QED BY <1>2, <1>3, <1>4, SentBValFields DEF SendsToo

LEMMA CountBValKeeps ==
    ASSUME Coins, NEW p \in Running, NEW L \in Local, NEW s \in Replica, NEW b \in BOOLEAN,
           NEW r \in Round, NEW M, M = StoreBVal(L, s, b, r)
    PROVE  Keeps(M, CountBVal(p, L, s, b, r))
  <1>1. M \in Local
    BY StoreBValFields, RoundTypes
  <1>2. CASE s \in L.receivedBVal[r][b]
    <2>1. PICK f : f = [L.receivedBVal EXCEPT ![r][b] = @ \cup {s}]
      OBVIOUS
    <2>2. f = L.receivedBVal
      <3>1. L.receivedBVal[r][b] \cup {s} = L.receivedBVal[r][b]
        BY <1>2
      <3>2. L.receivedBVal \in [AnyRound -> [BOOLEAN -> SUBSET Replica]]
        BY FieldTypes DEF Votes
      <3> QED BY <2>1, <3>1, <3>2, RoundTypes
    <2>3. M = [L EXCEPT !.receivedBVal = f]
      BY <2>1 DEF StoreBVal
    <2>4. M = L
      BY <2>2, <2>3 DEF Local
    <2> QED BY <1>2, <2>4, SelfKeeps DEF CountBVal
  <1>3. CASE s \notin L.receivedBVal[r][b]
    <2>1. CountBVal(p, L, s, b, r) = InsertBinValue(p, EarlyDecide(p, M, b, r), b, r)
      BY <1>3 DEF CountBVal, StoreBVal
    <2>2. PICK K : K = EarlyDecide(p, M, b, r)
      OBVIOUS
    <2>3. K \in Local /\ Keeps(M, K)
      BY <1>1, <2>2, EarlyDecideKeeps DEF Keeps, KeepsOwn
    <2>4. Keeps(K, InsertBinValue(p, K, b, r))
      BY <2>3, InsertBinValueKeeps
    <2> QED BY <1>1, <2>1, <2>2, <2>3, <2>4, KeepsTransitive
  <1> QED BY <1>2, <1>3

LEMMA HandleBValKeeps ==
    ASSUME Coins, NEW p \in Running, NEW L \in Local, NEW s \in Replica, NEW b \in BOOLEAN,
           NEW r \in Round, Echoed(L)
    PROVE  KeepsOwn(L, HandleBVal(p, L, s, b, r)) /\ Echoed(HandleBVal(p, L, s, b, r))
  <1>0. r \in AnyRound /\ p \in Replica
    BY RoundTypes
  <1>1. PICK K : K = StoreBVal(L, s, b, r)
    OBVIOUS
  <1>2. PICK M : M = CountBVal(p, L, s, b, r)
    OBVIOUS
  <1>3. /\ K \in Local /\ K.sentBVal = L.sentBVal /\ SameState(L, K)
        /\ K.receivedBVal[r][b] = L.receivedBVal[r][b] \cup {s}
        /\ \A q \in AnyRound, d \in BOOLEAN :
               q # r \/ d # b => K.receivedBVal[q][d] = L.receivedBVal[q][d]
    <2>1. /\ K \in Local /\ K.sentBVal = L.sentBVal /\ SameState(L, K)
          /\ K.receivedBVal[r][b] = L.receivedBVal[r][b] \cup {s}
          /\ OtherVotesStay(L, K, r, b)
      BY <1>0, <1>1, StoreBValFields
    <2> QED BY <2>1 DEF OtherVotesStay
  <1>4. M \in Local /\ Keeps(K, M)
    BY <1>1, <1>2, CountBValKeeps DEF Keeps, KeepsOwn
  <1>5. KeepsOwn(L, M)
    BY <1>3, <1>4 DEF Keeps, KeepsOwn, SameState
  <1>6. \A q \in AnyRound, d \in BOOLEAN : q # r \/ d # b => FewBVals(M, q, d)
    <2>1. \A q \in AnyRound, d \in BOOLEAN : q # r \/ d # b => FewBVals(K, q, d)
      BY <1>3 DEF Echoed, FewBVals
    <2> QED BY <1>3, <1>4, <2>1, KeepsEchoed
  <1>7. CASE HandleBVal(p, L, s, b, r) = M /\ FewBVals(M, r, b)
    BY <1>5, <1>6, <1>7 DEF Echoed
  <1>8. CASE /\ b \notin M.sentBVal[r]
             /\ HandleBVal(p, L, s, b, r) =
                    CountBVal(p, SendBVal(M, b, r), p, b, r)
    <2>1. PICK J : J = SendBVal(M, b, r)
      OBVIOUS
    <2>2. PICK I : I = StoreBVal(J, p, b, r)
      OBVIOUS
    <2>3. /\ J \in Local /\ SameState(M, J) /\ J.receivedBVal = M.receivedBVal
          /\ \A q \in AnyRound, d \in BOOLEAN :
                 d \in J.sentBVal[q] <=> d \in M.sentBVal[q] \/ (q = r /\ d = b)
      <3>1. J \in Local /\ SameState(M, J) /\ J.receivedBVal = M.receivedBVal
        BY <1>0, <1>4, <2>1, SendBValFields
      <3>2. \A q \in AnyRound, d \in BOOLEAN :
                d \in J.sentBVal[q] <=> d \in M.sentBVal[q] \/ (q = r /\ d = b)
        <4>1. SendsToo(M, J, r, b)
          BY <1>0, <1>4, <2>1, SendBValFields
        <4> QED BY <4>1 DEF SendsToo
      <3> QED BY <3>1, <3>2
    <2>4. /\ I \in Local /\ SameState(J, I) /\ I.sentBVal = J.sentBVal
          /\ \A q \in AnyRound, d \in BOOLEAN :
                 q # r \/ d # b => I.receivedBVal[q][d] = J.receivedBVal[q][d]
      <3>1. I \in Local /\ SameState(J, I) /\ I.sentBVal = J.sentBVal
        BY <1>0, <2>2, <2>3, StoreBValFields
      <3>2. \A q \in AnyRound, d \in BOOLEAN :
                q # r \/ d # b => I.receivedBVal[q][d] = J.receivedBVal[q][d]
        <4>1. OtherVotesStay(J, I, r, b)
          BY <1>0, <2>2, <2>3, StoreBValFields
        <4> QED BY <4>1 DEF OtherVotesStay
      <3> QED BY <3>1, <3>2
    <2>5. Keeps(I, HandleBVal(p, L, s, b, r))
      BY <1>0, <1>8, <2>1, <2>2, <2>3, CountBValKeeps
    <2>6. KeepsOwn(L, HandleBVal(p, L, s, b, r))
      BY <1>5, <2>3, <2>4, <2>5 DEF Keeps, KeepsOwn, SameState
    <2>7. \A q \in AnyRound, d \in BOOLEAN : FewBVals(I, q, d)
      BY <1>6, <2>3, <2>4 DEF FewBVals
    <2> QED BY <2>4, <2>5, <2>6, <2>7, KeepsEchoed DEF Echoed
  <1>9. \/ FewBVals(M, r, b)
        \/ /\ s \notin L.receivedBVal[r][b]
           /\ Cardinality(L.receivedBVal[r][b]) = F
           /\ b \notin M.sentBVal[r]
    <2> SUFFICES ASSUME ~FewBVals(M, r, b)
                 PROVE  /\ s \notin L.receivedBVal[r][b]
                        /\ Cardinality(L.receivedBVal[r][b]) = F
                        /\ b \notin M.sentBVal[r]
      OBVIOUS
    <2>1. ~FewBVals(K, r, b)
      BY <1>0, <1>3, <1>4, KeepsEchoed
    <2>2. FewBVals(L, r, b)
      BY <1>0 DEF Echoed
    <2>3. L.receivedBVal[r][b] \in SUBSET Replica
      BY <1>0, FieldTypes DEF Votes
    <2>4. b \notin L.sentBVal[r] /\ b \notin M.sentBVal[r]
      BY <1>3, <2>1 DEF FewBVals
    <2>5. /\ Cardinality(L.receivedBVal[r][b]) <= F
          /\ ~(Cardinality(L.receivedBVal[r][b] \cup {s}) <= F)
      BY <1>3, <2>1, <2>2, <2>4 DEF FewBVals
    <2>6. PICK S : S = L.receivedBVal[r][b]
      OBVIOUS
    <2>7. /\ Cardinality(S) \in Nat
          /\ s \notin S => Cardinality(S \cup {s}) = Cardinality(S) + 1
          /\ s \in S => S \cup {s} = S
      BY <2>3, <2>6, CountsOne
    <2>8. Cardinality(S) <= F /\ ~(Cardinality(S \cup {s}) <= F)
      BY <2>5, <2>6
    <2>9. s \notin S
      BY <2>7, <2>8
    <2>10. Cardinality(S \cup {s}) = Cardinality(S) + 1
      BY <2>7, <2>9
    <2>11. \A c, d : c \in Nat /\ d = c + 1 /\ c <= F /\ ~(d <= F) => c = F
      BY FAssumption
    <2>12. Cardinality(S) = F
      BY <2>7, <2>8, <2>10, <2>11
    <2> QED BY <2>4, <2>6, <2>9, <2>12
  <1>10. \/ HandleBVal(p, L, s, b, r) = M
         \/ HandleBVal(p, L, s, b, r) =
                CountBVal(p, SendBVal(M, b, r), p, b, r)
    BY <1>2 DEF HandleBVal, SendBVal
  <1>11. HandleBVal(p, L, s, b, r) =
             IF /\ s \notin L.receivedBVal[r][b]
                /\ Cardinality(L.receivedBVal[r][b]) = F
                /\ b \notin M.sentBVal[r]
             THEN CountBVal(p, SendBVal(M, b, r), p, b, r)
             ELSE M
    BY <1>2 DEF HandleBVal, SendBVal
  <1> QED BY <1>7, <1>8, <1>9, <1>11

LEMMA KeepsBoth ==
    ASSUME NEW L \in Local, NEW M, Keeps(L, M), Echoed(L)
    PROVE  KeepsOwn(L, M) /\ Echoed(M)
  BY KeepsEchoed DEF Echoed, Keeps

LEMMA HandleTermKeeps ==
    ASSUME Coins, NEW p \in Running, NEW L \in Local, NEW s \in Replica, NEW b \in BOOLEAN,
           NEW r \in Round, Echoed(L)
    PROVE  KeepsOwn(L, HandleTerm(p, L, s, b, r)) /\ Echoed(HandleTerm(p, L, s, b, r))
  <1>0. {b} \in Bit /\ {b} \in SUBSET BOOLEAN
    BY DEF Bit
  <1>1. PICK M : M = StoreTerm(L, s, {b}, r)
    OBVIOUS
  <1>2. M \in Local /\ Keeps(L, M)
    BY <1>0, <1>1, ReceivedTermFields, RoundTypes, SameKeeps DEF SameState
  <1>3. KeepsOwn(L, M) /\ Echoed(M)
    BY <1>2, KeepsBoth
  <1>4. CASE M.decision = {} /\ HandleTerm(p, L, s, b, r) = Decide(p, M, {b})
    <2>1. Keeps(M, Decide(p, M, {b}))
      BY <1>0, <1>2, <1>4, DecideKeeps
    <2>2. Keeps(L, Decide(p, M, {b}))
      BY <1>2, <2>1, KeepsTransitive
    <2> QED BY <1>4, <2>2, KeepsBoth
  <1>5. PICK K : K = HandleBVal(p, M, s, b, r)
    OBVIOUS
  <1>6. K \in Local /\ KeepsOwn(M, K) /\ Echoed(K)
    BY <1>2, <1>3, <1>5, HandleBValKeeps DEF KeepsOwn
  <1>7. PICK J : J = HandleAux(p, K, s, b, r)
    OBVIOUS
  <1>8. J \in Local /\ KeepsOwn(K, J) /\ Echoed(J)
    BY <1>6, <1>7, HandleAuxKeeps, KeepsBoth DEF KeepsOwn
  <1>9. CASE HandleTerm(p, L, s, b, r) = HandleConf(p, J, s, {b}, r)
    <2>1. Keeps(J, HandleConf(p, J, s, {b}, r))
      BY <1>0, <1>8, HandleConfKeeps
    <2>2. KeepsOwn(J, HandleConf(p, J, s, {b}, r)) /\ Echoed(HandleConf(p, J, s, {b}, r))
      BY <1>8, <2>1, KeepsBoth
    <2> QED BY <1>3, <1>6, <1>8, <1>9, <2>2 DEF KeepsOwn
  <1>10. \/ HandleTerm(p, L, s, b, r) = M
         \/ M.decision = {} /\ HandleTerm(p, L, s, b, r) = Decide(p, M, {b})
         \/ HandleTerm(p, L, s, b, r) = HandleConf(p, J, s, {b}, r)
    BY <1>1, <1>5, <1>7 DEF HandleTerm, StoreTerm
  <1> QED BY <1>3, <1>4, <1>9, <1>10

\* The input of a replica decides nothing: the BVAL it brings is at most the (F+1)-st.
StoreInput(L, b) == [L EXCEPT !.input = {b}]
SupportInput(p, K, b) == IF b \in K.sentBVal[0] THEN K
                         ELSE HandleBVal(p, SendBVal(K, b, 0), p, b, 0)

LEMMA InputKeeps ==
    ASSUME Coins, NEW p \in Running, NEW L \in Local, NEW b \in BOOLEAN, Echoed(L),
           NEW K, K = StoreInput(L, b), NEW M, M = SupportInput(p, K, b)
    PROVE  M \in Local /\ Echoed(M) /\ M.input = {b} /\ M.decision = L.decision
  <1>0. 0 \in Round /\ 0 \in AnyRound /\ p \in Replica /\ {b} \in Bit
    BY RoundTypes DEF Bit
  <1>1. /\ K \in Local /\ K.input = {b} /\ K.decision = L.decision /\ SameBVals(L, K)
    BY <1>0, InputFields DEF StoreInput
  <1>2. CASE b \in K.sentBVal[0]
    BY <1>1, <1>2 DEF SameBVals, Echoed, FewBVals, SupportInput
  <1>3. CASE b \notin K.sentBVal[0]
    <2>0. PICK z \in AnyRound : z = 0
      BY <1>0
    <2>1. PICK J : J = SendBVal(K, b, z)
      OBVIOUS
    <2>2. J \in Local /\ SameState(K, J) /\ J.receivedBVal = K.receivedBVal
      BY <1>1, <2>1, SendBValFields
    <2>17. \A q \in AnyRound, d \in BOOLEAN :
              d \in J.sentBVal[q] <=> d \in K.sentBVal[q] \/ (q = z /\ d = b)
      <3>1. SendsToo(K, J, z, b)
        BY <1>1, <2>1, SendBValFields
      <3> QED BY <3>1 DEF SendsToo
    <2>3. \A q \in AnyRound, d \in BOOLEAN :
              d \in J.sentBVal[q] <=> d \in K.sentBVal[q] \/ (q = 0 /\ d = b)
      BY <2>0, <2>17
    <2>4. Echoed(J)
      BY <1>1, <2>2, <2>3 DEF Echoed, FewBVals, SameBVals
    <2>5. PICK I : I = StoreBVal(J, p, b, 0)
      OBVIOUS
    <2>6. I \in Local /\ SameState(J, I) /\ I.sentBVal = J.sentBVal
      BY <1>0, <2>2, <2>5, StoreBValFields
    <2>7. I.receivedBVal[0][b] = J.receivedBVal[0][b] \cup {p}
      BY <1>0, <2>2, <2>5, StoreBValFields
    <2>8. PICK S : S = J.receivedBVal[0][b]
      OBVIOUS
    <2>9. S \in SUBSET Replica /\ Cardinality(S) \in Nat /\ Cardinality(S) <= F
      <3>1. S \in SUBSET Replica
        BY <1>0, <2>2, <2>8, FieldTypes DEF Votes
      <3>2. Cardinality(S) <= F
        BY <1>0, <1>1, <1>3, <2>2, <2>8 DEF Echoed, FewBVals, SameBVals
      <3>3. Cardinality(S) \in Nat
        BY <1>0, <3>1, CountsOne
      <3> QED BY <3>1, <3>2, <3>3
    <2>10. Cardinality(S \cup {p}) < 2 * F + 1 /\ S \cup {p} # Replica
      <3>1. Cardinality(S \cup {p}) <= F + 1
        <4>1. p \notin S => Cardinality(S \cup {p}) = Cardinality(S) + 1
          BY <1>0, <2>9, CountsOne
        <4>2. p \in S => S \cup {p} = S
          BY <1>0, <2>9, CountsOne
        <4>3. \A c \in Nat : c <= F => c + 1 <= F + 1 /\ c <= F + 1
          BY FAssumption
        <4> QED BY <2>9, <4>1, <4>2, <4>3
      <3>2. Cardinality(Replica) >= F + 3
        BY FAssumption DEF N
      <3>3. Cardinality(S \cup {p}) \in Nat
        <4>1. S \cup {p} \in SUBSET Replica
          BY <1>0, <2>9
        <4> QED BY <1>0, <4>1, CountsOne
      <3>6. Cardinality(Replica) \in Nat
        BY ReplicaAssumption, FS_CardinalityType
      <3>4. \A c, d \in Nat : c <= F + 1 /\ d >= F + 3 => c < 2 * F + 1 /\ c # d
        BY FAssumption
      <3>5. Cardinality(S \cup {p}) < 2 * F + 1 /\ Cardinality(S \cup {p}) # Cardinality(Replica)
        BY <3>1, <3>2, <3>3, <3>4, <3>6
      <3> QED BY <3>5
    <2>11. EarlyDecide(p, I, b, 0) = I /\ InsertBinValue(p, I, b, 0) = I
      BY <2>7, <2>8, <2>10 DEF EarlyDecide, InsertBinValue
    <2>12. CountBVal(p, J, p, b, 0) \in {J, I}
      BY <2>5, <2>11 DEF CountBVal, StoreBVal
    <2>13. b \in J.sentBVal[0] /\ b \in I.sentBVal[0]
      BY <1>0, <2>3, <2>6
    <2>14. HandleBVal(p, J, p, b, 0) \in {J, I}
      <3>1. PICK H : H = CountBVal(p, J, p, b, 0)
        OBVIOUS
      <3>2. b \in H.sentBVal[0]
        BY <2>12, <2>13, <3>1
      <3> QED BY <2>12, <3>1, <3>2 DEF HandleBVal
    <2>15. M = HandleBVal(p, J, p, b, 0)
      BY <1>3, <2>0, <2>1 DEF SupportInput
    <2>16. Echoed(M)
      BY <1>0, <2>2, <2>4, <2>15, HandleBValKeeps
    <2> QED BY <1>1, <2>2, <2>6, <2>14, <2>15, <2>16 DEF SameState
  <1> QED BY <1>2, <1>3

-----------------------------------------------------------------------------
\* What a step does to the record of one replica.
StepOf(p) ==
    /\ local' \in [Running -> Local] /\ Echoed(local'[p])
    /\ \A q \in Running : q # p => local'[q] = local[q]
    /\ \/ KeepsOwn(local[p], local'[p])
       \/ /\ local[p].input = {} /\ \E b \in BOOLEAN : local'[p].input = {b}
          /\ local'[p].decision = local[p].decision

TypeInv == /\ TypeOK
           /\ \A p \in Running : Echoed(local[p])

LEMMA TypeInit == Init => TypeInv
  <1> SUFFICES ASSUME Init PROVE TypeInv
    OBVIOUS
  <1>1. Init0 \in Local
    BY RoundTypes, ModeAssumption DEF Init0, Local, Bit, AnyRound
  <1>2. Echoed(Init0)
    <2>1. \A r \in AnyRound, b \in BOOLEAN : Init0.receivedBVal[r][b] = {}
      BY DEF Init0
    <2>2. Cardinality({}) = 0
      BY FS_EmptySet, Zenon
    <2>3. \A r \in AnyRound, b \in BOOLEAN : Cardinality(Init0.receivedBVal[r][b]) = 0
      BY <2>1, <2>2
    <2> QED BY <2>3, FAssumption DEF Echoed, FewBVals
  <1>3. garbled \in [Running -> BOOLEAN]
    BY DEF Init
  <1>4. fromFaulty \in 0 .. MaxFaulty
    BY ModeAssumption DEF Init
  <1> QED BY <1>1, <1>2, <1>3, <1>4 DEF Init, TypeInv, TypeOK

LEMMA DeliverStep ==
    ASSUME TypeInv, NEW p \in Running, Deliver(p)
    PROVE  StepOf(p) /\ local'[p].input = local[p].input /\ UNCHANGED <<coin, garbled>>
           /\ fromFaulty' \in 0 .. MaxFaulty
  <1>0. Coins /\ local[p] \in Local /\ Echoed(local[p]) /\ local \in [Running -> Local]
    BY DEF TypeInv, TypeOK, Coins
  <1>1. PICK L : L = local[p]
    OBVIOUS
  <1>2. PICK s \in Sender(p), r \in Round :
            \/ \E b \in BOOLEAN : \/ ReceiveBVal(p, s, b, r)
                                  \/ ReceiveAux(p, s, b, r)
                                  \/ ReceiveTerm(p, s, b, r)
            \/ \E values \in (SUBSET BOOLEAN) \ {{}} : ReceiveConf(p, s, values, r)
            \/ ReceiveCoin(p, s, r)
    BY DEF Deliver
  <1>3. s \in Replica /\ r \in AnyRound
    BY RoundTypes DEF Sender
  <1>4. ASSUME NEW M, KeepsOwn(L, M), Echoed(M), Receive(p, s, M)
        PROVE  StepOf(p) /\ local'[p].input = local[p].input /\ UNCHANGED <<coin, garbled>>
               /\ fromFaulty' \in 0 .. MaxFaulty
    <2>1. fromFaulty' \in 0 .. MaxFaulty
      BY <1>4, ModeAssumption DEF Receive, Sender, TypeInv, TypeOK
    <2>2. local' = [local EXCEPT ![p] = M]
      BY <1>4 DEF Receive
    <2>3. M \in Local /\ M.input = local[p].input
      BY <1>1, <1>4 DEF KeepsOwn
    <2>4. local' \in [Running -> Local] /\ local'[p] = M
          /\ \A q \in Running : q # p => local'[q] = local[q]
      BY <1>0, <2>2, <2>3
    <2> QED BY <1>1, <1>4, <2>1, <2>3, <2>4 DEF StepOf, Receive
  <1>5. ASSUME NEW b \in BOOLEAN, ReceiveBVal(p, s, b, r)
        PROVE  \E M : KeepsOwn(L, M) /\ Echoed(M) /\ Receive(p, s, M)
    BY <1>0, <1>1, <1>3, <1>5, HandleBValKeeps DEF ReceiveBVal
  <1>6. ASSUME NEW b \in BOOLEAN, ReceiveAux(p, s, b, r)
        PROVE  \E M : KeepsOwn(L, M) /\ Echoed(M) /\ Receive(p, s, M)
    BY <1>0, <1>1, <1>3, <1>6, HandleAuxKeeps, KeepsBoth DEF ReceiveAux
  <1>7. ASSUME NEW b \in BOOLEAN, ReceiveTerm(p, s, b, r)
        PROVE  \E M : KeepsOwn(L, M) /\ Echoed(M) /\ Receive(p, s, M)
    BY <1>0, <1>1, <1>3, <1>7, HandleTermKeeps DEF ReceiveTerm
  <1>8. ASSUME NEW values \in (SUBSET BOOLEAN) \ {{}}, ReceiveConf(p, s, values, r)
        PROVE  \E M : KeepsOwn(L, M) /\ Echoed(M) /\ Receive(p, s, M)
    <2>1. PICK K : K = [L EXCEPT !.confFrom[r] = @ \cup {s}]
      OBVIOUS
    <2>2. K \in Local /\ Keeps(L, K)
      BY <1>0, <1>1, <1>3, <2>1, ConfFromFields, SameKeeps DEF Same, SameState
    <2>3. Keeps(L, HandleConf(p, K, s, values, r))
      BY <1>0, <1>1, <1>3, <2>2, HandleConfKeeps, KeepsTransitive
    <2>4. Receive(p, s, HandleConf(p, K, s, values, r))
      BY <1>1, <1>8, <2>1 DEF ReceiveConf
    <2> QED BY <1>0, <1>1, <2>3, <2>4, KeepsBoth
  <1>9. ASSUME ReceiveCoin(p, s, r)
        PROVE  \E M : KeepsOwn(L, M) /\ Echoed(M) /\ Receive(p, s, M)
    BY <1>0, <1>1, <1>3, <1>9, HandleCoinKeeps, KeepsBoth DEF ReceiveCoin
  <1>10. \E M : KeepsOwn(L, M) /\ Echoed(M) /\ Receive(p, s, M)
    BY <1>2, <1>5, <1>6, <1>7, <1>8, <1>9
  <1> QED BY <1>4, <1>10

LEMMA InputStep ==
    ASSUME TypeInv, NEW p \in Running, NEW b \in BOOLEAN, HandleInput(p, b)
    PROVE  /\ StepOf(p) /\ UNCHANGED <<coin, garbled, fromFaulty>>
           /\ local[p].input = {} /\ local'[p].input = {b}
           /\ local'[p].decision = local[p].decision
  <1>0. Coins /\ local[p] \in Local /\ Echoed(local[p]) /\ local \in [Running -> Local]
    BY DEF TypeInv, TypeOK, Coins
  <1>1. PICK L : L = local[p]
    OBVIOUS
  <1>2. PICK K : K = StoreInput(L, b)
    OBVIOUS
  <1>3. PICK M : M = SupportInput(p, K, b)
    OBVIOUS
  <1>4. M \in Local /\ Echoed(M) /\ M.input = {b} /\ M.decision = L.decision
    BY <1>0, <1>1, <1>2, <1>3, InputKeeps
  <1>5. Receive(p, p, M) /\ L.input = {}
    BY <1>1, <1>2, <1>3 DEF HandleInput, SendBVal, StoreInput, SupportInput
  <1>6. local' = [local EXCEPT ![p] = M]
    BY <1>5 DEF Receive
  <1>7. local' \in [Running -> Local] /\ local'[p] = M
        /\ \A q \in Running : q # p => local'[q] = local[q]
    BY <1>0, <1>4, <1>6
  <1>8. UNCHANGED <<coin, garbled, fromFaulty>>
    BY <1>5 DEF Receive
  <1> QED BY <1>1, <1>4, <1>5, <1>7, <1>8 DEF StepOf

LEMMA TypeNext == TypeInv /\ [Next]_vars => TypeInv'
  <1> SUFFICES ASSUME TypeInv, [Next]_vars PROVE TypeInv'
    OBVIOUS
  <1>1. ASSUME NEW p \in Running, StepOf(p), UNCHANGED <<coin, garbled>>,
               fromFaulty' \in 0 .. MaxFaulty
        PROVE  TypeInv'
    BY <1>1 DEF TypeInv, TypeOK, StepOf
  <1>2. CASE UNCHANGED vars
    BY <1>2 DEF TypeInv, TypeOK, vars
  <1>3. ASSUME NEW p \in Running, NEW b \in BOOLEAN, HandleInput(p, b) PROVE TypeInv'
    <2>1. fromFaulty \in 0 .. MaxFaulty
      BY DEF TypeInv, TypeOK
    <2> QED BY <1>1, <1>3, <2>1, InputStep
  <1>4. ASSUME NEW p \in Correct, Deliver(p) PROVE TypeInv'
    BY <1>1, <1>4, DeliverStep, RoundTypes
  <1> QED BY <1>2, <1>3, <1>4 DEF Next

\* The types hold in every reachable state.
THEOREM TypeCorrect == Spec => []TypeOK
  <1>1. TypeInv => TypeOK
    BY DEF TypeInv
  <1> QED BY <1>1, TypeInit, TypeNext, PTL DEF Spec
-----------------------------------------------------------------------------
(***************************************************************************)
(* What the correct replicas know, for Validity and Agreement.  x is the   *)
(* function of records, c the coins of the rounds.                         *)
(***************************************************************************)
\* At most F replicas are faulty.
FewFaults == Cardinality(Faulty) <= F
\* What the paper assumes, and no early ending, which breaks Agreement.
Resilient == FewFaults /\ N > 3 * F /\ ~EarlyAba /\ FaultModel # "badcoin"

\* s supports b in round r: it sent its BVAL, its AUX, or a TERM in their place.
BValFrom(x, s, r, b) == b \in x[s].sentBVal[r] \/ x[s].decision = {b}
AuxFrom(x, s, r, b) == b \in x[s].sentAux[r] \/ x[s].decision = {b}

Backed(x, b) == \E p \in Correct : x[p].input = {b}
Decided(x, b) == \E p \in Correct : x[p].decision = {b}

\* So many replicas may have sent AUX(b) that a CONF may hold b and nothing else.
AuxSenders(x, r, b) == {s \in Correct : b \in x[s].sentAux[r]}
Big(x, r, b) == Cardinality(AuxSenders(x, r, b) \cup Faulty) >= N - F

\* b has come through every round before r, with the coin or against it.
Path(x, c, r, b) == \A q \in Round : q < r => c[q] = b \/ Big(x, q, b)
Carried(x, c, r, b) == Decided(x, b) \/ Path(x, c, r, b)
\* b can be decided in round r.
LockedAt(x, c, b, r) == c[r] = b /\ Big(x, r, b) /\ Path(x, c, r, b)
\* It could be in round n, or before, or where another replica decided it.
Locked(x, c, b, n) ==
    \E r \in Round :
        /\ LockedAt(x, c, b, r)
        /\ r <= n \/ \E s \in Correct : x[s].decision = {b} /\ r <= x[s].round

MaySupport(x, c, r, b) == (FewFaults => Backed(x, b)) /\ (Resilient => Carried(x, c, r, b))
MayDecide(x, c, b, n) == (FewFaults => Backed(x, b)) /\ (Resilient => Locked(x, c, b, n))

\* A CONF of one value stands on N - F AUXs, and a round to come has no coin.
BoundsAt(p, L, r) ==
    /\ L.sentAux[r] \subseteq L.binValues[r]
    /\ L.sentAux[r] # BOOLEAN
    /\ L.sentConf[r] \subseteq L.binValues[r]
    /\ \A b \in BOOLEAN : L.sentConf[r] = {b} => Cardinality(L.receivedAux[r][b]) >= N - F
    /\ r > L.round => L.coinShares[r] \subseteq {p} /\ L.coinValue[r] = {}
Bounds(p, L) == \A r \in AnyRound : BoundsAt(p, L, r)

\* What a record says of a correct replica is so.
HeardBVal(x, L) == \A r \in AnyRound, b \in BOOLEAN, s \in Correct :
                       s \in L.receivedBVal[r][b] => BValFrom(x, s, r, b)
HeardAux(x, L) == \A r \in AnyRound, b \in BOOLEAN, s \in Correct :
                      s \in L.receivedAux[r][b] => AuxFrom(x, s, r, b)
HeardTerm(x, L) == \A r \in AnyRound, b \in BOOLEAN, s \in Correct :
                       L.receivedTerm[r][s] = {b} => x[s].decision = {b}
Supports(x, c, L) == \A r \in AnyRound, b \in BOOLEAN :
                         b \in L.sentBVal[r] \cup L.binValues[r] => MaySupport(x, c, r, b)
Decides(x, c, L) == \A b \in BOOLEAN : L.decision = {b} => MayDecide(x, c, b, L.round)
Tosses(c, L) == Resilient => \A r \in Round : L.coinValue[r] \subseteq {c[r]}

GoodAt(x, c, p, L) == /\ Bounds(p, L) /\ HeardBVal(x, L) /\ HeardAux(x, L) /\ HeardTerm(x, L)
                      /\ Supports(x, c, L) /\ Decides(x, c, L) /\ Tosses(c, L)
Good(x, c) == /\ x \in [Running -> Local]
              /\ \A p \in Correct : GoodAt(x, c, p, x[p])

\* What a replica sent, decided or was given stays.
Grows(L, M) == /\ \A r \in AnyRound : /\ L.sentBVal[r] \subseteq M.sentBVal[r]
                                      /\ L.sentAux[r] \subseteq M.sentAux[r]
               /\ L.decision # {} => M.decision = L.decision /\ M.round = L.round
               /\ L.input # {} => M.input = L.input
AllGrow(x, y) == \A p \in Correct : Grows(x[p], y[p])

LEMMA BigGrows ==
    ASSUME NEW x, NEW y, AllGrow(x, y), NEW r \in AnyRound, NEW b \in BOOLEAN, Big(x, r, b)
    PROVE  Big(y, r, b)
  <1>1. PICK A : A = AuxSenders(x, r, b) \cup Faulty
    OBVIOUS
  <1>2. PICK B : B = AuxSenders(y, r, b) \cup Faulty
    OBVIOUS
  <1>3. A \subseteq B /\ B \subseteq Replica
    BY <1>1, <1>2, ReplicaAssumption DEF AuxSenders, AllGrow, Grows, Correct
  <1>4. IsFiniteSet(B)
    BY <1>3, ReplicaAssumption, FS_Subset
  <1>5. /\ Cardinality(A) <= Cardinality(B)
        /\ Cardinality(A) \in Nat /\ Cardinality(B) \in Nat
    BY <1>3, <1>4, FS_Subset, FS_CardinalityType
  <1>6. N \in Nat /\ F \in Nat
    BY ReplicaAssumption, FAssumption, FS_CardinalityType DEF N
  <1>7. Cardinality(A) >= N - F
    BY <1>1 DEF Big
  <1>8. \A i \in Nat, j \in Nat, n \in Nat, f \in Nat : i <= j /\ i >= n - f => j >= n - f
    OBVIOUS
  <1>9. Cardinality(B) >= N - F
    BY <1>5, <1>6, <1>7, <1>8
  <1> QED BY <1>2, <1>9 DEF Big

LEMMA PathGrows ==
    ASSUME NEW x, NEW y, AllGrow(x, y), NEW c, NEW r, NEW b \in BOOLEAN, Path(x, c, r, b)
    PROVE  Path(y, c, r, b)
  BY BigGrows, RoundTypes DEF Path

LEMMA MaysGrow ==
    ASSUME NEW x, NEW y, AllGrow(x, y), NEW c, NEW b \in BOOLEAN
    PROVE  /\ Backed(x, b) => Backed(y, b)
           /\ Decided(x, b) => Decided(y, b)
           /\ \A r \in AnyRound : MaySupport(x, c, r, b) => MaySupport(y, c, r, b)
           /\ \A n : MayDecide(x, c, b, n) => MayDecide(y, c, b, n)
  <1>1. Backed(x, b) => Backed(y, b)
    BY DEF AllGrow, Grows, Backed
  <1>2. Decided(x, b) => Decided(y, b)
    BY DEF AllGrow, Grows, Decided
  <1>3. \A r : Path(x, c, r, b) => Path(y, c, r, b)
    BY PathGrows
  <1>4. \A r \in AnyRound : MaySupport(x, c, r, b) => MaySupport(y, c, r, b)
    BY <1>1, <1>2, <1>3 DEF MaySupport, Carried
  <1>7. \A r \in Round : LockedAt(x, c, b, r) => LockedAt(y, c, b, r)
    BY <1>3, BigGrows, RoundTypes DEF LockedAt
  <1>8. \A s \in Correct : x[s].decision = {b} => y[s].decision = {b} /\ y[s].round = x[s].round
    BY DEF AllGrow, Grows
  <1>5. \A n : Locked(x, c, b, n) => Locked(y, c, b, n)
    BY <1>7, <1>8 DEF Locked
  <1>6. \A n : MayDecide(x, c, b, n) => MayDecide(y, c, b, n)
    BY <1>1, <1>5 DEF MayDecide
  <1> QED BY <1>1, <1>2, <1>4, <1>6

LEMMA FromsGrow ==
    ASSUME NEW x, NEW y, AllGrow(x, y), NEW s \in Correct, NEW r \in AnyRound, NEW b \in BOOLEAN
    PROVE  /\ BValFrom(x, s, r, b) => BValFrom(y, s, r, b)
           /\ AuxFrom(x, s, r, b) => AuxFrom(y, s, r, b)
           /\ x[s].decision = {b} => y[s].decision = {b}
  BY DEF AllGrow, Grows, BValFrom, AuxFrom

LEMMA GoodAtGrows ==
    ASSUME NEW x, NEW y, AllGrow(x, y), NEW c, NEW p \in Correct, NEW L, GoodAt(x, c, p, L)
    PROVE  GoodAt(y, c, p, L)
  <1>1. HeardBVal(y, L) /\ HeardAux(y, L) /\ HeardTerm(y, L)
    BY FromsGrow DEF GoodAt, HeardBVal, HeardAux, HeardTerm
  <1>2. Supports(y, c, L) /\ Decides(y, c, L)
    BY MaysGrow DEF GoodAt, Supports, Decides
  <1> QED BY <1>1, <1>2 DEF GoodAt

\* The record of p becomes M.
Put(x, p, M) == [x EXCEPT ![p] = M]

LEMMA PutFacts ==
    ASSUME NEW x \in [Running -> Local], NEW p \in Running, NEW M \in Local
    PROVE  /\ Put(x, p, M) \in [Running -> Local] /\ Put(x, p, M)[p] = M
           /\ \A q \in Running : q # p => Put(x, p, M)[q] = x[q]
           /\ \A K : Put(Put(x, p, M), p, K) = Put(x, p, K)
           /\ Put(x, p, x[p]) = x
  BY DEF Put

\* A change of one record keeps Good if the new record is good.
LEMMA GoodStep ==
    ASSUME NEW x, NEW c, Good(x, c), NEW p \in Correct, NEW M \in Local, Grows(x[p], M),
           Bounds(p, M), HeardBVal(Put(x, p, M), M), HeardAux(Put(x, p, M), M),
           HeardTerm(Put(x, p, M), M), Supports(x, c, M), Decides(x, c, M), Tosses(c, M)
    PROVE  Good(Put(x, p, M), c)
  <1>1. PICK y : y = Put(x, p, M)
    OBVIOUS
  <1>2. /\ y \in [Running -> Local] /\ y[p] = M
        /\ \A q \in Running : q # p => y[q] = x[q]
    BY <1>1, PutFacts, RoundTypes DEF Good
  <1>3. \A q \in Correct : Grows(x[q], x[q])
    BY DEF Grows
  <1>4. AllGrow(x, y)
    BY <1>2, <1>3, RoundTypes DEF AllGrow
  <1>5. Supports(y, c, M) /\ Decides(y, c, M)
    BY <1>4, MaysGrow DEF Supports, Decides
  <1>6. GoodAt(y, c, p, M)
    BY <1>1, <1>5 DEF GoodAt
  <1>7. \A q \in Correct : q # p => GoodAt(y, c, q, y[q])
    BY <1>2, <1>4, GoodAtGrows, RoundTypes DEF Good
  <1> QED BY <1>1, <1>2, <1>6, <1>7 DEF Good
-----------------------------------------------------------------------------
(***************************************************************************)
(* The changes a handler is made of, one by one.                           *)
(***************************************************************************)
Goes(x, c, p, M) == M \in Local /\ Grows(x[p], M) /\ Good(Put(x, p, M), c)

LEMMA GoesTransitive ==
    ASSUME NEW x, NEW c, Good(x, c), NEW p \in Correct, NEW M, NEW K,
           Goes(x, c, p, M), Goes(Put(x, p, M), c, p, K)
    PROVE  Goes(x, c, p, K)
  <1>1. x \in [Running -> Local] /\ p \in Running /\ M \in Local
    BY RoundTypes DEF Good, Goes
  <1>2. Put(x, p, M)[p] = M /\ Put(Put(x, p, M), p, K) = Put(x, p, K)
    BY <1>1, PutFacts
  <1>3. Grows(x[p], M) /\ Grows(M, K)
    BY <1>2 DEF Goes
  <1>4. Grows(x[p], K)
    BY <1>3 DEF Grows
  <1> QED BY <1>2, <1>4 DEF Goes

LEMMA GoesSelf ==
    ASSUME NEW x, NEW c, Good(x, c), NEW p \in Correct
    PROVE  Goes(x, c, p, x[p])
  <1>1. x \in [Running -> Local] /\ p \in Running /\ x[p] \in Local
    BY RoundTypes DEF Good
  <1>2. Put(x, p, x[p]) = x
    BY <1>1, PutFacts
  <1> QED BY <1>1, <1>2 DEF Goes, Grows

LEMMA SameGrows ==
    ASSUME NEW L, NEW M, SameBVals(L, M), SameAuxs(L, M), SameState(L, M)
    PROVE  Grows(L, M)
  BY DEF Grows, SameBVals, SameAuxs, SameState

\* Each part of Good stays when the fields it is about stay.
LEMMA PartsStay ==
    ASSUME NEW x, NEW c, Good(x, c), NEW p \in Correct, NEW L, L = x[p],
           NEW M \in Local, Grows(L, M), NEW y, y = Put(x, p, M)
    PROVE  /\ AllGrow(x, y) /\ y[p] = M
           /\ Bounds(p, L) /\ HeardBVal(y, L) /\ HeardAux(y, L) /\ HeardTerm(y, L)
           /\ Supports(x, c, L) /\ Decides(x, c, L) /\ Tosses(c, L)
           /\ SameBVals(L, M) => HeardBVal(y, M)
           /\ M.receivedAux = L.receivedAux => HeardAux(y, M)
           /\ SameTerms(L, M) => HeardTerm(y, M)
           /\ SameBVals(L, M) /\ M.binValues = L.binValues => Supports(x, c, M)
           /\ M.decision = L.decision => Decides(x, c, M)
           /\ SameAuxs(L, M) /\ SameCoins(L, M) /\ M.round = L.round => Bounds(p, M)
           /\ SameCoins(L, M) => Tosses(c, M)
  <1>1. /\ y[p] = M
        /\ \A q \in Running : q # p => y[q] = x[q]
    BY PutFacts, RoundTypes DEF Good
  <1>2. \A q \in Correct : Grows(x[q], x[q])
    BY DEF Grows
  <1>3. AllGrow(x, y)
    BY <1>1, <1>2, RoundTypes DEF AllGrow
  <1>4. GoodAt(x, c, p, L) /\ GoodAt(y, c, p, L)
    BY <1>3, GoodAtGrows DEF Good
  <1>5. /\ Bounds(p, L) /\ HeardBVal(y, L) /\ HeardAux(y, L) /\ HeardTerm(y, L)
        /\ Supports(x, c, L) /\ Decides(x, c, L) /\ Tosses(c, L)
    BY <1>4 DEF GoodAt
  <1>6. /\ SameBVals(L, M) => HeardBVal(y, M)
        /\ M.receivedAux = L.receivedAux => HeardAux(y, M)
        /\ SameTerms(L, M) => HeardTerm(y, M)
    BY <1>5 DEF HeardBVal, HeardAux, HeardTerm, SameBVals, SameTerms
  <1>7. /\ SameBVals(L, M) /\ M.binValues = L.binValues => Supports(x, c, M)
        /\ M.decision = L.decision => Decides(x, c, M)
        /\ SameCoins(L, M) => Tosses(c, M)
    BY <1>5 DEF Supports, Decides, Tosses, SameBVals, SameCoins, Grows
  <1>8. SameAuxs(L, M) /\ SameCoins(L, M) /\ M.round = L.round => Bounds(p, M)
    BY <1>5 DEF Bounds, BoundsAt, SameAuxs, SameCoins
  <1> QED BY <1>1, <1>3, <1>5, <1>6, <1>7, <1>8

\* Fields that Good does not mention.
LEMMA SameGoes ==
    ASSUME NEW x, NEW c, Good(x, c), NEW p \in Correct, NEW M \in Local, Same(x[p], M)
    PROVE  Goes(x, c, p, M)
  <1>1. PICK L : L = x[p]
    OBVIOUS
  <1>2. PICK y : y = Put(x, p, M)
    OBVIOUS
  <1>3. /\ SameState(L, M) /\ SameBVals(L, M) /\ SameAuxs(L, M) /\ SameCoins(L, M)
        /\ SameTerms(L, M)
    BY <1>1 DEF Same
  <1>4. Grows(L, M)
    BY <1>3, SameGrows
  <1>5. /\ HeardBVal(y, M) /\ HeardTerm(y, M) /\ Tosses(c, M)
        /\ M.receivedAux = L.receivedAux => HeardAux(y, M)
        /\ SameBVals(L, M) /\ M.binValues = L.binValues => Supports(x, c, M)
        /\ M.decision = L.decision => Decides(x, c, M)
        /\ SameAuxs(L, M) /\ SameCoins(L, M) /\ M.round = L.round => Bounds(p, M)
    BY <1>1, <1>2, <1>3, <1>4, PartsStay
  <1>6. M.receivedAux = L.receivedAux /\ M.binValues = L.binValues
        /\ M.decision = L.decision /\ M.round = L.round
    BY <1>3 DEF SameAuxs, SameState
  <1> QED BY <1>1, <1>2, <1>3, <1>4, <1>5, <1>6, GoodStep DEF Goes

\* A BVAL is counted.
LEMMA StoreBValGoes ==
    ASSUME NEW x, NEW c, Good(x, c), NEW p \in Correct, NEW s \in Replica, NEW b \in BOOLEAN,
           NEW r \in AnyRound, s \in Correct => BValFrom(x, s, r, b),
           NEW M, M = StoreBVal(x[p], s, b, r)
    PROVE  Goes(x, c, p, M)
  <1>1. PICK L : L = x[p]
    OBVIOUS
  <1>2. PICK y : y = Put(x, p, M)
    OBVIOUS
  <1>0. L \in Local
    BY <1>1, RoundTypes DEF Good
  <1>3. /\ M \in Local /\ M.sentBVal = L.sentBVal
        /\ SameState(L, M) /\ SameAuxs(L, M) /\ SameCoins(L, M) /\ SameTerms(L, M)
    BY <1>0, <1>1, StoreBValFields
  <1>4. /\ M.receivedBVal[r][b] = L.receivedBVal[r][b] \cup {s}
        /\ \A q \in AnyRound, d \in BOOLEAN :
               q # r \/ d # b => M.receivedBVal[q][d] = L.receivedBVal[q][d]
    <2>1. M.receivedBVal[r][b] = L.receivedBVal[r][b] \cup {s} /\ OtherVotesStay(L, M, r, b)
      BY <1>0, <1>1, StoreBValFields
    <2> QED BY <2>1 DEF OtherVotesStay
  <1>5. Grows(L, M)
    BY <1>3 DEF Grows, SameAuxs, SameState
  <1>6. /\ M.receivedAux = L.receivedAux /\ M.binValues = L.binValues
        /\ M.decision = L.decision /\ M.round = L.round
    BY <1>3 DEF SameAuxs, SameState
  <1>7. /\ AllGrow(x, y) /\ HeardBVal(y, L) /\ HeardTerm(y, M) /\ Tosses(c, M)
        /\ HeardAux(y, M) /\ Decides(x, c, M) /\ Bounds(p, M) /\ Supports(x, c, L)
    BY <1>1, <1>2, <1>3, <1>5, <1>6, PartsStay
  <1>8. Supports(x, c, M)
    BY <1>3, <1>6, <1>7 DEF Supports
  <1>9. s \in Correct => BValFrom(y, s, r, b)
    BY <1>7, FromsGrow
  <1>10. HeardBVal(y, M)
    BY <1>4, <1>7, <1>9 DEF HeardBVal
  <1> QED BY <1>1, <1>2, <1>3, <1>5, <1>7, <1>8, <1>10, GoodStep DEF Goes

\* A BVAL is sent.
LEMMA SendBValGoes ==
    ASSUME NEW x, NEW c, Good(x, c), NEW p \in Correct, NEW b \in BOOLEAN, NEW r \in AnyRound,
           MaySupport(x, c, r, b), NEW M, M = SendBVal(x[p], b, r)
    PROVE  Goes(x, c, p, M)
  <1>1. PICK L : L = x[p]
    OBVIOUS
  <1>2. PICK y : y = Put(x, p, M)
    OBVIOUS
  <1>0. L \in Local
    BY <1>1, RoundTypes DEF Good
  <1>3. /\ M \in Local /\ M.receivedBVal = L.receivedBVal
        /\ SameState(L, M) /\ SameAuxs(L, M) /\ SameCoins(L, M) /\ SameTerms(L, M)
    BY <1>0, <1>1, SendBValFields
  <1>4. \A q \in AnyRound, d \in BOOLEAN :
            d \in M.sentBVal[q] <=> d \in L.sentBVal[q] \/ (q = r /\ d = b)
    <2>1. SendsToo(L, M, r, b)
      BY <1>0, <1>1, SendBValFields
    <2> QED BY <2>1 DEF SendsToo
  <1>11. \A q \in AnyRound : L.sentBVal[q] \subseteq BOOLEAN
    BY <1>0, FieldTypes DEF Bits
  <1>5. Grows(L, M)
    BY <1>3, <1>4, <1>11 DEF Grows, SameAuxs, SameState
  <1>6. /\ M.receivedAux = L.receivedAux /\ M.binValues = L.binValues
        /\ M.decision = L.decision /\ M.round = L.round
    BY <1>3 DEF SameAuxs, SameState
  <1>7. /\ AllGrow(x, y) /\ HeardBVal(y, L) /\ HeardTerm(y, M) /\ Tosses(c, M)
        /\ HeardAux(y, M) /\ Decides(x, c, M) /\ Bounds(p, M) /\ Supports(x, c, L)
    BY <1>1, <1>2, <1>3, <1>5, <1>6, PartsStay
  <1>8. Supports(x, c, M)
    BY <1>4, <1>6, <1>7 DEF Supports
  <1>10. HeardBVal(y, M)
    BY <1>3, <1>7 DEF HeardBVal
  <1> QED BY <1>1, <1>2, <1>3, <1>5, <1>7, <1>8, <1>10, GoodStep DEF Goes

\* A value enters bin_values, an AUX is sent, an AUX is counted.
AddBinValue(L, b, r) == [L EXCEPT !.binValues[r] = @ \cup {b}]
SendAux(L, b, r) == [L EXCEPT !.sentAux[r] = @ \cup {b}]
StoreAux(L, s, b, r) == [L EXCEPT !.receivedAux[r][b] = @ \cup {s}]

WithBit(f, r, b) == [f EXCEPT ![r] = @ \cup {b}]
LEMMA BitsAt ==
    ASSUME NEW f \in Bits, NEW r \in AnyRound, NEW b \in BOOLEAN,
           NEW g, g = WithBit(f, r, b)
    PROVE  /\ g \in Bits /\ g[r] = f[r] \cup {b}
           /\ \A q \in AnyRound : q # r => g[q] = f[q]
  BY DEF Bits, WithBit

LEMMA AddBinValueGoes ==
    ASSUME NEW x, NEW c, Good(x, c), NEW p \in Correct, NEW b \in BOOLEAN, NEW r \in AnyRound,
           MaySupport(x, c, r, b), NEW M, M = AddBinValue(x[p], b, r)
    PROVE  /\ Goes(x, c, p, M) /\ SameBVals(x[p], M)
           /\ M.sentAux = x[p].sentAux /\ M.binValues[r] = x[p].binValues[r] \cup {b}
  <1>1. PICK L : L = x[p]
    OBVIOUS
  <1>2. PICK y : y = Put(x, p, M)
    OBVIOUS
  <1>0. L \in Local
    BY <1>1, RoundTypes DEF Good
  <1>3. PICK f : f = L.binValues
    OBVIOUS
  <1>4. PICK g : g = WithBit(f, r, b)
    OBVIOUS
  <1>5. f \in Bits
    BY <1>0, <1>3, FieldTypes
  <1>6. /\ g \in Bits /\ g[r] = f[r] \cup {b}
        /\ \A q \in AnyRound : q # r => g[q] = f[q]
    BY <1>4, <1>5, BitsAt
  <1>7. M = [L EXCEPT !.binValues = g]
    BY <1>1, <1>3, <1>4 DEF AddBinValue, WithBit
  <1>8. /\ M \in Local /\ M.binValues = g /\ M.receivedAux = L.receivedAux
        /\ M.sentAux = L.sentAux
        /\ SameState(L, M) /\ SameBVals(L, M) /\ SameCoins(L, M) /\ SameTerms(L, M)
    BY <1>0, <1>6, <1>7, BinValuesFields
  <1>9. Grows(L, M)
    BY <1>8 DEF Grows, SameBVals, SameState
  <1>10. M.decision = L.decision /\ M.round = L.round
    BY <1>8 DEF SameState
  <1>11. /\ HeardBVal(y, M) /\ HeardTerm(y, M) /\ Tosses(c, M)
         /\ HeardAux(y, M) /\ Decides(x, c, M) /\ Bounds(p, L) /\ Supports(x, c, L)
    BY <1>1, <1>2, <1>8, <1>9, <1>10, PartsStay
  <1>12. Supports(x, c, M)
    BY <1>3, <1>6, <1>8, <1>11 DEF Supports, SameBVals
  <1>13. Bounds(p, M)
    <2>1. \A q \in AnyRound : L.binValues[q] \subseteq M.binValues[q]
      BY <1>3, <1>6, <1>8
    <2> QED BY <2>1, <1>8, <1>10, <1>11 DEF Bounds, BoundsAt, SameCoins
  <1>14. Goes(x, c, p, M)
    BY <1>1, <1>2, <1>8, <1>9, <1>11, <1>12, <1>13, GoodStep DEF Goes
  <1> QED BY <1>1, <1>3, <1>6, <1>8, <1>14

LEMMA SendAuxGoes ==
    ASSUME NEW x, NEW c, Good(x, c), NEW p \in Correct, NEW b \in BOOLEAN, NEW r \in AnyRound,
           b \in x[p].binValues[r], x[p].binValues[r] # BOOLEAN,
           NEW M, M = SendAux(x[p], b, r)
    PROVE  Goes(x, c, p, M) /\ SameBVals(x[p], M) /\ b \in M.sentAux[r]
  <1>1. PICK L : L = x[p]
    OBVIOUS
  <1>2. PICK y : y = Put(x, p, M)
    OBVIOUS
  <1>0. L \in Local
    BY <1>1, RoundTypes DEF Good
  <1>3. PICK f : f = L.sentAux
    OBVIOUS
  <1>4. PICK g : g = WithBit(f, r, b)
    OBVIOUS
  <1>5. f \in Bits
    BY <1>0, <1>3, FieldTypes
  <1>6. /\ g \in Bits /\ g[r] = f[r] \cup {b}
        /\ \A q \in AnyRound : q # r => g[q] = f[q]
    BY <1>4, <1>5, BitsAt
  <1>7. M = [L EXCEPT !.sentAux = g]
    BY <1>1, <1>3, <1>4 DEF SendAux, WithBit
  <1>8. /\ M \in Local /\ M.sentAux = g /\ M.receivedAux = L.receivedAux
        /\ M.binValues = L.binValues
        /\ SameState(L, M) /\ SameBVals(L, M) /\ SameCoins(L, M) /\ SameTerms(L, M)
    BY <1>0, <1>6, <1>7, SentAuxFields
  <1>9. Grows(L, M)
    <2>1. \A q \in AnyRound : L.sentAux[q] \subseteq M.sentAux[q]
      BY <1>3, <1>6, <1>8
    <2> QED BY <2>1, <1>8 DEF Grows, SameBVals, SameState
  <1>10. M.decision = L.decision /\ M.round = L.round
    BY <1>8 DEF SameState
  <1>11. /\ HeardBVal(y, M) /\ HeardTerm(y, M) /\ Tosses(c, M)
         /\ HeardAux(y, M) /\ Decides(x, c, M) /\ Bounds(p, L) /\ Supports(x, c, M)
    BY <1>1, <1>2, <1>8, <1>9, <1>10, PartsStay
  <1>13. Bounds(p, M)
    <2>1. M.sentAux[r] \subseteq M.binValues[r] /\ M.sentAux[r] # BOOLEAN
      <3>1. L.sentAux[r] \subseteq L.binValues[r]
        BY <1>11 DEF Bounds, BoundsAt
      <3>2. L.binValues[r] \subseteq BOOLEAN
        BY <1>0, FieldTypes DEF Bits
      <3>3. M.sentAux[r] = L.sentAux[r] \cup {b} /\ M.binValues[r] = L.binValues[r]
        BY <1>3, <1>6, <1>8
      <3>4. b \in L.binValues[r] /\ L.binValues[r] # BOOLEAN
        BY <1>1
      <3> QED BY <3>1, <3>2, <3>3, <3>4
    <2>2. \A q \in AnyRound : q # r => M.sentAux[q] = L.sentAux[q]
      BY <1>3, <1>6, <1>8
    <2>3. BoundsAt(p, M, r)
      BY <2>1, <1>8, <1>10, <1>11 DEF Bounds, BoundsAt, SameCoins
    <2>4. \A q \in AnyRound : q # r => BoundsAt(p, M, q)
      BY <2>2, <1>8, <1>10, <1>11 DEF Bounds, BoundsAt, SameCoins
    <2> QED BY <2>3, <2>4 DEF Bounds
  <1>14. Goes(x, c, p, M)
    BY <1>1, <1>2, <1>8, <1>9, <1>11, <1>13, GoodStep DEF Goes
  <1> QED BY <1>1, <1>6, <1>8, <1>14

LEMMA StoreAuxFields ==
    ASSUME NEW L \in Local, NEW s \in Replica, NEW b \in BOOLEAN, NEW r \in AnyRound,
           NEW M, M = StoreAux(L, s, b, r)
    PROVE  /\ M \in Local /\ M.sentAux = L.sentAux /\ M.binValues = L.binValues
           /\ SameState(L, M) /\ SameBVals(L, M) /\ SameCoins(L, M) /\ SameTerms(L, M)
           /\ M.receivedAux[r][b] = L.receivedAux[r][b] \cup {s}
           /\ \A q \in AnyRound, d \in BOOLEAN :
                  q # r \/ d # b => M.receivedAux[q][d] = L.receivedAux[q][d]
  <1>1. PICK f : f = [L.receivedAux EXCEPT ![r][b] = @ \cup {s}]
    OBVIOUS
  <1>2. f \in Votes
    BY <1>1, FieldTypes, VotesGrow
  <1>3. M = [L EXCEPT !.receivedAux = f]
    BY <1>1 DEF StoreAux
  <1>4. /\ f[r][b] = L.receivedAux[r][b] \cup {s}
        /\ \A q \in AnyRound, d \in BOOLEAN : q # r \/ d # b => f[q][d] = L.receivedAux[q][d]
    <2>1. L.receivedAux \in [AnyRound -> [BOOLEAN -> SUBSET Replica]]
      BY FieldTypes DEF Votes
    <2>2. PICK g : g = L.receivedAux
      OBVIOUS
    <2> QED BY <1>1, <2>1, <2>2
  <1>5. /\ M \in Local /\ M.receivedAux = f /\ M.sentAux = L.sentAux /\ M.binValues = L.binValues
        /\ SameState(L, M) /\ SameBVals(L, M) /\ SameCoins(L, M) /\ SameTerms(L, M)
    BY <1>2, <1>3, ReceivedAuxFields
  <1> QED BY <1>4, <1>5

LEMMA QuorumGrows ==
    ASSUME NEW S \in SUBSET Replica, NEW T \in SUBSET S, Cardinality(T) >= N - F
    PROVE  Cardinality(S) >= N - F
  <1>1. IsFiniteSet(S)
    BY ReplicaAssumption, FS_Subset
  <1>2. /\ Cardinality(T) <= Cardinality(S)
        /\ Cardinality(T) \in Nat /\ Cardinality(S) \in Nat
    BY <1>1, FS_Subset, FS_CardinalityType
  <1>3. N \in Nat /\ F \in Nat
    BY ReplicaAssumption, FAssumption, FS_CardinalityType DEF N
  <1>4. \A i \in Nat, j \in Nat, n \in Nat, f \in Nat : i <= j /\ i >= n - f => j >= n - f
    OBVIOUS
  <1> QED BY <1>2, <1>3, <1>4

LEMMA StoreAuxGoes ==
    ASSUME NEW x, NEW c, Good(x, c), NEW p \in Correct, NEW s \in Replica, NEW b \in BOOLEAN,
           NEW r \in AnyRound, s \in Correct => AuxFrom(x, s, r, b),
           NEW M, M = StoreAux(x[p], s, b, r)
    PROVE  Goes(x, c, p, M) /\ SameBVals(x[p], M)
  <1>1. PICK L : L = x[p]
    OBVIOUS
  <1>2. PICK y : y = Put(x, p, M)
    OBVIOUS
  <1>0. L \in Local
    BY <1>1, RoundTypes DEF Good
  <1>3. /\ M \in Local /\ M.sentAux = L.sentAux /\ M.binValues = L.binValues
        /\ SameState(L, M) /\ SameBVals(L, M) /\ SameCoins(L, M) /\ SameTerms(L, M)
    BY <1>0, <1>1, StoreAuxFields
  <1>4. /\ M.receivedAux[r][b] = L.receivedAux[r][b] \cup {s}
        /\ \A q \in AnyRound, d \in BOOLEAN :
               q # r \/ d # b => M.receivedAux[q][d] = L.receivedAux[q][d]
    BY <1>0, <1>1, StoreAuxFields
  <1>5. Grows(L, M)
    BY <1>3 DEF Grows, SameBVals, SameState
  <1>6. M.decision = L.decision /\ M.round = L.round
    BY <1>3 DEF SameState
  <1>7. /\ AllGrow(x, y) /\ HeardBVal(y, M) /\ HeardTerm(y, M) /\ Tosses(c, M)
        /\ HeardAux(y, L) /\ Decides(x, c, M) /\ Bounds(p, L) /\ Supports(x, c, M)
    BY <1>1, <1>2, <1>3, <1>5, <1>6, PartsStay
  <1>9. s \in Correct => AuxFrom(y, s, r, b)
    BY <1>7, FromsGrow
  <1>10. HeardAux(y, M)
    BY <1>4, <1>7, <1>9 DEF HeardAux
  <1>11. Bounds(p, M)
    <2>1. ASSUME NEW q \in AnyRound, NEW d \in BOOLEAN,
                 Cardinality(L.receivedAux[q][d]) >= N - F
          PROVE  Cardinality(M.receivedAux[q][d]) >= N - F
      <3>1. M.receivedAux[q][d] \in SUBSET Replica
        BY <1>3, FieldTypes DEF Votes
      <3>2. L.receivedAux[q][d] \subseteq M.receivedAux[q][d]
        BY <1>4
      <3> QED BY <2>1, <3>1, <3>2, QuorumGrows
    <2> QED BY <2>1, <1>3, <1>6, <1>7 DEF Bounds, BoundsAt, SameCoins
  <1> QED BY <1>1, <1>2, <1>3, <1>5, <1>7, <1>10, <1>11, GoodStep DEF Goes

\* A coin share is stored, a coin is combined.
StoreShares(L, S, r) == [L EXCEPT !.coinShares[r] = S]
StoreCoin(L, v, r) == [L EXCEPT !.coinValue[r] = v]

LEMMA CountAuxOfOne ==
    ASSUME NEW L \in Local, NEW r \in AnyRound, NEW b \in BOOLEAN, L.binValues[r] = {b}
    PROVE  CountAux(L, r) = Cardinality(L.receivedAux[r][b])
  <1>1. L.receivedAux[r][b] \in SUBSET Replica
    BY FieldTypes DEF Votes
  <1>2. PICK n : n = Cardinality(L.receivedAux[r][b])
    OBVIOUS
  <1>3. n \in Nat
    BY <1>1, <1>2, ReplicaAssumption, FS_Subset, FS_CardinalityType
  <1>4. CASE b = TRUE
    <2>1. CountAux(L, r) = n + 0
      BY <1>2, <1>4 DEF CountAux
    <2> QED BY <1>2, <1>3, <2>1
  <1>5. CASE b = FALSE
    <2>1. CountAux(L, r) = 0 + n
      BY <1>2, <1>5 DEF CountAux
    <2> QED BY <1>2, <1>3, <2>1
  <1> QED BY <1>4, <1>5

LEMMA SendConfGoes ==
    ASSUME NEW x, NEW c, Good(x, c), NEW p \in Correct, NEW r \in AnyRound,
           CountAux(x[p], r) >= N - F, NEW M, M = SendConf(x[p], p, x[p].binValues[r], r)
    PROVE  Goes(x, c, p, M)
  <1>1. PICK L : L = x[p]
    OBVIOUS
  <1>2. PICK y : y = Put(x, p, M)
    OBVIOUS
  <1>0. L \in Local /\ p \in Replica
    BY <1>1, RoundTypes DEF Good
  <1>3. PICK values : values = L.binValues[r]
    OBVIOUS
  <1>4. values \in SUBSET BOOLEAN
    BY <1>0, <1>3, FieldTypes DEF Bits
  <1>5. PICK f : f = L.sentConf
    OBVIOUS
  <1>6. PICK g : g = [f EXCEPT ![r] = values]
    OBVIOUS
  <1>7. M = SendConf(L, p, values, r)
    BY <1>1, <1>3
  <1>8. /\ M \in Local /\ M.sentConf = g
        /\ M.coinShares = L.coinShares /\ M.coinValue = L.coinValue
        /\ SameState(L, M) /\ SameBVals(L, M) /\ SameAuxs(L, M) /\ SameTerms(L, M)
    <2>1. /\ M \in Local /\ M.sentConf = [L.sentConf EXCEPT ![r] = values]
          /\ M.coinShares = L.coinShares /\ M.coinValue = L.coinValue
          /\ SameState(L, M) /\ SameBVals(L, M) /\ SameAuxs(L, M) /\ SameTerms(L, M)
      BY <1>0, <1>4, <1>7, SendConfFields
    <2> QED BY <1>5, <1>6, <2>1
  <1>9. Grows(L, M)
    BY <1>8, SameGrows
  <1>10. /\ M.decision = L.decision /\ M.round = L.round
         /\ M.receivedAux = L.receivedAux /\ M.binValues = L.binValues /\ M.sentAux = L.sentAux
    BY <1>8 DEF SameState, SameAuxs
  <1>11. /\ HeardBVal(y, M) /\ HeardTerm(y, M) /\ HeardAux(y, M)
         /\ Decides(x, c, M) /\ Bounds(p, L) /\ Supports(x, c, M) /\ Tosses(c, L)
    BY <1>1, <1>2, <1>8, <1>9, <1>10, PartsStay
  <1>12. Tosses(c, M)
    BY <1>8, <1>11 DEF Tosses
  <1>13. g[r] = values /\ \A q \in AnyRound : q # r => g[q] = f[q]
    <2>1. f \in [AnyRound -> SUBSET BOOLEAN]
      BY <1>0, <1>5, FieldTypes DEF Bits
    <2> QED BY <1>6, <2>1
  <1>14. ASSUME NEW b \in BOOLEAN, values = {b}
         PROVE  Cardinality(M.receivedAux[r][b]) >= N - F
    <2>1. CountAux(L, r) = Cardinality(L.receivedAux[r][b])
      BY <1>0, <1>3, <1>14, CountAuxOfOne
    <2> QED BY <1>1, <1>10, <2>1
  <1>15. BoundsAt(p, M, r)
    BY <1>3, <1>8, <1>10, <1>11, <1>13, <1>14 DEF Bounds, BoundsAt
  <1>16. \A q \in AnyRound : q # r => BoundsAt(p, M, q)
    BY <1>5, <1>8, <1>10, <1>11, <1>13 DEF Bounds, BoundsAt
  <1>17. Bounds(p, M)
    BY <1>15, <1>16 DEF Bounds
  <1> QED BY <1>1, <1>2, <1>8, <1>9, <1>11, <1>12, <1>17, GoodStep DEF Goes

LEMMA StoreSharesFields ==
    ASSUME NEW L \in Local, NEW r \in AnyRound, NEW S \in SUBSET Replica,
           NEW M, M = StoreShares(L, S, r)
    PROVE  /\ M \in Local /\ M.coinShares = [L.coinShares EXCEPT ![r] = S]
           /\ M.sentConf = L.sentConf /\ M.coinValue = L.coinValue
           /\ SameState(L, M) /\ SameBVals(L, M) /\ SameAuxs(L, M) /\ SameTerms(L, M)
  BY DEF StoreShares, Local, SameState, SameBVals, SameAuxs, SameTerms

LEMMA StoreSharesGoes ==
    ASSUME NEW x, NEW c, Good(x, c), NEW p \in Correct, NEW r \in AnyRound,
           NEW S \in SUBSET Replica, r > x[p].round => S \subseteq {p},
           NEW M, M = StoreShares(x[p], S, r)
    PROVE  Goes(x, c, p, M) /\ M.round = x[p].round
  <1>1. PICK L : L = x[p]
    OBVIOUS
  <1>2. PICK y : y = Put(x, p, M)
    OBVIOUS
  <1>0. L \in Local
    BY <1>1, RoundTypes DEF Good
  <1>5. PICK f : f = L.coinShares
    OBVIOUS
  <1>6. PICK g : g = [f EXCEPT ![r] = S]
    OBVIOUS
  <1>8. /\ M \in Local /\ M.coinShares = g
        /\ M.sentConf = L.sentConf /\ M.coinValue = L.coinValue
        /\ SameState(L, M) /\ SameBVals(L, M) /\ SameAuxs(L, M) /\ SameTerms(L, M)
    <2>1. M = StoreShares(L, S, r)
      BY <1>1
    <2> QED BY <1>0, <2>1, <1>5, <1>6, StoreSharesFields
  <1>9. Grows(L, M)
    BY <1>8, SameGrows
  <1>10. /\ M.decision = L.decision /\ M.round = L.round
         /\ M.receivedAux = L.receivedAux /\ M.binValues = L.binValues /\ M.sentAux = L.sentAux
    BY <1>8 DEF SameState, SameAuxs
  <1>11. /\ HeardBVal(y, M) /\ HeardTerm(y, M) /\ HeardAux(y, M)
         /\ Decides(x, c, M) /\ Bounds(p, L) /\ Supports(x, c, M) /\ Tosses(c, L)
    BY <1>1, <1>2, <1>8, <1>9, <1>10, PartsStay
  <1>12. Tosses(c, M)
    BY <1>8, <1>11 DEF Tosses
  <1>13. g[r] = S /\ \A q \in AnyRound : q # r => g[q] = f[q]
    <2>1. f \in [AnyRound -> SUBSET Replica]
      BY <1>0, <1>5, FieldTypes
    <2> QED BY <1>6, <2>1
  <1>15. BoundsAt(p, M, r)
    BY <1>1, <1>8, <1>10, <1>11, <1>13 DEF Bounds, BoundsAt
  <1>16. \A q \in AnyRound : q # r => BoundsAt(p, M, q)
    BY <1>5, <1>8, <1>10, <1>11, <1>13 DEF Bounds, BoundsAt
  <1>17. Bounds(p, M)
    BY <1>15, <1>16 DEF Bounds
  <1> QED BY <1>1, <1>2, <1>8, <1>9, <1>10, <1>11, <1>12, <1>17, GoodStep DEF Goes

LEMMA StoreCoinGoes ==
    ASSUME NEW x, NEW c, Good(x, c), NEW p \in Correct, NEW r \in Round,
           NEW v \in Bit, r <= x[p].round, Resilient => v \subseteq {c[r]},
           NEW M, M = StoreCoin(x[p], v, r)
    PROVE  Goes(x, c, p, M)
  <1>1. PICK L : L = x[p]
    OBVIOUS
  <1>2. PICK y : y = Put(x, p, M)
    OBVIOUS
  <1>0. L \in Local /\ r \in AnyRound
    BY <1>1, RoundTypes DEF Good
  <1>5. PICK f : f = L.coinValue
    OBVIOUS
  <1>6. PICK g : g = [f EXCEPT ![r] = v]
    OBVIOUS
  <1>7. M = [L EXCEPT !.coinValue[r] = v]
    BY <1>1 DEF StoreCoin
  <1>8. /\ M \in Local /\ M.coinValue = g
        /\ M.sentConf = L.sentConf /\ M.coinShares = L.coinShares
        /\ SameState(L, M) /\ SameBVals(L, M) /\ SameAuxs(L, M) /\ SameTerms(L, M)
    BY <1>0, <1>5, <1>6, <1>7, CoinValueFields
  <1>9. Grows(L, M)
    BY <1>8, SameGrows
  <1>10. /\ M.decision = L.decision /\ M.round = L.round
         /\ M.receivedAux = L.receivedAux /\ M.binValues = L.binValues /\ M.sentAux = L.sentAux
    BY <1>8 DEF SameState, SameAuxs
  <1>11. /\ HeardBVal(y, M) /\ HeardTerm(y, M) /\ HeardAux(y, M)
         /\ Decides(x, c, M) /\ Bounds(p, L) /\ Supports(x, c, M) /\ Tosses(c, L)
    BY <1>1, <1>2, <1>8, <1>9, <1>10, PartsStay
  <1>13. g[r] = v /\ \A q \in AnyRound : q # r => g[q] = f[q]
    <2>1. f \in [AnyRound -> Bit]
      BY <1>0, <1>5, FieldTypes
    <2> QED BY <1>0, <1>6, <2>1
  <1>12. Tosses(c, M)
    BY <1>5, <1>8, <1>11, <1>13, RoundTypes DEF Tosses
  <1>14. ~(r > L.round)
    <2>1. r \in Nat /\ L.round \in Nat
      BY <1>0, FieldTypes, RoundTypes
    <2> QED BY <1>1, <2>1
  <1>15. BoundsAt(p, M, r)
    BY <1>0, <1>8, <1>10, <1>11, <1>14 DEF Bounds, BoundsAt
  <1>16. \A q \in AnyRound : q # r => BoundsAt(p, M, q)
    BY <1>5, <1>8, <1>10, <1>11, <1>13 DEF Bounds, BoundsAt
  <1>17. Bounds(p, M)
    BY <1>15, <1>16 DEF Bounds
  <1> QED BY <1>1, <1>2, <1>8, <1>9, <1>11, <1>12, <1>17, GoodStep DEF Goes

\* A TERM is kept.
LEMMA StoreTermGoes ==
    ASSUME NEW x, NEW c, Good(x, c), NEW p \in Correct, NEW s \in Replica, NEW b \in BOOLEAN,
           NEW r \in AnyRound, s \in Correct => x[s].decision = {b},
           NEW M, M = StoreTerm(x[p], s, {b}, r)
    PROVE  Goes(x, c, p, M)
  <1>1. PICK L : L = x[p]
    OBVIOUS
  <1>2. PICK y : y = Put(x, p, M)
    OBVIOUS
  <1>0. L \in Local /\ {b} \in Bit
    BY <1>1, RoundTypes DEF Good, Bit
  <1>9. PICK bit \in Bit : bit = {b}
    BY <1>0
  <1>10. M = StoreTerm(L, s, bit, r)
    BY <1>1, <1>9
  <1>3. /\ M \in Local
        /\ SameState(L, M) /\ SameBVals(L, M) /\ SameAuxs(L, M) /\ SameCoins(L, M)
    BY <1>0, <1>10, ReceivedTermFields
  <1>11. M.receivedTerm[r][s] \in {L.receivedTerm[r][s], bit}
    BY <1>0, <1>10, ReceivedTermFields
  <1>13. \A q \in AnyRound, t \in Replica :
             q # r \/ t # s => M.receivedTerm[q][t] = L.receivedTerm[q][t]
    BY <1>0, <1>10, ReceivedTermFields
  <1>4. Grows(L, M)
    BY <1>3, SameGrows
  <1>5. /\ M.decision = L.decision /\ M.round = L.round
        /\ M.receivedAux = L.receivedAux /\ M.binValues = L.binValues
    BY <1>3 DEF SameState, SameAuxs
  <1>6. /\ AllGrow(x, y) /\ HeardBVal(y, M) /\ HeardTerm(y, L) /\ HeardAux(y, M)
        /\ Decides(x, c, M) /\ Bounds(p, M) /\ Supports(x, c, M) /\ Tosses(c, M)
    BY <1>1, <1>2, <1>3, <1>4, <1>5, PartsStay
  <1>7. s \in Correct => y[s].decision = {b}
    BY <1>6, FromsGrow
  <1>8. HeardTerm(y, M)
    <2> SUFFICES ASSUME NEW q \in AnyRound, NEW d \in BOOLEAN, NEW t \in Correct,
                        M.receivedTerm[q][t] = {d}
                 PROVE  y[t].decision = {d}
      BY DEF HeardTerm
    <2>1. t \in Replica
      BY RoundTypes
    <2>2. \/ L.receivedTerm[q][t] = {d}
          \/ t = s /\ {d} = {b}
      BY <1>9, <1>11, <1>13, <2>1
    <2> QED BY <1>6, <1>7, <2>2 DEF HeardTerm
  <1> QED BY <1>1, <1>2, <1>3, <1>4, <1>6, <1>8, GoodStep DEF Goes

LEMMA DecideGoes ==
    ASSUME NEW x, NEW c, Good(x, c), NEW p \in Correct, NEW b \in BOOLEAN,
           x[p].decision = {}, MayDecide(x, c, b, x[p].round), NEW M, M = Decide(p, x[p], {b})
    PROVE  Goes(x, c, p, M)
  <1>1. PICK L : L = x[p]
    OBVIOUS
  <1>2. PICK y : y = Put(x, p, M)
    OBVIOUS
  <1>0. L \in Local /\ {b} \in Bit /\ p \in Replica
    BY <1>1, RoundTypes DEF Good, Bit
  <1>9. PICK bit \in Bit : bit = {b}
    BY <1>0
  <1>10. M = Decide(p, L, bit)
    BY <1>1, <1>9
  <1>12. /\ M \in Local
         /\ M.round = L.round /\ M.input = L.input /\ M.decision = bit
         /\ SameBVals(L, M) /\ SameAuxs(L, M) /\ SameCoins(L, M)
    BY <1>0, <1>10, DecideFields
  <1>3. /\ M \in Local
        /\ M.round = L.round /\ M.input = L.input /\ M.decision = {b}
        /\ SameBVals(L, M) /\ SameAuxs(L, M) /\ SameCoins(L, M)
    BY <1>9, <1>12
  <1>4. Grows(L, M)
    BY <1>1, <1>3 DEF Grows, SameBVals, SameAuxs
  <1>5. M.receivedAux = L.receivedAux /\ M.binValues = L.binValues
    BY <1>3 DEF SameAuxs
  <1>6. /\ y[p] = M /\ HeardBVal(y, M) /\ HeardTerm(y, L) /\ HeardAux(y, M)
        /\ Bounds(p, M) /\ Supports(x, c, M) /\ Tosses(c, M)
    BY <1>1, <1>2, <1>3, <1>4, <1>5, PartsStay
  <1>7. Decides(x, c, M)
    BY <1>1, <1>3 DEF Decides
  <1>8. HeardTerm(y, M)
    <2> SUFFICES ASSUME NEW q \in AnyRound, NEW d \in BOOLEAN, NEW t \in Correct,
                        M.receivedTerm[q][t] = {d}
                 PROVE  y[t].decision = {d}
      BY DEF HeardTerm
    <2>1. t \in Replica
      BY RoundTypes
    <2>2. \/ L.receivedTerm[q][t] = {d}
          \/ t = p /\ {d} = {b}
      <3>1. M.receivedTerm[q][t] = L.receivedTerm[q][t] \/ (t = p /\ M.receivedTerm[q][t] = bit)
        BY <1>0, <1>10, <2>1, DecideTerms
      <3> QED BY <1>9, <3>1
    <2>3. CASE L.receivedTerm[q][t] = {d}
      BY <1>6, <2>3 DEF HeardTerm
    <2>4. CASE t = p /\ {d} = {b}
      BY <1>3, <1>6, <2>4
    <2> QED BY <2>2, <2>3, <2>4
  <1> QED BY <1>1, <1>2, <1>3, <1>4, <1>6, <1>7, <1>8, GoodStep DEF Goes

LEMMA UpdateRoundGoes ==
    ASSUME NEW x, NEW c, Good(x, c), NEW p \in Correct, NEW r \in Round, NEW bit \in Bit,
           x[p].decision = {},
           \A b \in bit : x[p].round <= r => MaySupport(x, c, x[p].round + 1, b),
           NEW M, M = UpdateRound(p, x[p], r, bit)
    PROVE  Goes(x, c, p, M)
  <1>1. PICK L : L = x[p]
    OBVIOUS
  <1>2. PICK y : y = Put(x, p, M)
    OBVIOUS
  <1>0. L \in Local /\ p \in Replica
    BY <1>1, RoundTypes DEF Good, Bit
  <1>9. M = UpdateRound(p, L, r, bit)
    BY <1>1
  <1>3. /\ M \in Local /\ M.input = L.input /\ M.decision = L.decision
        /\ SameAuxs(L, M) /\ SameCoins(L, M) /\ SameTerms(L, M)
        /\ L.round <= M.round
    BY <1>0, <1>9, UpdateRoundFields
  <1>10. \A q \in AnyRound, b \in BOOLEAN :
             /\ b \in L.sentBVal[q] => b \in M.sentBVal[q]
             /\ b \in M.sentBVal[q] => \/ b \in L.sentBVal[q]
                                       \/ L.round <= r /\ q = L.round + 1 /\ b \in bit
             /\ \/ M.receivedBVal[q][b] = L.receivedBVal[q][b]
                \/ /\ b \in M.sentBVal[q]
                   /\ M.receivedBVal[q][b] = L.receivedBVal[q][b] \cup {p}
    BY <1>0, <1>9, UpdateRoundFields
  <1>11. \A q \in AnyRound : L.sentBVal[q] \subseteq BOOLEAN
    BY <1>0, FieldTypes DEF Bits
  <1>4. Grows(L, M)
    BY <1>1, <1>3, <1>10, <1>11 DEF Grows, SameAuxs
  <1>5. M.receivedAux = L.receivedAux /\ M.binValues = L.binValues
    BY <1>3 DEF SameAuxs
  <1>6. /\ y[p] = M /\ HeardBVal(y, L) /\ HeardTerm(y, M) /\ HeardAux(y, M)
        /\ Bounds(p, L) /\ Supports(x, c, L) /\ Tosses(c, M) /\ Decides(x, c, M)
    BY <1>1, <1>2, <1>3, <1>4, <1>5, PartsStay
  <1>7. Supports(x, c, M)
    BY <1>1, <1>5, <1>6, <1>10 DEF Supports
  <1>8. HeardBVal(y, M)
    <2> SUFFICES ASSUME NEW q \in AnyRound, NEW b \in BOOLEAN, NEW s \in Correct,
                        s \in M.receivedBVal[q][b]
                 PROVE  BValFrom(y, s, q, b)
      BY DEF HeardBVal
    <2>1. s \in L.receivedBVal[q][b] \/ (s = p /\ b \in M.sentBVal[q])
      BY <1>10
    <2> QED BY <1>6, <2>1 DEF HeardBVal, BValFrom
  <1>12. Bounds(p, M)
    <2>1. \A q \in AnyRound : q > M.round => q > L.round
      <3>1. L.round \in Nat /\ M.round \in Nat /\ \A q \in AnyRound : q \in Nat
        BY <1>0, <1>3, FieldTypes, RoundTypes
      <3> QED BY <1>3, <3>1
    <2> QED BY <2>1, <1>3, <1>6 DEF Bounds, BoundsAt, SameAuxs, SameCoins
  <1> QED BY <1>1, <1>2, <1>3, <1>4, <1>6, <1>7, <1>8, <1>12, GoodStep DEF Goes
-----------------------------------------------------------------------------
(***************************************************************************)
(* What the quorums buy.                                                   *)
(***************************************************************************)
\* More than F replicas are not all faulty.
LEMMA CorrectAmong ==
    ASSUME FewFaults, NEW S \in SUBSET Replica, ~(Cardinality(S) <= F)
    PROVE  \E s \in S : s \in Correct
  <1> SUFFICES ASSUME S \subseteq Faulty PROVE FALSE
    BY DEF Correct
  <1>1. IsFiniteSet(Faulty)
    BY ReplicaAssumption, FS_Subset
  <1>2. /\ Cardinality(S) <= Cardinality(Faulty)
        /\ Cardinality(S) \in Nat /\ Cardinality(Faulty) \in Nat
    BY <1>1, FS_Subset, FS_CardinalityType
  <1>3. Cardinality(Faulty) <= F
    BY DEF FewFaults
  <1> QED BY <1>2, <1>3, FAssumption

LEMMA DecidedMay ==
    ASSUME NEW x, NEW c, Good(x, c), NEW b \in BOOLEAN, Decided(x, b), NEW n
    PROVE  MayDecide(x, c, b, n)
  <1>1. PICK s \in Correct : x[s].decision = {b}
    BY DEF Decided
  <1>2. MayDecide(x, c, b, x[s].round)
    BY <1>1 DEF Good, GoodAt, Decides
  <1>3. Locked(x, c, b, x[s].round) => Locked(x, c, b, n)
    BY <1>1 DEF Locked
  <1> QED BY <1>2, <1>3 DEF MayDecide

LEMMA SupportOfOne ==
    ASSUME NEW x, NEW c, Good(x, c), NEW s \in Correct, NEW r \in AnyRound, NEW b \in BOOLEAN,
           BValFrom(x, s, r, b)
    PROVE  MaySupport(x, c, r, b)
  <1>1. CASE b \in x[s].sentBVal[r]
    BY <1>1 DEF Good, GoodAt, Supports
  <1>2. CASE x[s].decision = {b}
    <2>1. Decided(x, b)
      BY <1>2 DEF Decided
    <2>2. MayDecide(x, c, b, 0)
      BY <2>1, DecidedMay
    <2> QED BY <2>1, <2>2 DEF MayDecide, MaySupport, Carried
  <1> QED BY <1>1, <1>2 DEF BValFrom

LEMMA SupportOfMany ==
    ASSUME NEW x, NEW c, Good(x, c), NEW r \in AnyRound, NEW b \in BOOLEAN,
           NEW S \in SUBSET Replica, ~(Cardinality(S) <= F),
           \A s \in S : s \in Correct => BValFrom(x, s, r, b)
    PROVE  MaySupport(x, c, r, b)
  <1>1. CASE FewFaults
    <2>1. PICK s \in S : s \in Correct
      BY <1>1, CorrectAmong
    <2> QED BY <2>1, SupportOfOne
  <1>2. CASE ~FewFaults
    BY <1>2 DEF MaySupport, Resilient
  <1> QED BY <1>1, <1>2

LEMMA AuxQuorum ==
    ASSUME NEW x, NEW c, Good(x, c), NEW p \in Correct, NEW r \in AnyRound, NEW b \in BOOLEAN,
           Cardinality(x[p].receivedAux[r][b]) >= N - F
    PROVE  Decided(x, b) \/ Big(x, r, b)
  <1> SUFFICES ASSUME ~Decided(x, b) PROVE Big(x, r, b)
    OBVIOUS
  <1>1. PICK A : A = x[p].receivedAux[r][b]
    OBVIOUS
  <1>2. PICK S : S = AuxSenders(x, r, b) \cup Faulty
    OBVIOUS
  <1>3. x[p] \in Local
    BY RoundTypes DEF Good
  <1>4. A \in SUBSET Replica
    BY <1>1, <1>3, FieldTypes DEF Votes
  <1>5. HeardAux(x, x[p])
    BY DEF Good, GoodAt
  <1>6. \A s \in A : s \in Correct => s \in AuxSenders(x, r, b)
    BY <1>1, <1>5 DEF HeardAux, AuxFrom, Decided, AuxSenders
  <1>7. A \subseteq S /\ S \in SUBSET Replica
    BY <1>2, <1>4, <1>6, ReplicaAssumption DEF Correct, AuxSenders
  <1>8. Cardinality(S) >= N - F
    BY <1>1, <1>7, QuorumGrows
  <1> QED BY <1>2, <1>8 DEF Big

\* A CONF whose only value is b stands on a quorum of AUX(b).
LEMMA OneValue ==
    ASSUME NEW x, NEW c, Good(x, c), NEW p \in Correct, NEW r \in AnyRound, NEW b \in BOOLEAN,
           ConfValues(x[p], r) = {b}
    PROVE  /\ b \in x[p].binValues[r] /\ MaySupport(x, c, r, b)
           /\ Decided(x, b) \/ Big(x, r, b)
  <1>1. x[p].sentConf[r] # {} /\ x[p].binValues[r] = {b}
    BY DEF ConfValues
  <1>2. BoundsAt(p, x[p], r) /\ Supports(x, c, x[p])
    BY DEF Good, GoodAt, Bounds
  <1>3. x[p].sentConf[r] = {b}
    BY <1>1, <1>2 DEF BoundsAt
  <1>4. Cardinality(x[p].receivedAux[r][b]) >= N - F
    BY <1>2, <1>3 DEF BoundsAt
  <1> QED BY <1>1, <1>2, <1>4, AuxQuorum DEF Supports

LEMMA NextRound ==
    ASSUME NEW x, NEW c, NEW r \in Round, NEW b \in BOOLEAN, MaySupport(x, c, r, b),
           Resilient => Decided(x, b) \/ Big(x, r, b) \/ c[r] = b
    PROVE  MaySupport(x, c, r + 1, b)
  <1>1. ASSUME Resilient, ~Decided(x, b) PROVE Path(x, c, r + 1, b)
    <2>1. Path(x, c, r, b) /\ (Big(x, r, b) \/ c[r] = b)
      BY <1>1 DEF MaySupport, Carried
    <2>2. \A q \in Round : q < r + 1 => q < r \/ q = r
      BY ModeAssumption DEF Round
    <2> QED BY <2>1, <2>2 DEF Path
  <1> QED BY <1>1 DEF MaySupport, Carried

LEMMA GoesOn ==
    ASSUME NEW x, NEW c, Good(x, c), NEW p \in Correct, NEW M, Goes(x, c, p, M),
           NEW y, y = Put(x, p, M)
    PROVE  y[p] = M /\ Good(y, c) /\ AllGrow(x, y) /\ M \in Local
  <1>1. M \in Local /\ Grows(x[p], M) /\ Good(y, c)
    BY DEF Goes
  <1>2. AllGrow(x, y) /\ y[p] = M
    BY <1>1, PartsStay
  <1> QED BY <1>1, <1>2
-----------------------------------------------------------------------------
(***************************************************************************)
(* The handlers, from the innermost, as in MoustefaouiBinaryAgreement.     *)
(***************************************************************************)
LEMMA TryUpdateRoundGoes ==
    ASSUME NEW x, NEW c, Good(x, c), NEW p \in Correct, NEW r \in Round
    PROVE  Goes(x, c, p, TryUpdateRound(p, x[p], r))
  <1>1. PICK L : L = x[p]
    OBVIOUS
  <1>0. L \in Local /\ r \in AnyRound /\ r \in Nat /\ L.round \in Nat
    BY <1>1, FieldTypes, RoundTypes DEF Good
  <1>2. PICK V : V = ConfValues(L, r)
    OBVIOUS
  <1>3. PICK v \in Bit : v = L.coinValue[r]
    BY <1>0, FieldTypes
  <1>4. BoundsAt(p, L, r) /\ Supports(x, c, L) /\ Tosses(c, L)
    BY <1>0, <1>1 DEF Good, GoodAt, Bounds
  <1>5. ASSUME NEW b \in BOOLEAN, b \in v PROVE Resilient => c[r] = b
    BY <1>3, <1>4, <1>5 DEF Tosses
  <1>6. ASSUME NEW b \in BOOLEAN, b \in V PROVE MaySupport(x, c, r, b)
    BY <1>0, <1>2, <1>4, <1>6 DEF Supports, ConfValues
  <1>7. CASE L.decision = {} /\ V = v /\ V # {} /\ TryUpdateRound(p, L, r) = Decide(p, L, v)
    <2>1. PICK b \in BOOLEAN : v = {b}
      BY <1>7 DEF Bit
    <2>2. MaySupport(x, c, r, b) /\ (Decided(x, b) \/ Big(x, r, b))
      BY <1>0, <1>1, <1>2, <1>7, <2>1, OneValue
    <2>3. CASE Decided(x, b)
      BY <2>3, DecidedMay, DecideGoes, <1>1, <1>7, <2>1
    <2>4. CASE ~Decided(x, b)
      <3>1. Resilient => c[r] = b /\ Big(x, r, b) /\ Path(x, c, r, b)
        BY <1>5, <2>1, <2>2, <2>4 DEF MaySupport, Carried
      <3>3. r <= L.round
        <4>1. ~(r > L.round)
          BY <1>3, <1>4, <1>7 DEF BoundsAt
        <4> QED BY <1>0, <4>1
      <3>2. MayDecide(x, c, b, L.round)
        BY <2>2, <3>1, <3>3 DEF MayDecide, MaySupport, Locked, LockedAt
      <3> QED BY <1>1, <1>7, <2>1, <3>2, DecideGoes
    <2> QED BY <2>3, <2>4
  <1>8. CASE /\ L.decision = {} /\ v # {} /\ V # {}
             /\ TryUpdateRound(p, L, r) = UpdateRound(p, L, r, IF Cardinality(V) = 1 THEN V ELSE v)
    <2>1. PICK bit : bit = IF Cardinality(V) = 1 THEN V ELSE v
      OBVIOUS
    <2>2. bit \in Bit
      BY <1>0, <1>2, <2>1, ConfValuesType
    <2>3. ~(r > L.round)
      BY <1>3, <1>4, <1>8 DEF BoundsAt
    <2>4. L.round <= r => r + 1 = L.round + 1
      BY <1>0, <2>3
    <2>5. ASSUME NEW b \in bit PROVE MaySupport(x, c, r + 1, b)
      <3>0. b \in BOOLEAN
        <4>1. bit = {} \/ bit = {TRUE} \/ bit = {FALSE}
          BY <2>2 DEF Bit
        <4>2. b = TRUE \/ b = FALSE
          BY <2>5, <4>1
        <4> QED BY <4>2
      <3>1. CASE Cardinality(V) = 1
        <4>1. V = {b}
          <5>1. V \in Bit /\ b \in V
            BY <1>0, <1>2, <2>1, <3>1, ConfValuesType
          <5> QED BY <5>1 DEF Bit
        <4>2. MaySupport(x, c, r, b) /\ (Decided(x, b) \/ Big(x, r, b))
          BY <1>0, <1>1, <1>2, <3>0, <4>1, OneValue
        <4> QED BY <3>0, <4>2, NextRound
      <3>2. CASE Cardinality(V) # 1
        <4>1. V = BOOLEAN /\ b \in v
          BY <1>0, <1>2, <1>8, <2>1, <3>2, ConfValuesType
        <4>2. MaySupport(x, c, r, b) /\ (Resilient => c[r] = b)
          BY <1>5, <1>6, <3>0, <4>1
        <4> QED BY <3>0, <4>2, NextRound
      <3> QED BY <3>1, <3>2
    <2>6. \A b \in bit : x[p].round <= r => MaySupport(x, c, x[p].round + 1, b)
      BY <1>1, <2>4, <2>5
    <2>7. PICK M : M = UpdateRound(p, x[p], r, bit)
      OBVIOUS
    <2>8. Goes(x, c, p, M)
      BY <1>1, <1>8, <2>2, <2>6, <2>7, UpdateRoundGoes
    <2> QED BY <1>1, <1>8, <2>1, <2>7, <2>8
  <1>9. CASE TryUpdateRound(p, L, r) = L
    BY <1>1, <1>9, GoesSelf
  <1>10. \/ TryUpdateRound(p, L, r) = L
         \/ /\ L.decision = {} /\ V = v /\ V # {}
            /\ TryUpdateRound(p, L, r) = Decide(p, L, v)
         \/ /\ L.decision = {} /\ v # {} /\ V # {}
            /\ TryUpdateRound(p, L, r) = UpdateRound(p, L, r, IF Cardinality(V) = 1 THEN V ELSE v)
    BY <1>2, <1>3 DEF TryUpdateRound
  <1> QED BY <1>1, <1>7, <1>8, <1>9, <1>10

LEMMA CombinedCoinIsCoin ==
    ASSUME Resilient, NEW p, NEW S, NEW r \in Round
    PROVE  CombinedCoin(p, S, r) = {coin[r]}
  BY DEF Resilient, CombinedCoin

\* One share is not enough for a coin.
LEMMA OneShare ==
    ASSUME NEW p \in Replica, NEW S \in SUBSET {p}
    PROVE  Cardinality(S) < 2 * F + 1
  <1>1. IsFiniteSet({p}) /\ Cardinality({p}) = 1
    BY FS_Singleton
  <1>2. Cardinality(S) \in Nat /\ Cardinality(S) <= 1
    BY <1>1, FS_Subset, FS_CardinalityType
  <1> QED BY <1>2, FAssumption

LEMMA HandleCoinGoes ==
    ASSUME Coins, NEW x, Good(x, coin), NEW p \in Correct, NEW s \in Replica, NEW r \in Round,
           r > x[p].round => s = p
    PROVE  Goes(x, coin, p, HandleCoin(p, x[p], s, r))
  <1>1. PICK L : L = x[p]
    OBVIOUS
  <1>0. /\ L \in Local /\ r \in AnyRound /\ r \in Nat /\ L.round \in Nat
        /\ p \in Running /\ p \in Replica
    BY <1>1, FieldTypes, RoundTypes DEF Good
  <1>2. PICK S : S = L.coinShares[r] \cup {s}
    OBVIOUS
  <1>3. PICK M : M = StoreShares(L, S, r)
    OBVIOUS
  <1>4. PICK v : v = CombinedCoin(p, S, r)
    OBVIOUS
  <1>5. PICK K : K = StoreCoin(M, v, r)
    OBVIOUS
  <1>6. S \in SUBSET Replica
    BY <1>0, <1>2, FieldTypes
  <1>7. v \in Bit /\ (Resilient => v \subseteq {coin[r]})
    BY <1>0, <1>4, CombinedCoinType, CombinedCoinIsCoin
  <1>8. r > L.round => S \subseteq {p}
    BY <1>0, <1>1, <1>2 DEF Good, GoodAt, Bounds, BoundsAt
  <1>9. Goes(x, coin, p, M) /\ M.round = L.round
    BY <1>0, <1>1, <1>3, <1>6, <1>8, StoreSharesGoes
  <1>10. PICK y : y = Put(x, p, M)
    OBVIOUS
  <1>11. y[p] = M /\ Good(y, coin)
    BY <1>9, <1>10, GoesOn
  <1>12. CASE HandleCoin(p, L, s, r) = TryUpdateRound(p, K, r) /\ ~(Cardinality(S) < 2 * F + 1)
    <2>1. r <= M.round
      <3>1. ~(r > L.round)
        BY <1>0, <1>8, <1>12, OneShare
      <3> QED BY <1>0, <1>9, <3>1
    <2>2. Goes(y, coin, p, K)
      BY <1>5, <1>7, <1>11, <2>1, StoreCoinGoes
    <2>3. PICK z : z = Put(y, p, K)
      OBVIOUS
    <2>4. z[p] = K /\ Good(z, coin)
      BY <1>11, <2>2, <2>3, GoesOn
    <2>5. Goes(z, coin, p, TryUpdateRound(p, K, r))
      BY <2>4, TryUpdateRoundGoes
    <2>6. Goes(y, coin, p, TryUpdateRound(p, K, r))
      BY <1>11, <2>2, <2>3, <2>5, GoesTransitive
    <2>7. Goes(x, coin, p, TryUpdateRound(p, K, r))
      BY <1>9, <1>10, <2>6, GoesTransitive
    <2> QED BY <1>1, <1>12, <2>7
  <1>13. \/ HandleCoin(p, L, s, r) \in {L, M}
         \/ HandleCoin(p, L, s, r) = TryUpdateRound(p, K, r) /\ ~(Cardinality(S) < 2 * F + 1)
    BY <1>2, <1>3, <1>4, <1>5 DEF HandleCoin, StoreShares, StoreCoin
  <1> QED BY <1>1, <1>9, <1>12, <1>13, GoesSelf

LEMMA HandleConfGoes ==
    ASSUME Coins, NEW x, Good(x, coin), NEW p \in Correct, NEW s \in Replica,
           NEW values \in SUBSET BOOLEAN, NEW r \in Round
    PROVE  Goes(x, coin, p, HandleConf(p, x[p], s, values, r))
  <1>1. PICK L : L = x[p]
    OBVIOUS
  <1>0. L \in Local /\ r \in AnyRound /\ p \in Replica
    BY <1>1, RoundTypes DEF Good
  <1>2. PICK M : M = [L EXCEPT !.receivedConf[r][s] = IF @ = {} THEN values ELSE @]
    OBVIOUS
  <1>3. M \in Local /\ Same(L, M)
    BY <1>0, <1>2, ReceivedConfFields
  <1>4. Goes(x, coin, p, M)
    BY <1>1, <1>3, SameGoes
  <1>5. PICK y : y = Put(x, p, M)
    OBVIOUS
  <1>6. y[p] = M /\ Good(y, coin)
    BY <1>4, <1>5, GoesOn
  <1>7. PICK K : K = [M EXCEPT !.coinStarted[r] = TRUE]
    OBVIOUS
  <1>8. K \in Local /\ Same(M, K)
    BY <1>0, <1>3, <1>7, CoinStartedFields
  <1>9. Goes(y, coin, p, K)
    BY <1>6, <1>8, SameGoes
  <1>10. PICK z : z = Put(y, p, K)
    OBVIOUS
  <1>11. z[p] = K /\ Good(z, coin)
    BY <1>6, <1>9, <1>10, GoesOn
  <1>12. PICK J : J = HandleCoin(p, K, p, r)
    OBVIOUS
  <1>13. Goes(z, coin, p, J)
    BY <1>0, <1>11, <1>12, HandleCoinGoes
  <1>14. PICK w : w = Put(z, p, J)
    OBVIOUS
  <1>15. w[p] = J /\ Good(w, coin)
    BY <1>11, <1>13, <1>14, GoesOn
  <1>16. Goes(w, coin, p, TryUpdateRound(p, J, r))
    BY <1>15, TryUpdateRoundGoes
  <1>17. Goes(z, coin, p, TryUpdateRound(p, J, r))
    BY <1>11, <1>13, <1>14, <1>16, GoesTransitive
  <1>18. Goes(y, coin, p, TryUpdateRound(p, J, r))
    BY <1>6, <1>9, <1>10, <1>17, GoesTransitive
  <1>19. Goes(x, coin, p, TryUpdateRound(p, J, r))
    BY <1>4, <1>5, <1>18, GoesTransitive
  <1>20. HandleConf(p, L, s, values, r) \in {M, TryUpdateRound(p, J, r)}
    BY <1>2, <1>7, <1>12 DEF HandleConf, TryFinishConfRound
  <1> QED BY <1>1, <1>4, <1>19, <1>20

LEMMA TryOutputSbvGoes ==
    ASSUME Coins, NEW x, Good(x, coin), NEW p \in Correct, NEW r \in Round
    PROVE  Goes(x, coin, p, TryOutputSbv(p, x[p], r))
  <1>1. PICK L : L = x[p]
    OBVIOUS
  <1>0. L \in Local /\ r \in AnyRound /\ p \in Replica
    BY <1>1, RoundTypes DEF Good
  <1>2. PICK values \in SUBSET BOOLEAN : values = L.binValues[r]
    BY <1>0, FieldTypes DEF Bits
  <1>3. PICK M : M = SendConf(L, p, values, r)
    OBVIOUS
  <1>4. CASE CountAux(L, r) >= N - F /\ TryOutputSbv(p, L, r) = HandleConf(p, M, p, values, r)
    <2>1. Goes(x, coin, p, M)
      BY <1>0, <1>1, <1>2, <1>3, <1>4, SendConfGoes
    <2>2. PICK y : y = Put(x, p, M)
      OBVIOUS
    <2>3. y[p] = M /\ Good(y, coin)
      BY <2>1, <2>2, GoesOn
    <2>4. Goes(y, coin, p, HandleConf(p, M, p, values, r))
      BY <1>0, <2>3, HandleConfGoes
    <2>5. Goes(x, coin, p, HandleConf(p, M, p, values, r))
      BY <2>1, <2>2, <2>4, GoesTransitive
    <2> QED BY <1>1, <1>4, <2>5
  <1>5. \/ TryOutputSbv(p, L, r) = L
        \/ /\ ~(CountAux(L, r) < N - F)
           /\ TryOutputSbv(p, L, r) = HandleConf(p, M, p, values, r)
    BY <1>2, <1>3 DEF TryOutputSbv, SendConf
  <1>6. ~(CountAux(L, r) < N - F) => CountAux(L, r) >= N - F
    <2>1. ASSUME NEW b \in BOOLEAN PROVE Cardinality(L.receivedAux[r][b]) \in Nat
      <3>1. L.receivedAux[r][b] \in SUBSET Replica
        BY <1>0, FieldTypes DEF Votes
      <3> QED BY <3>1, ReplicaAssumption, FS_Subset, FS_CardinalityType
    <2>2. /\ Cardinality(L.receivedAux[r][TRUE]) \in Nat
          /\ Cardinality(L.receivedAux[r][FALSE]) \in Nat
      BY <2>1
    <2>3. PICK i \in Nat, j \in Nat : CountAux(L, r) = i + j
      BY <2>2 DEF CountAux
    <2>4. N \in Nat /\ F \in Nat
      BY ReplicaAssumption, FAssumption, FS_CardinalityType DEF N
    <2>5. \A k \in Nat, n \in Nat, f \in Nat : ~(k < n - f) => k >= n - f
      OBVIOUS
    <2>6. CountAux(L, r) \in Nat
      BY <2>3
    <2> QED BY <2>4, <2>5, <2>6
  <1> QED BY <1>1, <1>4, <1>5, <1>6, GoesSelf

LEMMA HandleAuxGoes ==
    ASSUME Coins, NEW x, Good(x, coin), NEW p \in Correct, NEW s \in Replica, NEW b \in BOOLEAN,
           NEW r \in Round, s \in Correct => AuxFrom(x, s, r, b)
    PROVE  Goes(x, coin, p, HandleAux(p, x[p], s, b, r))
  <1>1. PICK L : L = x[p]
    OBVIOUS
  <1>0. r \in AnyRound
    BY RoundTypes
  <1>2. PICK M : M = StoreAux(L, s, b, r)
    OBVIOUS
  <1>3. Goes(x, coin, p, M)
    BY <1>0, <1>1, <1>2, StoreAuxGoes
  <1>4. PICK y : y = Put(x, p, M)
    OBVIOUS
  <1>5. y[p] = M /\ Good(y, coin)
    BY <1>3, <1>4, GoesOn
  <1>6. Goes(y, coin, p, TryOutputSbv(p, M, r))
    BY <1>5, TryOutputSbvGoes
  <1>7. Goes(x, coin, p, TryOutputSbv(p, M, r))
    BY <1>3, <1>4, <1>6, GoesTransitive
  <1>8. HandleAux(p, L, s, b, r) \in {L, TryOutputSbv(p, M, r)}
    BY <1>2 DEF HandleAux, StoreAux
  <1> QED BY <1>1, <1>7, <1>8, GoesSelf

LEMMA BValQuorum ==
    ASSUME NEW x, NEW c, Good(x, c), NEW p \in Correct, NEW r \in AnyRound, NEW b \in BOOLEAN,
           ~(Cardinality(x[p].receivedBVal[r][b]) <= F)
    PROVE  MaySupport(x, c, r, b)
  <1>1. PICK S : S = x[p].receivedBVal[r][b]
    OBVIOUS
  <1>2. x[p] \in Local
    BY RoundTypes DEF Good
  <1>3. S \in SUBSET Replica
    BY <1>1, <1>2, FieldTypes DEF Votes
  <1>4. \A s \in S : s \in Correct => BValFrom(x, s, r, b)
    BY <1>1 DEF Good, GoodAt, HeardBVal
  <1> QED BY <1>1, <1>3, <1>4, SupportOfMany

LEMMA InsertBinValueGoes ==
    ASSUME Coins, NEW x, Good(x, coin), NEW p \in Correct, NEW b \in BOOLEAN, NEW r \in Round
    PROVE  Goes(x, coin, p, InsertBinValue(p, x[p], b, r))
  <1>1. PICK L : L = x[p]
    OBVIOUS
  <1>0. L \in Local /\ r \in AnyRound /\ p \in Replica
    BY <1>1, RoundTypes DEF Good
  <1>2. PICK M : M = AddBinValue(L, b, r)
    OBVIOUS
  <1>3. PICK K : K = SendAux(M, b, r)
    OBVIOUS
  <1>4. PICK y : y = Put(x, p, M)
    OBVIOUS
  <1>5. ASSUME ~(Cardinality(L.receivedBVal[r][b]) < 2 * F + 1)
        PROVE  /\ Goes(x, coin, p, M) /\ y[p] = M /\ Good(y, coin)
               /\ b \in M.binValues[r]
    <2>1. Cardinality(L.receivedBVal[r][b]) \in Nat
      <3>1. L.receivedBVal[r][b] \in SUBSET Replica
        BY <1>0, FieldTypes DEF Votes
      <3> QED BY <3>1, ReplicaAssumption, FS_Subset, FS_CardinalityType
    <2>2. ~(Cardinality(L.receivedBVal[r][b]) <= F)
      BY <1>5, <2>1, FAssumption
    <2>3. MaySupport(x, coin, r, b)
      BY <1>0, <1>1, <2>2, BValQuorum
    <2>4. Goes(x, coin, p, M) /\ M.binValues[r] = L.binValues[r] \cup {b}
      BY <1>0, <1>1, <1>2, <2>3, AddBinValueGoes
    <2> QED BY <1>4, <2>4, GoesOn
  <1>6. CASE /\ ~(Cardinality(L.receivedBVal[r][b]) < 2 * F + 1)
             /\ M.binValues[r] # BOOLEAN
             /\ InsertBinValue(p, L, b, r) = HandleAux(p, K, p, b, r)
    <2>1. Goes(y, coin, p, K) /\ b \in K.sentAux[r]
      BY <1>0, <1>3, <1>5, <1>6, SendAuxGoes
    <2>2. PICK z : z = Put(y, p, K)
      OBVIOUS
    <2>3. z[p] = K /\ Good(z, coin)
      BY <1>5, <1>6, <2>1, <2>2, GoesOn
    <2>4. AuxFrom(z, p, r, b)
      BY <2>1, <2>3 DEF AuxFrom
    <2>5. Goes(z, coin, p, HandleAux(p, K, p, b, r))
      BY <1>0, <2>3, <2>4, HandleAuxGoes
    <2>6. Goes(y, coin, p, HandleAux(p, K, p, b, r))
      BY <1>5, <1>6, <2>1, <2>2, <2>5, GoesTransitive
    <2>7. Goes(x, coin, p, HandleAux(p, K, p, b, r))
      BY <1>4, <1>5, <1>6, <2>6, GoesTransitive
    <2> QED BY <1>1, <1>6, <2>7
  <1>7. CASE /\ ~(Cardinality(L.receivedBVal[r][b]) < 2 * F + 1)
             /\ InsertBinValue(p, L, b, r) = TryOutputSbv(p, M, r)
    <2>1. Goes(y, coin, p, TryOutputSbv(p, M, r))
      BY <1>5, <1>7, TryOutputSbvGoes
    <2>2. Goes(x, coin, p, TryOutputSbv(p, M, r))
      BY <1>4, <1>5, <1>7, <2>1, GoesTransitive
    <2> QED BY <1>1, <1>7, <2>2
  <1>8. \/ InsertBinValue(p, L, b, r) = L
        \/ /\ ~(Cardinality(L.receivedBVal[r][b]) < 2 * F + 1)
           /\ M.binValues[r] # BOOLEAN
           /\ InsertBinValue(p, L, b, r) = HandleAux(p, K, p, b, r)
        \/ /\ ~(Cardinality(L.receivedBVal[r][b]) < 2 * F + 1)
           /\ InsertBinValue(p, L, b, r) = TryOutputSbv(p, M, r)
    BY <1>2, <1>3 DEF InsertBinValue, AddBinValue, SendAux
  <1> QED BY <1>1, <1>6, <1>7, <1>8, GoesSelf

LEMMA EarlyDecideGoes ==
    ASSUME NEW x, NEW c, Good(x, c), NEW p \in Correct, NEW b \in BOOLEAN, NEW r \in AnyRound
    PROVE  Goes(x, c, p, EarlyDecide(p, x[p], b, r))
  <1>1. PICK L : L = x[p]
    OBVIOUS
  <1>2. CASE /\ EarlyAba /\ L.receivedBVal[r][b] = Replica /\ L.decision = {}
             /\ EarlyDecide(p, L, b, r) = Decide(p, L, {b})
    <2>1. ~(Cardinality(Replica) <= F)
      <3>1. Cardinality(Replica) \in Nat /\ Cardinality(Replica) >= F + 3
        BY ReplicaAssumption, FAssumption, FS_CardinalityType DEF N
      <3> QED BY <3>1, FAssumption
    <2>2. ~(Cardinality(x[p].receivedBVal[r][b]) <= F)
      BY <1>1, <1>2, <2>1
    <2>3. MaySupport(x, c, r, b)
      BY <2>2, BValQuorum
    <2>4. MayDecide(x, c, b, x[p].round)
      BY <1>2, <2>3 DEF MaySupport, MayDecide, Resilient
    <2> QED BY <1>1, <1>2, <2>4, DecideGoes
  <1>3. \/ EarlyDecide(p, L, b, r) = L
        \/ /\ EarlyAba /\ L.receivedBVal[r][b] = Replica /\ L.decision = {}
           /\ EarlyDecide(p, L, b, r) = Decide(p, L, {b})
    BY DEF EarlyDecide
  <1> QED BY <1>1, <1>2, <1>3, GoesSelf

LEMMA CountBValGoes ==
    ASSUME Coins, NEW x, Good(x, coin), NEW p \in Correct, NEW s \in Replica, NEW b \in BOOLEAN,
           NEW r \in Round, s \in Correct => BValFrom(x, s, r, b)
    PROVE  Goes(x, coin, p, CountBVal(p, x[p], s, b, r))
  <1>1. PICK L : L = x[p]
    OBVIOUS
  <1>0. r \in AnyRound
    BY RoundTypes
  <1>2. PICK M : M = StoreBVal(L, s, b, r)
    OBVIOUS
  <1>3. Goes(x, coin, p, M)
    BY <1>0, <1>1, <1>2, StoreBValGoes
  <1>4. PICK y : y = Put(x, p, M)
    OBVIOUS
  <1>5. y[p] = M /\ Good(y, coin)
    BY <1>3, <1>4, GoesOn
  <1>6. PICK K : K = EarlyDecide(p, M, b, r)
    OBVIOUS
  <1>7. Goes(y, coin, p, K)
    BY <1>0, <1>5, <1>6, EarlyDecideGoes
  <1>8. PICK z : z = Put(y, p, K)
    OBVIOUS
  <1>9. z[p] = K /\ Good(z, coin)
    BY <1>5, <1>7, <1>8, GoesOn
  <1>10. Goes(z, coin, p, InsertBinValue(p, K, b, r))
    BY <1>9, InsertBinValueGoes
  <1>11. Goes(y, coin, p, InsertBinValue(p, K, b, r))
    BY <1>5, <1>7, <1>8, <1>10, GoesTransitive
  <1>12. Goes(x, coin, p, InsertBinValue(p, K, b, r))
    BY <1>3, <1>4, <1>11, GoesTransitive
  <1>13. CountBVal(p, L, s, b, r) \in {L, InsertBinValue(p, K, b, r)}
    BY <1>2, <1>6 DEF CountBVal, StoreBVal
  <1> QED BY <1>1, <1>12, <1>13, GoesSelf

LEMMA HandleBValGoes ==
    ASSUME Coins, NEW x, Good(x, coin), NEW p \in Correct, NEW s \in Replica, NEW b \in BOOLEAN,
           NEW r \in Round, s \in Correct => BValFrom(x, s, r, b)
    PROVE  Goes(x, coin, p, HandleBVal(p, x[p], s, b, r))
  <1>1. PICK L : L = x[p]
    OBVIOUS
  <1>0. L \in Local /\ r \in AnyRound /\ p \in Replica
    BY <1>1, RoundTypes DEF Good
  <1>2. PICK M : M = CountBVal(p, L, s, b, r)
    OBVIOUS
  <1>3. Goes(x, coin, p, M)
    BY <1>1, <1>2, CountBValGoes
  <1>4. PICK y : y = Put(x, p, M)
    OBVIOUS
  <1>5. y[p] = M /\ Good(y, coin) /\ AllGrow(x, y)
    BY <1>3, <1>4, GoesOn
  <1>6. PICK K : K = SendBVal(M, b, r)
    OBVIOUS
  <1>7. CASE /\ s \notin L.receivedBVal[r][b] /\ Cardinality(L.receivedBVal[r][b]) = F
             /\ HandleBVal(p, L, s, b, r) = CountBVal(p, K, p, b, r)
    <2>1. PICK S : S = L.receivedBVal[r][b]
      OBVIOUS
    <2>2. S \in SUBSET Replica
      BY <1>0, <2>1, FieldTypes DEF Votes
    <2>3. Cardinality(S \cup {s}) = Cardinality(S) + 1
      BY <1>7, <2>1, <2>2, CountsOne
    <2>4. ~(Cardinality(S \cup {s}) <= F)
      BY <1>7, <2>1, <2>3, FAssumption
    <2>5. \A t \in S \cup {s} : t \in Correct => BValFrom(x, t, r, b)
      BY <1>0, <1>1, <2>1 DEF Good, GoodAt, HeardBVal
    <2>6. S \cup {s} \in SUBSET Replica
      BY <2>2
    <2>7. MaySupport(x, coin, r, b)
      BY <1>0, <2>4, <2>5, <2>6, SupportOfMany
    <2>8. MaySupport(y, coin, r, b)
      BY <1>0, <1>5, <2>7, MaysGrow
    <2>9. Goes(y, coin, p, K)
      BY <1>0, <1>5, <1>6, <2>8, SendBValGoes
    <2>10. PICK z : z = Put(y, p, K)
      OBVIOUS
    <2>11. z[p] = K /\ Good(z, coin)
      BY <1>5, <2>9, <2>10, GoesOn
    <2>12. b \in K.sentBVal[r]
      <3>1. M \in Local
        BY <1>3 DEF Goes
      <3>2. SendsToo(M, K, r, b)
        BY <1>0, <1>6, <3>1, SendBValFields
      <3> QED BY <1>0, <3>2 DEF SendsToo
    <2>13. BValFrom(z, p, r, b)
      BY <2>11, <2>12 DEF BValFrom
    <2>14. Goes(z, coin, p, CountBVal(p, K, p, b, r))
      BY <1>0, <2>11, <2>13, CountBValGoes
    <2>15. Goes(y, coin, p, CountBVal(p, K, p, b, r))
      BY <1>5, <2>9, <2>10, <2>14, GoesTransitive
    <2>16. Goes(x, coin, p, CountBVal(p, K, p, b, r))
      BY <1>3, <1>4, <2>15, GoesTransitive
    <2> QED BY <1>1, <1>7, <2>16
  <1>8. \/ HandleBVal(p, L, s, b, r) = M
        \/ /\ s \notin L.receivedBVal[r][b] /\ Cardinality(L.receivedBVal[r][b]) = F
           /\ HandleBVal(p, L, s, b, r) = CountBVal(p, K, p, b, r)
    BY <1>2, <1>6 DEF HandleBVal, SendBVal
  <1> QED BY <1>1, <1>3, <1>7, <1>8

LEMMA HandleTermGoes ==
    ASSUME Coins, NEW x, Good(x, coin), NEW p \in Correct, NEW s \in Replica, NEW b \in BOOLEAN,
           NEW r \in Round, s \in Correct => x[s].decision = {b}
    PROVE  Goes(x, coin, p, HandleTerm(p, x[p], s, b, r))
  <1>1. PICK L : L = x[p]
    OBVIOUS
  <1>0. L \in Local /\ r \in AnyRound /\ p \in Replica /\ {b} \in SUBSET BOOLEAN
    BY <1>1, RoundTypes DEF Good
  <1>2. PICK M : M = StoreTerm(L, s, {b}, r)
    OBVIOUS
  <1>3. Goes(x, coin, p, M)
    BY <1>0, <1>1, <1>2, StoreTermGoes
  <1>4. PICK y : y = Put(x, p, M)
    OBVIOUS
  <1>5. y[p] = M /\ Good(y, coin) /\ AllGrow(x, y)
    BY <1>3, <1>4, GoesOn
  <1>6. s \in Correct => y[s].decision = {b}
    BY <1>0, <1>5, FromsGrow
  <1>7. CASE /\ M.decision = {}
             /\ Cardinality({t \in Replica : M.receivedTerm[r][t] = {b}}) > F
             /\ HandleTerm(p, L, s, b, r) = Decide(p, M, {b})
    <2>1. PICK S : S = {t \in Replica : M.receivedTerm[r][t] = {b}}
      OBVIOUS
    <2>2. S \in SUBSET Replica
      BY <2>1
    <2>3. ~(Cardinality(S) <= F)
      <3>1. Cardinality(S) \in Nat
        BY <2>2, ReplicaAssumption, FS_Subset, FS_CardinalityType
      <3> QED BY <1>7, <2>1, <3>1, FAssumption
    <2>4. MayDecide(y, coin, b, y[p].round)
      <3>1. CASE FewFaults
        <4>1. PICK t \in S : t \in Correct
          BY <2>2, <2>3, <3>1, CorrectAmong
        <4>2. M.receivedTerm[r][t] = {b}
          BY <2>1, <4>1
        <4>3. HeardTerm(y, M)
          BY <1>5 DEF Good, GoodAt
        <4>4. Decided(y, b)
          BY <1>0, <4>1, <4>2, <4>3 DEF HeardTerm, Decided
        <4> QED BY <1>5, <4>4, DecidedMay
      <3>2. CASE ~FewFaults
        BY <3>2 DEF MayDecide, Resilient
      <3> QED BY <3>1, <3>2
    <2>5. Goes(y, coin, p, Decide(p, M, {b}))
      BY <1>5, <1>7, <2>4, DecideGoes
    <2>6. Goes(x, coin, p, Decide(p, M, {b}))
      BY <1>3, <1>4, <2>5, GoesTransitive
    <2> QED BY <1>1, <1>7, <2>6
  <1>8. PICK K : K = HandleBVal(p, M, s, b, r)
    OBVIOUS
  <1>9. PICK J : J = HandleAux(p, K, s, b, r)
    OBVIOUS
  <1>10. CASE HandleTerm(p, L, s, b, r) = HandleConf(p, J, s, {b}, r)
    <2>1. s \in Correct => BValFrom(y, s, r, b)
      BY <1>6 DEF BValFrom
    <2>2. Goes(y, coin, p, K)
      BY <1>5, <1>8, <2>1, HandleBValGoes
    <2>3. PICK z : z = Put(y, p, K)
      OBVIOUS
    <2>4. z[p] = K /\ Good(z, coin) /\ AllGrow(y, z)
      BY <1>5, <2>2, <2>3, GoesOn
    <2>5. s \in Correct => AuxFrom(z, s, r, b)
      BY <1>0, <1>6, <2>4, FromsGrow DEF AuxFrom
    <2>6. Goes(z, coin, p, J)
      BY <1>9, <2>4, <2>5, HandleAuxGoes
    <2>7. PICK w : w = Put(z, p, J)
      OBVIOUS
    <2>8. w[p] = J /\ Good(w, coin)
      BY <2>4, <2>6, <2>7, GoesOn
    <2>9. PICK H : H = HandleConf(p, J, s, {b}, r)
      OBVIOUS
    <2>10. Goes(w, coin, p, H)
      BY <1>0, <2>8, <2>9, HandleConfGoes
    <2>11. Goes(z, coin, p, H)
      BY <2>4, <2>6, <2>7, <2>10, GoesTransitive
    <2>12. Goes(y, coin, p, H)
      BY <1>5, <2>2, <2>3, <2>11, GoesTransitive
    <2>13. Goes(x, coin, p, H)
      BY <1>3, <1>4, <2>12, GoesTransitive
    <2> QED BY <1>1, <1>10, <2>9, <2>13
  <1>11. \/ HandleTerm(p, L, s, b, r) = M
         \/ /\ M.decision = {}
            /\ Cardinality({t \in Replica : M.receivedTerm[r][t] = {b}}) > F
            /\ HandleTerm(p, L, s, b, r) = Decide(p, M, {b})
         \/ HandleTerm(p, L, s, b, r) = HandleConf(p, J, s, {b}, r)
    BY <1>2, <1>8, <1>9 DEF HandleTerm, StoreTerm
  <1> QED BY <1>1, <1>3, <1>7, <1>10, <1>11

\* The input of a correct replica, and the BVAL that carries it.
LEMMA InputGoes ==
    ASSUME Coins, NEW x, Good(x, coin), NEW p \in Correct, NEW b \in BOOLEAN,
           x[p].input = {}, NEW K, K = StoreInput(x[p], b)
    PROVE  Goes(x, coin, p, SupportInput(p, K, b))
  <1>1. PICK L : L = x[p]
    OBVIOUS
  <1>0. L \in Local /\ p \in Replica /\ {b} \in Bit
    BY <1>1, RoundTypes DEF Good, Bit
  <1>2. PICK y : y = Put(x, p, K)
    OBVIOUS
  <1>3. /\ K \in Local /\ K.input = {b} /\ K.round = L.round /\ K.decision = L.decision
        /\ SameBVals(L, K) /\ SameAuxs(L, K) /\ SameCoins(L, K) /\ SameTerms(L, K)
    <2>1. PICK v \in Bit : v = {b}
      BY <1>0
    <2>2. K = [L EXCEPT !.input = v]
      BY <1>1, <2>1 DEF StoreInput
    <2>3. /\ K \in Local /\ K.input = v /\ K.round = L.round /\ K.decision = L.decision
          /\ SameBVals(L, K) /\ SameAuxs(L, K) /\ SameCoins(L, K) /\ SameTerms(L, K)
      BY <1>0, <2>2, InputFields
    <2> QED BY <2>1, <2>3
  <1>4. Grows(L, K)
    BY <1>1, <1>3 DEF Grows, SameBVals, SameAuxs
  <1>5. K.receivedAux = L.receivedAux /\ K.binValues = L.binValues
    BY <1>3 DEF SameAuxs
  <1>6. /\ HeardBVal(y, K) /\ HeardTerm(y, K) /\ HeardAux(y, K) /\ Bounds(p, K)
        /\ Supports(x, coin, K) /\ Tosses(coin, K) /\ Decides(x, coin, K)
    BY <1>1, <1>2, <1>3, <1>4, <1>5, PartsStay
  <1>7. Goes(x, coin, p, K)
    BY <1>1, <1>2, <1>3, <1>4, <1>6, GoodStep DEF Goes
  <1>8. y[p] = K /\ Good(y, coin)
    BY <1>2, <1>7, GoesOn
  <1>9. PICK z \in Round : z = 0
    BY RoundTypes
  <1>10. MaySupport(y, coin, z, b)
    <2>1. Backed(y, b)
      BY <1>3, <1>8 DEF Backed
    <2>2. Path(y, coin, z, b)
      <3>1. \A q \in Round : ~(q < z)
        BY <1>9, ModeAssumption DEF Round
      <3> QED BY <3>1 DEF Path
    <2> QED BY <2>1, <2>2 DEF MaySupport, Carried
  <1>11. z \in AnyRound
    BY RoundTypes
  <1>12. PICK J : J = SendBVal(K, b, z)
    OBVIOUS
  <1>13. Goes(y, coin, p, J)
    BY <1>8, <1>10, <1>11, <1>12, SendBValGoes
  <1>14. PICK w : w = Put(y, p, J)
    OBVIOUS
  <1>15. w[p] = J /\ Good(w, coin)
    BY <1>8, <1>13, <1>14, GoesOn
  <1>16. b \in J.sentBVal[z]
    <2>1. SendsToo(K, J, z, b)
      BY <1>3, <1>11, <1>12, SendBValFields
    <2> QED BY <1>11, <2>1 DEF SendsToo
  <1>17. BValFrom(w, p, z, b)
    BY <1>15, <1>16 DEF BValFrom
  <1>18. Goes(w, coin, p, HandleBVal(p, J, p, b, z))
    BY <1>0, <1>15, <1>17, HandleBValGoes
  <1>19. Goes(y, coin, p, HandleBVal(p, J, p, b, z))
    BY <1>8, <1>13, <1>14, <1>18, GoesTransitive
  <1>20. Goes(x, coin, p, HandleBVal(p, J, p, b, z))
    BY <1>2, <1>7, <1>19, GoesTransitive
  <1>21. SupportInput(p, K, b) \in {K, HandleBVal(p, J, p, b, z)}
    BY <1>9, <1>12 DEF SupportInput
  <1> QED BY <1>7, <1>20, <1>21
-----------------------------------------------------------------------------
(***************************************************************************)
(* The steps.                                                              *)
(***************************************************************************)
Knows == TypeInv /\ Good(local, coin)

LEMMA KnowsInit == Init => Knows
  <1> SUFFICES ASSUME Init PROVE Good(local, coin)
    BY TypeInit DEF Knows
  <1>1. local \in [Running -> Local]
    BY TypeInit DEF TypeInv, TypeOK
  <1>2. ASSUME NEW p \in Correct PROVE GoodAt(local, coin, p, local[p])
    <2>1. local[p] = Init0
      BY RoundTypes DEF Init
    <2>2. /\ Init0.decision = {}
          /\ \A r \in AnyRound : /\ Init0.sentBVal[r] = {} /\ Init0.binValues[r] = {}
                                 /\ Init0.sentAux[r] = {} /\ Init0.sentConf[r] = {}
                                 /\ Init0.coinShares[r] = {} /\ Init0.coinValue[r] = {}
      BY DEF Init0
    <2>3. \A r \in AnyRound, b \in BOOLEAN : /\ Init0.receivedBVal[r][b] = {}
                                             /\ Init0.receivedAux[r][b] = {}
      BY DEF Init0
    <2>4. \A r \in AnyRound, s \in Replica : Init0.receivedTerm[r][s] = {}
      BY DEF Init0
    <2>5. Bounds(p, Init0)
      BY <2>2 DEF Bounds, BoundsAt
    <2>6. HeardBVal(local, Init0) /\ HeardAux(local, Init0) /\ HeardTerm(local, Init0)
      BY <2>3, <2>4, RoundTypes DEF HeardBVal, HeardAux, HeardTerm
    <2>7. Supports(local, coin, Init0) /\ Decides(local, coin, Init0) /\ Tosses(coin, Init0)
      BY <2>2, RoundTypes DEF Supports, Decides, Tosses
    <2> QED BY <2>1, <2>5, <2>6, <2>7 DEF GoodAt
  <1> QED BY <1>1, <1>2 DEF Good

LEMMA GoodDeliver ==
    ASSUME Knows, NEW p \in Correct, Deliver(p)
    PROVE  Good(local', coin')
  <1>0. Coins /\ local[p] \in Local /\ Good(local, coin) /\ p \in Running
    BY RoundTypes DEF Knows, TypeInv, TypeOK, Coins
  <1>1. PICK L : L = local[p]
    OBVIOUS
  <1>2. PICK s \in Sender(p), r \in Round :
            \/ \E b \in BOOLEAN : \/ ReceiveBVal(p, s, b, r)
                                  \/ ReceiveAux(p, s, b, r)
                                  \/ ReceiveTerm(p, s, b, r)
            \/ \E values \in (SUBSET BOOLEAN) \ {{}} : ReceiveConf(p, s, values, r)
            \/ ReceiveCoin(p, s, r)
    BY DEF Deliver
  <1>3. s \in Replica /\ r \in AnyRound /\ (s \in Correct => s \in Running)
    BY RoundTypes DEF Sender
  <1>4. ASSUME NEW M, Goes(local, coin, p, M), Receive(p, s, M)
        PROVE  Good(local', coin')
    BY <1>4 DEF Receive, Put, Goes
  <1>5. ASSUME NEW b \in BOOLEAN, ReceiveBVal(p, s, b, r)
        PROVE  \E M : Goes(local, coin, p, M) /\ Receive(p, s, M)
    <2>1. s \in Correct => BValFrom(local, s, r, b)
      BY <1>3, <1>5 DEF ReceiveBVal, BValFrom
    <2>2. Goes(local, coin, p, HandleBVal(p, local[p], s, b, r))
      BY <1>0, <1>3, <2>1, HandleBValGoes
    <2> QED BY <1>5, <2>2 DEF ReceiveBVal
  <1>6. ASSUME NEW b \in BOOLEAN, ReceiveAux(p, s, b, r)
        PROVE  \E M : Goes(local, coin, p, M) /\ Receive(p, s, M)
    <2>1. s \in Correct => AuxFrom(local, s, r, b)
      BY <1>3, <1>6 DEF ReceiveAux, AuxFrom
    <2>2. Goes(local, coin, p, HandleAux(p, local[p], s, b, r))
      BY <1>0, <1>3, <2>1, HandleAuxGoes
    <2> QED BY <1>6, <2>2 DEF ReceiveAux
  <1>7. ASSUME NEW b \in BOOLEAN, ReceiveTerm(p, s, b, r)
        PROVE  \E M : Goes(local, coin, p, M) /\ Receive(p, s, M)
    <2>1. s \in Correct => local[s].decision = {b}
      BY <1>3, <1>7 DEF ReceiveTerm
    <2>2. Goes(local, coin, p, HandleTerm(p, local[p], s, b, r))
      BY <1>0, <1>3, <2>1, HandleTermGoes
    <2> QED BY <1>7, <2>2 DEF ReceiveTerm
  <1>8. ASSUME NEW values \in (SUBSET BOOLEAN) \ {{}}, ReceiveConf(p, s, values, r)
        PROVE  \E M : Goes(local, coin, p, M) /\ Receive(p, s, M)
    <2>1. PICK K : K = [L EXCEPT !.confFrom[r] = @ \cup {s}]
      OBVIOUS
    <2>2. K \in Local /\ Same(L, K)
      BY <1>0, <1>1, <1>3, <2>1, ConfFromFields
    <2>3. Goes(local, coin, p, K)
      BY <1>0, <1>1, <2>2, SameGoes
    <2>4. PICK y : y = Put(local, p, K)
      OBVIOUS
    <2>5. y[p] = K /\ Good(y, coin)
      BY <1>0, <2>3, <2>4, GoesOn
    <2>6. PICK M : M = HandleConf(p, K, s, values, r)
      OBVIOUS
    <2>7. Goes(y, coin, p, M)
      BY <1>0, <1>3, <2>5, <2>6, HandleConfGoes
    <2>8. Goes(local, coin, p, M)
      BY <1>0, <2>3, <2>4, <2>7, GoesTransitive
    <2>9. Receive(p, s, M)
      BY <1>1, <1>8, <2>1, <2>6 DEF ReceiveConf
    <2> QED BY <2>8, <2>9
  <1>9. ASSUME ReceiveCoin(p, s, r)
        PROVE  \E M : Goes(local, coin, p, M) /\ Receive(p, s, M)
    <2>1. ~(r > local[p].round)
      <3>1. r \in Nat /\ local[p].round \in Nat /\ r <= local[p].round
        BY <1>0, <1>3, <1>9, FieldTypes, RoundTypes DEF ReceiveCoin, Reached
      <3> QED BY <3>1
    <2>2. Goes(local, coin, p, HandleCoin(p, local[p], s, r))
      BY <1>0, <1>3, <2>1, HandleCoinGoes
    <2> QED BY <1>9, <2>2 DEF ReceiveCoin
  <1>10. \E M : Goes(local, coin, p, M) /\ Receive(p, s, M)
    BY <1>2, <1>5, <1>6, <1>7, <1>8, <1>9
  <1> QED BY <1>4, <1>10

LEMMA GoodInput ==
    ASSUME Knows, NEW p \in Running, NEW b \in BOOLEAN, HandleInput(p, b)
    PROVE  Good(local', coin')
  <1>0. Coins /\ local[p] \in Local /\ Good(local, coin)
    BY DEF Knows, TypeInv, TypeOK, Coins
  <1>1. CASE p \in Correct
    <2>1. PICK K : K = StoreInput(local[p], b)
      OBVIOUS
    <2>2. PICK M : M = SupportInput(p, K, b)
      OBVIOUS
    <2>3. Receive(p, p, M) /\ local[p].input = {}
      BY <2>1, <2>2 DEF HandleInput, SendBVal, StoreInput, SupportInput
    <2>4. Goes(local, coin, p, M)
      BY <1>0, <1>1, <2>1, <2>2, <2>3, InputGoes
    <2> QED BY <2>3, <2>4 DEF Receive, Put, Goes
  <1>2. CASE p \notin Correct
    <2>1. /\ local' \in [Running -> Local] /\ coin' = coin
          /\ \A q \in Running : q # p => local'[q] = local[q]
      BY InputStep DEF Knows, StepOf
    <2>2. \A q \in Correct : local'[q] = local[q]
      BY <1>2, <2>1, RoundTypes
    <2>3. PICK y : y = local'
      OBVIOUS
    <2>4. \A q \in Correct : Grows(local[q], y[q])
      BY <2>2, <2>3 DEF Grows
    <2>5. AllGrow(local, y)
      BY <2>4 DEF AllGrow
    <2>6. \A q \in Correct : GoodAt(y, coin, q, local[q])
      BY <1>0, <2>5, GoodAtGrows DEF Good
    <2> QED BY <2>1, <2>2, <2>3, <2>6 DEF Good
  <1> QED BY <1>1, <1>2

LEMMA KnowsNext == Knows /\ [Next]_vars => Knows'
  <1> SUFFICES ASSUME Knows, [Next]_vars PROVE Good(local', coin')
    BY TypeNext DEF Knows
  <1>1. CASE UNCHANGED vars
    BY <1>1 DEF Knows, vars
  <1>2. ASSUME NEW p \in Running, NEW b \in BOOLEAN, HandleInput(p, b)
        PROVE  Good(local', coin')
    BY <1>2, GoodInput
  <1>3. ASSUME NEW p \in Correct, Deliver(p) PROVE Good(local', coin')
    BY <1>3, GoodDeliver
  <1> QED BY <1>1, <1>2, <1>3 DEF Next
-----------------------------------------------------------------------------
(***************************************************************************)
(* Validity and Agreement.                                                 *)
(***************************************************************************)
LEMMA KnowsAlways == Spec => []Knows
  BY KnowsInit, KnowsNext, PTL DEF Spec

LEMMA BitIsOne == \A S \in Bit : S # {} => \E b \in BOOLEAN : S = {b}
  BY DEF Bit

LEMMA DecisionType ==
    ASSUME Knows, NEW p \in Correct
    PROVE  Decision(p) \in Bit /\ Decision(p) = local[p].decision
  <1>1. local[p] \in Local
    BY RoundTypes DEF Knows, TypeInv, TypeOK
  <1> QED BY <1>1, FieldTypes DEF Decision

LEMMA KnowsValid ==
    ASSUME Knows, FewFaults PROVE Validity
  <1> SUFFICES ASSUME NEW p \in Correct, NEW b \in Decision(p)
               PROVE  \E q \in Correct : local[q].input = {b}
    BY DEF Validity
  <1>1. PICK d \in BOOLEAN : Decision(p) = {d}
    BY DecisionType, BitIsOne
  <1>2. b = d /\ local[p].decision = {b} /\ b \in BOOLEAN
    BY <1>1, DecisionType
  <1>3. Decided(local, b) /\ Good(local, coin)
    BY <1>2 DEF Decided, Knows
  <1>4. MayDecide(local, coin, b, 0)
    BY <1>2, <1>3, DecidedMay
  <1> QED BY <1>4 DEF MayDecide, Backed

\* With at most F faulty replicas, however they behave and however long the coin
\* takes, a correct replica decides the input of a correct replica.
THEOREM DecisionsValid ==
    ASSUME FewFaults PROVE Spec => []Validity
  BY KnowsAlways, KnowsValid, PTL

\* Big for both bits would need a correct replica that sent both AUXs.
LEMMA OneBig ==
    ASSUME Resilient, NEW x, NEW c, Good(x, c), NEW r \in AnyRound,
           NEW b \in BOOLEAN, NEW d \in BOOLEAN, Big(x, r, b), Big(x, r, d)
    PROVE  b = d
  <1> SUFFICES ASSUME b # d PROVE FALSE
    OBVIOUS
  <1>1. PICK A : A = AuxSenders(x, r, b) \cup Faulty
    OBVIOUS
  <1>2. PICK B : B = AuxSenders(x, r, d) \cup Faulty
    OBVIOUS
  <1>3. A \in SUBSET Replica /\ B \in SUBSET Replica
    BY <1>1, <1>2, ReplicaAssumption DEF AuxSenders, Correct
  <1>4. A \cap B \subseteq Faulty
    <2> SUFFICES ASSUME NEW s \in Correct, s \in A, s \in B PROVE FALSE
      BY <1>3 DEF Correct
    <2>1. b \in x[s].sentAux[r] /\ d \in x[s].sentAux[r]
      BY <1>1, <1>2 DEF AuxSenders, Correct
    <2>2. x[s].sentAux[r] \in SUBSET BOOLEAN
      <3>1. x[s] \in Local
        BY RoundTypes DEF Good
      <3> QED BY <3>1, FieldTypes DEF Bits
    <2>3. x[s].sentAux[r] = BOOLEAN
      <3>1. \A e \in BOOLEAN : e = b \/ e = d
        OBVIOUS
      <3> QED BY <2>1, <2>2, <3>1
    <2> QED BY <2>3 DEF Good, GoodAt, Bounds, BoundsAt
  <1>5. IsFiniteSet(A) /\ IsFiniteSet(B) /\ IsFiniteSet(Faulty)
    BY <1>3, ReplicaAssumption, FS_Subset
  <1>6. Cardinality(A \cup B) = Cardinality(A) + Cardinality(B) - Cardinality(A \cap B)
    BY <1>5, FS_Union
  <1>7. IsFiniteSet(A \cap B) /\ Cardinality(A \cap B) <= Cardinality(Faulty)
    BY <1>4, <1>5, FS_Subset
  <1>8. A \cup B \subseteq Replica /\ Cardinality(A \cup B) <= N
    BY <1>3, ReplicaAssumption, FS_Subset DEF N
  <1>9. /\ Cardinality(A) \in Nat /\ Cardinality(B) \in Nat /\ Cardinality(A \cap B) \in Nat
        /\ Cardinality(Faulty) \in Nat /\ N \in Nat /\ F \in Nat
    BY <1>5, <1>7, ReplicaAssumption, FAssumption, FS_CardinalityType DEF N
  <1>10. Cardinality(Faulty) <= F /\ N > 3 * F
    BY DEF Resilient, FewFaults
  <1>11. Cardinality(A) >= N - F /\ Cardinality(B) >= N - F
    BY <1>1, <1>2 DEF Big
  <1>12. \A i \in Nat, j \in Nat, k \in Nat, n \in Nat, f \in Nat :
             i >= n - f /\ j >= n - f /\ k <= f /\ i + j - k <= n => n <= 3 * f
    OBVIOUS
  <1>13. Cardinality(A \cap B) <= F
    BY <1>7, <1>9, <1>10
  <1>14. Cardinality(A) + Cardinality(B) - Cardinality(A \cap B) <= N
    BY <1>6, <1>8
  <1>15. N <= 3 * F
    BY <1>9, <1>11, <1>12, <1>13, <1>14
  <1> QED BY <1>9, <1>10, <1>15

LEMMA LockedOut ==
    ASSUME Resilient, NEW x, NEW c, Good(x, c), NEW r \in Round, NEW q \in AnyRound,
           NEW b \in BOOLEAN, NEW d \in BOOLEAN,
           LockedAt(x, c, b, r), Path(x, c, q, d), r < q
    PROVE  b = d
  BY OneBig, RoundTypes DEF LockedAt, Path

LEMMA OneLock ==
    ASSUME Resilient, NEW x, NEW c, Good(x, c), NEW r \in Round, NEW q \in Round,
           NEW b \in BOOLEAN, NEW d \in BOOLEAN, LockedAt(x, c, b, r), LockedAt(x, c, d, q)
    PROVE  b = d
  <1>1. r \in Nat /\ q \in Nat /\ q \in AnyRound /\ r \in AnyRound
    BY RoundTypes
  <1>2. CASE r < q
    BY <1>1, <1>2, LockedOut DEF LockedAt
  <1>3. CASE q < r
    BY <1>1, <1>3, LockedOut DEF LockedAt
  <1>4. CASE r = q
    BY <1>4 DEF LockedAt
  <1> QED BY <1>1, <1>2, <1>3, <1>4

LEMMA OneDecision ==
    ASSUME Resilient, NEW x, NEW c, Good(x, c), NEW b \in BOOLEAN, NEW d \in BOOLEAN,
           Decided(x, b), Decided(x, d)
    PROVE  b = d
  <1>1. MayDecide(x, c, b, 0) /\ MayDecide(x, c, d, 0)
    BY DecidedMay
  <1>2. PICK r \in Round : LockedAt(x, c, b, r)
    BY <1>1 DEF MayDecide, Locked
  <1>3. PICK q \in Round : LockedAt(x, c, d, q)
    BY <1>1 DEF MayDecide, Locked
  <1> QED BY <1>2, <1>3, OneLock

LEMMA KnowsAgree ==
    ASSUME Knows, Resilient PROVE Agreement
  <1> SUFFICES ASSUME NEW p \in Correct, NEW q \in Correct,
                      Decision(p) # {}, Decision(q) # {}
               PROVE  Decision(p) = Decision(q)
    BY DEF Agreement
  <1>1. PICK b \in BOOLEAN : Decision(p) = {b}
    BY DecisionType, BitIsOne
  <1>2. PICK d \in BOOLEAN : Decision(q) = {d}
    BY DecisionType, BitIsOne
  <1>3. Decided(local, b) /\ Decided(local, d)
    BY <1>1, <1>2, DecisionType DEF Decided
  <1> QED BY <1>1, <1>2, <1>3, OneDecision DEF Knows

\* With N > 3F, at most F faulty replicas, no bad coin share and no early ending,
\* no two correct replicas ever decide differently, in any round.
THEOREM DecisionsAgree ==
    ASSUME Resilient PROVE Spec => []Agreement
  BY KnowsAlways, KnowsAgree, PTL

LEMMA SingletonHeld ==
    ASSUME Knows, NEW p \in Correct, NEW r \in Round, Cardinality(ConfValues(local[p], r)) = 1
    PROVE  \E b \in BOOLEAN : /\ ConfValues(local[p], r) = {b}
                              /\ MaySupport(local, coin, r, b)
                              /\ Decided(local, b) \/ Big(local, r, b)
  <1>1. local[p] \in Local /\ r \in AnyRound /\ Good(local, coin)
    BY RoundTypes DEF Knows, TypeInv, TypeOK
  <1>2. ConfValues(local[p], r) \in Bit
    BY <1>1, ConfValuesType
  <1>3. ConfValues(local[p], r) # {}
    BY FS_EmptySet
  <1>4. PICK b \in BOOLEAN : ConfValues(local[p], r) = {b}
    BY <1>2, <1>3, BitIsOne
  <1> QED BY <1>1, <1>4, OneValue

\* A decision of b while another replica holds d alone.
LEMMA SingletonDecided ==
    ASSUME Resilient, Knows, NEW r \in Round, NEW b \in BOOLEAN, NEW d \in BOOLEAN,
           \A s \in Correct : Decision(s) # {} => local[s].round <= r,
           Decided(local, b), MaySupport(local, coin, r, d),
           Decided(local, d) \/ Big(local, r, d)
    PROVE  b = d
  <1>1. Good(local, coin) /\ r \in AnyRound
    BY RoundTypes DEF Knows
  <1>2. CASE Decided(local, d)
    BY <1>1, <1>2, OneDecision
  <1>3. CASE ~Decided(local, d)
    <2>1. Big(local, r, d) /\ Path(local, coin, r, d)
      BY <1>3 DEF MaySupport, Carried
    <2>2. PICK s \in Correct : local[s].decision = {b}
      BY DEF Decided
    <2>3. local[s].round <= r
      BY <2>2, DecisionType
    <2>4. MayDecide(local, coin, b, local[s].round)
      BY <1>1, DecidedMay
    <2>5. PICK q \in Round : /\ LockedAt(local, coin, b, q)
                             /\ \/ q <= local[s].round
                                \/ \E t \in Correct : local[t].decision = {b} /\ q <= local[t].round
      BY <2>4 DEF MayDecide, Locked
    <2>6. PICK t \in Correct : local[t].decision = {b} /\ q <= local[t].round
      BY <2>2, <2>5
    <2>7. local[t].round <= r
      BY <2>6, DecisionType
    <2>8. q <= r /\ q \in Nat /\ r \in Nat
      <3>1. q \in Nat /\ r \in Nat /\ local[t].round \in Nat
        <4>1. local[t] \in Local
          BY RoundTypes DEF Knows, TypeInv, TypeOK
        <4> QED BY <1>1, <4>1, FieldTypes, RoundTypes
      <3> QED BY <2>6, <2>7, <3>1
    <2>9. CASE q = r
      BY <1>1, <2>1, <2>5, <2>9, OneBig DEF LockedAt
    <2>10. CASE q < r
      BY <1>1, <2>1, <2>5, <2>10, LockedOut
    <2> QED BY <2>8, <2>9, <2>10
  <1> QED BY <1>2, <1>3

LEMMA KnowsSingleton ==
    ASSUME Knows, Resilient PROVE OneSingleton
  <1> SUFFICES ASSUME NEW p \in Correct, NEW q \in Correct, NEW r \in Round,
                      Cardinality(ConfValues(local[p], r)) = 1,
                      Cardinality(ConfValues(local[q], r)) = 1,
                      \A s \in Correct : Decision(s) # {} => local[s].round <= r
               PROVE  ConfValues(local[p], r) = ConfValues(local[q], r)
    BY DEF OneSingleton
  <1>1. PICK b \in BOOLEAN : /\ ConfValues(local[p], r) = {b}
                             /\ MaySupport(local, coin, r, b)
                             /\ Decided(local, b) \/ Big(local, r, b)
    BY SingletonHeld
  <1>2. PICK d \in BOOLEAN : /\ ConfValues(local[q], r) = {d}
                             /\ MaySupport(local, coin, r, d)
                             /\ Decided(local, d) \/ Big(local, r, d)
    BY SingletonHeld
  <1>3. CASE Decided(local, b)
    <2>1. b = d
      BY <1>2, <1>3, SingletonDecided
    <2> QED BY <1>1, <1>2, <2>1
  <1>4. CASE Decided(local, d)
    <2>1. b = d
      BY <1>1, <1>4, SingletonDecided
    <2> QED BY <1>1, <1>2, <2>1
  <1>5. CASE Big(local, r, b) /\ Big(local, r, d)
    <2>1. b = d
      BY <1>5, OneBig, RoundTypes DEF Knows
    <2> QED BY <1>1, <1>2, <2>1
  <1> QED BY <1>1, <1>2, <1>3, <1>4, <1>5

\* Under the same assumptions no two correct replicas leave the CONF of a round
\* with opposite bits, though a sender of both AUXs is counted twice and bin_values
\* may grow after the CONF was sent.
THEOREM SingletonsAgree ==
    ASSUME Resilient PROVE Spec => []OneSingleton
  BY KnowsAlways, KnowsSingleton, PTL
-----------------------------------------------------------------------------
(***************************************************************************)
(* The instance is a BinaryAgreement.                                      *)
(***************************************************************************)
LEMMA AgreementInit == Init => BA!Init
  <1> SUFFICES ASSUME Init PROVE BA!Init
    OBVIOUS
  <1>1. \A p \in Correct : local[p] = Init0
    BY RoundTypes DEF Init
  <1> QED BY <1>1 DEF BA!Init, Init0

LEMMA StepKeepsOthers ==
    ASSUME NEW p \in Running, StepOf(p), NEW q \in Correct, q # p
    PROVE  local'[q] = local[q]
  BY RoundTypes DEF StepOf

LEMMA InputImplements ==
    ASSUME TypeInv, NEW p \in Running, NEW b \in BOOLEAN, HandleInput(p, b)
    PROVE  [BA!Next]_(BA!vars)
  <1>1. /\ StepOf(p) /\ local[p].input = {} /\ local'[p].input = {b}
        /\ local'[p].decision = local[p].decision
    BY InputStep
  <1>2. \A q \in Correct : local'[q].decision = local[q].decision
    BY <1>1, StepKeepsOthers
  <1>3. [q \in Correct |-> local'[q].decision] = [q \in Correct |-> local[q].decision]
    BY <1>2
  <1>4. CASE p \in Correct
    <2>1. \A q \in Correct : q # p => local'[q].input = local[q].input
      BY <1>1, StepKeepsOthers
    <2>2. [q \in Correct |-> local'[q].input]
              = [[q \in Correct |-> local[q].input] EXCEPT ![p] = {b}]
      BY <1>1, <1>4, <2>1
    <2>3. BA!Propose(p, b)
      BY <1>1, <1>3, <1>4, <2>2 DEF BA!Propose
    <2> QED BY <1>4, <2>3 DEF BA!Next
  <1>5. CASE p \notin Correct
    <2>1. \A q \in Correct : local'[q].input = local[q].input
      BY <1>1, <1>5, StepKeepsOthers
    <2>2. [q \in Correct |-> local'[q].input] = [q \in Correct |-> local[q].input]
      BY <2>1
    <2> QED BY <1>3, <2>2 DEF BA!vars
  <1> QED BY <1>4, <1>5

LEMMA DeliverImplements ==
    ASSUME TypeInv, TypeInv', Validity', Agreement', NEW p \in Correct, Deliver(p)
    PROVE  [BA!Next]_(BA!vars)
  <1>1. StepOf(p) /\ local'[p].input = local[p].input
    BY DeliverStep, RoundTypes
  <1>2. \A q \in Correct : local'[q].input = local[q].input
    BY <1>1, StepKeepsOthers, RoundTypes
  <1>3. [q \in Correct |-> local'[q].input] = [q \in Correct |-> local[q].input]
    BY <1>2
  <1>4. \A q \in Correct : q # p => local'[q].decision = local[q].decision
    BY <1>1, StepKeepsOthers, RoundTypes
  <1>5. CASE local'[p].decision = local[p].decision
    <2>1. [q \in Correct |-> local'[q].decision] = [q \in Correct |-> local[q].decision]
      BY <1>4, <1>5
    <2> QED BY <1>3, <2>1 DEF BA!vars
  <1>6. CASE local'[p].decision # local[p].decision
    <2>1. local[p].decision = {}
      BY <1>1, <1>6 DEF StepOf, KeepsOwn
    <2>2. local'[p].decision \in Bit
      <3>1. local'[p] \in Local
        BY RoundTypes DEF TypeInv, TypeOK
      <3> QED BY <3>1, FieldTypes
    <2>3. PICK b \in BOOLEAN : local'[p].decision = {b}
      BY <1>6, <2>1, <2>2, BitIsOne
    <2>4. \A q \in Correct : local[q].decision \subseteq {b}
      BY <1>4, <2>1, <2>3 DEF Agreement, Decision
    <2>5. PICK q \in Correct : local'[q].input = {b}
      BY <2>3 DEF Validity, Decision
    <2>6. b \in [s \in Correct |-> local[s].input][q]
      BY <1>2, <2>5
    <2>7. [s \in Correct |-> local'[s].decision]
              = [[s \in Correct |-> local[s].decision] EXCEPT ![p] = {b}]
      BY <1>4, <2>3
    <2>8. BA!Decide(p, b)
      BY <1>3, <2>1, <2>4, <2>6, <2>7 DEF BA!Decide
    <2> QED BY <2>8 DEF BA!Next
  <1> QED BY <1>5, <1>6

LEMMA AgreementStep ==
    ASSUME TypeInv, TypeInv', Validity', Agreement', [Next]_vars
    PROVE  [BA!Next]_(BA!vars)
  <1>1. CASE UNCHANGED vars
    BY <1>1 DEF vars, BA!vars
  <1> QED BY <1>1, InputImplements, DeliverImplements DEF Next

\* Every step of an instance is one of BinaryAgreement, or none of its.
THEOREM Implements ==
    ASSUME Resilient PROVE Spec => ImplementsBinaryAgreement
  <1>1. Knows => TypeInv
    BY DEF Knows
  <1>2. Knows => Validity
    BY KnowsValid DEF Resilient
  <1>3. Knows => Agreement
    BY KnowsAgree
  <1>4. TypeInv /\ TypeInv' /\ Validity' /\ Agreement' /\ [Next]_vars => [BA!Next]_(BA!vars)
    BY AgreementStep
  <1> QED BY <1>1, <1>2, <1>3, <1>4, AgreementInit, KnowsAlways, PTL
          DEF Spec, ImplementsBinaryAgreement, BA!Spec
=============================================================================
