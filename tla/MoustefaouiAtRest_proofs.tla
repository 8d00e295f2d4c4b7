---------------------- MODULE MoustefaouiAtRest_proofs ----------------------
(***************************************************************************)
(* When an instance of MoustefaouiBinaryAgreement comes to rest without a   *)
(* decision: for every number of replicas, every F, every number of rounds *)
(* and whatever arbitrary replicas send.  Each handler acts on a threshold *)
(* when the message that reaches it arrives; the invariant says, of each   *)
(* threshold of a round, that a replica which has reached it has acted.    *)
(***************************************************************************)
EXTENDS MoustefaouiBinaryAgreement_proofs, WellFoundedInduction

\* What a record has of round q.
SameBValsAt(L, M, q) == M.receivedBVal[q] = L.receivedBVal[q] /\ M.sentBVal[q] = L.sentBVal[q]
SameBinAt(L, M, q) == M.binValues[q] = L.binValues[q]
SameAuxsAt(L, M, q) == M.receivedAux[q] = L.receivedAux[q] /\ M.sentAux[q] = L.sentAux[q]
SameConfsAt(L, M, q) == /\ M.sentConf[q] = L.sentConf[q] /\ M.receivedConf[q] = L.receivedConf[q]
                        /\ M.confFrom[q] = L.confFrom[q]
SameCoinsAt(L, M, q) == /\ M.coinStarted[q] = L.coinStarted[q]
                        /\ M.coinShares[q] = L.coinShares[q] /\ M.coinValue[q] = L.coinValue[q]
SameTermsAt(L, M, q) == M.receivedTerm[q] = L.receivedTerm[q]
SameAt(L, M, q) == /\ SameBValsAt(L, M, q) /\ SameBinAt(L, M, q) /\ SameAuxsAt(L, M, q)
                   /\ SameConfsAt(L, M, q) /\ SameCoinsAt(L, M, q) /\ SameTermsAt(L, M, q)
\* A change of round r only.
Touches(L, M, r) == /\ M \in Local /\ SameState(L, M)
                    /\ \A q \in AnyRound : q # r => SameAt(L, M, q)

LEMMA StoreBValAt ==
    ASSUME NEW L \in Local, NEW s \in Replica, NEW b \in BOOLEAN, NEW r \in AnyRound,
           NEW M, M = StoreBVal(L, s, b, r)
    PROVE  /\ Touches(L, M, r)
           /\ M.receivedBVal[r][b] = L.receivedBVal[r][b] \cup {s}
           /\ \A d \in BOOLEAN : d # b => M.receivedBVal[r][d] = L.receivedBVal[r][d]
           /\ M.sentBVal[r] = L.sentBVal[r]
           /\ SameBinAt(L, M, r) /\ SameAuxsAt(L, M, r) /\ SameConfsAt(L, M, r)
           /\ SameCoinsAt(L, M, r) /\ SameTermsAt(L, M, r)
  <1>1. PICK g \in Votes : g = L.receivedBVal
    BY FieldTypes
  <1>2. PICK f : f = [g EXCEPT ![r][b] = @ \cup {s}]
    OBVIOUS
  <1>3. f \in Votes
    BY <1>2, VotesGrow
  <1>4. /\ f[r][b] = g[r][b] \cup {s} /\ \A d \in BOOLEAN : d # b => f[r][d] = g[r][d]
        /\ \A q \in AnyRound : q # r => f[q] = g[q]
    BY <1>2 DEF Votes
  <1>5. M = [L EXCEPT !.receivedBVal = f]
    BY <1>1, <1>2 DEF StoreBVal
  <1>6. /\ M \in Local /\ M.receivedBVal = f /\ M.sentBVal = L.sentBVal
        /\ SameState(L, M) /\ SameAuxs(L, M) /\ SameCoins(L, M) /\ SameTerms(L, M)
    BY <1>3, <1>5, ReceivedBValFields
  <1>7. /\ M.receivedConf = L.receivedConf /\ M.confFrom = L.confFrom
        /\ M.coinStarted = L.coinStarted
    BY <1>5 DEF Local
  <1>8. \A q \in AnyRound : q # r => SameAt(L, M, q)
    BY <1>1, <1>4, <1>6, <1>7
       DEF SameAt, SameBValsAt, SameBinAt, SameAuxsAt, SameConfsAt, SameCoinsAt, SameTermsAt,
           SameAuxs, SameCoins, SameTerms
  <1>9. /\ SameBinAt(L, M, r) /\ SameAuxsAt(L, M, r) /\ SameConfsAt(L, M, r)
        /\ SameCoinsAt(L, M, r) /\ SameTermsAt(L, M, r)
    BY <1>6, <1>7
       DEF SameBinAt, SameAuxsAt, SameConfsAt, SameCoinsAt, SameTermsAt,
           SameAuxs, SameCoins, SameTerms
  <1> QED BY <1>1, <1>4, <1>6, <1>8, <1>9 DEF Touches

LEMMA SendBValAt ==
    ASSUME NEW L \in Local, NEW b \in BOOLEAN, NEW r \in AnyRound, NEW M, M = SendBVal(L, b, r)
    PROVE  /\ Touches(L, M, r)
           /\ M.sentBVal[r] = L.sentBVal[r] \cup {b} /\ M.receivedBVal[r] = L.receivedBVal[r]
           /\ SameBinAt(L, M, r) /\ SameAuxsAt(L, M, r) /\ SameConfsAt(L, M, r)
           /\ SameCoinsAt(L, M, r) /\ SameTermsAt(L, M, r)
  <1>1. PICK g \in Bits : g = L.sentBVal
    BY FieldTypes
  <1>2. PICK f : f = [g EXCEPT ![r] = @ \cup {b}]
    OBVIOUS
  <1>3. f \in Bits
    BY <1>2, BitsGrow
  <1>4. f[r] = g[r] \cup {b} /\ \A q \in AnyRound : q # r => f[q] = g[q]
    BY <1>2 DEF Bits
  <1>5. M = [L EXCEPT !.sentBVal = f]
    BY <1>1, <1>2 DEF SendBVal
  <1>6. /\ M \in Local /\ M.sentBVal = f /\ M.receivedBVal = L.receivedBVal
        /\ SameState(L, M) /\ SameAuxs(L, M) /\ SameCoins(L, M) /\ SameTerms(L, M)
    BY <1>3, <1>5, SentBValFields
  <1>7. /\ M.receivedConf = L.receivedConf /\ M.confFrom = L.confFrom
        /\ M.coinStarted = L.coinStarted
    BY <1>5 DEF Local
  <1>8. \A q \in AnyRound : q # r => SameAt(L, M, q)
    BY <1>1, <1>4, <1>6, <1>7
       DEF SameAt, SameBValsAt, SameBinAt, SameAuxsAt, SameConfsAt, SameCoinsAt, SameTermsAt,
           SameAuxs, SameCoins, SameTerms
  <1>9. /\ SameBinAt(L, M, r) /\ SameAuxsAt(L, M, r) /\ SameConfsAt(L, M, r)
        /\ SameCoinsAt(L, M, r) /\ SameTermsAt(L, M, r)
    BY <1>6, <1>7
       DEF SameBinAt, SameAuxsAt, SameConfsAt, SameCoinsAt, SameTermsAt,
           SameAuxs, SameCoins, SameTerms
  <1> QED BY <1>1, <1>4, <1>6, <1>8, <1>9 DEF Touches

LEMMA AddBinValueAt ==
    ASSUME NEW L \in Local, NEW b \in BOOLEAN, NEW r \in AnyRound, NEW M, M = AddBinValue(L, b, r)
    PROVE  /\ Touches(L, M, r) /\ M.binValues[r] = L.binValues[r] \cup {b}
           /\ SameBValsAt(L, M, r) /\ SameAuxsAt(L, M, r) /\ SameConfsAt(L, M, r)
           /\ SameCoinsAt(L, M, r) /\ SameTermsAt(L, M, r)
  <1>1. PICK g \in Bits : g = L.binValues
    BY FieldTypes
  <1>2. PICK f : f = [g EXCEPT ![r] = @ \cup {b}]
    OBVIOUS
  <1>3. f \in Bits
    BY <1>2, BitsGrow
  <1>4. f[r] = g[r] \cup {b} /\ \A q \in AnyRound : q # r => f[q] = g[q]
    BY <1>2 DEF Bits
  <1>5. M = [L EXCEPT !.binValues = f]
    BY <1>1, <1>2 DEF AddBinValue
  <1>6. /\ M \in Local /\ M.binValues = f
        /\ M.receivedAux = L.receivedAux /\ M.sentAux = L.sentAux
        /\ SameState(L, M) /\ SameBVals(L, M) /\ SameCoins(L, M) /\ SameTerms(L, M)
    BY <1>3, <1>5, BinValuesFields
  <1>7. /\ M.receivedConf = L.receivedConf /\ M.confFrom = L.confFrom
        /\ M.coinStarted = L.coinStarted
    BY <1>5 DEF Local
  <1>8. \A q \in AnyRound : q # r => SameAt(L, M, q)
    BY <1>1, <1>4, <1>6, <1>7
       DEF SameAt, SameBValsAt, SameBinAt, SameAuxsAt, SameConfsAt, SameCoinsAt, SameTermsAt,
           SameBVals, SameCoins, SameTerms
  <1>9. /\ SameBValsAt(L, M, r) /\ SameAuxsAt(L, M, r) /\ SameConfsAt(L, M, r)
        /\ SameCoinsAt(L, M, r) /\ SameTermsAt(L, M, r)
    BY <1>6, <1>7
       DEF SameBValsAt, SameAuxsAt, SameConfsAt, SameCoinsAt, SameTermsAt,
           SameBVals, SameCoins, SameTerms
  <1> QED BY <1>1, <1>4, <1>6, <1>8, <1>9 DEF Touches

LEMMA SendAuxAt ==
    ASSUME NEW L \in Local, NEW b \in BOOLEAN, NEW r \in AnyRound, NEW M, M = SendAux(L, b, r)
    PROVE  /\ Touches(L, M, r) /\ M.sentAux[r] = L.sentAux[r] \cup {b}
           /\ M.receivedAux[r] = L.receivedAux[r]
           /\ SameBValsAt(L, M, r) /\ SameBinAt(L, M, r) /\ SameConfsAt(L, M, r)
           /\ SameCoinsAt(L, M, r) /\ SameTermsAt(L, M, r)
  <1>1. PICK g \in Bits : g = L.sentAux
    BY FieldTypes
  <1>2. PICK f : f = [g EXCEPT ![r] = @ \cup {b}]
    OBVIOUS
  <1>3. f \in Bits
    BY <1>2, BitsGrow
  <1>4. f[r] = g[r] \cup {b} /\ \A q \in AnyRound : q # r => f[q] = g[q]
    BY <1>2 DEF Bits
  <1>5. M = [L EXCEPT !.sentAux = f]
    BY <1>1, <1>2 DEF SendAux
  <1>6. /\ M \in Local /\ M.sentAux = f
        /\ M.receivedAux = L.receivedAux /\ M.binValues = L.binValues
        /\ SameState(L, M) /\ SameBVals(L, M) /\ SameCoins(L, M) /\ SameTerms(L, M)
    BY <1>3, <1>5, SentAuxFields
  <1>7. /\ M.receivedConf = L.receivedConf /\ M.confFrom = L.confFrom
        /\ M.coinStarted = L.coinStarted
    BY <1>5 DEF Local
  <1>8. \A q \in AnyRound : q # r => SameAt(L, M, q)
    BY <1>1, <1>4, <1>6, <1>7
       DEF SameAt, SameBValsAt, SameBinAt, SameAuxsAt, SameConfsAt, SameCoinsAt, SameTermsAt,
           SameBVals, SameCoins, SameTerms
  <1>9. /\ SameBValsAt(L, M, r) /\ SameBinAt(L, M, r) /\ SameConfsAt(L, M, r)
        /\ SameCoinsAt(L, M, r) /\ SameTermsAt(L, M, r)
    BY <1>6, <1>7
       DEF SameBValsAt, SameBinAt, SameConfsAt, SameCoinsAt, SameTermsAt,
           SameBVals, SameCoins, SameTerms
  <1> QED BY <1>1, <1>4, <1>6, <1>8, <1>9 DEF Touches

LEMMA StoreAuxAt ==
    ASSUME NEW L \in Local, NEW s \in Replica, NEW b \in BOOLEAN, NEW r \in AnyRound,
           NEW M, M = StoreAux(L, s, b, r)
    PROVE  /\ Touches(L, M, r)
           /\ M.receivedAux[r][b] = L.receivedAux[r][b] \cup {s}
           /\ \A d \in BOOLEAN : d # b => M.receivedAux[r][d] = L.receivedAux[r][d]
           /\ M.sentAux[r] = L.sentAux[r]
           /\ SameBValsAt(L, M, r) /\ SameBinAt(L, M, r) /\ SameConfsAt(L, M, r)
           /\ SameCoinsAt(L, M, r) /\ SameTermsAt(L, M, r)
  <1>1. PICK g \in Votes : g = L.receivedAux
    BY FieldTypes
  <1>2. PICK f : f = [g EXCEPT ![r][b] = @ \cup {s}]
    OBVIOUS
  <1>3. f \in Votes
    BY <1>2, VotesGrow
  <1>4. /\ f[r][b] = g[r][b] \cup {s} /\ \A d \in BOOLEAN : d # b => f[r][d] = g[r][d]
        /\ \A q \in AnyRound : q # r => f[q] = g[q]
    BY <1>2 DEF Votes
  <1>5. M = [L EXCEPT !.receivedAux = f]
    BY <1>1, <1>2 DEF StoreAux
  <1>6. /\ M \in Local /\ M.receivedAux = f
        /\ M.sentAux = L.sentAux /\ M.binValues = L.binValues
        /\ SameState(L, M) /\ SameBVals(L, M) /\ SameCoins(L, M) /\ SameTerms(L, M)
    BY <1>3, <1>5, ReceivedAuxFields
  <1>7. /\ M.receivedConf = L.receivedConf /\ M.confFrom = L.confFrom
        /\ M.coinStarted = L.coinStarted
    BY <1>5 DEF Local
  <1>8. \A q \in AnyRound : q # r => SameAt(L, M, q)
    BY <1>1, <1>4, <1>6, <1>7
       DEF SameAt, SameBValsAt, SameBinAt, SameAuxsAt, SameConfsAt, SameCoinsAt, SameTermsAt,
           SameBVals, SameCoins, SameTerms
  <1>9. /\ SameBValsAt(L, M, r) /\ SameBinAt(L, M, r) /\ SameConfsAt(L, M, r)
        /\ SameCoinsAt(L, M, r) /\ SameTermsAt(L, M, r)
    BY <1>6, <1>7
       DEF SameBValsAt, SameBinAt, SameConfsAt, SameCoinsAt, SameTermsAt,
           SameBVals, SameCoins, SameTerms
  <1> QED BY <1>1, <1>4, <1>6, <1>8, <1>9 DEF Touches

\* A CONF arrives; the coin is invoked.
TakeConf(L, s, r) == [L EXCEPT !.confFrom[r] = @ \cup {s}]
StoreConf(L, s, values, r) == [L EXCEPT !.receivedConf[r][s] = IF @ = {} THEN values ELSE @]
StartCoin(L, r) == [L EXCEPT !.coinStarted[r] = TRUE]

LEMMA TakeConfAt ==
    ASSUME NEW L \in Local, NEW s \in Replica, NEW r \in AnyRound, NEW M, M = TakeConf(L, s, r)
    PROVE  /\ Touches(L, M, r) /\ M.confFrom[r] = L.confFrom[r] \cup {s}
           /\ M.receivedConf = L.receivedConf /\ M.sentConf = L.sentConf
           /\ SameBValsAt(L, M, r) /\ SameBinAt(L, M, r) /\ SameAuxsAt(L, M, r)
           /\ SameCoinsAt(L, M, r) /\ SameTermsAt(L, M, r)
  <1>1. PICK g \in [AnyRound -> SUBSET Replica] : g = L.confFrom
    BY DEF Local
  <1>2. PICK f : f = [g EXCEPT ![r] = @ \cup {s}]
    OBVIOUS
  <1>4. f[r] = g[r] \cup {s} /\ \A q \in AnyRound : q # r => f[q] = g[q]
    BY <1>2
  <1>5. M = [L EXCEPT !.confFrom = f]
    BY <1>1, <1>2 DEF TakeConf
  <1>6. M \in Local /\ Same(L, M)
    BY ConfFromFields DEF TakeConf
  <1>7. /\ M.receivedConf = L.receivedConf /\ M.confFrom = f /\ M.coinStarted = L.coinStarted
        /\ M.sentConf = L.sentConf
    BY <1>5 DEF Local
  <1>8. \A q \in AnyRound : q # r => SameAt(L, M, q)
    BY <1>1, <1>4, <1>6, <1>7
       DEF SameAt, SameBValsAt, SameBinAt, SameAuxsAt, SameConfsAt, SameCoinsAt, SameTermsAt,
           Same, SameBVals, SameAuxs, SameCoins, SameTerms
  <1>9. /\ SameBValsAt(L, M, r) /\ SameBinAt(L, M, r) /\ SameAuxsAt(L, M, r)
        /\ SameCoinsAt(L, M, r) /\ SameTermsAt(L, M, r)
    BY <1>6, <1>7
       DEF SameBValsAt, SameBinAt, SameAuxsAt, SameCoinsAt, SameTermsAt,
           Same, SameBVals, SameAuxs, SameCoins, SameTerms
  <1> QED BY <1>1, <1>4, <1>6, <1>7, <1>8, <1>9 DEF Touches, Same

StoresConf(L, M, s, values, r) ==
    /\ M.receivedConf[r][s] = values \/ M.receivedConf[r][s] = L.receivedConf[r][s]
    /\ L.receivedConf[r][s] = {} => M.receivedConf[r][s] = values
    /\ L.receivedConf[r][s] # {} => M.receivedConf[r][s] # {}
    /\ \A t \in Replica : t # s => M.receivedConf[r][t] = L.receivedConf[r][t]

LEMMA StoreConfAt ==
    ASSUME NEW L \in Local, NEW s \in Replica, NEW values \in SUBSET BOOLEAN,
           NEW r \in AnyRound, NEW M, M = StoreConf(L, s, values, r)
    PROVE  /\ Touches(L, M, r) /\ StoresConf(L, M, s, values, r)
           /\ M.confFrom[r] = L.confFrom[r] /\ M.sentConf[r] = L.sentConf[r]
           /\ SameBValsAt(L, M, r) /\ SameBinAt(L, M, r) /\ SameAuxsAt(L, M, r)
           /\ SameCoinsAt(L, M, r) /\ SameTermsAt(L, M, r)
  <1>1. PICK g \in [AnyRound -> [Replica -> SUBSET BOOLEAN]] : g = L.receivedConf
    BY DEF Local
  <1>2. PICK v : v = IF g[r][s] = {} THEN values ELSE g[r][s]
    OBVIOUS
  <1>3. PICK f : f = [g EXCEPT ![r][s] = v]
    OBVIOUS
  <1>4. /\ f[r][s] = v /\ \A t \in Replica : t # s => f[r][t] = g[r][t]
        /\ \A q \in AnyRound : q # r => f[q] = g[q]
    BY <1>3
  <1>5. M = [L EXCEPT !.receivedConf = f]
    BY <1>1, <1>2, <1>3 DEF StoreConf
  <1>6. M \in Local /\ Same(L, M)
    BY ReceivedConfFields DEF StoreConf
  <1>7. /\ M.receivedConf = f /\ M.confFrom = L.confFrom /\ M.coinStarted = L.coinStarted
        /\ M.sentConf = L.sentConf
    BY <1>5 DEF Local
  <1>8. \A q \in AnyRound : q # r => SameAt(L, M, q)
    BY <1>1, <1>4, <1>6, <1>7
       DEF SameAt, SameBValsAt, SameBinAt, SameAuxsAt, SameConfsAt, SameCoinsAt, SameTermsAt,
           Same, SameBVals, SameAuxs, SameCoins, SameTerms
  <1>9. /\ SameBValsAt(L, M, r) /\ SameBinAt(L, M, r) /\ SameAuxsAt(L, M, r)
        /\ SameCoinsAt(L, M, r) /\ SameTermsAt(L, M, r)
    BY <1>6, <1>7
       DEF SameBValsAt, SameBinAt, SameAuxsAt, SameCoinsAt, SameTermsAt,
           Same, SameBVals, SameAuxs, SameCoins, SameTerms
  <1>10. StoresConf(L, M, s, values, r)
    BY <1>1, <1>2, <1>4, <1>7 DEF StoresConf
  <1> QED BY <1>6, <1>7, <1>8, <1>9, <1>10 DEF Touches, Same

LEMMA SendConfAt ==
    ASSUME NEW L \in Local, NEW p \in Replica, NEW values \in SUBSET BOOLEAN,
           NEW r \in AnyRound, NEW M, M = SendConf(L, p, values, r)
    PROVE  /\ Touches(L, M, r)
           /\ M.sentConf[r] = values /\ M.confFrom[r] = L.confFrom[r] \cup {p}
           /\ M.receivedConf = L.receivedConf
           /\ SameBValsAt(L, M, r) /\ SameBinAt(L, M, r) /\ SameAuxsAt(L, M, r)
           /\ SameCoinsAt(L, M, r) /\ SameTermsAt(L, M, r)
  <1>1. PICK g \in [AnyRound -> SUBSET Replica] : g = L.confFrom
    BY DEF Local
  <1>2. PICK f : f = [g EXCEPT ![r] = @ \cup {p}]
    OBVIOUS
  <1>3. PICK h \in Bits : h = L.sentConf
    BY FieldTypes
  <1>4. PICK k : k = [h EXCEPT ![r] = values]
    OBVIOUS
  <1>5. /\ f[r] = g[r] \cup {p} /\ k[r] = values
        /\ \A q \in AnyRound : q # r => f[q] = g[q] /\ k[q] = h[q]
    BY <1>2, <1>4 DEF Bits
  <1>6. /\ M \in Local /\ M.sentConf = k
        /\ M.coinShares = L.coinShares /\ M.coinValue = L.coinValue
        /\ SameState(L, M) /\ SameBVals(L, M) /\ SameAuxs(L, M) /\ SameTerms(L, M)
    BY <1>3, <1>4, SendConfFields
  <1>7. M.receivedConf = L.receivedConf /\ M.confFrom = f /\ M.coinStarted = L.coinStarted
    <2>1. PICK K : K = [L EXCEPT !.sentConf = k]
      OBVIOUS
    <2>2. /\ K.confFrom = g /\ K.receivedConf = L.receivedConf
          /\ K.coinStarted = L.coinStarted
      BY <1>1, <2>1 DEF Local
    <2>3. M = [K EXCEPT !.confFrom = f]
      BY <1>1, <1>2, <1>3, <1>4, <2>1, <2>2 DEF SendConf
    <2> QED BY <2>1, <2>2, <2>3 DEF Local
  <1>8. \A q \in AnyRound : q # r => SameAt(L, M, q)
    BY <1>1, <1>3, <1>5, <1>6, <1>7
       DEF SameAt, SameBValsAt, SameBinAt, SameAuxsAt, SameConfsAt, SameCoinsAt, SameTermsAt,
           SameBVals, SameAuxs, SameTerms
  <1>9. /\ SameBValsAt(L, M, r) /\ SameBinAt(L, M, r) /\ SameAuxsAt(L, M, r)
        /\ SameCoinsAt(L, M, r) /\ SameTermsAt(L, M, r)
    BY <1>6, <1>7
       DEF SameBValsAt, SameBinAt, SameAuxsAt, SameCoinsAt, SameTermsAt,
           SameBVals, SameAuxs, SameTerms
  <1> QED BY <1>1, <1>5, <1>6, <1>7, <1>8, <1>9 DEF Touches

LEMMA StartCoinAt ==
    ASSUME NEW L \in Local, NEW r \in AnyRound, NEW M, M = StartCoin(L, r)
    PROVE  /\ Touches(L, M, r) /\ M.coinStarted[r] /\ M.coinShares[r] = L.coinShares[r]
           /\ M.coinValue[r] = L.coinValue[r]
           /\ SameBValsAt(L, M, r) /\ SameBinAt(L, M, r) /\ SameAuxsAt(L, M, r)
           /\ SameConfsAt(L, M, r) /\ SameTermsAt(L, M, r)
  <1>1. PICK g \in [AnyRound -> BOOLEAN] : g = L.coinStarted
    BY DEF Local
  <1>2. PICK f : f = [g EXCEPT ![r] = TRUE]
    OBVIOUS
  <1>4. f[r] /\ \A q \in AnyRound : q # r => f[q] = g[q]
    BY <1>2
  <1>5. M = [L EXCEPT !.coinStarted = f]
    BY <1>1, <1>2 DEF StartCoin
  <1>6. M \in Local /\ Same(L, M)
    BY CoinStartedFields DEF StartCoin
  <1>7. M.receivedConf = L.receivedConf /\ M.confFrom = L.confFrom /\ M.coinStarted = f
    BY <1>5 DEF Local
  <1>8. \A q \in AnyRound : q # r => SameAt(L, M, q)
    BY <1>1, <1>4, <1>6, <1>7
       DEF SameAt, SameBValsAt, SameBinAt, SameAuxsAt, SameConfsAt, SameCoinsAt, SameTermsAt,
           Same, SameBVals, SameAuxs, SameCoins, SameTerms
  <1>9. /\ SameBValsAt(L, M, r) /\ SameBinAt(L, M, r) /\ SameAuxsAt(L, M, r)
        /\ SameConfsAt(L, M, r) /\ SameTermsAt(L, M, r)
        /\ M.coinShares[r] = L.coinShares[r] /\ M.coinValue[r] = L.coinValue[r]
    BY <1>6, <1>7
       DEF SameBValsAt, SameBinAt, SameAuxsAt, SameConfsAt, SameTermsAt,
           Same, SameBVals, SameAuxs, SameCoins, SameTerms
  <1> QED BY <1>4, <1>6, <1>7, <1>8, <1>9 DEF Touches, Same

LEMMA StoreSharesAt ==
    ASSUME NEW L \in Local, NEW r \in AnyRound, NEW S \in SUBSET Replica,
           NEW M, M = StoreShares(L, S, r)
    PROVE  /\ Touches(L, M, r) /\ M.coinShares[r] = S
           /\ M.coinStarted[r] = L.coinStarted[r] /\ M.coinValue[r] = L.coinValue[r]
           /\ SameBValsAt(L, M, r) /\ SameBinAt(L, M, r) /\ SameAuxsAt(L, M, r)
           /\ SameConfsAt(L, M, r) /\ SameTermsAt(L, M, r)
  <1>1. PICK g \in [AnyRound -> SUBSET Replica] : g = L.coinShares
    BY FieldTypes
  <1>2. PICK f : f = [g EXCEPT ![r] = S]
    OBVIOUS
  <1>4. f[r] = S /\ \A q \in AnyRound : q # r => f[q] = g[q]
    BY <1>2
  <1>5. M = [L EXCEPT !.coinShares = f]
    BY <1>1, <1>2 DEF StoreShares
  <1>6. /\ M \in Local /\ M.coinShares = f
        /\ M.sentConf = L.sentConf /\ M.coinValue = L.coinValue
        /\ SameState(L, M) /\ SameBVals(L, M) /\ SameAuxs(L, M) /\ SameTerms(L, M)
    BY <1>1, <1>2, StoreSharesFields
  <1>7. /\ M.receivedConf = L.receivedConf /\ M.confFrom = L.confFrom
        /\ M.coinStarted = L.coinStarted
    BY <1>5 DEF Local
  <1>8. \A q \in AnyRound : q # r => SameAt(L, M, q)
    BY <1>1, <1>4, <1>6, <1>7
       DEF SameAt, SameBValsAt, SameBinAt, SameAuxsAt, SameConfsAt, SameCoinsAt, SameTermsAt,
           SameBVals, SameAuxs, SameTerms
  <1>9. /\ SameBValsAt(L, M, r) /\ SameBinAt(L, M, r) /\ SameAuxsAt(L, M, r)
        /\ SameConfsAt(L, M, r) /\ SameTermsAt(L, M, r)
    BY <1>6, <1>7
       DEF SameBValsAt, SameBinAt, SameAuxsAt, SameConfsAt, SameTermsAt,
           SameBVals, SameAuxs, SameTerms
  <1> QED BY <1>4, <1>6, <1>7, <1>8, <1>9 DEF Touches

LEMMA StoreCoinAt ==
    ASSUME NEW L \in Local, NEW r \in AnyRound, NEW v \in Bit, NEW M, M = StoreCoin(L, v, r)
    PROVE  /\ Touches(L, M, r) /\ M.coinValue[r] = v
           /\ M.coinStarted[r] = L.coinStarted[r] /\ M.coinShares[r] = L.coinShares[r]
           /\ SameBValsAt(L, M, r) /\ SameBinAt(L, M, r) /\ SameAuxsAt(L, M, r)
           /\ SameConfsAt(L, M, r) /\ SameTermsAt(L, M, r)
  <1>1. PICK g \in [AnyRound -> Bit] : g = L.coinValue
    BY FieldTypes
  <1>2. PICK f : f = [g EXCEPT ![r] = v]
    OBVIOUS
  <1>4. f[r] = v /\ \A q \in AnyRound : q # r => f[q] = g[q]
    BY <1>2
  <1>5. M = [L EXCEPT !.coinValue = f]
    BY <1>1, <1>2 DEF StoreCoin
  <1>6. /\ M \in Local /\ M.coinValue = f
        /\ M.sentConf = L.sentConf /\ M.coinShares = L.coinShares
        /\ SameState(L, M) /\ SameBVals(L, M) /\ SameAuxs(L, M) /\ SameTerms(L, M)
    BY <1>1, <1>2, CoinValueFields DEF StoreCoin
  <1>7. /\ M.receivedConf = L.receivedConf /\ M.confFrom = L.confFrom
        /\ M.coinStarted = L.coinStarted
    BY <1>5 DEF Local
  <1>8. \A q \in AnyRound : q # r => SameAt(L, M, q)
    BY <1>1, <1>4, <1>6, <1>7
       DEF SameAt, SameBValsAt, SameBinAt, SameAuxsAt, SameConfsAt, SameCoinsAt, SameTermsAt,
           SameBVals, SameAuxs, SameTerms
  <1>9. /\ SameBValsAt(L, M, r) /\ SameBinAt(L, M, r) /\ SameAuxsAt(L, M, r)
        /\ SameConfsAt(L, M, r) /\ SameTermsAt(L, M, r)
    BY <1>6, <1>7
       DEF SameBValsAt, SameBinAt, SameAuxsAt, SameConfsAt, SameTermsAt,
           SameBVals, SameAuxs, SameTerms
  <1> QED BY <1>4, <1>6, <1>7, <1>8, <1>9 DEF Touches

LEMMA StoreTermAt ==
    ASSUME NEW L \in Local, NEW s \in Replica, NEW b \in BOOLEAN, NEW r \in AnyRound,
           L.receivedTerm[r][s] = {}, NEW bit, bit = {b}, NEW M, M = StoreTerm(L, s, bit, r)
    PROVE  /\ Touches(L, M, r) /\ M.receivedTerm[r][s] = {b}
           /\ \A t \in Replica : t # s => M.receivedTerm[r][t] = L.receivedTerm[r][t]
           /\ SameBValsAt(L, M, r) /\ SameBinAt(L, M, r) /\ SameAuxsAt(L, M, r)
           /\ SameConfsAt(L, M, r) /\ SameCoinsAt(L, M, r)
  <1>0. {b} \in Bit
    BY DEF Bit
  <1>1. PICK g \in [AnyRound -> [Replica -> Bit]] : g = L.receivedTerm
    BY FieldTypes
  <1>2. PICK f : f = [g EXCEPT ![r][s] = {b}]
    OBVIOUS
  <1>4. /\ f[r][s] = {b} /\ \A t \in Replica : t # s => f[r][t] = g[r][t]
        /\ \A q \in AnyRound : q # r => f[q] = g[q]
    BY <1>2
  <1>5. M = [L EXCEPT !.receivedTerm = f]
    <2>1. M = [L EXCEPT !.receivedTerm[r][s] = {b}]
      BY DEF StoreTerm
    <2> QED BY <1>1, <1>2, <2>1
  <1>6. /\ M \in Local
        /\ SameState(L, M) /\ SameBVals(L, M) /\ SameAuxs(L, M) /\ SameCoins(L, M)
    BY <1>0, ReceivedTermFields
  <1>7. /\ M.receivedConf = L.receivedConf /\ M.confFrom = L.confFrom
        /\ M.coinStarted = L.coinStarted /\ M.receivedTerm = f
    BY <1>5 DEF Local
  <1>8. \A q \in AnyRound : q # r => SameAt(L, M, q)
    BY <1>1, <1>4, <1>6, <1>7
       DEF SameAt, SameBValsAt, SameBinAt, SameAuxsAt, SameConfsAt, SameCoinsAt, SameTermsAt,
           SameBVals, SameAuxs, SameCoins
  <1>9. /\ SameBValsAt(L, M, r) /\ SameBinAt(L, M, r) /\ SameAuxsAt(L, M, r)
        /\ SameConfsAt(L, M, r) /\ SameCoinsAt(L, M, r)
    BY <1>6, <1>7
       DEF SameBValsAt, SameBinAt, SameAuxsAt, SameConfsAt, SameCoinsAt,
           SameBVals, SameAuxs, SameCoins
  <1> QED BY <1>1, <1>4, <1>6, <1>7, <1>8, <1>9 DEF Touches

LEMMA StoreInputAt ==
    ASSUME NEW L \in Local, NEW b \in BOOLEAN, NEW M, M = StoreInput(L, b)
    PROVE  /\ M \in Local /\ M.input = {b} /\ M.round = L.round /\ M.decision = L.decision
           /\ \A q \in AnyRound : SameAt(L, M, q)
  <1>0. {b} \in Bit
    BY DEF Bit
  <1>1. /\ M \in Local /\ M.input = {b} /\ M.round = L.round /\ M.decision = L.decision
        /\ SameBVals(L, M) /\ SameAuxs(L, M) /\ SameCoins(L, M) /\ SameTerms(L, M)
    BY <1>0, InputFields DEF StoreInput
  <1>2. /\ M.receivedConf = L.receivedConf /\ M.confFrom = L.confFrom
        /\ M.coinStarted = L.coinStarted
    BY DEF Local, StoreInput
  <1>3. \A q \in AnyRound : SameAt(L, M, q)
    BY <1>1, <1>2
       DEF SameAt, SameBValsAt, SameBinAt, SameAuxsAt, SameConfsAt, SameCoinsAt, SameTermsAt,
           SameBVals, SameAuxs, SameCoins, SameTerms
  <1> QED BY <1>1, <1>3

LEMMA UpdateRoundAt ==
    ASSUME NEW p \in Replica, NEW L \in Local, NEW bit \in Bit, NEW r \in Round, r = L.round,
           NEW n, n = r + 1, NEW M, M = UpdateRound(p, L, r, bit)
    PROVE  /\ M \in Local /\ n \in AnyRound /\ M.round = n
           /\ M.input = L.input /\ M.decision = L.decision
           /\ \A q \in AnyRound : q # n => SameAt(L, M, q)
           /\ SameBinAt(L, M, n) /\ SameAuxsAt(L, M, n) /\ SameConfsAt(L, M, n)
           /\ SameCoinsAt(L, M, n) /\ SameTermsAt(L, M, n)
           /\ n > MaxRound => SameBValsAt(L, M, n)
           /\ n <= MaxRound =>
                  /\ M.sentBVal[n] = L.sentBVal[n] \cup bit
                  /\ \A b \in BOOLEAN :
                        M.receivedBVal[n][b] = L.receivedBVal[n][b] \cup
                                                   (IF b \in bit THEN {p} ELSE {})
  <1>1. r \in Nat /\ MaxRound \in Nat /\ r <= MaxRound /\ n \in AnyRound
    BY ModeAssumption DEF AnyRound, Round
  <1>2. PICK K : K = [L EXCEPT !.round = n]
    OBVIOUS
  <1>3. /\ K \in Local /\ K.input = L.input /\ K.decision = L.decision /\ K.round = n
        /\ SameBVals(L, K) /\ SameAuxs(L, K) /\ SameCoins(L, K) /\ SameTerms(L, K)
    BY <1>1, <1>2, RoundFields
  <1>4. K.receivedConf = L.receivedConf /\ K.confFrom = L.confFrom /\ K.coinStarted = L.coinStarted
    BY <1>2 DEF Local
  <1>5. CASE n > MaxRound
    <2>1. M = K
      BY <1>1, <1>2, <1>5 DEF UpdateRound
    <2>2. \A q \in AnyRound : SameAt(L, M, q)
      BY <1>3, <1>4, <2>1
         DEF SameAt, SameBValsAt, SameBinAt, SameAuxsAt, SameConfsAt, SameCoinsAt, SameTermsAt,
             SameBVals, SameAuxs, SameCoins, SameTerms
    <2>3. ~(n <= MaxRound)
      BY <1>1, <1>5
    <2> QED BY <1>1, <1>3, <2>1, <2>2, <2>3 DEF SameAt
  <1>6. CASE n <= MaxRound
    <2>1. PICK g \in Votes : g = L.receivedBVal
      BY FieldTypes
    <2>2. PICK h \in Bits : h = L.sentBVal
      BY FieldTypes
    <2>3. PICK k : k = [b \in BOOLEAN |-> IF b \in bit THEN g[n][b] \cup {p} ELSE g[n][b]]
      OBVIOUS
    <2>4. PICK f : f = [g EXCEPT ![n] = k]
      OBVIOUS
    <2>5. PICK j : j = [h EXCEPT ![n] = @ \cup bit]
      OBVIOUS
    <2>6. k \in [BOOLEAN -> SUBSET Replica]
      BY <1>1, <2>3 DEF Votes
    <2>7. f \in Votes /\ j \in Bits
      BY <1>1, <2>4, <2>5, <2>6 DEF Votes, Bits, Bit
    <2>8. PICK J : J = [K EXCEPT !.sentBVal = j]
      OBVIOUS
    <2>9. /\ J \in Local /\ J.sentBVal = j /\ J.receivedBVal = g
          /\ SameState(K, J) /\ SameAuxs(K, J) /\ SameCoins(K, J) /\ SameTerms(K, J)
      BY <1>3, <2>1, <2>7, <2>8, SentBValFields DEF SameBVals
    <2>10. M = [J EXCEPT !.receivedBVal = f]
      <3>1. K.sentBVal = h
        BY <1>3, <2>2 DEF SameBVals
      <3>2. M = [L EXCEPT !.round = n,
                          !.sentBVal[n] = @ \cup bit,
                          !.receivedBVal[n] =
                              [b \in BOOLEAN |-> IF b \in bit THEN @[b] \cup {p} ELSE @[b]]]
        BY <1>1, <1>6 DEF UpdateRound
      <3> QED BY <1>2, <2>1, <2>3, <2>4, <2>5, <2>8, <2>9, <3>1, <3>2
    <2>11. /\ M \in Local /\ M.receivedBVal = f /\ M.sentBVal = j
           /\ SameState(J, M) /\ SameAuxs(J, M) /\ SameCoins(J, M) /\ SameTerms(J, M)
      BY <2>7, <2>9, <2>10, ReceivedBValFields
    <2>12. /\ M.receivedConf = L.receivedConf /\ M.confFrom = L.confFrom
           /\ M.coinStarted = L.coinStarted
      <3>1. /\ J.receivedConf = K.receivedConf /\ J.confFrom = K.confFrom
            /\ J.coinStarted = K.coinStarted
        BY <1>3, <2>8 DEF Local
      <3>2. /\ M.receivedConf = J.receivedConf /\ M.confFrom = J.confFrom
            /\ M.coinStarted = J.coinStarted
        BY <2>9, <2>10 DEF Local
      <3> QED BY <1>4, <3>1, <3>2
    <2>13. /\ M.round = n /\ M.input = L.input /\ M.decision = L.decision
           /\ SameAuxs(L, M) /\ SameCoins(L, M) /\ SameTerms(L, M)
      BY <1>3, <2>9, <2>11 DEF SameState, SameAuxs, SameCoins, SameTerms
    <2>14. \A q \in AnyRound : q # n => f[q] = g[q] /\ j[q] = h[q]
      BY <2>4, <2>5 DEF Votes, Bits
    <2>15. \A q \in AnyRound : q # n => SameAt(L, M, q)
      BY <2>1, <2>2, <2>11, <2>12, <2>13, <2>14
         DEF SameAt, SameBValsAt, SameBinAt, SameAuxsAt, SameConfsAt, SameCoinsAt, SameTermsAt,
             SameAuxs, SameCoins, SameTerms
    <2>16. /\ SameBinAt(L, M, n) /\ SameAuxsAt(L, M, n) /\ SameConfsAt(L, M, n)
           /\ SameCoinsAt(L, M, n) /\ SameTermsAt(L, M, n)
      BY <2>12, <2>13
         DEF SameBinAt, SameAuxsAt, SameConfsAt, SameCoinsAt, SameTermsAt,
             SameAuxs, SameCoins, SameTerms
    <2>17. j[n] = h[n] \cup bit /\ f[n] = k
      BY <1>1, <2>4, <2>5 DEF Votes, Bits
    <2>18. \A b \in BOOLEAN : k[b] = g[n][b] \cup (IF b \in bit THEN {p} ELSE {})
      BY <2>3
    <2>19. ~(n > MaxRound)
      BY <1>1, <1>6
    <2> QED BY <1>1, <2>1, <2>2, <2>11, <2>13, <2>15, <2>16, <2>17, <2>18, <2>19
  <1>7. n > MaxRound \/ n <= MaxRound
    BY <1>1
  <1> QED BY <1>5, <1>6, <1>7

-----------------------------------------------------------------------------
(***************************************************************************)
(* What a replica that has not decided has done by the time a handler is   *)
(* left, threshold by threshold.                                           *)
(***************************************************************************)
TermsFor(L, q, b) == {t \in Replica : L.receivedTerm[q][t] = {b}}

\* bin_values has the bits of 2F+1 BVALs; of a later round only TERMs have come.
BValsAt(p, L, q) ==
    \A b \in BOOLEAN :
        /\ b \in L.binValues[q] => Cardinality(L.receivedBVal[q][b]) >= 2 * F + 1
        /\ b \in L.sentBVal[q] => p \in L.receivedBVal[q][b]
        /\ L.round < q => /\ L.receivedBVal[q][b] \subseteq TermsFor(L, q, b)
                          /\ Cardinality(TermsFor(L, q, b)) <= F
BinAll(L, q, b) == Cardinality(L.receivedBVal[q][b]) >= 2 * F + 1 => b \in L.binValues[q]
\* A round begins with a BVAL and is left with a bin_values.
RoundsAt(L, q) ==
    /\ q < L.round => L.binValues[q] # {}
    /\ 0 < q /\ q <= L.round /\ q <= MaxRound => L.sentBVal[q] # {}
    /\ q = 0 /\ L.input # {} => L.sentBVal[q] # {}
\* One bit of bin_values is sent by AUX, to itself too.
AuxsAt(p, L, q) ==
    /\ L.sentAux[q] \subseteq L.binValues[q]
    /\ L.binValues[q] # {} => L.sentAux[q] # {}
    /\ \A b \in BOOLEAN : b \in L.sentAux[q] <=> p \in L.receivedAux[q][b]
\* N - F AUXs of bin_values are followed by CONF.
AuxsSeen(L, q) == L.binValues[q] # {} /\ CountAux(L, q) >= N - F => L.sentConf[q] # {}
ConfsAt(p, L, q) ==
    /\ L.sentConf[q] # {} => p \in L.confFrom[q]
    /\ L.sentConf[q] \subseteq L.binValues[q]
    /\ L.receivedConf[q][p] \subseteq L.binValues[q]
    /\ \A s \in L.confFrom[q] : L.receivedConf[q][s] # {}
\* The coin is invoked after CONF, and known with 2F+1 shares.
CoinsAt(L, q) ==
    /\ L.coinStarted[q] => L.sentConf[q] # {}
    /\ L.coinValue[q] = {} => Cardinality(L.coinShares[q]) <= 2 * F
OwnShare(p, L, q) == L.coinStarted[q] => p \in L.coinShares[q] \/ L.coinValue[q] # {}
\* An invoked coin that is known has ended the round.
CoinActedOn(L, q) == L.coinStarted[q] /\ L.coinValue[q] # {} => q < L.round

CoreAt(p, L, q) == /\ BValsAt(p, L, q) /\ RoundsAt(L, q) /\ AuxsAt(p, L, q)
                   /\ ConfsAt(p, L, q) /\ CoinsAt(L, q)
SteadyAt(p, L, q) == CoreAt(p, L, q) /\ AuxsSeen(L, q) /\ OwnShare(p, L, q) /\ CoinActedOn(L, q)
Steady(p, L) == \A q \in AnyRound : SteadyAt(p, L, q)

LEMMA SameParts ==
    ASSUME NEW p, NEW L, NEW M, NEW q \in AnyRound
    PROVE  /\ SameBValsAt(L, M, q) /\ SameBinAt(L, M, q) /\ SameTermsAt(L, M, q)
              /\ M.round = L.round /\ BValsAt(p, L, q) => BValsAt(p, M, q)
           /\ SameBValsAt(L, M, q) /\ SameBinAt(L, M, q)
              /\ M.round = L.round /\ M.input = L.input /\ RoundsAt(L, q) => RoundsAt(M, q)
           /\ SameAuxsAt(L, M, q) /\ SameBinAt(L, M, q) /\ AuxsAt(p, L, q) => AuxsAt(p, M, q)
           /\ SameAuxsAt(L, M, q) /\ SameBinAt(L, M, q) /\ M.sentConf[q] = L.sentConf[q]
              /\ AuxsSeen(L, q) => AuxsSeen(M, q)
           /\ SameConfsAt(L, M, q) /\ SameBinAt(L, M, q) /\ ConfsAt(p, L, q) => ConfsAt(p, M, q)
           /\ SameCoinsAt(L, M, q) /\ M.sentConf[q] = L.sentConf[q] /\ CoinsAt(L, q) => CoinsAt(M, q)
           /\ SameCoinsAt(L, M, q) /\ OwnShare(p, L, q) => OwnShare(p, M, q)
           /\ SameCoinsAt(L, M, q) /\ L.round <= M.round /\ L.round \in Nat /\ M.round \in Nat
              /\ CoinActedOn(L, q) => CoinActedOn(M, q)
  <1>1. SameBValsAt(L, M, q) /\ SameBinAt(L, M, q) /\ SameTermsAt(L, M, q)
        /\ M.round = L.round /\ BValsAt(p, L, q) => BValsAt(p, M, q)
    BY DEF SameBValsAt, SameBinAt, SameTermsAt, BValsAt, TermsFor
  <1>2. SameBValsAt(L, M, q) /\ SameBinAt(L, M, q)
        /\ M.round = L.round /\ M.input = L.input /\ RoundsAt(L, q) => RoundsAt(M, q)
    BY DEF SameBValsAt, SameBinAt, RoundsAt
  <1>3. SameAuxsAt(L, M, q) /\ SameBinAt(L, M, q) /\ AuxsAt(p, L, q) => AuxsAt(p, M, q)
    BY DEF SameAuxsAt, SameBinAt, AuxsAt
  <1>4. SameAuxsAt(L, M, q) /\ SameBinAt(L, M, q) => CountAux(M, q) = CountAux(L, q)
    BY DEF SameAuxsAt, SameBinAt, CountAux
  <1>5. SameAuxsAt(L, M, q) /\ SameBinAt(L, M, q) /\ M.sentConf[q] = L.sentConf[q]
        /\ AuxsSeen(L, q) => AuxsSeen(M, q)
    BY <1>4 DEF SameBinAt, AuxsSeen
  <1>6. SameConfsAt(L, M, q) /\ SameBinAt(L, M, q) /\ ConfsAt(p, L, q) => ConfsAt(p, M, q)
    BY DEF SameConfsAt, SameBinAt, ConfsAt
  <1>7. /\ SameCoinsAt(L, M, q) /\ M.sentConf[q] = L.sentConf[q] /\ CoinsAt(L, q) => CoinsAt(M, q)
        /\ SameCoinsAt(L, M, q) /\ OwnShare(p, L, q) => OwnShare(p, M, q)
    BY DEF SameCoinsAt, CoinsAt, OwnShare
  <1>8. SameCoinsAt(L, M, q) /\ L.round <= M.round /\ L.round \in Nat /\ M.round \in Nat
        /\ CoinActedOn(L, q) => CoinActedOn(M, q)
    BY RoundTypes DEF SameCoinsAt, CoinActedOn
  <1> QED BY <1>1, <1>2, <1>3, <1>5, <1>6, <1>7, <1>8

\* What goes on in one round leaves the others as they were.
LEMMA TouchesOne ==
    ASSUME NEW p, NEW L \in Local, NEW r \in AnyRound, NEW M, Touches(L, M, r),
           NEW q \in AnyRound, q # r
    PROVE  /\ CoreAt(p, L, q) => CoreAt(p, M, q)
           /\ AuxsSeen(L, q) => AuxsSeen(M, q)
           /\ OwnShare(p, L, q) => OwnShare(p, M, q)
           /\ CoinActedOn(L, q) => CoinActedOn(M, q)
  <1>1. SameAt(L, M, q) /\ M.round = L.round /\ M.input = L.input
    BY DEF Touches, SameState
  <1>2. L.round \in Nat
    BY FieldTypes, RoundTypes
  <1>3. L.round <= M.round /\ M.round \in Nat
    BY <1>1, <1>2
  <1>4. M.sentConf[q] = L.sentConf[q]
    BY <1>1 DEF SameAt, SameConfsAt
  <1> QED BY <1>1, <1>2, <1>3, <1>4, SameParts DEF SameAt, CoreAt

\* What a handler leaves to those that go on from there.
OnwardAt(p, L, M, q) ==
    /\ L.binValues[q] \subseteq M.binValues[q]
    /\ \A t \in Replica : t # p => M.receivedConf[q][t] = L.receivedConf[q][t]
    /\ \A b \in BOOLEAN : /\ L.receivedBVal[q][b] \subseteq M.receivedBVal[q][b]
                          /\ BinAll(L, q, b) => BinAll(M, q, b)
Onward(p, L, M) == /\ M \in Local /\ L.round <= M.round
                   /\ \A q \in AnyRound : OnwardAt(p, L, M, q)

LEMMA OnwardSame ==
    ASSUME NEW p, NEW L, NEW M, NEW q \in AnyRound, SameBValsAt(L, M, q), SameBinAt(L, M, q),
           \A t \in Replica : t # p => M.receivedConf[q][t] = L.receivedConf[q][t]
    PROVE  OnwardAt(p, L, M, q)
  BY DEF OnwardAt, SameBValsAt, SameBinAt, BinAll

LEMMA OnwardTouches ==
    ASSUME NEW p, NEW L \in Local, NEW r \in AnyRound, NEW M, Touches(L, M, r),
           OnwardAt(p, L, M, r)
    PROVE  Onward(p, L, M)
  <1>1. \A q \in AnyRound : q # r => OnwardAt(p, L, M, q)
    BY OnwardSame DEF Touches, SameAt, SameConfsAt
  <1>2. M \in Local /\ M.round = L.round /\ M.input = L.input /\ L.round \in Nat
    BY FieldTypes, RoundTypes DEF Touches, SameState
  <1>3. L.round <= M.round
    BY <1>2
  <1> QED BY <1>1, <1>2, <1>3 DEF Onward

LEMMA OnwardSelf == \A p, L : L \in Local => Onward(p, L, L)
  <1> SUFFICES ASSUME NEW p, NEW L \in Local PROVE Onward(p, L, L)
    OBVIOUS
  <1>1. L.round \in Nat
    BY FieldTypes, RoundTypes
  <1>2. L.round <= L.round
    BY <1>1
  <1> QED BY <1>2 DEF Onward, OnwardAt

LEMMA OnwardTransitive ==
    ASSUME NEW p, NEW L \in Local, NEW K, NEW M, Onward(p, L, K), Onward(p, K, M)
    PROVE  Onward(p, L, M)
  <1>1. L.round \in Nat /\ K.round \in Nat /\ M.round \in Nat
    BY FieldTypes, RoundTypes DEF Onward
  <1>2. L.round <= M.round
    BY <1>1 DEF Onward
  <1>3. \A q \in AnyRound : OnwardAt(p, L, K, q) /\ OnwardAt(p, K, M, q) => OnwardAt(p, L, M, q)
    BY DEF OnwardAt
  <1> QED BY <1>2, <1>3 DEF Onward

\* A coin that has just become known may still have to be acted on.
SteadyBut(p, L, r) == \A q \in AnyRound : /\ CoreAt(p, L, q) /\ AuxsSeen(L, q) /\ OwnShare(p, L, q)
                                          /\ q # r => CoinActedOn(L, q)

\* A round that is left, or that something but TERMs was received of, is not a later one.
LEMMA BinNow ==
    ASSUME NEW p, NEW L \in Local, NEW q \in AnyRound, BValsAt(p, L, q), L.binValues[q] # {}
    PROVE  q <= L.round
  <1>1. PICK b \in BOOLEAN : b \in L.binValues[q]
    BY FieldTypes DEF Bits
  <1>2. Cardinality(L.receivedBVal[q][b]) >= 2 * F + 1
    BY <1>1 DEF BValsAt
  <1>3. PICK S \in SUBSET Replica : S = L.receivedBVal[q][b]
    BY FieldTypes DEF Votes
  <1>4. PICK T \in SUBSET Replica : T = TermsFor(L, q, b)
    BY DEF TermsFor
  <1>5. IsFiniteSet(T) /\ Cardinality(S) \in Nat /\ Cardinality(T) \in Nat
    BY ReplicaAssumption, FS_Subset, FS_CardinalityType
  <1>6. S \subseteq T => Cardinality(S) <= Cardinality(T)
    BY <1>5, FS_Subset
  <1>7. L.round < q => Cardinality(S) <= Cardinality(T) /\ Cardinality(T) <= F
    BY <1>3, <1>4, <1>6 DEF BValsAt
  <1>8. ~(L.round < q)
    BY <1>2, <1>3, <1>5, <1>7, FAssumption
  <1>9. L.round \in Nat /\ q \in Nat
    BY FieldTypes, RoundTypes
  <1> QED BY <1>8, <1>9

LEMMA UpdateRoundSteady ==
    ASSUME NEW p \in Running, NEW L \in Local, NEW r \in Round, SteadyBut(p, L, r),
           r = L.round, L.binValues[r] # {}, NEW bit \in Bit, bit # {},
           NEW M, M = UpdateRound(p, L, r, bit)
    PROVE  Steady(p, M) /\ Onward(p, L, M)
  <1>0. r \in AnyRound /\ p \in Replica
    BY RoundTypes
  <1>1. PICK n : n = r + 1
    OBVIOUS
  <1>2. /\ M \in Local /\ n \in AnyRound /\ M.round = n
        /\ M.input = L.input /\ M.decision = L.decision
        /\ \A q \in AnyRound : q # n => SameAt(L, M, q)
        /\ SameBinAt(L, M, n) /\ SameAuxsAt(L, M, n) /\ SameConfsAt(L, M, n)
        /\ SameCoinsAt(L, M, n) /\ SameTermsAt(L, M, n)
    BY <1>0, <1>1, UpdateRoundAt
  <1>3. /\ n > MaxRound => SameBValsAt(L, M, n)
        /\ n <= MaxRound =>
               /\ M.sentBVal[n] = L.sentBVal[n] \cup bit
               /\ \A b \in BOOLEAN :
                     M.receivedBVal[n][b] = L.receivedBVal[n][b] \cup
                                                (IF b \in bit THEN {p} ELSE {})
    BY <1>0, <1>1, UpdateRoundAt
  <1>4. r \in Nat /\ n \in Nat /\ MaxRound \in Nat /\ L.round < n /\ L.round <= M.round
    BY <1>0, <1>1, <1>2, RoundTypes, ModeAssumption
  <1>5. L.binValues[n] = {}
    <2>1. BValsAt(p, L, n)
      BY <1>2 DEF SteadyBut, CoreAt
    <2>2. ~(n <= L.round)
      BY <1>4
    <2> QED BY <1>2, <2>1, <2>2, BinNow
  <1>6. \A b \in BOOLEAN : Cardinality(L.receivedBVal[n][b]) <= F
    <2> SUFFICES ASSUME NEW b \in BOOLEAN PROVE Cardinality(L.receivedBVal[n][b]) <= F
      OBVIOUS
    <2>1. /\ L.receivedBVal[n][b] \subseteq TermsFor(L, n, b)
          /\ Cardinality(TermsFor(L, n, b)) <= F
      BY <1>2, <1>4 DEF SteadyBut, CoreAt, BValsAt
    <2>2. PICK S \in SUBSET Replica : S = L.receivedBVal[n][b]
      BY <1>2, FieldTypes DEF Votes
    <2>3. PICK T \in SUBSET Replica : T = TermsFor(L, n, b)
      BY DEF TermsFor
    <2>4. IsFiniteSet(T) /\ Cardinality(S) \in Nat /\ Cardinality(T) \in Nat
      BY ReplicaAssumption, FS_Subset, FS_CardinalityType
    <2>5. Cardinality(S) <= Cardinality(T)
      BY <2>1, <2>2, <2>3, <2>4, FS_Subset
    <2> QED BY <2>1, <2>2, <2>3, <2>4, <2>5, FAssumption
  <1>7. \A b \in BOOLEAN : Cardinality(M.receivedBVal[n][b]) < 2 * F + 1
    <2> SUFFICES ASSUME NEW b \in BOOLEAN PROVE Cardinality(M.receivedBVal[n][b]) < 2 * F + 1
      OBVIOUS
    <2>1. PICK S \in SUBSET Replica : S = L.receivedBVal[n][b]
      BY <1>2, FieldTypes DEF Votes
    <2>2. M.receivedBVal[n][b] = S \/ M.receivedBVal[n][b] = S \cup {p}
      <3>1. CASE n > MaxRound
        BY <1>3, <2>1, <3>1 DEF SameBValsAt
      <3>2. CASE n <= MaxRound
        <4>1. M.receivedBVal[n][b] = S \cup (IF b \in bit THEN {p} ELSE {})
          BY <1>3, <2>1, <3>2
        <4>2. S \cup {} = S
          OBVIOUS
        <4> QED BY <4>1, <4>2
      <3> QED BY <1>4, <3>1, <3>2
    <2>3. Cardinality(S) \in Nat /\ Cardinality(S) <= F
      BY <1>0, <1>6, <2>1, CountsOne
    <2>4. Cardinality(S \cup {p}) \in {Cardinality(S), Cardinality(S) + 1}
      BY <1>0, CountsOne
    <2>5. \A c \in Nat : c <= F => c < 2 * F + 1 /\ c + 1 < 2 * F + 1
      BY FAssumption
    <2>6. Cardinality(S) < 2 * F + 1 /\ Cardinality(S) + 1 < 2 * F + 1
      BY <2>3, <2>5
    <2> QED BY <2>2, <2>4, <2>6
  <1>8. SteadyAt(p, M, n)
    <2>1. CoreAt(p, L, n) /\ AuxsSeen(L, n) /\ OwnShare(p, L, n)
      BY <1>2 DEF SteadyBut
    <2>2. M.binValues[n] = {} /\ M.sentConf[n] = L.sentConf[n]
      BY <1>2, <1>5 DEF SameBinAt, SameConfsAt
    <2>3. BValsAt(p, M, n)
      <3>1. ASSUME NEW b \in BOOLEAN, b \in M.sentBVal[n] PROVE p \in M.receivedBVal[n][b]
        <4>1. b \in L.sentBVal[n] => p \in L.receivedBVal[n][b]
          BY <2>1 DEF CoreAt, BValsAt
        <4> QED BY <1>3, <1>4, <3>1, <4>1 DEF SameBValsAt
      <3>2. ~(M.round < n)
        BY <1>2, <1>4
      <3> QED BY <2>2, <3>1, <3>2 DEF BValsAt
    <2>4. RoundsAt(M, n)
      <3>1. ~(n < M.round) /\ n # 0
        BY <1>1, <1>2, <1>4
      <3>2. n <= MaxRound => M.sentBVal[n] # {}
        BY <1>3
      <3> QED BY <3>1, <3>2 DEF RoundsAt
    <2>5. AuxsAt(p, M, n) /\ ConfsAt(p, M, n) /\ CoinsAt(M, n)
      BY <1>2, <2>1, <2>2, SameParts DEF CoreAt
    <2>6. AuxsSeen(M, n) /\ OwnShare(p, M, n)
      BY <1>2, <2>1, <2>2, SameParts
    <2>7. CoinActedOn(M, n)
      <3>1. L.sentConf[n] = {}
        BY <1>5, <2>1 DEF CoreAt, ConfsAt
      <3>2. ~M.coinStarted[n]
        BY <1>2, <2>1, <3>1 DEF CoreAt, CoinsAt, SameCoinsAt
      <3> QED BY <3>2 DEF CoinActedOn
    <2> QED BY <2>3, <2>4, <2>5, <2>6, <2>7 DEF SteadyAt, CoreAt
  <1>9. ASSUME NEW q \in AnyRound, q # n PROVE SteadyAt(p, M, q)
    <2>1. CoreAt(p, L, q) /\ AuxsSeen(L, q) /\ OwnShare(p, L, q) /\ (q # r => CoinActedOn(L, q))
      BY DEF SteadyBut
    <2>2. SameAt(L, M, q) /\ M.sentConf[q] = L.sentConf[q]
      BY <1>2, <1>9 DEF SameAt, SameConfsAt
    <2>3. q \in Nat
      BY RoundTypes
    <2>4. BValsAt(p, M, q)
      <3>1. M.round < q => L.round < q
        BY <1>2, <1>4, <2>3
      <3>2. BValsAt(p, L, q)
        BY <2>1 DEF CoreAt
      <3>3. M.receivedBVal[q] = L.receivedBVal[q] /\ M.sentBVal[q] = L.sentBVal[q]
            /\ M.binValues[q] = L.binValues[q] /\ M.receivedTerm[q] = L.receivedTerm[q]
        BY <2>2 DEF SameAt, SameBValsAt, SameBinAt, SameTermsAt
      <3> QED BY <3>1, <3>2, <3>3 DEF BValsAt, TermsFor
    <2>5. RoundsAt(M, q)
      <3>1. /\ q < M.round => q < L.round \/ q = r
            /\ q <= M.round => q <= L.round
        BY <1>1, <1>2, <1>4, <1>9, <2>3
      <3>2. M.sentBVal[q] = L.sentBVal[q] /\ M.binValues[q] = L.binValues[q]
        BY <2>2 DEF SameAt, SameBValsAt, SameBinAt
      <3> QED BY <1>2, <2>1, <3>1, <3>2 DEF CoreAt, RoundsAt
    <2>6. AuxsAt(p, M, q) /\ ConfsAt(p, M, q) /\ CoinsAt(M, q) /\ AuxsSeen(M, q) /\ OwnShare(p, M, q)
      BY <2>1, <2>2, SameParts DEF SameAt, CoreAt
    <2>7. CoinActedOn(M, q)
      <3>1. CASE q = r
        BY <1>2, <1>4, <3>1 DEF CoinActedOn
      <3>2. CASE q # r
        <4>1. L.round \in Nat /\ M.round \in Nat /\ SameCoinsAt(L, M, q)
          BY <1>2, <1>4, <2>2 DEF SameAt
        <4> QED BY <1>4, <2>1, <3>2, <4>1, SameParts
      <3> QED BY <3>1, <3>2
    <2> QED BY <2>4, <2>5, <2>6, <2>7 DEF SteadyAt, CoreAt
  <1>10. OnwardAt(p, L, M, n)
    <2>1. \A b \in BOOLEAN : L.receivedBVal[n][b] \subseteq M.receivedBVal[n][b]
      BY <1>3, <1>4 DEF SameBValsAt
    <2>2. \A b \in BOOLEAN : BinAll(M, n, b)
      <3> SUFFICES ASSUME NEW b \in BOOLEAN PROVE BinAll(M, n, b)
        OBVIOUS
      <3>1. PICK S \in SUBSET Replica : S = M.receivedBVal[n][b]
        BY <1>2, FieldTypes DEF Votes
      <3>2. Cardinality(S) \in Nat /\ Cardinality(S) < 2 * F + 1
        BY <1>0, <1>7, <3>1, CountsOne
      <3>3. ~(Cardinality(S) >= 2 * F + 1)
        BY <3>2, FAssumption
      <3> QED BY <3>1, <3>3 DEF BinAll
    <2> QED BY <1>2, <2>1, <2>2 DEF OnwardAt, SameBinAt, SameConfsAt
  <1>11. \A q \in AnyRound : q # n => OnwardAt(p, L, M, q)
    BY <1>2, OnwardSame DEF SameAt, SameConfsAt
  <1> QED BY <1>2, <1>4, <1>8, <1>9, <1>10, <1>11 DEF Steady, Onward

\* What a handler leaves of a replica that has still not decided.
Settles(p, L, M) == M.decision = {} => Steady(p, M) /\ Onward(p, L, M)

LEMMA SettlesOnward ==
    ASSUME NEW p, NEW L \in Local, NEW K, NEW M, Onward(p, L, K), Settles(p, K, M)
    PROVE  Settles(p, L, M)
  <1> SUFFICES ASSUME M.decision = {} PROVE Steady(p, M) /\ Onward(p, L, M)
    BY DEF Settles
  <1>1. Steady(p, M) /\ Onward(p, K, M)
    BY DEF Settles
  <1> QED BY <1>1, OnwardTransitive

LEMMA SettlesSelf ==
    ASSUME NEW p, NEW L \in Local, Steady(p, L)
    PROVE  Settles(p, L, L)
  BY OnwardSelf DEF Settles

LEMMA SettlesTransitive ==
    ASSUME NEW p, NEW L \in Local, NEW K \in Local, NEW M, Settles(p, L, K), Settles(p, K, M),
           M.decision = {} => K.decision = {}
    PROVE  Settles(p, L, M)
  <1> SUFFICES ASSUME M.decision = {} PROVE Steady(p, M) /\ Onward(p, L, M)
    BY DEF Settles
  <1>1. Onward(p, L, K) /\ Steady(p, M) /\ Onward(p, K, M)
    BY DEF Settles
  <1> QED BY <1>1, OnwardTransitive

LEMMA TouchesTransitive ==
    ASSUME NEW L \in Local, NEW r \in AnyRound, NEW K, NEW M, Touches(L, K, r), Touches(K, M, r)
    PROVE  Touches(L, M, r)
  BY DEF Touches, SameState, SameAt, SameBValsAt, SameBinAt, SameAuxsAt, SameConfsAt,
         SameCoinsAt, SameTermsAt

\* A change of one round has that round to look at.
LEMMA SteadyOne ==
    ASSUME NEW p, NEW L \in Local, NEW r \in AnyRound, NEW M, Touches(L, M, r),
           \A q \in AnyRound : q # r => SteadyAt(p, L, q), SteadyAt(p, M, r)
    PROVE  Steady(p, M)
  <1>1. ASSUME NEW q \in AnyRound, q # r PROVE SteadyAt(p, M, q)
    BY <1>1, TouchesOne DEF SteadyAt
  <1> QED BY <1>1 DEF Steady

LEMMA TryUpdateRoundSteady ==
    ASSUME NEW p \in Running, NEW L \in Local, NEW r \in Round, SteadyBut(p, L, r),
           L.decision = {}, NEW M, M = TryUpdateRound(p, L, r)
    PROVE  Settles(p, L, M)
  <1> SUFFICES ASSUME M.decision = {} PROVE Steady(p, M) /\ Onward(p, L, M)
    BY DEF Settles
  <1>0. r \in AnyRound /\ p \in Replica
    BY RoundTypes
  <1>1. PICK V \in SUBSET BOOLEAN : V = ConfValues(L, r)
    BY <1>0, ConfValuesType
  <1>2. PICK C \in Bit : C = L.coinValue[r]
    BY <1>0, FieldTypes
  <1>3. CoreAt(p, L, r) /\ AuxsSeen(L, r) /\ OwnShare(p, L, r)
    BY <1>0 DEF SteadyBut
  <1>4. \A q \in AnyRound : q # r => SteadyAt(p, L, q)
    BY DEF SteadyBut, SteadyAt
  <1>5. CASE C = {} \/ V = {}
    <2>1. M = L
      BY <1>1, <1>2, <1>5 DEF TryUpdateRound
    <2>2. CoinActedOn(L, r)
      <3>1. L.coinStarted[r] => L.sentConf[r] # {} /\ L.sentConf[r] \subseteq L.binValues[r]
        BY <1>3 DEF CoreAt, CoinsAt, ConfsAt
      <3>2. L.coinStarted[r] => V # {}
        BY <1>1, <3>1 DEF ConfValues
      <3> QED BY <1>2, <1>5, <3>2 DEF CoinActedOn
    <2>3. Steady(p, L)
      BY <1>3, <1>4, <2>2 DEF Steady, SteadyAt
    <2> QED BY <2>1, <2>3, OnwardSelf
  <1>6. CASE C # {} /\ V # {}
    <2>1. L.binValues[r] # {}
      BY <1>1, <1>6 DEF ConfValues
    <2>2. V # C
      <3>1. SUFFICES ASSUME V = C PROVE FALSE
        OBVIOUS
      <3>2. M = Decide(p, L, C)
        BY <1>1, <1>2, <1>6, <3>1 DEF TryUpdateRound
      <3>3. M.decision = C
        BY <1>0, <3>2, DecideFields
      <3> QED BY <1>6, <3>3
    <2>3. PICK bit \in Bit : bit # {} /\ M = UpdateRound(p, L, r, bit)
      <3>1. CASE Cardinality(V) = 1
        <4>1. V \in Bit
          BY <1>0, <1>1, <3>1, ConfValuesType
        <4>2. M = UpdateRound(p, L, r, V)
          BY <1>1, <1>2, <1>6, <2>2, <3>1 DEF TryUpdateRound
        <4> QED BY <1>6, <4>1, <4>2
      <3>2. CASE Cardinality(V) # 1
        <4>1. M = UpdateRound(p, L, r, C)
          BY <1>1, <1>2, <1>6, <2>2, <3>2 DEF TryUpdateRound
        <4> QED BY <1>6, <4>1
      <3> QED BY <3>1, <3>2
    <2>4. L.round \in Nat /\ r \in Nat
      BY <1>0, FieldTypes, RoundTypes
    <2>5. r <= L.round
      BY <1>0, <1>3, <2>1, BinNow DEF CoreAt
    <2>6. CASE r < L.round
      <3>1. M = L
        BY <2>3, <2>6 DEF UpdateRound
      <3>2. CoinActedOn(L, r)
        BY <2>6 DEF CoinActedOn
      <3>3. Steady(p, L)
        BY <1>3, <1>4, <3>2 DEF Steady, SteadyAt
      <3> QED BY <3>1, <3>3, OnwardSelf
    <2>7. CASE r = L.round
      BY <2>1, <2>3, <2>7, UpdateRoundSteady
    <2> QED BY <2>4, <2>5, <2>6, <2>7
  <1> QED BY <1>5, <1>6

\* The coin of round r has been invoked, and may lack the share of p itself.
SteadyCoin(p, L, r) ==
    \A q \in AnyRound : /\ CoreAt(p, L, q) /\ AuxsSeen(L, q)
                        /\ q # r => OwnShare(p, L, q) /\ CoinActedOn(L, q)

LEMMA HandleCoinSteady ==
    ASSUME Coins, NEW p \in Running, NEW L \in Local, NEW s \in Replica, NEW r \in Round,
           SteadyCoin(p, L, r), s # p => OwnShare(p, L, r),
           L.decision = {}, NEW M, M = HandleCoin(p, L, s, r)
    PROVE  Settles(p, L, M) \/ (M = L /\ L.coinValue[r] # {})
  <1>0. r \in AnyRound /\ p \in Replica
    BY RoundTypes
  <1>1. CASE L.coinValue[r] # {}
    BY <1>1 DEF HandleCoin
  <1>2. CASE L.coinValue[r] = {}
    <2>1. PICK S : S = L.coinShares[r] \cup {s}
      OBVIOUS
    <2>2. S \in SUBSET Replica
      BY <1>0, <2>1, FieldTypes
    <2>3. PICK K : K = StoreShares(L, S, r)
      OBVIOUS
    <2>4. /\ Touches(L, K, r) /\ K.coinShares[r] = S
          /\ K.coinStarted[r] = L.coinStarted[r] /\ K.coinValue[r] = L.coinValue[r]
          /\ SameBValsAt(L, K, r) /\ SameBinAt(L, K, r) /\ SameAuxsAt(L, K, r)
          /\ SameConfsAt(L, K, r) /\ SameTermsAt(L, K, r)
      BY <1>0, <2>2, <2>3, StoreSharesAt
    <2>5. K \in Local /\ SameState(L, K)
      BY <2>4 DEF Touches
    <2>6. Onward(p, L, K)
      BY <1>0, <2>4, OnwardTouches, OnwardSame DEF SameConfsAt
    <2>7. CoreAt(p, L, r) /\ AuxsSeen(L, r)
      BY <1>0 DEF SteadyCoin
    <2>8. /\ BValsAt(p, K, r) /\ RoundsAt(K, r) /\ AuxsAt(p, K, r) /\ ConfsAt(p, K, r)
          /\ AuxsSeen(K, r)
      BY <1>0, <2>4, <2>5, <2>7, SameParts DEF CoreAt, SameState, SameConfsAt
    <2>9. OwnShare(p, K, r)
      <3>1. L.coinStarted[r] => p \in S
        BY <1>2, <2>1 DEF OwnShare
      <3> QED BY <2>4, <3>1 DEF OwnShare
    <2>10. K.coinStarted[r] => K.sentConf[r] # {}
      BY <2>4, <2>7 DEF CoreAt, CoinsAt, SameConfsAt
    <2>11. \A q \in AnyRound : q # r => SteadyAt(p, L, q)
      BY DEF SteadyCoin, SteadyAt
    <2>12. CASE Cardinality(S) < 2 * F + 1
      <3>1. M = K
        BY <1>2, <2>1, <2>3, <2>12 DEF HandleCoin, StoreShares
      <3>2. Cardinality(S) \in Nat
        BY <1>0, <2>2, CountsOne
      <3>3. Cardinality(S) <= 2 * F
        BY <2>12, <3>2, FAssumption
      <3>4. CoinsAt(K, r)
        BY <2>4, <2>10, <3>3 DEF CoinsAt
      <3>5. CoinActedOn(K, r)
        BY <1>2, <2>4 DEF CoinActedOn
      <3>6. SteadyAt(p, K, r)
        BY <2>8, <2>9, <3>4, <3>5 DEF SteadyAt, CoreAt
      <3>7. Steady(p, K)
        BY <1>0, <2>4, <2>11, <3>6, SteadyOne
      <3> QED BY <2>6, <3>1, <3>7 DEF Settles
    <2>13. CASE ~(Cardinality(S) < 2 * F + 1)
      <3>1. PICK v : v = CombinedCoin(p, S, r)
        OBVIOUS
      <3>2. v \in Bit /\ v # {}
        BY <3>1, CombinedCoinType DEF CombinedCoin
      <3>3. PICK J : J = StoreCoin(K, v, r)
        OBVIOUS
      <3>4. M = TryUpdateRound(p, J, r)
        BY <1>2, <2>1, <2>3, <2>13, <3>1, <3>3 DEF HandleCoin, StoreShares, StoreCoin
      <3>5. /\ Touches(K, J, r) /\ J.coinValue[r] = v
            /\ J.coinStarted[r] = K.coinStarted[r] /\ J.coinShares[r] = K.coinShares[r]
            /\ SameBValsAt(K, J, r) /\ SameBinAt(K, J, r) /\ SameAuxsAt(K, J, r)
            /\ SameConfsAt(K, J, r) /\ SameTermsAt(K, J, r)
        BY <1>0, <2>5, <3>2, <3>3, StoreCoinAt
      <3>6. J \in Local /\ SameState(K, J)
        BY <3>5 DEF Touches
      <3>7. Onward(p, K, J)
        BY <1>0, <2>5, <3>5, OnwardTouches, OnwardSame DEF SameConfsAt
      <3>8. /\ BValsAt(p, J, r) /\ RoundsAt(J, r) /\ AuxsAt(p, J, r) /\ ConfsAt(p, J, r)
            /\ AuxsSeen(J, r)
        BY <1>0, <2>8, <3>5, <3>6, SameParts DEF SameState, SameConfsAt
      <3>9. CoinsAt(J, r) /\ OwnShare(p, J, r)
        BY <2>10, <3>2, <3>5 DEF CoinsAt, OwnShare, SameConfsAt
      <3>10. Touches(L, J, r)
        BY <1>0, <2>4, <3>5, TouchesTransitive
      <3>11. ASSUME NEW q \in AnyRound, q # r
             PROVE  /\ CoreAt(p, J, q) /\ AuxsSeen(J, q) /\ OwnShare(p, J, q)
                    /\ CoinActedOn(J, q)
        BY <1>0, <2>11, <3>10, <3>11, TouchesOne DEF SteadyAt
      <3>12. SteadyBut(p, J, r)
        BY <3>8, <3>9, <3>11 DEF SteadyBut, CoreAt
      <3>13. J.decision = {}
        BY <2>5, <3>6 DEF SameState
      <3>14. Settles(p, J, M)
        BY <3>4, <3>6, <3>12, <3>13, TryUpdateRoundSteady
      <3>15. Onward(p, L, J)
        BY <2>6, <3>7, OnwardTransitive
      <3> QED BY <3>14, <3>15, SettlesOnward
    <2> QED BY <2>12, <2>13
  <1> QED BY <1>1, <1>2

LEMMA TryFinishConfRoundSteady ==
    ASSUME Coins, NEW p \in Running, NEW L \in Local, NEW r \in Round, Steady(p, L),
           L.decision = {}, NEW M, M = TryFinishConfRound(p, L, r)
    PROVE  Settles(p, L, M)
  <1>0. r \in AnyRound /\ p \in Replica
    BY RoundTypes
  <1>1. CASE ConfValues(L, r) = {} \/ CountConf(L, r) < N - F \/ L.coinStarted[r]
    <2>1. M = L
      BY <1>1 DEF TryFinishConfRound
    <2> QED BY <2>1, SettlesSelf
  <1>2. CASE ~(ConfValues(L, r) = {} \/ CountConf(L, r) < N - F \/ L.coinStarted[r])
    <2>1. PICK K : K = StartCoin(L, r)
      OBVIOUS
    <2>2. PICK J : J = HandleCoin(p, K, p, r)
      OBVIOUS
    <2>3. M = TryUpdateRound(p, J, r)
      BY <1>2, <2>1, <2>2 DEF TryFinishConfRound, StartCoin
    <2>4. /\ Touches(L, K, r) /\ K.coinStarted[r] /\ K.coinShares[r] = L.coinShares[r]
          /\ K.coinValue[r] = L.coinValue[r]
          /\ SameBValsAt(L, K, r) /\ SameBinAt(L, K, r) /\ SameAuxsAt(L, K, r)
          /\ SameConfsAt(L, K, r) /\ SameTermsAt(L, K, r)
      BY <1>0, <2>1, StartCoinAt
    <2>5. K \in Local /\ SameState(L, K)
      BY <2>4 DEF Touches
    <2>6. Onward(p, L, K)
      BY <1>0, <2>4, OnwardTouches, OnwardSame DEF SameConfsAt
    <2>7. SteadyCoin(p, K, r)
      <3>1. CoreAt(p, L, r) /\ AuxsSeen(L, r)
        BY <1>0 DEF Steady, SteadyAt
      <3>2. /\ BValsAt(p, K, r) /\ RoundsAt(K, r) /\ AuxsAt(p, K, r) /\ ConfsAt(p, K, r)
            /\ AuxsSeen(K, r)
        BY <1>0, <2>4, <2>5, <3>1, SameParts DEF CoreAt, SameState, SameConfsAt
      <3>3. L.sentConf[r] # {}
        BY <1>2 DEF ConfValues
      <3>4. CoinsAt(K, r)
        BY <2>4, <3>1, <3>3 DEF CoreAt, CoinsAt, SameConfsAt
      <3>5. ASSUME NEW q \in AnyRound, q # r
            PROVE  /\ CoreAt(p, K, q) /\ AuxsSeen(K, q) /\ OwnShare(p, K, q)
                   /\ CoinActedOn(K, q)
        BY <1>0, <2>4, <3>5, TouchesOne DEF Steady, SteadyAt
      <3> QED BY <3>2, <3>4, <3>5 DEF SteadyCoin, CoreAt
    <2>8. K.decision = {}
      BY <2>5 DEF SameState
    <2>9. Settles(p, K, J) \/ (J = K /\ K.coinValue[r] # {})
      BY <1>0, <2>2, <2>5, <2>7, <2>8, HandleCoinSteady
    <2>10. J \in Local
      BY <1>0, <2>2, <2>5, HandleCoinKeeps DEF Keeps, KeepsOwn
    <2> SUFFICES ASSUME M.decision = {} PROVE Steady(p, M) /\ Onward(p, L, M)
      BY DEF Settles
    <2>11. J.decision = {}
      <3>1. Keeps(J, M)
        BY <2>3, <2>10, TryUpdateRoundKeeps
      <3> QED BY <3>1 DEF Keeps, KeepsOwn
    <2>12. SteadyBut(p, J, r) /\ Onward(p, L, J)
      <3>1. CASE Settles(p, K, J)
        <4>1. Steady(p, J) /\ Onward(p, K, J)
          BY <2>11, <3>1 DEF Settles
        <4>2. SteadyBut(p, J, r)
          BY <4>1 DEF Steady, SteadyAt, SteadyBut
        <4> QED BY <2>6, <4>1, <4>2, OnwardTransitive
      <3>2. CASE J = K /\ K.coinValue[r] # {}
        <4>1. OwnShare(p, K, r)
          BY <3>2 DEF OwnShare
        <4>2. SteadyBut(p, K, r)
          BY <2>7, <4>1 DEF SteadyCoin, SteadyBut
        <4> QED BY <2>6, <3>2, <4>2
      <3> QED BY <2>9, <3>1, <3>2
    <2>13. Settles(p, J, M)
      BY <2>3, <2>10, <2>11, <2>12, TryUpdateRoundSteady
    <2>14. Settles(p, L, M)
      BY <2>12, <2>13, SettlesOnward
    <2> QED BY <2>14 DEF Settles
  <1> QED BY <1>1, <1>2

\* The CONF a replica sends is received by itself at once.
LEMMA CountAuxType ==
    ASSUME NEW L \in Local, NEW r \in AnyRound
    PROVE  CountAux(L, r) \in Nat
  <1>1. PICK g \in [BOOLEAN -> SUBSET Replica] : g = L.receivedAux[r]
    BY FieldTypes DEF Votes
  <1>2. \A b \in BOOLEAN : Cardinality(g[b]) \in Nat
    BY ReplicaAssumption, FS_Subset, FS_CardinalityType
  <1>3. Cardinality(g[TRUE]) \in Nat /\ Cardinality(g[FALSE]) \in Nat
    BY <1>2
  <1>4. CountAux(L, r) = (IF TRUE \in L.binValues[r] THEN Cardinality(g[TRUE]) ELSE 0)
                         + (IF FALSE \in L.binValues[r] THEN Cardinality(g[FALSE]) ELSE 0)
    BY <1>1 DEF CountAux
  <1>5. PICK i \in Nat : i = IF TRUE \in L.binValues[r] THEN Cardinality(g[TRUE]) ELSE 0
    BY <1>3
  <1>6. PICK j \in Nat : j = IF FALSE \in L.binValues[r] THEN Cardinality(g[FALSE]) ELSE 0
    BY <1>3
  <1>7. CountAux(L, r) = i + j
    BY <1>4, <1>5, <1>6, Zenon
  <1> QED BY <1>7

LEMMA SizeType == N \in Nat /\ N - F \in Int
  BY ReplicaAssumption, FS_CardinalityType, FAssumption DEF N

LEMMA TryOutputSbvSteady ==
    ASSUME Coins, NEW p \in Running, NEW L \in Local, NEW r \in Round,
           \A q \in AnyRound : q # r => SteadyAt(p, L, q),
           CoreAt(p, L, r), OwnShare(p, L, r), CoinActedOn(L, r),
           L.decision = {}, NEW M, M = TryOutputSbv(p, L, r)
    PROVE  Settles(p, L, M)
  <1>0. r \in AnyRound /\ p \in Replica
    BY RoundTypes
  <1>1. CASE L.sentConf[r] # {} \/ L.binValues[r] = {} \/ CountAux(L, r) < N - F
    <2>1. M = L
      BY <1>1 DEF TryOutputSbv
    <2>2. AuxsSeen(L, r)
      BY <1>0, <1>1, CountAuxType, SizeType DEF AuxsSeen
    <2>3. Steady(p, L)
      BY <2>2 DEF Steady, SteadyAt
    <2> QED BY <2>1, <2>3, SettlesSelf
  <1>2. CASE ~(L.sentConf[r] # {} \/ L.binValues[r] = {} \/ CountAux(L, r) < N - F)
    <2>1. PICK V \in SUBSET BOOLEAN : V = L.binValues[r]
      BY <1>0, FieldTypes DEF Bits
    <2>2. PICK K : K = SendConf(L, p, V, r)
      OBVIOUS
    <2>3. PICK J : J = StoreConf(K, p, V, r)
      OBVIOUS
    <2>4. M = TryFinishConfRound(p, J, r)
      BY <1>2, <2>1, <2>2, <2>3 DEF TryOutputSbv, HandleConf, SendConf, StoreConf
    <2>5. /\ Touches(L, K, r)
          /\ K.sentConf[r] = V /\ K.confFrom[r] = L.confFrom[r] \cup {p}
          /\ K.receivedConf = L.receivedConf
          /\ SameBValsAt(L, K, r) /\ SameBinAt(L, K, r) /\ SameAuxsAt(L, K, r)
          /\ SameCoinsAt(L, K, r) /\ SameTermsAt(L, K, r)
      BY <1>0, <2>1, <2>2, SendConfAt
    <2>6. K \in Local /\ SameState(L, K)
      BY <2>5 DEF Touches
    <2>7. /\ Touches(K, J, r) /\ StoresConf(K, J, p, V, r)
          /\ J.confFrom[r] = K.confFrom[r] /\ J.sentConf[r] = K.sentConf[r]
          /\ SameBValsAt(K, J, r) /\ SameBinAt(K, J, r) /\ SameAuxsAt(K, J, r)
          /\ SameCoinsAt(K, J, r) /\ SameTermsAt(K, J, r)
      BY <1>0, <2>1, <2>3, <2>6, StoreConfAt
    <2>8. J \in Local /\ SameState(L, J)
      BY <2>6, <2>7 DEF Touches, SameState
    <2>9. Touches(L, J, r)
      BY <1>0, <2>5, <2>7, TouchesTransitive
    <2>10. /\ SameBValsAt(L, J, r) /\ SameBinAt(L, J, r) /\ SameAuxsAt(L, J, r)
           /\ SameCoinsAt(L, J, r) /\ SameTermsAt(L, J, r)
      BY <2>5, <2>7 DEF SameBValsAt, SameBinAt, SameAuxsAt, SameCoinsAt, SameTermsAt
    <2>11. /\ J.sentConf[r] = V /\ V # {} /\ J.binValues[r] = V
           /\ J.confFrom[r] = L.confFrom[r] \cup {p}
      BY <1>2, <2>1, <2>5, <2>7, <2>10 DEF SameBinAt
    <2>12. /\ BValsAt(p, J, r) /\ RoundsAt(J, r) /\ AuxsAt(p, J, r) /\ OwnShare(p, J, r)
      BY <1>0, <2>8, <2>10, SameParts DEF CoreAt, SameState
    <2>13. ConfsAt(p, J, r)
      <3>1. L.receivedConf[r][p] \subseteq V
        BY <2>1 DEF CoreAt, ConfsAt
      <3>2. J.receivedConf[r][p] \subseteq V /\ J.receivedConf[r][p] # {}
        BY <2>5, <2>7, <2>11, <3>1 DEF StoresConf
      <3>3. \A s \in L.confFrom[r] : L.receivedConf[r][s] # {}
        BY DEF CoreAt, ConfsAt
      <3>4. L.confFrom[r] \subseteq Replica
        BY <1>0 DEF Local
      <3>5. \A s \in L.confFrom[r] : s # p => J.receivedConf[r][s] # {}
        BY <2>5, <2>7, <3>3, <3>4 DEF StoresConf
      <3> QED BY <2>11, <3>2, <3>5 DEF ConfsAt
    <2>14. CoinsAt(J, r) /\ CoinActedOn(J, r) /\ AuxsSeen(J, r)
      <3>1. CoinsAt(L, r) /\ J.round = L.round
        BY <2>8 DEF CoreAt, SameState
      <3>2. CoinsAt(J, r) /\ AuxsSeen(J, r)
        BY <2>10, <2>11, <3>1 DEF CoinsAt, SameCoinsAt, AuxsSeen
      <3>3. CoinActedOn(J, r)
        BY <2>10, <3>1 DEF CoinActedOn, SameCoinsAt
      <3> QED BY <3>2, <3>3
    <2>15. SteadyAt(p, J, r)
      BY <2>12, <2>13, <2>14 DEF SteadyAt, CoreAt
    <2>16. Steady(p, J)
      BY <1>0, <2>9, <2>15, SteadyOne
    <2>17. Onward(p, L, J)
      <3>1. \A t \in Replica : t # p => J.receivedConf[r][t] = L.receivedConf[r][t]
        BY <2>5, <2>7 DEF StoresConf
      <3>2. OnwardAt(p, L, J, r)
        BY <1>0, <2>10, <3>1, OnwardSame
      <3> QED BY <1>0, <2>9, <3>2, OnwardTouches
    <2>18. J.decision = {}
      BY <2>8 DEF SameState
    <2>19. Settles(p, J, M)
      BY <2>4, <2>8, <2>16, <2>18, TryFinishConfRoundSteady
    <2> QED BY <2>17, <2>19, SettlesOnward
  <1> QED BY <1>1, <1>2

\* A vote counted; AUX of p itself is counted as it is sent.
LEMMA CountAuxSteady ==
    ASSUME Coins, NEW p \in Running, NEW L \in Local, NEW s \in Replica, NEW b \in BOOLEAN,
           NEW r \in Round, \A q \in AnyRound : q # r => SteadyAt(p, L, q),
           BValsAt(p, L, r), RoundsAt(L, r), ConfsAt(p, L, r), CoinsAt(L, r),
           OwnShare(p, L, r), CoinActedOn(L, r), L.decision = {},
           NEW K, K = StoreAux(L, s, b, r), AuxsAt(p, K, r),
           s \notin L.receivedAux[r][b], NEW M, M = HandleAux(p, L, s, b, r)
    PROVE  Settles(p, L, M)
  <1>0. r \in AnyRound /\ p \in Replica
    BY RoundTypes
  <1>1. M = TryOutputSbv(p, K, r)
    BY DEF HandleAux, StoreAux
  <1>2. /\ Touches(L, K, r)
        /\ SameBValsAt(L, K, r) /\ SameBinAt(L, K, r) /\ SameConfsAt(L, K, r)
        /\ SameCoinsAt(L, K, r) /\ SameTermsAt(L, K, r)
    BY <1>0, StoreAuxAt
  <1>3. K \in Local /\ SameState(L, K)
    BY <1>2 DEF Touches
  <1>4. K.round = L.round /\ K.input = L.input /\ K.decision = {} /\ K.sentConf[r] = L.sentConf[r]
    BY <1>2, <1>3 DEF SameState, SameConfsAt
  <1>5. BValsAt(p, K, r) /\ RoundsAt(K, r) /\ ConfsAt(p, K, r) /\ CoinsAt(K, r) /\ OwnShare(p, K, r)
    BY <1>0, <1>2, <1>4, SameParts
  <1>6. CoinActedOn(K, r)
    BY <1>2, <1>4 DEF CoinActedOn, SameCoinsAt
  <1>7. \A q \in AnyRound : q # r => SteadyAt(p, K, q)
    BY <1>0, <1>2, TouchesOne DEF SteadyAt
  <1>8. Settles(p, K, M)
    BY <1>1, <1>3, <1>4, <1>5, <1>6, <1>7, TryOutputSbvSteady DEF CoreAt
  <1>9. Onward(p, L, K)
    BY <1>0, <1>2, OnwardTouches, OnwardSame DEF SameConfsAt
  <1> QED BY <1>8, <1>9, SettlesOnward

LEMMA HandleAuxSteady ==
    ASSUME Coins, NEW p \in Running, NEW L \in Local, NEW s \in Replica, s # p,
           NEW b \in BOOLEAN, NEW r \in Round, Steady(p, L),
           L.decision = {}, NEW M, M = HandleAux(p, L, s, b, r)
    PROVE  Settles(p, L, M)
  <1>0. r \in AnyRound /\ p \in Replica
    BY RoundTypes
  <1>1. CASE s \in L.receivedAux[r][b]
    BY <1>1, SettlesSelf DEF HandleAux
  <1>2. CASE s \notin L.receivedAux[r][b]
    <2>1. PICK K : K = StoreAux(L, s, b, r)
      OBVIOUS
    <2>2. /\ K.receivedAux[r][b] = L.receivedAux[r][b] \cup {s}
          /\ \A d \in BOOLEAN : d # b => K.receivedAux[r][d] = L.receivedAux[r][d]
          /\ K.sentAux[r] = L.sentAux[r] /\ SameBinAt(L, K, r)
      BY <1>0, <2>1, StoreAuxAt
    <2>3. AuxsAt(p, L, r)
      BY <1>0 DEF Steady, SteadyAt, CoreAt
    <2>4. \A d \in BOOLEAN : p \in K.receivedAux[r][d] <=> p \in L.receivedAux[r][d]
      BY <2>2
    <2>5. AuxsAt(p, K, r)
      BY <2>2, <2>3, <2>4 DEF AuxsAt, SameBinAt
    <2>6. /\ BValsAt(p, L, r) /\ RoundsAt(L, r) /\ ConfsAt(p, L, r) /\ CoinsAt(L, r)
          /\ OwnShare(p, L, r) /\ CoinActedOn(L, r)
          /\ \A q \in AnyRound : q # r => SteadyAt(p, L, q)
      BY <1>0 DEF Steady, SteadyAt, CoreAt
    <2> QED BY <1>2, <2>1, <2>5, <2>6, CountAuxSteady
  <1> QED BY <1>1, <1>2

\* 2F+1 BVALs put the bit into bin_values; the first bit goes out as AUX.
LEMMA InsertBinValueSteady ==
    ASSUME Coins, NEW p \in Running, NEW L \in Local, NEW b \in BOOLEAN, NEW r \in Round,
           Steady(p, L), L.decision = {}, NEW M, M = InsertBinValue(p, L, b, r)
    PROVE  Settles(p, L, M) /\ (M.decision = {} => BinAll(M, r, b))
  <1>0. r \in AnyRound /\ p \in Replica
    BY RoundTypes
  <1>1. PICK S \in SUBSET Replica : S = L.receivedBVal[r][b]
    BY <1>0, FieldTypes DEF Votes
  <1>2. Cardinality(S) \in Nat
    BY <1>0, CountsOne
  <1>3. CASE Cardinality(S) < 2 * F + 1
    <2>1. M = L
      BY <1>1, <1>3 DEF InsertBinValue
    <2>2. ~(Cardinality(S) >= 2 * F + 1)
      BY <1>2, <1>3, FAssumption
    <2>3. BinAll(L, r, b)
      BY <1>1, <2>2 DEF BinAll
    <2> QED BY <2>1, <2>3, SettlesSelf
  <1>4. CASE ~(Cardinality(S) < 2 * F + 1)
    <2>1. PICK A : A = AddBinValue(L, b, r)
      OBVIOUS
    <2>2. /\ Touches(L, A, r) /\ A.binValues[r] = L.binValues[r] \cup {b}
          /\ SameBValsAt(L, A, r) /\ SameAuxsAt(L, A, r) /\ SameConfsAt(L, A, r)
          /\ SameCoinsAt(L, A, r) /\ SameTermsAt(L, A, r)
      BY <1>0, <2>1, AddBinValueAt
    <2>3. A \in Local /\ A.round = L.round /\ A.input = L.input /\ A.decision = {}
      BY <2>2 DEF Touches, SameState
    <2>4. CoreAt(p, L, r) /\ AuxsSeen(L, r) /\ OwnShare(p, L, r) /\ CoinActedOn(L, r)
      BY <1>0 DEF Steady, SteadyAt
    <2>5. Cardinality(S) >= 2 * F + 1
      BY <1>2, <1>4, FAssumption
    <2>6. BValsAt(p, A, r)
      <3>1. A.receivedBVal[r] = L.receivedBVal[r] /\ A.sentBVal[r] = L.sentBVal[r]
            /\ A.receivedTerm[r] = L.receivedTerm[r]
        BY <2>2 DEF SameBValsAt, SameTermsAt
      <3>2. ASSUME NEW d \in BOOLEAN, d \in A.binValues[r]
            PROVE  Cardinality(A.receivedBVal[r][d]) >= 2 * F + 1
        <4>1. CASE d = b
          BY <1>1, <2>5, <3>1, <4>1
        <4>2. CASE d # b
          <5>1. d \in L.binValues[r]
            BY <2>2, <3>2, <4>2
          <5> QED BY <2>4, <3>1, <5>1 DEF CoreAt, BValsAt
        <4> QED BY <4>1, <4>2
      <3>3. \A d \in BOOLEAN : TermsFor(A, r, d) = TermsFor(L, r, d)
        BY <3>1 DEF TermsFor
      <3>4. BValsAt(p, L, r)
        BY <2>4 DEF CoreAt
      <3> QED BY <2>3, <3>1, <3>2, <3>3, <3>4 DEF BValsAt
    <2>7. RoundsAt(A, r) /\ ConfsAt(p, A, r) /\ CoinsAt(A, r) /\ OwnShare(p, A, r)
          /\ CoinActedOn(A, r)
      <3>1. RoundsAt(A, r)
        BY <2>2, <2>3, <2>4 DEF CoreAt, RoundsAt, SameBValsAt
      <3>2. ConfsAt(p, A, r)
        BY <2>2, <2>4 DEF CoreAt, ConfsAt, SameConfsAt
      <3>3. CoinsAt(A, r) /\ OwnShare(p, A, r)
        BY <1>0, <2>2, <2>4, SameParts DEF CoreAt, SameConfsAt
      <3>4. CoinActedOn(A, r)
        BY <2>2, <2>3, <2>4 DEF CoinActedOn, SameCoinsAt
      <3> QED BY <3>1, <3>2, <3>3, <3>4
    <2>8. \A q \in AnyRound : q # r => SteadyAt(p, A, q)
      BY <1>0, <2>2, TouchesOne DEF Steady, SteadyAt
    <2>9. Onward(p, L, A)
      <3>1. OnwardAt(p, L, A, r)
        BY <2>2 DEF OnwardAt, BinAll, SameBValsAt, SameConfsAt
      <3> QED BY <1>0, <2>2, <3>1, OnwardTouches
    <2>10. /\ L.sentAux[r] \subseteq L.binValues[r]
           /\ L.binValues[r] # {} => L.sentAux[r] # {}
           /\ \A d \in BOOLEAN : d \in L.sentAux[r] <=> p \in L.receivedAux[r][d]
           /\ L.binValues[r] \subseteq BOOLEAN
      BY <1>0, <2>4, FieldTypes DEF CoreAt, AuxsAt, Bits
    <2>11. SUFFICES \E K \in Local : Onward(p, L, K) /\ b \in K.binValues[r] /\ Settles(p, K, M)
      <3>1. PICK K \in Local : Onward(p, L, K) /\ b \in K.binValues[r] /\ Settles(p, K, M)
        BY <2>11
      <3>2. Settles(p, L, M)
        BY <3>1, SettlesOnward
      <3>3. M.decision = {} => b \in M.binValues[r]
        BY <1>0, <3>1 DEF Settles, Onward, OnwardAt
      <3> QED BY <3>2, <3>3 DEF BinAll
    <2>12. CASE A.binValues[r] # BOOLEAN
      <3>1. PICK B : B = SendAux(A, b, r)
        OBVIOUS
      <3>2. M = HandleAux(p, B, p, b, r)
        BY <1>1, <1>4, <2>1, <2>12, <3>1 DEF InsertBinValue, AddBinValue, SendAux
      <3>3. /\ Touches(A, B, r) /\ B.sentAux[r] = A.sentAux[r] \cup {b}
            /\ B.receivedAux[r] = A.receivedAux[r]
            /\ SameBValsAt(A, B, r) /\ SameBinAt(A, B, r) /\ SameConfsAt(A, B, r)
            /\ SameCoinsAt(A, B, r) /\ SameTermsAt(A, B, r)
        BY <1>0, <2>3, <3>1, SendAuxAt
      <3>4. B \in Local /\ B.round = L.round /\ B.input = L.input /\ B.decision = {}
        BY <2>3, <3>3 DEF Touches, SameState
      <3>5. Onward(p, L, B)
        <4>1. Onward(p, A, B)
          BY <1>0, <2>3, <3>3, OnwardTouches, OnwardSame DEF SameConfsAt
        <4> QED BY <2>9, <4>1, OnwardTransitive
      <3>6. L.binValues[r] \subseteq {b}
        <4>1. L.binValues[r] \cup {b} # BOOLEAN
          BY <2>2, <2>12
        <4> QED BY <2>10, <4>1
      <3>7. /\ B.binValues[r] = {b} /\ B.sentAux[r] = {b}
            /\ B.receivedAux[r] = L.receivedAux[r]
        BY <2>2, <2>10, <3>3, <3>6 DEF SameAuxsAt, SameBinAt
      <3>8. CASE p \in B.receivedAux[r][b]
        <4>1. M = B
          BY <3>2, <3>8 DEF HandleAux
        <4>2. b \in L.sentAux[r]
          BY <2>10, <3>7, <3>8
        <4>3. L.binValues[r] = {b} /\ L.sentAux[r] = {b}
          BY <2>10, <3>6, <4>2
        <4>4. /\ SameBValsAt(L, B, r) /\ SameBinAt(L, B, r) /\ SameAuxsAt(L, B, r)
              /\ SameConfsAt(L, B, r) /\ SameCoinsAt(L, B, r) /\ SameTermsAt(L, B, r)
          BY <2>2, <3>3, <3>7, <4>3
             DEF SameBValsAt, SameBinAt, SameAuxsAt, SameConfsAt, SameCoinsAt, SameTermsAt
        <4>5. CoreAt(p, B, r) /\ AuxsSeen(B, r) /\ OwnShare(p, B, r)
          BY <1>0, <2>4, <3>4, <4>4, SameParts DEF CoreAt, SameConfsAt
        <4>6. CoinActedOn(B, r)
          BY <2>4, <3>4, <4>4 DEF CoinActedOn, SameCoinsAt
        <4>7. \A q \in AnyRound : q # r => SteadyAt(p, B, q)
          BY <1>0, <2>3, <2>8, <3>3, TouchesOne DEF SteadyAt
        <4>8. Steady(p, B)
          BY <4>5, <4>6, <4>7 DEF Steady, SteadyAt
        <4> QED BY <3>4, <3>5, <3>7, <4>1, <4>8, SettlesSelf
      <3>9. CASE p \notin B.receivedAux[r][b]
        <4>1. PICK C : C = StoreAux(B, p, b, r)
          OBVIOUS
        <4>2. /\ C.receivedAux[r][b] = B.receivedAux[r][b] \cup {p}
              /\ \A d \in BOOLEAN : d # b => C.receivedAux[r][d] = B.receivedAux[r][d]
              /\ C.sentAux[r] = B.sentAux[r] /\ SameBinAt(B, C, r)
          BY <1>0, <3>4, <4>1, StoreAuxAt
        <4>3. AuxsAt(p, C, r)
          <5>1. C.sentAux[r] = {b} /\ C.binValues[r] = {b}
            BY <3>7, <4>2 DEF SameBinAt
          <5>2. \A d \in BOOLEAN : d # b => p \notin C.receivedAux[r][d]
            BY <2>10, <3>6, <3>7, <4>2
          <5>3. p \in C.receivedAux[r][b]
            BY <4>2
          <5> QED BY <5>1, <5>2, <5>3 DEF AuxsAt
        <4>4. \A q \in AnyRound : q # r => SteadyAt(p, B, q)
          BY <1>0, <2>3, <2>8, <3>3, TouchesOne DEF SteadyAt
        <4>5. BValsAt(p, B, r) /\ RoundsAt(B, r) /\ ConfsAt(p, B, r) /\ CoinsAt(B, r)
              /\ OwnShare(p, B, r)
          BY <1>0, <2>3, <2>6, <2>7, <3>3, <3>4, SameParts DEF SameConfsAt
        <4>6. CoinActedOn(B, r)
          BY <2>3, <2>7, <3>3, <3>4 DEF CoinActedOn, SameCoinsAt
        <4>7. Settles(p, B, M)
          BY <1>0, <3>2, <3>4, <3>9, <4>1, <4>3, <4>4, <4>5, <4>6, CountAuxSteady
        <4> QED BY <3>4, <3>5, <3>7, <4>7
      <3> QED BY <3>8, <3>9
    <2>13. CASE A.binValues[r] = BOOLEAN
      <3>1. M = TryOutputSbv(p, A, r)
        BY <1>1, <1>4, <2>1, <2>13 DEF InsertBinValue, AddBinValue
      <3>2. L.binValues[r] # {}
        BY <2>2, <2>13
      <3>3. AuxsAt(p, A, r)
        BY <2>2, <2>10, <2>13, <3>2 DEF AuxsAt, SameAuxsAt
      <3>4. CoreAt(p, A, r)
        BY <2>6, <2>7, <3>3 DEF CoreAt
      <3>5. Settles(p, A, M)
        BY <2>3, <2>7, <2>8, <3>1, <3>4, TryOutputSbvSteady
      <3>6. b \in A.binValues[r]
        BY <2>13
      <3> QED BY <2>3, <2>9, <3>5, <3>6
    <2> QED BY <2>12, <2>13
  <1> QED BY <1>3, <1>4

LEMMA CountBValSteady ==
    ASSUME Coins, NEW p \in Running, NEW L \in Local, NEW s \in Replica, NEW b \in BOOLEAN,
           NEW r \in Round, NEW K, K = StoreBVal(L, s, b, r), Steady(p, K),
           s \notin L.receivedBVal[r][b], L.decision = {}, NEW M, M = CountBVal(p, L, s, b, r)
    PROVE  Settles(p, K, M) /\ (M.decision = {} => BinAll(M, r, b))
  <1>0. r \in AnyRound /\ p \in Replica
    BY RoundTypes
  <1>1. K \in Local /\ K.decision = {}
    BY <1>0, StoreBValAt DEF Touches, SameState
  <1>2. PICK J : J = EarlyDecide(p, K, b, r)
    OBVIOUS
  <1>3. M = InsertBinValue(p, J, b, r)
    BY <1>2 DEF CountBVal, StoreBVal
  <1>4. CASE J = K
    BY <1>1, <1>3, <1>4, InsertBinValueSteady
  <1>5. CASE J # K
    <2>1. J = Decide(p, K, {b}) /\ {b} \in Bit
      BY <1>2, <1>5 DEF EarlyDecide, Bit
    <2>2. J.decision = {b} /\ J \in Local
      BY <1>0, <1>1, <2>1, DecideFields
    <2>3. Keeps(J, M)
      BY <1>3, <2>2, InsertBinValueKeeps
    <2>4. M.decision # {}
      BY <2>2, <2>3 DEF Keeps, KeepsOwn
    <2> QED BY <2>4 DEF Settles
  <1> QED BY <1>4, <1>5

\* BValsAt but for the BVAL(b) of p itself, which is counted next.
BValsBut(p, L, q, b) ==
    \A d \in BOOLEAN :
        /\ d \in L.binValues[q] => Cardinality(L.receivedBVal[q][d]) >= 2 * F + 1
        /\ d \in L.sentBVal[q] /\ d # b => p \in L.receivedBVal[q][d]
        /\ L.round < q => /\ L.receivedBVal[q][d] \subseteq TermsFor(L, q, d)
                          /\ Cardinality(TermsFor(L, q, d)) <= F
RestAt(p, L, q) == /\ RoundsAt(L, q) /\ AuxsAt(p, L, q) /\ ConfsAt(p, L, q) /\ CoinsAt(L, q)
                   /\ AuxsSeen(L, q) /\ OwnShare(p, L, q) /\ CoinActedOn(L, q)

LEMMA StoreBValSteady ==
    ASSUME NEW p, NEW L \in Local, NEW s \in Replica, NEW b \in BOOLEAN, NEW r \in AnyRound,
           \A q \in AnyRound : q # r => SteadyAt(p, L, q),
           RestAt(p, L, r), BValsBut(p, L, r, b),
           s = p \/ (b \in L.sentBVal[r] => p \in L.receivedBVal[r][b]),
           L.round < r => s \in TermsFor(L, r, b),
           NEW K, K = StoreBVal(L, s, b, r)
    PROVE  Steady(p, K)
  <1>1. /\ Touches(L, K, r)
        /\ K.receivedBVal[r][b] = L.receivedBVal[r][b] \cup {s}
        /\ \A d \in BOOLEAN : d # b => K.receivedBVal[r][d] = L.receivedBVal[r][d]
        /\ K.sentBVal[r] = L.sentBVal[r]
        /\ SameBinAt(L, K, r) /\ SameAuxsAt(L, K, r) /\ SameConfsAt(L, K, r)
        /\ SameCoinsAt(L, K, r) /\ SameTermsAt(L, K, r)
    BY StoreBValAt
  <1>2. K \in Local /\ K.round = L.round /\ K.input = L.input
    BY <1>1 DEF Touches, SameState
  <1>3. \A d \in BOOLEAN : TermsFor(K, r, d) = TermsFor(L, r, d)
    BY <1>1 DEF TermsFor, SameTermsAt
  <1>4. K.binValues[r] = L.binValues[r]
    BY <1>1 DEF SameBinAt
  <1>5. ASSUME NEW d \in BOOLEAN
        PROVE  /\ d \in K.binValues[r] => Cardinality(K.receivedBVal[r][d]) >= 2 * F + 1
               /\ d \in K.sentBVal[r] => p \in K.receivedBVal[r][d]
               /\ K.round < r => /\ K.receivedBVal[r][d] \subseteq TermsFor(K, r, d)
                                 /\ Cardinality(TermsFor(K, r, d)) <= F
    <2>1. CASE d # b
      BY <1>1, <1>2, <1>3, <1>4, <2>1 DEF BValsBut
    <2>2. CASE d = b
      <3>1. PICK S \in SUBSET Replica : S = L.receivedBVal[r][b]
        BY FieldTypes DEF Votes
      <3>2. /\ Cardinality(S) \in Nat
            /\ Cardinality(S \cup {s}) = Cardinality(S) \/ Cardinality(S \cup {s}) = Cardinality(S) + 1
        BY CountsOne
      <3>3. Cardinality(S) >= 2 * F + 1 => Cardinality(S \cup {s}) >= 2 * F + 1
        BY <3>2, FAssumption
      <3>4. d \in K.binValues[r] => Cardinality(K.receivedBVal[r][d]) >= 2 * F + 1
        BY <1>1, <1>4, <2>2, <3>1, <3>3 DEF BValsBut
      <3>5. d \in K.sentBVal[r] => p \in K.receivedBVal[r][d]
        BY <1>1, <2>2
      <3>6. K.round < r => /\ K.receivedBVal[r][d] \subseteq TermsFor(K, r, d)
                           /\ Cardinality(TermsFor(K, r, d)) <= F
        BY <1>1, <1>2, <1>3, <2>2 DEF BValsBut
      <3> QED BY <3>4, <3>5, <3>6
    <2> QED BY <2>1, <2>2
  <1>6. BValsAt(p, K, r)
    BY <1>5 DEF BValsAt
  <1>7. RoundsAt(K, r)
    BY <1>1, <1>2, <1>4 DEF RoundsAt, RestAt
  <1>8. /\ AuxsAt(p, K, r) /\ ConfsAt(p, K, r) /\ CoinsAt(K, r) /\ AuxsSeen(K, r)
        /\ OwnShare(p, K, r)
    BY <1>1, SameParts DEF RestAt, SameConfsAt
  <1>9. CoinActedOn(K, r)
    BY <1>1, <1>2 DEF RestAt, CoinActedOn, SameCoinsAt
  <1>10. SteadyAt(p, K, r)
    BY <1>6, <1>7, <1>8, <1>9 DEF SteadyAt, CoreAt
  <1> QED BY <1>1, <1>10, SteadyOne

\* A counted BVAL may complete 2F+1, and then the bit is in bin_values.
LEMMA CountBValSettles ==
    ASSUME Coins, NEW p \in Running, NEW L \in Local, NEW s \in Replica, NEW b \in BOOLEAN,
           NEW r \in Round, NEW K, K = StoreBVal(L, s, b, r), Steady(p, K),
           s \notin L.receivedBVal[r][b], L.decision = {}, NEW M, M = CountBVal(p, L, s, b, r)
    PROVE  Settles(p, L, M)
  <1> SUFFICES ASSUME M.decision = {} PROVE Steady(p, M) /\ Onward(p, L, M)
    BY DEF Settles
  <1>0. r \in AnyRound
    BY RoundTypes
  <1>1. /\ Touches(L, K, r)
        /\ K.receivedBVal[r][b] = L.receivedBVal[r][b] \cup {s}
        /\ \A d \in BOOLEAN : d # b => K.receivedBVal[r][d] = L.receivedBVal[r][d]
        /\ SameBinAt(L, K, r) /\ SameConfsAt(L, K, r)
    BY <1>0, StoreBValAt
  <1>2. Settles(p, K, M) /\ BinAll(M, r, b)
    BY CountBValSteady
  <1>3. Steady(p, M) /\ Onward(p, K, M)
    BY <1>2 DEF Settles
  <1>4. M \in Local /\ L.round <= M.round
    BY <1>1, <1>3 DEF Onward, Touches, SameState
  <1>5. ASSUME NEW q \in AnyRound, q # r PROVE OnwardAt(p, L, M, q)
    <2>1. SameAt(L, K, q)
      BY <1>1, <1>5 DEF Touches
    <2>2. OnwardAt(p, L, K, q)
      BY <2>1, OnwardSame DEF SameAt, SameConfsAt
    <2>3. OnwardAt(p, K, M, q)
      BY <1>3 DEF Onward
    <2> QED BY <2>2, <2>3 DEF OnwardAt
  <1>6. OnwardAt(p, L, M, r)
    <2>1. OnwardAt(p, K, M, r)
      BY <1>0, <1>3 DEF Onward
    <2>2. /\ L.binValues[r] \subseteq M.binValues[r]
          /\ \A t \in Replica : t # p => M.receivedConf[r][t] = L.receivedConf[r][t]
      BY <1>1, <2>1 DEF OnwardAt, SameBinAt, SameConfsAt
    <2>3. ASSUME NEW d \in BOOLEAN
          PROVE  L.receivedBVal[r][d] \subseteq M.receivedBVal[r][d]
                 /\ (BinAll(L, r, d) => BinAll(M, r, d))
      <3>1. CASE d = b
        BY <1>1, <1>2, <2>1, <3>1 DEF OnwardAt
      <3>2. CASE d # b
        <4>1. BinAll(L, r, d) => BinAll(K, r, d)
          BY <1>1, <3>2 DEF BinAll, SameBinAt
        <4> QED BY <1>1, <2>1, <3>2, <4>1 DEF OnwardAt
      <3> QED BY <3>1, <3>2
    <2> QED BY <2>2, <2>3 DEF OnwardAt
  <1> QED BY <1>3, <1>4, <1>5, <1>6 DEF Onward

\* A BVAL of p itself.
LEMMA SupportSteady ==
    ASSUME Coins, NEW p \in Running, NEW L \in Local, NEW b \in BOOLEAN, NEW r \in Round,
           \A q \in AnyRound : q # r => SteadyAt(p, L, q),
           BValsAt(p, L, r), AuxsAt(p, L, r), ConfsAt(p, L, r), CoinsAt(L, r),
           AuxsSeen(L, r), OwnShare(p, L, r), CoinActedOn(L, r),
           L.decision = {}, r <= L.round,
           NEW J, J = SendBVal(L, b, r), RoundsAt(J, r), NEW M, M = CountBVal(p, J, p, b, r)
    PROVE  Settles(p, L, M)
  <1>0. r \in AnyRound /\ p \in Replica /\ r \in Nat /\ L.round \in Nat
    BY RoundTypes, FieldTypes
  <1>1. /\ Touches(L, J, r)
        /\ J.sentBVal[r] = L.sentBVal[r] \cup {b} /\ J.receivedBVal[r] = L.receivedBVal[r]
        /\ SameBinAt(L, J, r) /\ SameAuxsAt(L, J, r) /\ SameConfsAt(L, J, r)
        /\ SameCoinsAt(L, J, r) /\ SameTermsAt(L, J, r)
    BY <1>0, SendBValAt
  <1>2. J \in Local /\ J.round = L.round /\ J.input = L.input /\ J.decision = {}
    BY <1>1 DEF Touches, SameState
  <1>3. \A q \in AnyRound : q # r => SteadyAt(p, J, q)
    BY <1>0, <1>1, TouchesOne DEF SteadyAt
  <1>4. RestAt(p, J, r)
    <2>1. /\ AuxsAt(p, J, r) /\ ConfsAt(p, J, r) /\ CoinsAt(J, r) /\ AuxsSeen(J, r)
          /\ OwnShare(p, J, r)
      BY <1>0, <1>1, SameParts DEF SameConfsAt
    <2>2. CoinActedOn(J, r)
      BY <1>1, <1>2 DEF CoinActedOn, SameCoinsAt
    <2> QED BY <2>1, <2>2 DEF RestAt
  <1>5. ~(J.round < r)
    BY <1>0, <1>2
  <1>6. BValsBut(p, J, r, b)
    BY <1>1, <1>5 DEF BValsBut, BValsAt, SameBinAt
  <1>7. Onward(p, L, J)
    <2>1. OnwardAt(p, L, J, r)
      BY <1>1 DEF OnwardAt, BinAll, SameBinAt, SameConfsAt
    <2> QED BY <1>0, <1>1, <2>1, OnwardTouches
  <1>8. CASE p \in J.receivedBVal[r][b]
    <2>1. M = J
      BY <1>8 DEF CountBVal
    <2>2. BValsAt(p, J, r)
      BY <1>6, <1>8 DEF BValsBut, BValsAt
    <2>3. Steady(p, J)
      BY <1>3, <1>4, <2>2 DEF Steady, SteadyAt, CoreAt, RestAt
    <2> QED BY <1>2, <1>7, <2>1, <2>3, SettlesSelf, SettlesOnward
  <1>9. CASE p \notin J.receivedBVal[r][b]
    <2>1. PICK K : K = StoreBVal(J, p, b, r)
      OBVIOUS
    <2>2. Steady(p, K)
      BY <1>0, <1>2, <1>3, <1>4, <1>5, <1>6, <2>1, StoreBValSteady
    <2>3. Settles(p, J, M)
      BY <1>0, <1>2, <1>9, <2>1, <2>2, CountBValSettles
    <2> QED BY <1>7, <2>3, SettlesOnward
  <1> QED BY <1>8, <1>9

LEMMA HandleBValSteady ==
    ASSUME Coins, NEW p \in Running, NEW L \in Local, NEW s \in Replica, s # p,
           NEW b \in BOOLEAN, NEW r \in Round, Steady(p, L),
           L.round < r => s \in TermsFor(L, r, b),
           L.decision = {}, NEW M, M = HandleBVal(p, L, s, b, r)
    PROVE  Settles(p, L, M)
  <1>0. r \in AnyRound /\ p \in Replica /\ r \in Nat /\ L.round \in Nat
    BY RoundTypes, FieldTypes
  <1>1. PICK C : C = CountBVal(p, L, s, b, r)
    OBVIOUS
  <1>2. CASE s \in L.receivedBVal[r][b]
    <2>1. M = L
      BY <1>2 DEF HandleBVal, CountBVal
    <2> QED BY <2>1, SettlesSelf
  <1>3. CASE s \notin L.receivedBVal[r][b]
    <2>1. PICK K : K = StoreBVal(L, s, b, r)
      OBVIOUS
    <2>2. SteadyAt(p, L, r)
      BY <1>0 DEF Steady
    <2>3. BValsBut(p, L, r, b) /\ (b \in L.sentBVal[r] => p \in L.receivedBVal[r][b])
      BY <2>2 DEF SteadyAt, CoreAt, BValsAt, BValsBut
    <2>4. RestAt(p, L, r)
      BY <2>2 DEF SteadyAt, CoreAt, RestAt
    <2>5. \A q \in AnyRound : q # r => SteadyAt(p, L, q)
      BY DEF Steady
    <2>6. Steady(p, K)
      BY <1>0, <2>1, <2>3, <2>4, <2>5, StoreBValSteady
    <2>7. Settles(p, L, C)
      BY <1>1, <1>3, <2>1, <2>6, CountBValSettles
    <2>8. Keeps(K, C)
      BY <1>1, <2>1, CountBValKeeps
    <2>9. C \in Local
      BY <2>8 DEF Keeps, KeepsOwn
    <2>10. CASE ~(Cardinality(L.receivedBVal[r][b]) = F /\ b \notin C.sentBVal[r])
      <3>1. M = C
        BY <1>1, <2>10 DEF HandleBVal
      <3> QED BY <2>7, <3>1
    <2>11. CASE Cardinality(L.receivedBVal[r][b]) = F /\ b \notin C.sentBVal[r]
      <3>1. PICK J : J = SendBVal(C, b, r)
        OBVIOUS
      <3>2. M = CountBVal(p, J, p, b, r)
        BY <1>1, <1>3, <2>11, <3>1 DEF HandleBVal, SendBVal
      <3>3. J \in Local /\ J.decision = C.decision /\ J.input = C.input /\ J.round = C.round
            /\ J.sentBVal[r] = C.sentBVal[r] \cup {b} /\ SameBinAt(C, J, r)
        BY <1>0, <2>9, <3>1, SendBValAt DEF Touches, SameState
      <3>4. C.decision # {} => M.decision # {}
        <4>1. PICK H : H = StoreBVal(J, p, b, r)
          OBVIOUS
        <4>2. Keeps(H, M)
          BY <1>0, <3>2, <3>3, <4>1, CountBValKeeps
        <4>3. H.decision = C.decision
          BY <1>0, <3>3, <4>1, StoreBValAt DEF Touches, SameState
        <4> QED BY <4>2, <4>3 DEF Keeps, KeepsOwn
      <3>5. r <= L.round
        <4>1. SUFFICES ASSUME L.round < r PROVE FALSE
          BY <1>0
        <4>2. PICK S \in SUBSET Replica : S = L.receivedBVal[r][b]
          BY <1>0, FieldTypes DEF Votes
        <4>3. PICK T \in SUBSET Replica : T = TermsFor(L, r, b)
          BY DEF TermsFor
        <4>4. S \cup {s} \subseteq T /\ Cardinality(T) <= F
          BY <2>3, <4>1, <4>2, <4>3 DEF BValsBut
        <4>5. IsFiniteSet(T) /\ Cardinality(T) \in Nat
          BY <1>0, <4>3, CountsOne
        <4>6. Cardinality(S \cup {s}) <= Cardinality(T)
          BY <4>4, <4>5, FS_Subset
        <4>7. Cardinality(S \cup {s}) = F + 1
          BY <1>3, <2>11, <4>2, CountsOne
        <4> QED BY <4>4, <4>5, <4>6, <4>7, FAssumption
      <3> SUFFICES ASSUME M.decision = {} PROVE Settles(p, L, M)
        BY DEF Settles
      <3>6. C.decision = {}
        BY <3>4
      <3>7. Steady(p, C) /\ Onward(p, L, C)
        BY <2>7, <3>6 DEF Settles
      <3>8. C.round \in Nat /\ r <= C.round
        <4>1. C.round \in Nat
          BY <2>9, FieldTypes, RoundTypes
        <4>2. L.round <= C.round
          BY <3>7 DEF Onward
        <4> QED BY <1>0, <3>5, <4>1, <4>2
      <3>9. /\ BValsAt(p, C, r) /\ RoundsAt(C, r) /\ AuxsAt(p, C, r) /\ ConfsAt(p, C, r)
            /\ CoinsAt(C, r) /\ AuxsSeen(C, r) /\ OwnShare(p, C, r) /\ CoinActedOn(C, r)
            /\ \A q \in AnyRound : q # r => SteadyAt(p, C, q)
        BY <1>0, <3>7 DEF Steady, SteadyAt, CoreAt
      <3>10. RoundsAt(J, r)
        BY <3>3, <3>9 DEF RoundsAt, SameBinAt
      <3>11. Settles(p, C, M)
        BY <2>9, <3>1, <3>2, <3>6, <3>8, <3>9, <3>10, SupportSteady
      <3> QED BY <3>7, <3>11, SettlesOnward
    <2> QED BY <2>10, <2>11
  <1> QED BY <1>2, <1>3

-----------------------------------------------------------------------------
(***************************************************************************)
(* The steps of a replica, and what each leaves of the CONFs it holds.     *)
(***************************************************************************)
HearsAt(p, L, M, q, s, r, values) ==
    /\ L.binValues[q] \subseteq M.binValues[q]
    /\ \A b \in BOOLEAN : BinAll(L, q, b) => BinAll(M, q, b)
    /\ \A t \in Replica : t # p =>
          \/ M.receivedConf[q][t] = L.receivedConf[q][t]
          \/ t = s /\ q = r /\ M.receivedConf[q][t] = values
\* After p has taken a message of round r from s, with those values if it is a CONF.
Outcome(p, L, M, s, r, values) ==
    M.decision = {} => /\ L.decision = {} /\ Steady(p, M)
                       /\ \A q \in AnyRound : HearsAt(p, L, M, q, s, r, values)

LEMMA SettlesOutcome ==
    ASSUME NEW p, NEW L \in Local, L.decision = {}, NEW M, Settles(p, L, M),
           NEW s, NEW r, NEW values
    PROVE  Outcome(p, L, M, s, r, values)
  BY DEF Settles, Outcome, Onward, OnwardAt, HearsAt

\* A CONF is stored between L and M, at K.
LEMMA StoreConfOutcome ==
    ASSUME Coins, NEW p \in Running, NEW L \in Local, NEW s \in Replica, s # p,
           NEW values \in SUBSET BOOLEAN, values # {}, NEW r \in Round, Steady(p, L),
           L.decision = {}, NEW J, J = L \/ J = TakeConf(L, s, r),
           NEW M, M = HandleConf(p, J, s, values, r)
    PROVE  Outcome(p, L, M, s, r, values)
  <1>0. r \in AnyRound /\ p \in Replica
    BY RoundTypes
  <1>1. /\ Touches(L, J, r) /\ J.receivedConf = L.receivedConf /\ J.sentConf = L.sentConf
        /\ L.confFrom[r] \subseteq J.confFrom[r] /\ J.confFrom[r] \subseteq L.confFrom[r] \cup {s}
        /\ SameBValsAt(L, J, r) /\ SameBinAt(L, J, r) /\ SameAuxsAt(L, J, r)
        /\ SameCoinsAt(L, J, r) /\ SameTermsAt(L, J, r)
    <2>1. CASE J = L
      BY <2>1 DEF Touches, SameState, SameAt, SameBValsAt, SameBinAt, SameAuxsAt, SameConfsAt,
                  SameCoinsAt, SameTermsAt
    <2>2. CASE J = TakeConf(L, s, r)
      BY <1>0, <2>2, TakeConfAt
    <2> QED BY <2>1, <2>2
  <1>2. J \in Local /\ J.round = L.round /\ J.input = L.input /\ J.decision = {}
    BY <1>1 DEF Touches, SameState
  <1>3. PICK K : K = StoreConf(J, s, values, r)
    OBVIOUS
  <1>4. /\ Touches(J, K, r) /\ StoresConf(J, K, s, values, r)
        /\ K.confFrom[r] = J.confFrom[r] /\ K.sentConf[r] = J.sentConf[r]
        /\ SameBValsAt(J, K, r) /\ SameBinAt(J, K, r) /\ SameAuxsAt(J, K, r)
        /\ SameCoinsAt(J, K, r) /\ SameTermsAt(J, K, r)
    BY <1>0, <1>2, <1>3, StoreConfAt
  <1>5. K \in Local /\ K.round = L.round /\ K.input = L.input /\ K.decision = {}
    BY <1>2, <1>4 DEF Touches, SameState
  <1>6. Touches(L, K, r)
    BY <1>0, <1>1, <1>4, TouchesTransitive
  <1>7. /\ SameBValsAt(L, K, r) /\ SameBinAt(L, K, r) /\ SameAuxsAt(L, K, r)
        /\ SameCoinsAt(L, K, r) /\ SameTermsAt(L, K, r) /\ K.sentConf[r] = L.sentConf[r]
    BY <1>1, <1>4 DEF SameBValsAt, SameBinAt, SameAuxsAt, SameCoinsAt, SameTermsAt
  <1>8. CoreAt(p, L, r) /\ AuxsSeen(L, r) /\ OwnShare(p, L, r) /\ CoinActedOn(L, r)
    BY <1>0 DEF Steady, SteadyAt
  <1>9. /\ BValsAt(p, K, r) /\ RoundsAt(K, r) /\ AuxsAt(p, K, r) /\ CoinsAt(K, r)
        /\ AuxsSeen(K, r) /\ OwnShare(p, K, r)
    BY <1>0, <1>5, <1>7, <1>8, SameParts DEF CoreAt
  <1>10. CoinActedOn(K, r)
    BY <1>5, <1>7, <1>8 DEF CoinActedOn, SameCoinsAt
  <1>11. ConfsAt(p, K, r)
    <2>1. K.receivedConf[r][p] = L.receivedConf[r][p]
      BY <1>0, <1>1, <1>4 DEF StoresConf
    <2>2. K.receivedConf[r][s] # {}
      BY <1>4 DEF StoresConf
    <2>3. L.confFrom[r] \subseteq Replica
      BY <1>0 DEF Local
    <2>4. \A t \in Replica : t # s => K.receivedConf[r][t] = L.receivedConf[r][t]
      BY <1>1, <1>4 DEF StoresConf
    <2>5. ConfsAt(p, L, r)
      BY <1>8 DEF CoreAt
    <2>6. \A t \in K.confFrom[r] : K.receivedConf[r][t] # {}
      BY <1>1, <1>4, <2>2, <2>3, <2>4, <2>5 DEF ConfsAt
    <2> QED BY <1>1, <1>4, <1>7, <2>1, <2>5, <2>6 DEF ConfsAt, SameBinAt
  <1>12. SteadyAt(p, K, r)
    BY <1>9, <1>10, <1>11 DEF SteadyAt, CoreAt
  <1>13. Steady(p, K)
    BY <1>0, <1>6, <1>12, SteadyOne DEF Steady
  <1>14. M = TryFinishConfRound(p, K, r)
    BY <1>3 DEF HandleConf, StoreConf
  <1>15. Settles(p, K, M)
    BY <1>5, <1>13, <1>14, TryFinishConfRoundSteady
  <1>16. ASSUME M.decision = {}, NEW q \in AnyRound PROVE HearsAt(p, L, M, q, s, r, values)
    <2>1. OnwardAt(p, K, M, q)
      BY <1>15, <1>16 DEF Settles, Onward
    <2>2. HearsAt(p, L, K, q, s, r, values)
      <3>1. CASE q # r
        BY <1>6, <3>1 DEF Touches, SameAt, SameBValsAt, SameBinAt, SameConfsAt, HearsAt, BinAll
      <3>2. CASE q = r
        <4>1. \A t \in Replica : t # s => K.receivedConf[r][t] = L.receivedConf[r][t]
          BY <1>1, <1>4 DEF StoresConf
        <4>2. K.receivedConf[r][s] = values \/ K.receivedConf[r][s] = L.receivedConf[r][s]
          BY <1>1, <1>4 DEF StoresConf
        <4> QED BY <1>7, <3>2, <4>1, <4>2 DEF HearsAt, BinAll, SameBValsAt, SameBinAt
      <3> QED BY <3>1, <3>2
    <2> QED BY <2>1, <2>2 DEF OnwardAt, HearsAt
  <1> QED BY <1>15, <1>16 DEF Outcome, Settles

LEMMA HandleTermOutcome ==
    ASSUME Coins, NEW p \in Running, NEW L \in Local, NEW s \in Replica, s # p,
           NEW b \in BOOLEAN, NEW r \in Round, Steady(p, L), Echoed(L), L.decision = {},
           L.receivedTerm[r][s] = {}, NEW M, M = HandleTerm(p, L, s, b, r)
    PROVE  Outcome(p, L, M, s, r, {b})
  <1>0. r \in AnyRound /\ p \in Replica /\ {b} \in SUBSET BOOLEAN /\ {b} # {} /\ {b} \in Bit
    BY RoundTypes DEF Bit
  <1>8. PICK bit : bit = {b}
    OBVIOUS
  <1>1. PICK K : K = StoreTerm(L, s, bit, r)
    OBVIOUS
  <1>2. /\ Touches(L, K, r) /\ K.receivedTerm[r][s] = {b}
        /\ \A t \in Replica : t # s => K.receivedTerm[r][t] = L.receivedTerm[r][t]
        /\ SameBValsAt(L, K, r) /\ SameBinAt(L, K, r) /\ SameAuxsAt(L, K, r)
        /\ SameConfsAt(L, K, r) /\ SameCoinsAt(L, K, r)
    BY <1>0, <1>1, <1>8, StoreTermAt
  <1>3. K \in Local /\ K.round = L.round /\ K.input = L.input /\ K.decision = {}
    BY <1>2 DEF Touches, SameState
  <1>4. M = IF Cardinality(TermsFor(K, r, b)) > F THEN Decide(p, K, {b})
            ELSE HandleConf(p, HandleAux(p, HandleBVal(p, K, s, b, r), s, b, r), s, {b}, r)
    BY <1>1, <1>3, <1>8 DEF HandleTerm, StoreTerm, TermsFor
  <1>5. PICK T \in SUBSET Replica : T = TermsFor(K, r, b)
    BY DEF TermsFor
  <1>6. CASE Cardinality(T) > F
    <2>1. M.decision = {b}
      BY <1>0, <1>3, <1>4, <1>5, <1>6, DecideFields
    <2> QED BY <2>1 DEF Outcome
  <1>7. CASE ~(Cardinality(T) > F)
    <2>1. Cardinality(T) \in Nat
      BY <1>0, CountsOne
    <2>2. Cardinality(T) <= F
      BY <1>7, <2>1, FAssumption
    <2>3. SteadyAt(p, L, r)
      BY <1>0 DEF Steady
    <2>4. BValsAt(p, K, r)
      <3>1. /\ K.receivedBVal[r] = L.receivedBVal[r] /\ K.sentBVal[r] = L.sentBVal[r]
            /\ K.binValues[r] = L.binValues[r]
        BY <1>2 DEF SameBValsAt, SameBinAt
      <3>2. TermsFor(L, r, b) \subseteq T
        BY <1>2, <1>5 DEF TermsFor
      <3>3. \A d \in BOOLEAN : d # b => TermsFor(K, r, d) = TermsFor(L, r, d)
        <4>1. ASSUME NEW d \in BOOLEAN, d # b PROVE TermsFor(K, r, d) = TermsFor(L, r, d)
          <5>1. K.receivedTerm[r][s] # {d} /\ L.receivedTerm[r][s] # {d}
            BY <1>2, <4>1
          <5> QED BY <1>2, <5>1 DEF TermsFor
        <4> QED BY <4>1
      <3>4. BValsAt(p, L, r)
        BY <2>3 DEF SteadyAt, CoreAt
      <3>5. ASSUME NEW d \in BOOLEAN, K.round < r
            PROVE  /\ K.receivedBVal[r][d] \subseteq TermsFor(K, r, d)
                   /\ Cardinality(TermsFor(K, r, d)) <= F
        <4>1. CASE d = b
          BY <1>3, <1>5, <2>2, <3>1, <3>2, <3>4, <3>5, <4>1 DEF BValsAt
        <4>2. CASE d # b
          BY <1>3, <3>1, <3>3, <3>4, <3>5, <4>2 DEF BValsAt
        <4> QED BY <4>1, <4>2
      <3> QED BY <3>1, <3>4, <3>5 DEF BValsAt
    <2>5. RoundsAt(K, r) /\ AuxsAt(p, K, r) /\ ConfsAt(p, K, r) /\ CoinsAt(K, r)
          /\ AuxsSeen(K, r) /\ OwnShare(p, K, r)
      BY <1>0, <1>2, <1>3, <2>3, SameParts DEF SteadyAt, CoreAt, SameConfsAt
    <2>6. CoinActedOn(K, r)
      BY <1>2, <1>3, <2>3 DEF SteadyAt, CoinActedOn, SameCoinsAt
    <2>7. SteadyAt(p, K, r)
      BY <2>4, <2>5, <2>6 DEF SteadyAt, CoreAt
    <2>8. Steady(p, K)
      BY <1>0, <1>2, <2>7, SteadyOne DEF Steady
    <2>9. Onward(p, L, K)
      BY <1>0, <1>2, OnwardTouches, OnwardSame DEF SameConfsAt
    <2>10. Echoed(K)
      <3>1. \A q \in AnyRound : SameBValsAt(L, K, q)
        BY <1>2 DEF Touches, SameAt
      <3> QED BY <3>1 DEF Echoed, FewBVals, SameBValsAt
    <2>11. PICK J : J = HandleBVal(p, K, s, b, r)
      OBVIOUS
    <2>12. KeepsOwn(K, J)
      BY <1>3, <2>10, <2>11, HandleBValKeeps
    <2>13. J \in Local
      BY <2>12 DEF KeepsOwn
    <2>14. PICK I : I = HandleAux(p, J, s, b, r)
      OBVIOUS
    <2>15. Keeps(J, I)
      BY <2>13, <2>14, HandleAuxKeeps
    <2>16. I \in Local
      BY <2>15 DEF Keeps, KeepsOwn
    <2>17. M = HandleConf(p, I, s, {b}, r)
      BY <1>4, <1>5, <1>7, <2>11, <2>14
    <2>18. Keeps(I, M)
      BY <1>0, <2>16, <2>17, HandleConfKeeps
    <2> SUFFICES ASSUME M.decision = {} PROVE Outcome(p, L, M, s, r, {b})
      BY DEF Outcome
    <2>19. I.decision = {} /\ J.decision = {}
      BY <2>15, <2>18 DEF Keeps, KeepsOwn
    <2>20. s \in TermsFor(K, r, b)
      BY <1>2 DEF TermsFor
    <2>21. Settles(p, K, J)
      BY <1>3, <2>8, <2>11, <2>20, HandleBValSteady
    <2>22. Steady(p, J) /\ Onward(p, K, J)
      BY <2>19, <2>21 DEF Settles
    <2>23. Settles(p, J, I)
      BY <2>13, <2>14, <2>19, <2>22, HandleAuxSteady
    <2>24. Steady(p, I) /\ Onward(p, J, I)
      BY <2>19, <2>23 DEF Settles
    <2>25. Onward(p, L, J)
      BY <2>9, <2>22, OnwardTransitive
    <2>26. Onward(p, L, I)
      BY <2>24, <2>25, OnwardTransitive
    <2>27. Outcome(p, I, M, s, r, {b})
      BY <1>0, <2>16, <2>17, <2>19, <2>24, StoreConfOutcome
    <2>28. ASSUME NEW q \in AnyRound PROVE HearsAt(p, L, M, q, s, r, {b})
      <3>1. HearsAt(p, I, M, q, s, r, {b})
        BY <2>27 DEF Outcome
      <3>2. OnwardAt(p, L, I, q)
        BY <2>26 DEF Onward
      <3> QED BY <3>1, <3>2 DEF OnwardAt, HearsAt
    <2> QED BY <2>27, <2>28 DEF Outcome
  <1> QED BY <1>6, <1>7

\* The input.
LEMMA InputOutcome ==
    ASSUME Coins, NEW p \in Running, NEW L \in Local, NEW b \in BOOLEAN, Steady(p, L),
           L.decision = {}, L.round = 0, NEW K, K = StoreInput(L, b),
           NEW M, M = SupportInput(p, K, b)
    PROVE  Outcome(p, L, M, p, 0, {})
  <1>0. p \in Replica
    BY RoundTypes
  <1>1. PICK z \in Round : z = 0
    BY RoundTypes
  <1>2. z \in AnyRound /\ z \in Nat
    BY RoundTypes
  <1>3. /\ K \in Local /\ K.input = {b} /\ K.round = L.round /\ K.decision = {}
        /\ \A q \in AnyRound : SameAt(L, K, q)
    BY StoreInputAt
  <1>4. ASSUME NEW q \in AnyRound
        PROVE  /\ BValsAt(p, K, q) /\ AuxsAt(p, K, q) /\ ConfsAt(p, K, q) /\ CoinsAt(K, q)
               /\ AuxsSeen(K, q) /\ OwnShare(p, K, q) /\ CoinActedOn(K, q)
    <2>1. SameAt(L, K, q) /\ SteadyAt(p, L, q)
      BY <1>3 DEF Steady
    <2>2. /\ BValsAt(p, K, q) /\ AuxsAt(p, K, q) /\ ConfsAt(p, K, q) /\ CoinsAt(K, q)
          /\ AuxsSeen(K, q) /\ OwnShare(p, K, q)
      BY <1>3, <2>1, SameParts DEF SameAt, SteadyAt, CoreAt, SameConfsAt
    <2>3. CoinActedOn(K, q)
      BY <1>3, <2>1 DEF SameAt, SteadyAt, CoinActedOn, SameCoinsAt
    <2> QED BY <2>2, <2>3
  <1>5. ASSUME NEW q \in AnyRound, q # z PROVE SteadyAt(p, K, q)
    <2>1. SameAt(L, K, q) /\ RoundsAt(L, q)
      BY <1>3 DEF Steady, SteadyAt, CoreAt
    <2>2. RoundsAt(K, q)
      BY <1>1, <1>3, <1>5, <2>1 DEF RoundsAt, SameAt, SameBValsAt, SameBinAt
    <2> QED BY <1>4, <2>2 DEF SteadyAt, CoreAt
  <1>6. Onward(p, L, K)
    <2>1. \A q \in AnyRound : OnwardAt(p, L, K, q)
      BY <1>3, OnwardSame DEF SameAt, SameConfsAt
    <2>2. L.round <= K.round
      BY <1>1, <1>2, <1>3
    <2> QED BY <1>3, <2>1, <2>2 DEF Onward
  <1>7. Settles(p, K, M)
    <2>1. CASE b \in K.sentBVal[z]
      <3>1. M = K
        BY <1>1, <2>1 DEF SupportInput
      <3>2. RoundsAt(K, z)
        BY <1>1, <1>2, <1>3, <2>1 DEF RoundsAt
      <3>3. SteadyAt(p, K, z)
        BY <1>2, <1>4, <3>2 DEF SteadyAt, CoreAt
      <3>4. Steady(p, K)
        BY <1>5, <3>3 DEF Steady
      <3> QED BY <1>3, <3>1, <3>4, SettlesSelf
    <2>2. CASE b \notin K.sentBVal[z]
      <3>1. PICK J : J = SendBVal(K, b, z)
        OBVIOUS
      <3>2. PICK H : H = CountBVal(p, J, p, b, z)
        OBVIOUS
      <3>3. /\ J \in Local /\ J.round = K.round /\ J.input = K.input
            /\ J.sentBVal[z] = K.sentBVal[z] \cup {b} /\ SameBinAt(K, J, z)
        BY <1>2, <1>3, <3>1, SendBValAt DEF Touches, SameState
      <3>4. PICK I : I = StoreBVal(J, p, b, z)
        OBVIOUS
      <3>5. b \in I.sentBVal[z]
        BY <1>0, <1>2, <3>3, <3>4, StoreBValAt
      <3>6. Keeps(I, H)
        BY <1>0, <3>2, <3>3, <3>4, CountBValKeeps
      <3>7. b \in H.sentBVal[z]
        BY <1>2, <3>5, <3>6 DEF Keeps
      <3>8. M = HandleBVal(p, J, p, b, z)
        BY <1>1, <2>2, <3>1 DEF SupportInput
      <3>9. M = H
        BY <3>2, <3>7, <3>8 DEF HandleBVal
      <3>10. RoundsAt(J, z)
        BY <1>1, <1>2, <1>3, <3>3 DEF RoundsAt
      <3>11. z <= K.round
        BY <1>1, <1>2, <1>3
      <3> QED BY <1>2, <1>3, <1>4, <1>5, <3>1, <3>2, <3>9, <3>10, <3>11, SupportSteady
    <2> QED BY <2>1, <2>2
  <1>8. Settles(p, L, M)
    BY <1>6, <1>7, SettlesOnward
  <1> QED BY <1>8, SettlesOutcome

-----------------------------------------------------------------------------
(***************************************************************************)
(* The invariant: undecided replicas have acted on what they have, and a   *)
(* CONF holds bits that its sender has in bin_values for good.             *)
(***************************************************************************)
AllBin(L) == \A q \in AnyRound, b \in BOOLEAN : BinAll(L, q, b)
ConfsHeard(L, s, S) == \A q \in AnyRound : L.receivedConf[q][s] \subseteq S.binValues[q]
Acted(p, L) == L.decision = {} => Steady(p, L) /\ AllBin(L)
HeardConf(L, s, S) == L.decision = {} /\ S.decision = {} => ConfsHeard(L, s, S)
RestOf(x) == /\ \A p \in Correct : Acted(p, x[p])
             /\ \A p, s \in Correct : p # s => HeardConf(x[p], s, x[s])
RestInv == TypeInv /\ RestOf(local)

LEMMA RestInit == Init => RestInv
  <1> SUFFICES ASSUME Init PROVE RestOf(local)
    BY TypeInit DEF RestInv
  <1>1. \A p \in Correct : local[p] = Init0
    BY RoundTypes DEF Init
  <1>2. /\ Init0.round = 0 /\ Init0.input = {}
        /\ \A q \in AnyRound : /\ Init0.sentBVal[q] = {} /\ Init0.binValues[q] = {}
                               /\ Init0.sentAux[q] = {} /\ Init0.sentConf[q] = {}
                               /\ Init0.confFrom[q] = {} /\ ~Init0.coinStarted[q]
                               /\ Init0.coinShares[q] = {}
    BY DEF Init0
  <1>3. \A q \in AnyRound, b \in BOOLEAN : /\ Init0.receivedBVal[q][b] = {}
                                           /\ Init0.receivedAux[q][b] = {}
    BY DEF Init0
  <1>4. \A q \in AnyRound, s \in Replica : /\ Init0.receivedTerm[q][s] = {}
                                           /\ Init0.receivedConf[q][s] = {}
    BY DEF Init0
  <1>5. Cardinality({}) = 0
    BY FS_EmptySet, Zenon
  <1>6. 0 <= F /\ 0 <= 2 * F /\ ~(0 >= 2 * F + 1)
    BY FAssumption
  <1>7. ASSUME NEW p \in Correct, NEW q \in AnyRound PROVE SteadyAt(p, Init0, q)
    <2>1. \A b \in BOOLEAN : TermsFor(Init0, q, b) = {}
      BY <1>4 DEF TermsFor
    <2>2. BValsAt(p, Init0, q)
      BY <1>2, <1>3, <1>5, <1>6, <2>1 DEF BValsAt
    <2>3. q \in Nat
      BY RoundTypes
    <2>4. ~(q < 0) /\ (0 < q => ~(q <= 0))
      BY <2>3
    <2>5. RoundsAt(Init0, q)
      BY <1>2, <2>4 DEF RoundsAt
    <2>6. AuxsAt(p, Init0, q) /\ AuxsSeen(Init0, q)
      BY <1>2, <1>3 DEF AuxsAt, AuxsSeen
    <2>7. p \in Replica
      BY RoundTypes
    <2>8. ConfsAt(p, Init0, q)
      BY <1>2, <1>4, <2>7 DEF ConfsAt
    <2>9. CoinsAt(Init0, q) /\ OwnShare(p, Init0, q) /\ CoinActedOn(Init0, q)
      BY <1>2, <1>5, <1>6 DEF CoinsAt, OwnShare, CoinActedOn
    <2> QED BY <2>2, <2>5, <2>6, <2>8, <2>9 DEF SteadyAt, CoreAt
  <1>8. AllBin(Init0)
    BY <1>3, <1>5, <1>6 DEF AllBin, BinAll
  <1>9. \A s \in Correct : ConfsHeard(Init0, s, Init0)
    BY <1>4, RoundTypes DEF ConfsHeard
  <1> QED BY <1>1, <1>7, <1>8, <1>9 DEF RestOf, Acted, HeardConf, Steady

\* What one replica does leaves the invariant of all of them.
LEMMA RestStep ==
    ASSUME NEW x, RestOf(x), NEW y, NEW p \in Correct,
           \A q \in Correct : q # p => y[q] = x[q],
           NEW s, NEW r, NEW values, Outcome(p, x[p], y[p], s, r, values),
           s \in Correct /\ s # p /\ x[s].decision = {} => values \subseteq x[s].binValues[r]
    PROVE  RestOf(y)
  <1>1. ASSUME NEW q \in Correct PROVE Acted(q, y[q])
    <2>1. CASE q # p
      BY <2>1 DEF RestOf
    <2>2. CASE q = p
      <3> SUFFICES ASSUME y[p].decision = {} PROVE Steady(p, y[p]) /\ AllBin(y[p])
        BY <2>2 DEF Acted
      <3>1. /\ x[p].decision = {} /\ Steady(p, y[p])
            /\ \A n \in AnyRound : HearsAt(p, x[p], y[p], n, s, r, values)
        BY DEF Outcome
      <3>2. AllBin(x[p])
        BY <3>1 DEF RestOf, Acted
      <3> QED BY <3>1, <3>2 DEF AllBin, HearsAt
    <2> QED BY <2>1, <2>2
  <1>2. ASSUME NEW q \in Correct, NEW t \in Correct, q # t PROVE HeardConf(y[q], t, y[t])
    <2> SUFFICES ASSUME y[q].decision = {}, y[t].decision = {} PROVE ConfsHeard(y[q], t, y[t])
      BY DEF HeardConf
    <2>1. CASE q # p /\ t # p
      BY <1>2, <2>1 DEF RestOf, HeardConf
    <2>2. CASE t = p
      <3>1. /\ x[p].decision = {}
            /\ \A n \in AnyRound : HearsAt(p, x[p], y[p], n, s, r, values)
        BY <2>2 DEF Outcome
      <3>2. y[q] = x[q]
        BY <1>2, <2>2
      <3>3. ConfsHeard(x[q], p, x[p])
        BY <1>2, <2>2, <3>1, <3>2 DEF RestOf, HeardConf
      <3> QED BY <2>2, <3>1, <3>2, <3>3 DEF ConfsHeard, HearsAt
    <2>3. CASE q = p
      <3>1. /\ x[p].decision = {}
            /\ \A n \in AnyRound : HearsAt(p, x[p], y[p], n, s, r, values)
        BY <2>3 DEF Outcome
      <3>2. y[t] = x[t] /\ t # p /\ t \in Replica
        BY <1>2, <2>3, RoundTypes
      <3>3. ConfsHeard(x[p], t, x[t])
        BY <1>2, <2>3, <3>1, <3>2 DEF RestOf, HeardConf
      <3>4. ASSUME NEW n \in AnyRound PROVE y[p].receivedConf[n][t] \subseteq x[t].binValues[n]
        <4>1. \/ y[p].receivedConf[n][t] = x[p].receivedConf[n][t]
              \/ t = s /\ n = r /\ y[p].receivedConf[n][t] = values
          BY <3>1, <3>2 DEF HearsAt
        <4> QED BY <3>2, <3>3, <4>1 DEF ConfsHeard
      <3> QED BY <2>3, <3>2, <3>4 DEF ConfsHeard
    <2> QED BY <2>1, <2>2, <2>3
  <1> QED BY <1>1, <1>2 DEF RestOf

LEMMA DeliverOutcome ==
    ASSUME RestInv, NEW p \in Correct, Deliver(p), local[p].decision = {}
    PROVE  \E s \in Replica, r \in Round, values \in SUBSET BOOLEAN :
               /\ Outcome(p, local[p], local'[p], s, r, values)
               /\ s \in Correct /\ s # p /\ local[s].decision = {} =>
                      values \subseteq local[s].binValues[r]
  <1>0. /\ Coins /\ p \in Running /\ local[p] \in Local /\ Echoed(local[p])
        /\ local \in [Running -> Local]
    BY RoundTypes DEF RestInv, TypeInv, TypeOK, Coins
  <1>1. PICK L : L = local[p]
    OBVIOUS
  <1>2. L \in Local /\ L.decision = {} /\ Steady(p, L) /\ Echoed(L)
    BY <1>0, <1>1 DEF RestInv, RestOf, Acted
  <1>3. PICK s \in Sender(p), r \in Round :
            \/ \E b \in BOOLEAN : \/ ReceiveBVal(p, s, b, r)
                                  \/ ReceiveAux(p, s, b, r)
                                  \/ ReceiveTerm(p, s, b, r)
            \/ \E values \in (SUBSET BOOLEAN) \ {{}} : ReceiveConf(p, s, values, r)
            \/ ReceiveCoin(p, s, r)
    BY DEF Deliver
  <1>4. s \in Replica /\ s # p /\ r \in AnyRound /\ (s \in Correct => s \in Running)
    BY RoundTypes DEF Sender
  <1>5. \A M : Receive(p, s, M) => local'[p] = M
    BY <1>0 DEF Receive
  <1>6. Reached(p, r) => ~(L.round < r)
    <2>1. r \in Nat /\ L.round \in Nat
      BY <1>2, <1>4, FieldTypes, RoundTypes
    <2> QED BY <1>1, <2>1 DEF Reached
  <1>7. {} \in SUBSET BOOLEAN /\ \A S : {} \subseteq S
    OBVIOUS
  <1>8. SUFFICES \E values \in SUBSET BOOLEAN :
               /\ Outcome(p, L, local'[p], s, r, values)
               /\ s \in Correct /\ local[s].decision = {} => values \subseteq local[s].binValues[r]
    BY <1>1, <1>4
  <1>9. ASSUME Settles(p, L, local'[p])
        PROVE  \E values \in SUBSET BOOLEAN :
               /\ Outcome(p, L, local'[p], s, r, values)
               /\ s \in Correct /\ local[s].decision = {} => values \subseteq local[s].binValues[r]
    BY <1>2, <1>7, <1>9, SettlesOutcome
  <1>10. ASSUME NEW b \in BOOLEAN, ReceiveBVal(p, s, b, r) PROVE Settles(p, L, local'[p])
    <2>1. ~(L.round < r) /\ local'[p] = HandleBVal(p, L, s, b, r)
      BY <1>1, <1>5, <1>6, <1>10 DEF ReceiveBVal
    <2> QED BY <1>0, <1>2, <1>4, <2>1, HandleBValSteady
  <1>11. ASSUME NEW b \in BOOLEAN, ReceiveAux(p, s, b, r) PROVE Settles(p, L, local'[p])
    <2>1. local'[p] = HandleAux(p, L, s, b, r)
      BY <1>1, <1>5, <1>11 DEF ReceiveAux
    <2> QED BY <1>0, <1>2, <1>4, <2>1, HandleAuxSteady
  <1>12. ASSUME ReceiveCoin(p, s, r) PROVE Settles(p, L, local'[p])
    <2>1. local'[p] = HandleCoin(p, L, s, r)
      BY <1>1, <1>5, <1>12 DEF ReceiveCoin
    <2>2. SteadyCoin(p, L, r) /\ OwnShare(p, L, r)
      BY <1>2, <1>4 DEF Steady, SteadyAt, SteadyCoin
    <2>3. Settles(p, L, local'[p]) \/ local'[p] = L
      BY <1>0, <1>2, <1>4, <2>1, <2>2, HandleCoinSteady
    <2> QED BY <1>2, <2>3, SettlesSelf
  <1>13. ASSUME NEW b \in BOOLEAN, ReceiveTerm(p, s, b, r)
         PROVE  Outcome(p, L, local'[p], s, r, {b}) /\ (s \in Correct => local[s].decision # {})
    <2>1. L.receivedTerm[r][s] = {} /\ local'[p] = HandleTerm(p, L, s, b, r)
      BY <1>1, <1>5, <1>13 DEF ReceiveTerm
    <2>2. s \in Correct => local[s].decision # {}
      BY <1>4, <1>13 DEF ReceiveTerm
    <2> QED BY <1>0, <1>2, <1>4, <2>1, <2>2, HandleTermOutcome
  <1>14. ASSUME NEW values \in (SUBSET BOOLEAN) \ {{}}, ReceiveConf(p, s, values, r)
         PROVE  /\ Outcome(p, L, local'[p], s, r, values)
                /\ s \in Correct /\ local[s].decision = {} => values \subseteq local[s].binValues[r]
    <2>1. PICK J : J = TakeConf(L, s, r)
      OBVIOUS
    <2>2. local'[p] = HandleConf(p, J, s, values, r)
      BY <1>1, <1>5, <1>14, <2>1 DEF ReceiveConf, TakeConf
    <2>3. values \in SUBSET BOOLEAN /\ values # {}
      OBVIOUS
    <2>4. Outcome(p, L, local'[p], s, r, values)
      BY <1>0, <1>2, <1>4, <2>1, <2>2, <2>3, StoreConfOutcome
    <2>5. ASSUME s \in Correct, local[s].decision = {} PROVE values \subseteq local[s].binValues[r]
      <3>1. values \in {local[s].sentConf[r], local[s].binValues[r]}
        BY <1>4, <1>14, <2>5 DEF ReceiveConf
      <3>2. Steady(s, local[s])
        BY <2>5 DEF RestInv, RestOf, Acted
      <3>3. local[s].sentConf[r] \subseteq local[s].binValues[r]
        BY <1>4, <3>2 DEF Steady, SteadyAt, CoreAt, ConfsAt
      <3> QED BY <3>1, <3>3
    <2> QED BY <2>4, <2>5
  <1>15. \A b \in BOOLEAN : {b} \in SUBSET BOOLEAN
    OBVIOUS
  <1> QED BY <1>3, <1>9, <1>10, <1>11, <1>12, <1>13, <1>14, <1>15

LEMMA RestNext == RestInv /\ [Next]_vars => RestInv'
  <1> SUFFICES ASSUME RestInv, [Next]_vars PROVE RestOf(local')
    BY TypeNext DEF RestInv
  <1>0. TypeInv /\ RestOf(local)
    BY DEF RestInv
  <1>1. CASE UNCHANGED vars
    BY <1>0, <1>1 DEF vars
  <1>2. ASSUME NEW p \in Running, NEW b \in BOOLEAN, HandleInput(p, b) PROVE RestOf(local')
    <2>1. StepOf(p) /\ local'[p].decision = local[p].decision
      BY <1>0, <1>2, InputStep
    <2>2. \A q \in Correct : q # p => local'[q] = local[q]
      BY <2>1, StepKeepsOthers
    <2>3. CASE p \notin Correct
      <3>1. \A q \in Correct : local'[q] = local[q]
        BY <2>2, <2>3
      <3> QED BY <1>0, <3>1 DEF RestOf
    <2>4. CASE p \in Correct
      <3>0. Coins /\ local[p] \in Local /\ local \in [Running -> Local]
        BY <1>0 DEF TypeInv, TypeOK, Coins
      <3>1. Outcome(p, local[p], local'[p], p, 0, {})
        <4>1. CASE local[p].decision # {}
          BY <2>1, <4>1 DEF Outcome
        <4>2. CASE local[p].decision = {}
          <5>1. PICK K : K = StoreInput(local[p], b)
            OBVIOUS
          <5>2. PICK M : M = SupportInput(p, K, b)
            OBVIOUS
          <5>3. Receive(p, p, M) /\ local[p].round = 0
            BY <1>2, <5>1, <5>2 DEF HandleInput, SendBVal, StoreInput, SupportInput
          <5>4. local'[p] = M
            BY <3>0, <5>3 DEF Receive
          <5>5. Steady(p, local[p])
            BY <1>0, <2>4, <4>2 DEF RestOf, Acted
          <5> QED BY <3>0, <4>2, <5>1, <5>2, <5>3, <5>4, <5>5, InputOutcome
        <4> QED BY <4>1, <4>2
      <3> QED BY <1>0, <2>2, <2>4, <3>1, RestStep
    <2> QED BY <2>3, <2>4
  <1>3. ASSUME NEW p \in Correct, Deliver(p) PROVE RestOf(local')
    <2>0. p \in Running
      BY RoundTypes
    <2>1. StepOf(p) /\ local'[p].input = local[p].input
      BY <1>0, <1>3, <2>0, DeliverStep
    <2>2. \A q \in Correct : q # p => local'[q] = local[q]
      BY <2>0, <2>1, StepKeepsOthers
    <2>3. CASE local[p].decision # {}
      <3>1. local'[p].decision # {}
        BY <2>1, <2>3 DEF StepOf, KeepsOwn
      <3>2. Outcome(p, local[p], local'[p], p, 0, {})
        BY <3>1 DEF Outcome
      <3> QED BY <1>0, <2>2, <3>2, RestStep
    <2>4. CASE local[p].decision = {}
      <3>1. PICK s \in Replica, r \in Round, values \in SUBSET BOOLEAN :
               /\ Outcome(p, local[p], local'[p], s, r, values)
               /\ s \in Correct /\ s # p /\ local[s].decision = {} =>
                      values \subseteq local[s].binValues[r]
        BY <1>3, <2>4, DeliverOutcome
      <3> QED BY <1>0, <2>2, <3>1, RestStep
    <2> QED BY <2>3, <2>4
  <1> QED BY <1>1, <1>2, <1>3 DEF Next

-----------------------------------------------------------------------------
(***************************************************************************)
(* Replicas at rest: the earliest round that a correct replica is in has   *)
(* all it takes to be left.                                                *)
(***************************************************************************)
LEMMA LeastRound ==
    ASSUME NEW S \in SUBSET Nat, S # {}
    PROVE  \E n \in S : \A m \in S : n <= m
  <1>1. PICK R : R = OpToRel(<, Nat)
    OBVIOUS
  <1>2. PICK n \in S : \A m \in S : ~(<<m, n>> \in R)
    <2>1. IsWellFoundedOn(R, Nat)
      BY <1>1, NatLessThanWellFounded
    <2> QED BY <2>1, WFMin
  <1>3. \A m \in S : ~(m < n)
    BY <1>1, <1>2 DEF OpToRel
  <1> QED BY <1>2, <1>3

LEMMA CorrectCount ==
    ASSUME FewFaults, N > 3 * F, NEW S \in SUBSET Replica, Correct \subseteq S
    PROVE  Cardinality(S) >= N - F /\ Cardinality(S) >= 2 * F + 1
  <1>1. IsFiniteSet(Replica) /\ IsFiniteSet(Faulty) /\ IsFiniteSet(S)
    BY ReplicaAssumption, FS_Subset
  <1>2. Replica \cap Faulty = Faulty
    BY ReplicaAssumption
  <1>3. Cardinality(Correct) = N - Cardinality(Faulty)
    BY <1>1, <1>2, FS_Difference DEF Correct, N
  <1>4. Cardinality(Correct) <= Cardinality(S) /\ Cardinality(S) \in Nat
    BY <1>1, FS_Subset, FS_CardinalityType
  <1>5. N \in Nat /\ Cardinality(Faulty) \in Nat /\ Cardinality(Faulty) <= F
    BY <1>1, FS_CardinalityType DEF N, FewFaults
  <1> QED BY <1>3, <1>4, <1>5, FAssumption

\* Of two sets that hold the correct replicas between them, one has more than F.
LEMMA OneOfTwo ==
    ASSUME FewFaults, N > 3 * F, NEW S \in SUBSET Replica, NEW T \in SUBSET Replica,
           Correct \subseteq S \cup T
    PROVE  /\ ~(Cardinality(S) <= F) \/ ~(Cardinality(T) <= F)
           /\ Cardinality(S) + Cardinality(T) >= N - F
  <1>1. Cardinality(S \cup T) >= N - F /\ Cardinality(S \cup T) >= 2 * F + 1
    BY CorrectCount
  <1>2. IsFiniteSet(S) /\ IsFiniteSet(T) /\ IsFiniteSet(S \cap T)
    BY ReplicaAssumption, FS_Subset
  <1>3. /\ Cardinality(S) \in Nat /\ Cardinality(T) \in Nat /\ Cardinality(S \cap T) \in Nat
        /\ Cardinality(S \cup T) = Cardinality(S) + Cardinality(T) - Cardinality(S \cap T)
    BY <1>2, FS_Union, FS_CardinalityType
  <1>4. N - F \in Int
    BY SizeType
  <1> QED BY <1>1, <1>3, <1>4, FAssumption

AllUndecided == \A p \in Correct : local[p].decision = {}

\* All replicas at rest, none before round r.
LEMMA RestFacts ==
    ASSUME RestInv, Quiescent, AllUndecided, NEW r \in Round,
           NEW p \in Correct, r <= local[p].round, NEW s \in Correct
    PROVE  /\ \A b \in local[s].sentBVal[r] : s \in local[p].receivedBVal[r][b]
           /\ \A b \in local[s].sentAux[r] : s \in local[p].receivedAux[r][b]
           /\ local[s].sentConf[r] # {} => s \in local[p].confFrom[r]
           /\ local[s].coinStarted[r] => s \in local[p].coinShares[r] \/ local[p].coinValue[r] # {}
  <1>0. r \in AnyRound /\ s \in Running /\ p \in Running /\ p \in Replica
    BY RoundTypes
  <1>1. CASE p # s
    <2>1. Received(p, s, r)
      BY <1>0, <1>1 DEF Quiescent
    <2> QED BY <2>1 DEF Received
  <1>2. CASE p = s
    <2>1. SteadyAt(p, local[p], r)
      BY <1>0 DEF RestInv, RestOf, Acted, AllUndecided, Steady
    <2>2. local[p] \in Local
      BY <1>0 DEF RestInv, TypeInv, TypeOK
    <2>3. local[p].sentBVal[r] \subseteq BOOLEAN /\ local[p].sentAux[r] \subseteq BOOLEAN
      BY <1>0, <2>2, FieldTypes DEF Bits
    <2>4. \A b \in BOOLEAN : /\ b \in local[p].sentBVal[r] => p \in local[p].receivedBVal[r][b]
                             /\ b \in local[p].sentAux[r] => p \in local[p].receivedAux[r][b]
      BY <2>1 DEF SteadyAt, CoreAt, BValsAt, AuxsAt
    <2>5. local[p].sentConf[r] # {} => p \in local[p].confFrom[r]
      BY <2>1 DEF SteadyAt, CoreAt, ConfsAt
    <2>6. local[p].coinStarted[r] => p \in local[p].coinShares[r] \/ local[p].coinValue[r] # {}
      BY <2>1 DEF SteadyAt, OwnShare
    <2> QED BY <1>2, <2>3, <2>4, <2>5, <2>6
  <1> QED BY <1>1, <1>2

\* A bit that more than F correct replicas support is in every bin_values.
LEMMA SupportSpreads ==
    ASSUME FewFaults, N > 3 * F, RestInv, Quiescent, AllUndecided, NEW r \in Round,
           \A p \in Correct : r <= local[p].round, NEW b \in BOOLEAN,
           NEW S \in SUBSET Replica, ~(Cardinality(S) <= F),
           \A s \in S : s \in Correct /\ b \in local[s].sentBVal[r]
    PROVE  \A p \in Correct : b \in local[p].binValues[r]
  <1>0. r \in AnyRound /\ Correct \subseteq Replica
    BY RoundTypes
  <1>1. \A p \in Correct : local[p] \in Local /\ Echoed(local[p])
    BY RoundTypes DEF RestInv, TypeInv, TypeOK
  <1>2. ASSUME NEW p \in Correct PROVE b \in local[p].sentBVal[r]
    <2>1. PICK A \in SUBSET Replica : A = local[p].receivedBVal[r][b]
      BY <1>0, <1>1, FieldTypes DEF Votes
    <2>2. S \subseteq A
      BY <2>1, RestFacts
    <2>3. IsFiniteSet(A) /\ Cardinality(A) \in Nat /\ Cardinality(S) \in Nat
      BY ReplicaAssumption, FS_Subset, FS_CardinalityType
    <2>4. Cardinality(S) <= Cardinality(A)
      BY <2>2, <2>3, FS_Subset
    <2>5. ~(Cardinality(A) <= F)
      BY <2>3, <2>4, FAssumption
    <2> QED BY <1>0, <1>1, <2>1, <2>5 DEF Echoed, FewBVals
  <1>3. ASSUME NEW p \in Correct PROVE b \in local[p].binValues[r]
    <2>1. PICK A \in SUBSET Replica : A = local[p].receivedBVal[r][b]
      BY <1>0, <1>1, FieldTypes DEF Votes
    <2>2. Correct \subseteq A
      BY <1>2, <2>1, RestFacts
    <2>3. Cardinality(A) >= 2 * F + 1
      BY <2>2, CorrectCount
    <2>4. BinAll(local[p], r, b)
      BY <1>0 DEF RestInv, RestOf, Acted, AllUndecided, AllBin
    <2> QED BY <2>1, <2>3, <2>4 DEF BinAll
  <1> QED BY <1>3

\* So the bin_values of a round are the same everywhere, and there are some.
LEMMA BinSpreads ==
    ASSUME FewFaults, N > 3 * F, Knows, RestInv, Quiescent, AllUndecided, NEW r \in Round,
           \A p \in Correct : r <= local[p].round, NEW b \in BOOLEAN,
           NEW q \in Correct, b \in local[q].binValues[r]
    PROVE  \A p \in Correct : b \in local[p].binValues[r]
  <1>0. r \in AnyRound /\ q \in Replica
    BY RoundTypes
  <1>1. local[q] \in Local
    BY RoundTypes DEF RestInv, TypeInv, TypeOK
  <1>2. PICK A \in SUBSET Replica : A = local[q].receivedBVal[r][b]
    BY <1>0, <1>1, FieldTypes DEF Votes
  <1>3. Cardinality(A) >= 2 * F + 1
    BY <1>0, <1>2 DEF RestInv, RestOf, Acted, AllUndecided, Steady, SteadyAt, CoreAt, BValsAt
  <1>4. PICK S : S = A \ Faulty
    OBVIOUS
  <1>5. \A s \in S : s \in Correct /\ b \in local[s].sentBVal[r]
    <2>1. HeardBVal(local, local[q])
      BY DEF Knows, Good, GoodAt
    <2>2. \A s \in S : s \in Correct /\ BValFrom(local, s, r, b)
      BY <1>0, <1>2, <1>4, <2>1 DEF HeardBVal, Correct
    <2>3. \A s \in S : local[s].decision # {b}
      BY <2>2 DEF AllUndecided
    <2> QED BY <2>2, <2>3 DEF BValFrom
  <1>6. ~(Cardinality(S) <= F)
    <2>1. IsFiniteSet(A) /\ IsFiniteSet(Faulty) /\ IsFiniteSet(A \cap Faulty)
      BY ReplicaAssumption, FS_Subset
    <2>2. Cardinality(S) = Cardinality(A) - Cardinality(A \cap Faulty)
      BY <1>4, <2>1, FS_Difference
    <2>3. /\ Cardinality(A \cap Faulty) <= Cardinality(Faulty)
          /\ Cardinality(A \cap Faulty) \in Nat /\ Cardinality(A) \in Nat
          /\ Cardinality(Faulty) \in Nat /\ Cardinality(Faulty) <= F
      BY <2>1, FS_Subset, FS_CardinalityType DEF FewFaults
    <2> QED BY <1>3, <2>2, <2>3, FAssumption
  <1>7. S \in SUBSET Replica
    BY <1>4
  <1> QED BY <1>5, <1>6, <1>7, SupportSpreads

LEMMA SomeBin ==
    ASSUME FewFaults, N > 3 * F, Knows, RestInv, Quiescent, AllUndecided, NEW r \in Round,
           \A p \in Correct : r <= local[p].round
    PROVE  \A p \in Correct : local[p].binValues[r] # {}
  <1>0. r \in AnyRound /\ Correct \subseteq Replica
    BY RoundTypes
  <1>1. \A p \in Correct : local[p] \in Local
    BY RoundTypes DEF RestInv, TypeInv, TypeOK
  <1>2. CASE \E q \in Correct : local[q].binValues[r] # {}
    <2>1. PICK q \in Correct : local[q].binValues[r] # {}
      BY <1>2
    <2>2. PICK b \in BOOLEAN : b \in local[q].binValues[r]
      BY <1>0, <1>1, <2>1, FieldTypes DEF Bits
    <2> QED BY <2>2, BinSpreads
  <1>3. CASE \A q \in Correct : local[q].binValues[r] = {}
    <2>1. ASSUME NEW p \in Correct PROVE local[p].sentBVal[r] # {}
      <3>1. RoundsAt(local[p], r)
        BY <1>0 DEF RestInv, RestOf, Acted, AllUndecided, Steady, SteadyAt, CoreAt
      <3>2. p \in Running /\ (local[p].input # {} \/ local[p].round > 0)
        BY RoundTypes DEF Quiescent
      <3>3. /\ r \in Nat /\ local[p].round \in Nat /\ MaxRound \in Nat
            /\ r <= MaxRound /\ r <= local[p].round
        <4>1. r \in Nat /\ local[p].round \in Nat
          BY <1>0, <1>1, FieldTypes, RoundTypes
        <4>2. MaxRound \in Nat
          BY ModeAssumption
        <4>3. r <= MaxRound
          BY <4>2 DEF Round
        <4> QED BY <4>1, <4>2, <4>3
      <3>4. ~(r < local[p].round)
        BY <1>3, <3>1 DEF RoundsAt
      <3>5. 0 < r \/ (r = 0 /\ local[p].input # {})
        BY <3>2, <3>3, <3>4
      <3> QED BY <3>1, <3>3, <3>5 DEF RoundsAt
    <2>2. PICK S : S = {s \in Correct : TRUE \in local[s].sentBVal[r]}
      OBVIOUS
    <2>3. PICK T : T = {s \in Correct : FALSE \in local[s].sentBVal[r]}
      OBVIOUS
    <2>4. S \in SUBSET Replica /\ T \in SUBSET Replica
      BY <1>0, <2>2, <2>3
    <2>5. ASSUME NEW s \in Correct PROVE s \in S \cup T
      <3>1. local[s].sentBVal[r] \subseteq BOOLEAN
        BY <1>0, <1>1, FieldTypes DEF Bits
      <3>2. TRUE \in local[s].sentBVal[r] \/ FALSE \in local[s].sentBVal[r]
        BY <2>1, <3>1
      <3> QED BY <2>2, <2>3, <3>2
    <2>6. ~(Cardinality(S) <= F) \/ ~(Cardinality(T) <= F)
      BY <2>4, <2>5, OneOfTwo
    <2>7. PICK q \in Correct : TRUE
      <3>1. ASSUME Correct = {} PROVE FALSE
        <4>1. S = {} /\ T = {}
          BY <2>2, <2>3, <3>1
        <4>2. Cardinality(S) = 0 /\ Cardinality(T) = 0
          BY <4>1, FS_EmptySet, Zenon
        <4> QED BY <2>6, <4>2, FAssumption
      <3> QED BY <3>1
    <2>8. \A b \in BOOLEAN : b \notin local[q].binValues[r]
      BY <1>3
    <2>9. CASE ~(Cardinality(S) <= F)
      <3>1. PICK b \in BOOLEAN : b = TRUE
        OBVIOUS
      <3>2. \A s \in S : s \in Correct /\ b \in local[s].sentBVal[r]
        BY <2>2, <3>1
      <3>3. b \in local[q].binValues[r]
        BY <2>4, <2>9, <3>2, SupportSpreads
      <3> QED BY <2>8, <3>3
    <2>10. CASE ~(Cardinality(T) <= F)
      <3>1. PICK b \in BOOLEAN : b = FALSE
        OBVIOUS
      <3>2. \A s \in T : s \in Correct /\ b \in local[s].sentBVal[r]
        BY <2>3, <3>1
      <3>3. b \in local[q].binValues[r]
        BY <2>4, <2>10, <3>2, SupportSpreads
      <3> QED BY <2>8, <3>3
    <2> QED BY <2>6, <2>9, <2>10
  <1> QED BY <1>2, <1>3

\* Every AUX of a round is of a bit in bin_values, so CONF follows.
LEMMA AuxsSpread ==
    ASSUME FewFaults, N > 3 * F, Knows, RestInv, Quiescent, AllUndecided, NEW r \in Round,
           \A p \in Correct : r <= local[p].round
    PROVE  \A p \in Correct : local[p].sentConf[r] # {}
  <1>0. r \in AnyRound /\ Correct \subseteq Replica
    BY RoundTypes
  <1>1. \A p \in Correct : local[p] \in Local /\ SteadyAt(p, local[p], r)
    BY <1>0, RoundTypes DEF RestInv, TypeInv, TypeOK, RestOf, Acted, AllUndecided, Steady
  <1>2. PICK S : S = {s \in Correct : TRUE \in local[s].sentAux[r]}
    OBVIOUS
  <1>3. PICK T : T = {s \in Correct : FALSE \in local[s].sentAux[r]}
    OBVIOUS
  <1>4. S \in SUBSET Replica /\ T \in SUBSET Replica
    BY <1>0, <1>2, <1>3
  <1>5. ASSUME NEW s \in Correct PROVE s \in S \cup T
    <2>1. local[s].sentAux[r] \subseteq BOOLEAN
      BY <1>0, <1>1, FieldTypes DEF Bits
    <2>2. local[s].sentAux[r] # {}
      BY <1>1, SomeBin DEF SteadyAt, CoreAt, AuxsAt
    <2> QED BY <1>2, <1>3, <2>1, <2>2
  <1>6. Cardinality(S) + Cardinality(T) >= N - F
    BY <1>4, <1>5, OneOfTwo
  <1>7. \A s \in Correct : local[s].sentAux[r] \subseteq local[s].binValues[r]
    BY <1>1 DEF SteadyAt, CoreAt, AuxsAt
  <1>8. ASSUME NEW p \in Correct PROVE local[p].sentConf[r] # {}
    <2>1. PICK g \in [BOOLEAN -> SUBSET Replica] : g = local[p].receivedAux[r]
      BY <1>0, <1>1, FieldTypes DEF Votes
    <2>2. PICK V \in SUBSET BOOLEAN : V = local[p].binValues[r]
      BY <1>0, <1>1, FieldTypes DEF Bits
    <2>3. /\ \A s \in Correct : \A b \in local[s].sentAux[r] : s \in g[b]
          /\ \A s \in Correct : \A b \in BOOLEAN : b \in local[s].sentAux[r] => b \in V
      <3>1. \A s \in Correct : \A b \in local[s].sentAux[r] : s \in g[b]
        BY <2>1, RestFacts
      <3>2. ASSUME NEW s \in Correct, NEW b \in BOOLEAN, b \in local[s].sentAux[r] PROVE b \in V
        <4>1. b \in local[s].binValues[r]
          BY <1>7, <3>2
        <4> QED BY <2>2, <4>1, BinSpreads
      <3> QED BY <3>1, <3>2
    <2>4. /\ Cardinality(g[TRUE]) \in Nat /\ Cardinality(g[FALSE]) \in Nat
          /\ Cardinality(S) \in Nat /\ Cardinality(T) \in Nat
      BY <1>4, ReplicaAssumption, FS_Subset, FS_CardinalityType
    <2>5. PICK i \in Nat : i = IF TRUE \in V THEN Cardinality(g[TRUE]) ELSE 0
      BY <2>4
    <2>6. PICK j \in Nat : j = IF FALSE \in V THEN Cardinality(g[FALSE]) ELSE 0
      BY <2>4
    <2>7. Cardinality(S) <= i
      <3>1. CASE TRUE \in V
        <4>1. S \subseteq g[TRUE]
          BY <1>2, <2>3
        <4>2. IsFiniteSet(g[TRUE])
          BY ReplicaAssumption, FS_Subset
        <4> QED BY <2>5, <3>1, <4>1, <4>2, FS_Subset
      <3>2. CASE TRUE \notin V
        <4>1. S = {}
          BY <1>2, <2>3, <3>2
        <4>2. Cardinality(S) = 0
          BY <4>1, FS_EmptySet, Zenon
        <4> QED BY <4>2
      <3> QED BY <3>1, <3>2
    <2>8. Cardinality(T) <= j
      <3>1. CASE FALSE \in V
        <4>1. T \subseteq g[FALSE]
          BY <1>3, <2>3
        <4>2. IsFiniteSet(g[FALSE])
          BY ReplicaAssumption, FS_Subset
        <4> QED BY <2>6, <3>1, <4>1, <4>2, FS_Subset
      <3>2. CASE FALSE \notin V
        <4>1. T = {}
          BY <1>3, <2>3, <3>2
        <4>2. Cardinality(T) = 0
          BY <4>1, FS_EmptySet, Zenon
        <4> QED BY <4>2
      <3> QED BY <3>1, <3>2
    <2>9. CountAux(local[p], r) = i + j
      <3>1. CountAux(local[p], r) = (IF TRUE \in V THEN Cardinality(g[TRUE]) ELSE 0)
                                    + (IF FALSE \in V THEN Cardinality(g[FALSE]) ELSE 0)
        BY <2>1, <2>2 DEF CountAux
      <3> QED BY <2>5, <2>6, <3>1, Zenon
    <2>10. CountAux(local[p], r) >= N - F
      BY <1>6, <2>4, <2>7, <2>8, <2>9, SizeType
    <2>11. AuxsSeen(local[p], r) /\ local[p].binValues[r] # {}
      BY <1>1, SomeBin DEF SteadyAt
    <2> QED BY <2>10, <2>11 DEF AuxsSeen
  <1> QED BY <1>8

\* The CONFs of a round hold bits of bin_values, so the coin is invoked, if the
\* one handler that looks for N - F of them has not missed the last.
LEMMA ConfsSpread ==
    ASSUME FewFaults, N > 3 * F, Knows, RestInv, Quiescent, AllUndecided, ConfQuorumActedOn,
           NEW r \in Round, \A p \in Correct : r <= local[p].round
    PROVE  \A p \in Correct : local[p].coinStarted[r]
  <1>0. r \in AnyRound /\ Correct \subseteq Replica
    BY RoundTypes
  <1>1. \A p \in Correct : local[p] \in Local /\ SteadyAt(p, local[p], r)
    BY <1>0, RoundTypes DEF RestInv, TypeInv, TypeOK, RestOf, Acted, AllUndecided, Steady
  <1>2. ASSUME NEW p \in Correct PROVE local[p].coinStarted[r]
    <2>1. PICK V \in SUBSET BOOLEAN : V = local[p].binValues[r]
      BY <1>0, <1>1, FieldTypes DEF Bits
    <2>2. ASSUME NEW s \in Correct
          PROVE  local[p].receivedConf[r][s] # {} /\ local[p].receivedConf[r][s] \subseteq V
      <3>1. s \in local[p].confFrom[r]
        BY <2>2, AuxsSpread, RestFacts
      <3>2. local[p].receivedConf[r][s] # {}
        BY <1>1, <3>1 DEF SteadyAt, CoreAt, ConfsAt
      <3>3. CASE s = p
        BY <1>1, <2>1, <3>2, <3>3 DEF SteadyAt, CoreAt, ConfsAt
      <3>4. CASE s # p
        <4>1. local[p].receivedConf[r][s] \subseteq local[s].binValues[r]
          BY <1>0, <3>4 DEF RestInv, RestOf, HeardConf, ConfsHeard, AllUndecided
        <4>2. local[s].binValues[r] \subseteq BOOLEAN
          BY <1>0, <1>1, FieldTypes DEF Bits
        <4>3. \A b \in BOOLEAN : b \in local[s].binValues[r] => b \in V
          BY <2>1, BinSpreads
        <4> QED BY <3>2, <4>1, <4>2, <4>3
      <3> QED BY <3>3, <3>4
    <2>3. PICK S : S = {s \in Replica : /\ local[p].receivedConf[r][s] # {}
                                        /\ local[p].receivedConf[r][s] \subseteq V}
      OBVIOUS
    <2>4. S \in SUBSET Replica /\ Correct \subseteq S
      BY <1>0, <2>2, <2>3
    <2>5. Cardinality(S) >= N - F
      BY <2>4, CorrectCount
    <2>6. CountConf(local[p], r) >= N - F
      BY <2>1, <2>3, <2>5 DEF CountConf
    <2>7. ConfValues(local[p], r) # {}
      BY AuxsSpread, SomeBin DEF ConfValues
    <2>8. local[p].decision = {}
      BY DEF AllUndecided
    <2> QED BY <2>6, <2>7, <2>8 DEF ConfQuorumActedOn, Decision
  <1> QED BY <1>2

\* So the shares of all are there, the coin is known, and the round is left.
LEMMA RoundLeft ==
    ASSUME FewFaults, N > 3 * F, Knows, RestInv, Quiescent, AllUndecided, ConfQuorumActedOn,
           NEW r \in Round, \A p \in Correct : r <= local[p].round
    PROVE  \A p \in Correct : r < local[p].round
  <1>0. r \in AnyRound /\ Correct \subseteq Replica
    BY RoundTypes
  <1>1. \A p \in Correct : local[p] \in Local /\ SteadyAt(p, local[p], r)
    BY <1>0, RoundTypes DEF RestInv, TypeInv, TypeOK, RestOf, Acted, AllUndecided, Steady
  <1>2. ASSUME NEW p \in Correct PROVE r < local[p].round
    <2>1. local[p].coinStarted[r]
      BY ConfsSpread
    <2>2. ASSUME local[p].coinValue[r] = {} PROVE FALSE
      <3>1. PICK S \in SUBSET Replica : S = local[p].coinShares[r]
        BY <1>0, <1>1, FieldTypes
      <3>2. \A s \in Correct : s \in S
        BY <2>2, <3>1, ConfsSpread, RestFacts
      <3>3. Cardinality(S) >= 2 * F + 1
        BY <3>2, CorrectCount
      <3>4. Cardinality(S) <= 2 * F
        BY <1>1, <2>2, <3>1 DEF SteadyAt, CoreAt, CoinsAt
      <3>5. Cardinality(S) \in Nat
        BY ReplicaAssumption, FS_Subset, FS_CardinalityType
      <3> QED BY <3>3, <3>4, <3>5, FAssumption
    <2> QED BY <1>1, <2>1, <2>2 DEF SteadyAt, CoinActedOn
  <1> QED BY <1>2

\* At rest, the round that the last of them is in would be left.
AllPast == \A p \in Correct : local[p].round > MaxRound

LEMMA AtRest ==
    ASSUME FewFaults, N > 3 * F, Knows, RestInv, Quiescent, AllUndecided, ConfQuorumActedOn
    PROVE  AllPast
  <1> SUFFICES ASSUME NEW q \in Correct, ~(local[q].round > MaxRound) PROVE FALSE
    BY DEF AllPast
  <1>1. \A p \in Correct : local[p].round \in Nat
    BY FieldTypes, RoundTypes DEF RestInv, TypeInv, TypeOK
  <1>2. PICK S : S = {local[p].round : p \in Correct}
    OBVIOUS
  <1>3. S \in SUBSET Nat /\ S # {}
    BY <1>1, <1>2
  <1>4. PICK r \in S : \A m \in S : r <= m
    BY <1>3, LeastRound
  <1>5. \A p \in Correct : r <= local[p].round
    BY <1>2, <1>4
  <1>6. r \in Round
    <2>1. r \in Nat /\ local[q].round \in Nat /\ MaxRound \in Nat
      BY <1>1, <1>3, <1>4, ModeAssumption
    <2>2. r <= local[q].round
      BY <1>5
    <2> QED BY <2>1, <2>2 DEF Round
  <1>7. PICK p \in Correct : local[p].round = r
    BY <1>2, <1>4
  <1>8. r < local[p].round
    BY <1>5, <1>6, RoundLeft
  <1> QED BY <1>1, <1>7, <1>8

LEMMA RestAlways == Spec => []RestInv
  <1> QED BY RestInit, RestNext, PTL DEF Spec

\* No instance comes to rest without a decision except by the race of CONF: when
\* N > 3F, at most F replicas are faulty, whatever they send, and every correct
\* replica has its input and all the messages of the others, one that has acted
\* on its CONFs (ConfQuorumActedOn) is not stuck in any round.  The quorums of
\* BVAL, AUX and COIN are never missed by the handlers that look for them.
THEOREM RoundsEnd == ASSUME FewFaults, N > 3 * F PROVE Spec => []OnlyConfsStall
  <1>1. Knows /\ RestInv => OnlyConfsStall
    BY AtRest DEF OnlyConfsStall, AllUndecided, AllPast, Decision
  <1> QED BY <1>1, KnowsAlways, RestAlways, PTL
=============================================================================
