----------------------- MODULE EchoVBroadcast2_proofs -----------------------
(***************************************************************************)
(* What EchoVBroadcast2 guarantees for every number of replicas, every     *)
(* value of F and every set of values.  The hypotheses that are not in the *)
(* code are written where a theorem needs them: that f is the f of 3f+1    *)
(* replicas and, against a proposer that does not run the code, that one   *)
(* thread at a time runs handleSendMessage and that an instance is not     *)
(* made again after its removal.                                           *)
(***************************************************************************)
EXTENDS EchoVBroadcast2, FiniteSetTheorems, TLAPS

\* At most 3f+1 replicas, at most f of them faulty.
Resilient == Cardinality(Replica) <= 3 * F + 1 /\ Cardinality(Faulty) <= F
-----------------------------------------------------------------------------
\* Who runs the code: at least the correct replicas.
LEMMA RunningReplicas ==
    /\ IsFiniteSet(Replica) /\ IsFiniteSet(Faulty) /\ Faulty \subseteq Replica
    /\ Proposer \in Replica
    /\ Correct \subseteq Running /\ Running \subseteq Replica
    /\ Replica \ Running \subseteq Faulty
  BY ReplicaAssumption, FS_Subset DEF Running, Correct

\* A set of more than f replicas has a correct member.
LEMMA MoreThanF ==
    ASSUME Cardinality(Faulty) <= F, NEW S \in SUBSET Replica, IsFiniteSet(S),
           Cardinality(S) > F
    PROVE  \E r \in Correct : r \in S
  <1>1. SUFFICES ASSUME S \subseteq Faulty PROVE FALSE
    BY DEF Correct
  <1>2. Cardinality(S) <= Cardinality(Faulty)
    BY <1>1, FS_Subset, RunningReplicas
  <1>3. Cardinality(S) \in Nat /\ Cardinality(Faulty) \in Nat
    BY FS_CardinalityType, RunningReplicas
  <1> QED BY <1>2, <1>3, FAssumption

\* Two quorums of 2f+1 replicas meet in a correct one.
LEMMA QuorumsMeet ==
    ASSUME Resilient, NEW S \in SUBSET Replica, NEW T \in SUBSET Replica,
           Cardinality(S) >= Quorum, Cardinality(T) >= Quorum
    PROVE  \E r \in Correct : r \in S /\ r \in T
  <1>1. IsFiniteSet(S) /\ IsFiniteSet(T) /\ IsFiniteSet(S \cup T) /\ IsFiniteSet(S \cap T)
    BY RunningReplicas, FS_Subset
  <1>2. Cardinality(S \cup T) = Cardinality(S) + Cardinality(T) - Cardinality(S \cap T)
    BY <1>1, FS_Union
  <1>3. Cardinality(S \cup T) <= Cardinality(Replica)
    BY RunningReplicas, FS_Subset, S \cup T \subseteq Replica
  <1>4. /\ Cardinality(S) \in Nat /\ Cardinality(T) \in Nat /\ Cardinality(S \cup T) \in Nat
        /\ Cardinality(S \cap T) \in Nat /\ Cardinality(Replica) \in Nat
    BY <1>1, RunningReplicas, FS_CardinalityType
  <1>5. Cardinality(S \cap T) > F
    BY <1>2, <1>3, <1>4, FAssumption DEF Resilient, Quorum
  <1>6. \E r \in Correct : r \in S \cap T
    BY <1>1, <1>5, MoreThanF, S \cap T \in SUBSET Replica DEF Resilient
  <1> QED BY <1>6

\* The signers of a value are replicas.
LEMMA SignersAreReplicas == \A v : Signers(v) \subseteq Replica /\ IsFiniteSet(Signers(v))
  <1>1. \A v : Signers(v) \subseteq Replica
    BY RunningReplicas DEF Signers
  <1> QED BY <1>1, RunningReplicas, FS_Subset

\* The values a valid signature can be made of, and who signed what.
CertifiedValues == {v \in Value : Certified(v)}
SignersOf == [v \in Value |-> Signers(v)]

\* A signature that can be made stays one that can be made: nobody takes a
\* share back.
LEMMA CertifiedStays ==
    ASSUME \A r \in Replica : echoed[r] \subseteq echoed'[r]
    PROVE  /\ \A v \in Value : SignersOf[v] \subseteq SignersOf'[v]
           /\ CertifiedValues \subseteq CertifiedValues'
  <1>1. \A v \in Value : SignersOf[v] \subseteq SignersOf'[v]
    BY RunningReplicas DEF SignersOf, Signers
  <1>2. ASSUME NEW v \in CertifiedValues PROVE v \in CertifiedValues'
    <2>1. Signers(v) \subseteq Signers(v)' /\ Signers(v)' \subseteq Replica
      BY RunningReplicas DEF Signers
    <2>2. IsFiniteSet(Signers(v)')
      BY <2>1, RunningReplicas, FS_Subset
    <2>3. /\ Cardinality(Signers(v)) <= Cardinality(Signers(v)')
          /\ Cardinality(Signers(v)) \in Nat /\ Cardinality(Signers(v)') \in Nat
      BY <2>1, <2>2, SignersAreReplicas, FS_Subset, FS_CardinalityType
    <2> QED BY <2>3, FAssumption DEF CertifiedValues, Certified, Quorum
  <1> QED BY <1>1, <1>2

-----------------------------------------------------------------------------
(***************************************************************************)
(* Type correctness.                                                       *)
(***************************************************************************)

\* The end of an ECHO, at the proposer, keeps the types.
LEMMA AcceptEchoType ==
    ASSUME TypeOK, NEW v \in Value, NEW em \in [Replica -> Share], AcceptEcho(v, em)
    PROVE  /\ echoMessages' \in [Replica -> Share]
           /\ finalSent' \in BOOLEAN
           /\ finals' \in SUBSET FinalMessage
           /\ terminated' \in [Replica -> BOOLEAN]
           /\ output' \in [Replica -> Value \cup {None}]
  <1> DEFINE m == [value |-> v, valid |-> CombineValid(em)]
  <1>1. m \in FinalMessage
    <2>1. CombineValid(em) \in BOOLEAN
      BY DEF CombineValid
    <2> QED BY <2>1 DEF FinalMessage
  <1>2. CASE UNCHANGED <<finalSent, finals, terminated, output>>
    BY <1>2 DEF TypeOK, AcceptEcho
  <1>3. CASE /\ finalSent' = TRUE /\ finals' = finals \cup {m}
             /\ HandleFinal(Proposer, m)
    <2>1. m.value \in Value
      BY <1>1 DEF FinalMessage
    <2>2. echoMessages' = em
      BY DEF AcceptEcho
    <2> HIDE DEF m
    <2> QED BY <1>1, <1>3, <2>1, <2>2, RunningReplicas DEF TypeOK, HandleFinal
  <1>4. CASE /\ finalSent' = TRUE /\ finals' = finals \cup {m}
             /\ UNCHANGED <<terminated, output>>
    <2>1. echoMessages' = em
      BY DEF AcceptEcho
    <2> HIDE DEF m
    <2> QED BY <1>1, <1>4, <2>1 DEF TypeOK
  <1> QED BY <1>2, <1>3, <1>4 DEF AcceptEcho

\* The state is of its type at all times.
THEOREM TypeCorrect == Spec => []TypeOK
  <1>1. Init => TypeOK
    BY ValueAssumption DEF Init, TypeOK, Share, FinalMessage
  <1>2. TypeOK /\ [Next]_vars => TypeOK'
    <2> SUFFICES ASSUME TypeOK, [Next]_vars PROVE TypeOK'
      OBVIOUS
    <2>1. ASSUME NEW v \in Value, HandleInput(v) PROVE TypeOK'
      <3>1. ShareOf(Proposer) \in Share
        BY DEF ShareOf, Share
      <3>2. OwnEcho \in [Replica -> Share]
        BY <3>1 DEF OwnEcho, TypeOK
      <3>3. /\ input' \in Value \cup {None} /\ signing' \in [Replica -> SUBSET Value]
            /\ echoSent' \in [Replica -> BOOLEAN] /\ echoed' \in [Replica -> SUBSET Value]
        BY <2>1 DEF TypeOK, HandleInput
      <3>4. AcceptEcho(v, OwnEcho)
        BY <2>1 DEF HandleInput
      <3> QED BY <3>2, <3>3, <3>4, AcceptEchoType DEF TypeOK
    <2>2. ASSUME NEW r \in Replica, NEW v \in Value, BeginHandleSend(r, v) PROVE TypeOK'
      BY <2>2 DEF TypeOK, BeginHandleSend
    <2>3. ASSUME NEW r \in Replica, NEW v \in Value, FinishHandleSend(r, v) PROVE TypeOK'
      BY <2>3 DEF TypeOK, FinishHandleSend
    <2>4. ASSUME NEW r \in Replica, NEW k \in {"good", "bad"}, HandleEcho(r, k) PROVE TypeOK'
      <3>1. input \in Value
        BY <2>4 DEF TypeOK, HandleEcho
      <3>2. [echoMessages EXCEPT ![r] = k] \in [Replica -> Share]
        BY DEF TypeOK, Share
      <3>3. AcceptEcho(input, [echoMessages EXCEPT ![r] = k])
        BY <2>4 DEF HandleEcho
      <3> QED BY <2>4, <3>1, <3>2, <3>3, AcceptEchoType DEF TypeOK, HandleEcho
    <2>5. ASSUME NEW r \in Replica, HandleProposerFinal(r) PROVE TypeOK'
      <3>1. PICK m \in FinalMessage : HandleFinal(r, m)
        BY <2>5 DEF TypeOK, HandleProposerFinal
      <3>2. m.value \in Value
        BY DEF FinalMessage
      <3> QED BY <2>5, <3>1, <3>2 DEF TypeOK, HandleProposerFinal, HandleFinal
    <2>6. ASSUME NEW r \in Replica, HandleFaultyFinal(r) PROVE TypeOK'
      <3>1. PICK m \in FinalMessage : HandleFinal(r, m)
        BY <2>6 DEF HandleFaultyFinal
      <3>2. m.value \in Value
        BY DEF FinalMessage
      <3> QED BY <2>6, <3>1, <3>2 DEF TypeOK, HandleFaultyFinal, HandleFinal
    <2>7. ASSUME NEW r \in Replica, RemoveInstance(r) PROVE TypeOK'
      BY <2>7 DEF TypeOK, RemoveInstance
    <2>8. CASE UNCHANGED vars
      BY <2>8 DEF TypeOK, vars
    <2> QED BY <2>1, <2>2, <2>3, <2>4, <2>5, <2>6, <2>7, <2>8 DEF Next, HandleSend
  <1> QED BY <1>1, <1>2, PTL DEF Spec
-----------------------------------------------------------------------------
(***************************************************************************)
(* A proposer that runs the code sends one value, and that one is signed.  *)
(***************************************************************************)
InputInv ==
    Proposer \in Running =>
        \A r \in Running : \A v \in echoed[r] \cup signing[r] : v = input

\* A replica that runs the code signs what the proposer input, whatever the
\* number of threads.
LEMMA OnlyInputSigned == Spec => []InputInv
  <1>1. Init => InputInv
    BY RunningReplicas DEF Init, InputInv
  <1>2. TypeOK /\ InputInv /\ [Next]_vars => InputInv'
    <2> SUFFICES ASSUME TypeOK, InputInv, [Next]_vars, Proposer \in Running
                 PROVE  \A r \in Running : \A v \in echoed'[r] \cup signing'[r] : v = input'
      BY DEF InputInv
    <2>1. ASSUME NEW v \in Value, HandleInput(v)
          PROVE  \A r \in Running : \A w \in echoed'[r] \cup signing'[r] : w = input'
      <3>1. \A r \in Running : echoed[r] = {} /\ signing[r] = {}
        BY <2>1, ValueAssumption, RunningReplicas DEF HandleInput, InputInv, TypeOK
      <3>2. /\ input' = v /\ signing' = signing
            /\ echoed' = [echoed EXCEPT ![Proposer] = {v}]
        BY <2>1, <3>1 DEF HandleInput, TypeOK
      <3> QED BY <3>1, <3>2, RunningReplicas DEF TypeOK
    <2>2. ASSUME NEW r \in Replica, NEW v \in Value, BeginHandleSend(r, v)
          PROVE  \A s \in Running : \A w \in echoed'[s] \cup signing'[s] : w = input'
      BY <2>2, RunningReplicas DEF BeginHandleSend, SendArrives, InputInv, TypeOK
    <2>3. ASSUME NEW r \in Replica, NEW v \in Value, FinishHandleSend(r, v)
          PROVE  \A s \in Running : \A w \in echoed'[s] \cup signing'[s] : w = input'
      BY <2>3, RunningReplicas DEF FinishHandleSend, InputInv, TypeOK
    <2>4. ASSUME UNCHANGED <<input, signing, echoed>>
          PROVE  \A s \in Running : \A w \in echoed'[s] \cup signing'[s] : w = input'
      BY <2>4 DEF InputInv
    <2> QED BY <2>1, <2>2, <2>3, <2>4
            DEF Next, vars, HandleSend, HandleEcho, HandleProposerFinal, HandleFaultyFinal,
                RemoveInstance
  <1> QED BY <1>1, <1>2, TypeCorrect, PTL DEF Spec
-----------------------------------------------------------------------------
(***************************************************************************)
(* A replica signs once.  The test of echoSent protects nothing by itself: *)
(* what makes it enough is that a SEND past the test, in signing, is alone *)
(* and that echoSent is still FALSE while it is there.                     *)
(***************************************************************************)
OnceAt(r) ==
    /\ \A v, w \in echoed[r] : v = w
    /\ \A v, w \in signing[r] : v = w
    /\ echoed[r] # {} => echoSent[r]
    /\ signing[r] # {} => ~echoSent[r]

OnceInv ==
    /\ \A r \in Running : OnceAt(r)
    /\ Proposer \in Running => /\ signing[Proposer] = {}
                               /\ input = None => echoed[Proposer] = {}

\* With one thread, no step takes the invariant away.
LEMMA OnceStep ==
    ASSUME Workers = 1, ~Removal, TypeOK, OnceInv, [Next]_vars
    PROVE  OnceInv'
  <1>1. ASSUME NEW v \in Value, HandleInput(v) PROVE OnceInv'
    <2>1. /\ input' = v /\ v # None
          /\ signing' = signing
          /\ echoSent' = [echoSent EXCEPT ![Proposer] = TRUE]
          /\ echoed' = [echoed EXCEPT ![Proposer] = {v}]
      BY <1>1, ValueAssumption, RunningReplicas DEF HandleInput, OnceInv, TypeOK
    <2> QED BY <2>1, RunningReplicas DEF OnceInv, OnceAt, TypeOK
  <1>2. ASSUME NEW r \in Replica, NEW v \in Value, BeginHandleSend(r, v) PROVE OnceInv'
    <2>1. r \in Running /\ r # Proposer /\ ~echoSent[r]
      BY <1>2 DEF BeginHandleSend
    <2>2. signing[r] = {}
      <3>1. SUFFICES ASSUME NEW w \in signing[r] PROVE FALSE
        OBVIOUS
      <3>2. signing[r] = {w}
        BY <2>1, <3>1 DEF OnceInv, OnceAt
      <3>3. Cardinality(signing[r]) = 1
        BY <3>2, FS_Singleton
      <3> QED BY <1>2, <3>3 DEF BeginHandleSend
    <2>3. /\ signing' = [signing EXCEPT ![r] = {v}]
          /\ input' = input /\ echoSent' = echoSent /\ echoed' = echoed
      BY <1>2, <2>2 DEF BeginHandleSend, TypeOK
    <2> QED BY <2>1, <2>3, RunningReplicas DEF OnceInv, OnceAt, TypeOK
  <1>3. ASSUME NEW r \in Replica, NEW v \in Value, FinishHandleSend(r, v) PROVE OnceInv'
    <2>1. CASE r \in Running
      <3>1. signing[r] = {v} /\ echoed[r] = {} /\ r # Proposer
        BY <1>3, <2>1 DEF FinishHandleSend, OnceInv, OnceAt
      <3>2. /\ signing' = [signing EXCEPT ![r] = {}]
            /\ echoSent' = [echoSent EXCEPT ![r] = TRUE]
            /\ echoed' = [echoed EXCEPT ![r] = {v}]
            /\ input' = input
        BY <1>3, <3>1 DEF FinishHandleSend, TypeOK
      <3> QED BY <2>1, <3>1, <3>2, RunningReplicas DEF OnceInv, OnceAt, TypeOK
    <2>2. CASE r \notin Running
      BY <1>3, <2>2, RunningReplicas DEF FinishHandleSend, OnceInv, OnceAt, TypeOK
    <2> QED BY <2>1, <2>2
  <1>4. ASSUME UNCHANGED <<input, signing, echoSent, echoed>> PROVE OnceInv'
    BY <1>4 DEF OnceInv, OnceAt
  <1> QED BY <1>1, <1>2, <1>3, <1>4
          DEF Next, vars, HandleSend, HandleEcho, HandleProposerFinal, HandleFaultyFinal,
              RemoveInstance

\* What makes a replica sign one digest: that there is one, or that one thread
\* at a time handles the SENDs of an instance that is not made again.
OneDigest == Proposer \in Running \/ (Workers = 1 /\ ~Removal)

\* A correct replica signs one digest of an instance: with several threads, and
\* with instances that are removed and made again, if the proposer runs the code.
LEMMA SignsOnce == ASSUME OneDigest PROVE Spec => []SignOnce
  <1>1. CASE Proposer \in Running
    <2>1. InputInv => SignOnce
      BY <1>1, RunningReplicas DEF InputInv, SignOnce
    <2> QED BY <2>1, OnlyInputSigned, PTL
  <1>2. CASE Workers = 1 /\ ~Removal
    <2>1. Init => OnceInv
      BY RunningReplicas DEF Init, OnceInv, OnceAt
    <2>2. TypeOK /\ OnceInv /\ [Next]_vars => OnceInv'
      BY <1>2, OnceStep
    <2>3. OnceInv => SignOnce
      BY RunningReplicas DEF OnceInv, OnceAt, SignOnce
    <2> QED BY <2>1, <2>2, <2>3, TypeCorrect, PTL DEF Spec
  <1> QED BY <1>1, <1>2 DEF OneDigest
-----------------------------------------------------------------------------
(***************************************************************************)
(* What is delivered is certified: 2f+1 replicas signed it.                *)
(***************************************************************************)
BackedInv ==
    /\ input = None => \A r \in Replica : echoMessages[r] = "none"
    /\ \A v \in Value, r \in Replica :
           input = v /\ echoMessages[r] = "good" => r \in SignersOf[v]
    /\ \A v \in Value : [value |-> v, valid |-> TRUE] \in finals => v \in CertifiedValues
    /\ \A v \in Value, r \in Replica :
           output[r] = v => v \in CertifiedValues

\* A signature combined from accepted ECHOs verifies only if there are 2f+1
\* signers behind it.
LEMMA CombineCertifies ==
    ASSUME NEW S \in SUBSET Replica, NEW em \in [Replica -> Share],
           Cardinality(Accepted(em)) >= Quorum, CombineValid(em),
           \A r \in Replica : em[r] = "good" => r \in S
    PROVE  Cardinality(S) >= Quorum
  <1>1. Accepted(em) \subseteq S /\ IsFiniteSet(S)
    BY RunningReplicas, FS_Subset DEF Accepted, CombineValid
  <1>2. /\ Cardinality(Accepted(em)) <= Cardinality(S)
        /\ Cardinality(Accepted(em)) \in Nat /\ Cardinality(S) \in Nat
    BY <1>1, FS_Subset, FS_CardinalityType
  <1> QED BY <1>2, FAssumption DEF Quorum

\* Nobody takes a share back.
LEMMA EchoedGrows ==
    ASSUME TypeOK, [Next]_vars
    PROVE  \A r \in Replica : echoed[r] \subseteq echoed'[r]
  <1>1. ASSUME NEW v \in Value, HandleInput(v)
        PROVE  echoed' = [echoed EXCEPT ![Proposer] = @ \cup {v}]
    BY <1>1 DEF HandleInput
  <1>2. ASSUME NEW r \in Replica, NEW v \in Value, FinishHandleSend(r, v)
        PROVE  echoed' = [echoed EXCEPT ![r] = @ \cup {v}]
    BY <1>2 DEF FinishHandleSend
  <1>3. ASSUME \A v \in Value : ~HandleInput(v),
               \A r \in Replica, v \in Value : ~FinishHandleSend(r, v)
        PROVE  echoed' = echoed
    BY <1>3 DEF Next, vars, HandleSend, BeginHandleSend, HandleEcho, HandleProposerFinal,
                HandleFaultyFinal, RemoveInstance
  <1>4. ASSUME NEW r \in Replica, NEW v \in Value,
               echoed' = [echoed EXCEPT ![r] = @ \cup {v}]
        PROVE  \A s \in Replica : echoed[s] \subseteq echoed'[s]
    BY <1>4 DEF TypeOK
  <1> QED BY <1>1, <1>2, <1>3, <1>4, RunningReplicas

\* A FINAL is delivered when it verifies, and it verifies when it is certified.
LEMMA FinalStep ==
    ASSUME TypeOK, BackedInv, NEW r \in Replica, NEW m \in FinalMessage,
           HandleFinal(r, m), m.valid => m.value \in CertifiedValues'
    PROVE  \A v \in Value, s \in Replica :
               output'[s] = v => output[s] = v \/ v \in CertifiedValues'
  <1> SUFFICES ASSUME NEW v \in Value, NEW s \in Replica, output'[s] = v
               PROVE  output[s] = v \/ v \in CertifiedValues'
    OBVIOUS
  <1>1. CASE s = r /\ m.valid
    <2>1. output[s] = v \/ m.value = v
      BY <1>1 DEF HandleFinal, TypeOK
    <2> QED BY <1>1, <2>1
  <1>2. CASE s # r \/ ~m.valid
    BY <1>2 DEF HandleFinal, TypeOK, BackedInv
  <1> QED BY <1>1, <1>2

\* The end of an ECHO, at the proposer, keeps what is delivered certified.
LEMMA AcceptEchoBacked ==
    ASSUME TypeOK, BackedInv, NEW v \in Value, NEW em \in [Replica -> Share],
           AcceptEcho(v, em),
           CertifiedValues \subseteq CertifiedValues',
           \A r \in Replica : em[r] = "good" => r \in SignersOf'[v],
           input' = v
    PROVE  BackedInv'
  <1> DEFINE m == [value |-> v, valid |-> CombineValid(em)]
  <1>1. v # None /\ echoMessages' = em
    BY ValueAssumption DEF AcceptEcho
  <1>2. CASE UNCHANGED <<finalSent, finals, terminated, output>>
    BY <1>1, <1>2 DEF BackedInv
  <1>3. CASE ~ UNCHANGED <<finalSent, finals, terminated, output>>
    <2>1. /\ Cardinality(Accepted(em)) >= Quorum
          /\ finals' = finals \cup {m}
          /\ HandleFinal(Proposer, m) \/ UNCHANGED <<terminated, output>>
      BY <1>3 DEF AcceptEcho
    <2>2. CombineValid(em) => v \in CertifiedValues'
      <3>1. Signers(v)' \in SUBSET Replica /\ SignersOf'[v] = Signers(v)'
        BY RunningReplicas DEF Signers, SignersOf
      <3>2. CombineValid(em) => Cardinality(Signers(v)') >= Quorum
        BY <2>1, <3>1, CombineCertifies
      <3> QED BY <3>2 DEF CertifiedValues, Certified
    <2>3. m \in FinalMessage /\ m.value = v /\ m.valid = CombineValid(em)
      BY DEF FinalMessage, CombineValid
    <2>4. \A w \in Value, s \in Replica : output'[s] = w => w \in CertifiedValues'
      <3>1. CASE HandleFinal(Proposer, m)
        <4> HIDE DEF m
        <4>1. m.valid => m.value \in CertifiedValues'
          BY <2>2, <2>3
        <4>2. \A w \in Value, s \in Replica :
                  output'[s] = w => output[s] = w \/ w \in CertifiedValues'
          BY <2>3, <3>1, <4>1, FinalStep, RunningReplicas
        <4> QED BY <4>2 DEF BackedInv
      <3>2. CASE UNCHANGED <<terminated, output>>
        BY <3>2 DEF BackedInv
      <3> QED BY <2>1, <3>1, <3>2
    <2>5. \A w \in Value : [value |-> w, valid |-> TRUE] \in finals' => w \in CertifiedValues'
      BY <2>1, <2>2 DEF BackedInv
    <2> QED BY <1>1, <2>4, <2>5 DEF BackedInv
  <1> QED BY <1>2, <1>3

\* Every step keeps what is delivered certified.
LEMMA BackedStep ==
    ASSUME TypeOK, BackedInv, [Next]_vars
    PROVE  BackedInv'
  <1> USE RunningReplicas
  <1>0. /\ \A r \in Replica : echoed[r] \subseteq echoed'[r]
        /\ \A v \in Value : SignersOf[v] \subseteq SignersOf'[v]
        /\ CertifiedValues \subseteq CertifiedValues'
    BY EchoedGrows, CertifiedStays
  <1>1. ASSUME NEW v \in Value, HandleInput(v) PROVE BackedInv'
    <2>1. input' = v /\ v # None /\ \A r \in Replica : echoMessages[r] = "none"
      BY <1>1, ValueAssumption DEF HandleInput, BackedInv
    <2>2. OwnEcho \in [Replica -> Share]
      BY DEF OwnEcho, ShareOf, Share, TypeOK
    <2>3. \A r \in Replica : OwnEcho[r] = "good" => r = Proposer /\ ShareOf(r) = "good"
      BY <2>1 DEF OwnEcho, TypeOK
    <2>4. Proposer \in Running /\ v \in echoed'[Proposer] /\ AcceptEcho(v, OwnEcho)
      BY <1>1 DEF HandleInput, TypeOK
    <2>5. \A r \in Replica : OwnEcho[r] = "good" => r \in SignersOf'[v]
      BY <2>3, <2>4 DEF Signers, SignersOf
    <2> QED BY <1>0, <2>1, <2>2, <2>4, <2>5, AcceptEchoBacked
  <1>2. ASSUME NEW r \in Replica, NEW k \in {"good", "bad"}, HandleEcho(r, k)
        PROVE  BackedInv'
    <2> DEFINE em == [echoMessages EXCEPT ![r] = k]
    <2>1. em \in [Replica -> Share] /\ input \in Value /\ input' = input
      BY <1>2 DEF HandleEcho, Share, TypeOK
    <2>2. k = "good" => r \in SignersOf[input]
      BY <1>2, <2>1 DEF HandleEcho, EchoArrives, Signers, SignersOf
    <2>3. \A s \in Replica : em[s] = "good" => s \in SignersOf[input]
      BY <2>1, <2>2 DEF BackedInv, TypeOK
    <2>4. AcceptEcho(input, em)
      BY <1>2 DEF HandleEcho
    <2>5. PICK v \in Value : input = v
      BY <2>1
    <2> HIDE DEF em
    <2>6. \A s \in Replica : em[s] = "good" => s \in SignersOf'[v]
      BY <1>0, <2>3, <2>5
    <2> QED BY <1>0, <2>1, <2>4, <2>5, <2>6, AcceptEchoBacked
  <1>3. ASSUME UNCHANGED <<input, echoMessages, finalSent, finals>>,
               NEW r \in Replica, NEW m \in FinalMessage, HandleFinal(r, m),
               m.valid => m.value \in CertifiedValues
        PROVE  BackedInv'
    <2>2. m.valid => m.value \in CertifiedValues'
      BY <1>0, <1>3
    <2>3. \A v \in Value, s \in Replica :
              output'[s] = v => output[s] = v \/ v \in CertifiedValues'
      BY <1>3, <2>2, FinalStep
    <2> QED BY <1>0, <1>3, <2>3 DEF BackedInv
  <1>4. ASSUME NEW r \in Replica, HandleProposerFinal(r) PROVE BackedInv'
    <2>1. PICK m \in finals : HandleFinal(r, m)
      BY <1>4 DEF HandleProposerFinal
    <2>2. m \in FinalMessage /\ m.value \in Value
      BY DEF TypeOK, FinalMessage
    <2>3. m.valid => m = [value |-> m.value, valid |-> TRUE]
      BY <2>2 DEF FinalMessage
    <2>4. m.valid => m.value \in CertifiedValues
      BY <2>2, <2>3 DEF BackedInv
    <2> QED BY <1>3, <1>4, <2>1, <2>2, <2>4 DEF HandleProposerFinal
  <1>5. ASSUME NEW r \in Replica, HandleFaultyFinal(r) PROVE BackedInv'
    <2>1. PICK m \in FinalMessage : HandleFinal(r, m) /\ (m.valid => Certified(m.value))
      BY <1>5 DEF HandleFaultyFinal
    <2>2. m.valid => m.value \in CertifiedValues
      BY <2>1 DEF FinalMessage, CertifiedValues
    <2> QED BY <1>3, <1>5, <2>1, <2>2 DEF HandleFaultyFinal
  <1>6. ASSUME UNCHANGED <<input, echoMessages, finalSent, finals, output>>
        PROVE  BackedInv'
    BY <1>0, <1>6 DEF BackedInv
  <1> QED BY <1>1, <1>2, <1>4, <1>5, <1>6
          DEF Next, vars, HandleSend, BeginHandleSend, FinishHandleSend, RemoveInstance

\* BackedInv holds at all times, whatever the number of threads.
LEMMA Backed == Spec => [](TypeOK /\ BackedInv)
  <1>1. Init => BackedInv
    BY ValueAssumption DEF Init, BackedInv
  <1>2. TypeOK /\ BackedInv /\ [Next]_vars => BackedInv'
    BY BackedStep
  <1> QED BY <1>1, <1>2, TypeCorrect, PTL DEF Spec

\* Of n <= 3f+1 replicas, f of them faulty, no two correct ones deliver different
\* values; against an arbitrary proposer only as long as one thread at a time
\* handles SEND and the instance is not made again.
THEOREM Consistent == ASSUME OneDigest, Resilient PROVE Spec => []Consistency
  <1>1. BackedInv /\ SignOnce /\ TypeOK => Consistency
    <2> SUFFICES ASSUME BackedInv, SignOnce, TypeOK,
                        NEW r \in Correct, NEW s \in Correct,
                        output[r] # None, output[s] # None
                 PROVE  output[r] = output[s]
      BY DEF Consistency
    <2>1. output[r] \in Value /\ output[s] \in Value
      BY RunningReplicas DEF TypeOK
    <2>2. Certified(output[r]) /\ Certified(output[s])
      BY <2>1, RunningReplicas DEF BackedInv, CertifiedValues
    <2>3. PICK t \in Correct : t \in Signers(output[r]) /\ t \in Signers(output[s])
      BY <2>2, QuorumsMeet, SignersAreReplicas DEF Certified
    <2>4. output[r] \in echoed[t] /\ output[s] \in echoed[t]
      BY <2>3, RunningReplicas DEF Signers
    <2> QED BY <2>4 DEF SignOnce
  <1> QED BY <1>1, Backed, SignsOnce, PTL
-----------------------------------------------------------------------------
(***************************************************************************)
(* The value delivered is the proposer's, when the proposer is correct.    *)
(***************************************************************************)
\* Whom a certified value has among its signers: a replica that runs the code.
EnoughRun == FaultModel = "arbitrary" => Cardinality(Faulty) <= F

LEMMA SomeSignerRuns ==
    ASSUME EnoughRun, NEW v, Certified(v)
    PROVE  \E t \in Running : v \in echoed[t]
  <1>1. Cardinality(Signers(v)) \in Nat /\ Cardinality(Signers(v)) > F
    <2>1. Cardinality(Signers(v)) \in Nat
      BY SignersAreReplicas, FS_CardinalityType
    <2> QED BY <2>1, FAssumption DEF Certified, Quorum
  <1>2. CASE FaultModel = "arbitrary"
    <2>1. PICK t \in Correct : t \in Signers(v)
      BY <1>1, <1>2, SignersAreReplicas, MoreThanF DEF EnoughRun
    <2> QED BY <2>1, RunningReplicas DEF Signers
  <1>3. CASE FaultModel # "arbitrary"
    <2>1. Replica \ Running = {}
      BY <1>3 DEF Running
    <2>2. Signers(v) # {}
      BY <1>1, FS_EmptySet, FAssumption
    <2> QED BY <2>1, <2>2 DEF Signers
  <1> QED BY <1>2, <1>3

\* A proposer that runs the code, and may stop or sign garbage, has its input
\* delivered or nothing, however many threads handle SEND and however often the
\* instance is removed.
LEMMA InputOrNothing ==
    ASSUME Proposer \in Running, EnoughRun
    PROVE  Spec => [](\A r \in Replica : output[r] \in {None, input})
  <1>1. TypeOK /\ BackedInv /\ InputInv => \A r \in Replica : output[r] \in {None, input}
    <2> SUFFICES ASSUME TypeOK, BackedInv, InputInv, NEW r \in Replica, output[r] # None
                 PROVE  output[r] = input
      OBVIOUS
    <2>1. output[r] \in Value
      BY DEF TypeOK
    <2>2. Certified(output[r])
      BY <2>1 DEF BackedInv, CertifiedValues
    <2>3. PICK t \in Running : output[r] \in echoed[t]
      BY <2>2, SomeSignerRuns
    <2> QED BY <2>3 DEF InputInv
  <1> QED BY <1>1, Backed, OnlyInputSigned, PTL

\* With at most f faulty replicas and a correct proposer, only its input is
\* delivered, whatever FINALs are sent and however many threads handle SEND; where
\* faulty replicas only stop or sign garbage, however many do.
THEOREM InputDelivered == ASSUME EnoughRun PROVE Spec => []Integrity
  <1>1. CASE Proposer \in Correct
    <2>1. (\A r \in Replica : output[r] \in {None, input}) => Integrity
      BY RunningReplicas DEF Integrity
    <2>2. Proposer \in Running
      BY <1>1, RunningReplicas
    <2>3. Spec => [](\A r \in Replica : output[r] \in {None, input})
      BY <2>2, InputOrNothing
    <2> QED BY <2>1, <2>3, PTL
  <1>2. CASE Proposer \notin Correct
    <2>1. TypeOK => Integrity
      BY <1>2 DEF Integrity
    <2> QED BY <2>1, TypeCorrect, PTL
  <1> QED BY <1>1, <1>2
-----------------------------------------------------------------------------
(***************************************************************************)
(* What verifying the shares of ECHOs buys (QUICK_SIG_VER off).            *)
(***************************************************************************)
GoodShares == \A r \in Replica : echoMessages[r] # "bad"
FinalInv == GoodShares /\ FinalBacked

\* A FINAL made of accepted good shares verifies.
LEMMA AcceptEchoVerified ==
    ASSUME FinalInv, NEW v, NEW em \in [Replica -> Share], \A r \in Replica : em[r] # "bad",
           AcceptEcho(v, em)
    PROVE  FinalInv'
  <1>1. CombineValid(em)
    BY DEF CombineValid, Accepted, Share
  <1>2. \A m \in finals' : m.valid
    <2>1. \/ finals' = finals
          \/ finals' = finals \cup {[value |-> v, valid |-> CombineValid(em)]}
      BY DEF AcceptEcho
    <2> QED BY <1>1, <2>1 DEF FinalInv, FinalBacked
  <1>3. echoMessages' = em
    BY DEF AcceptEcho
  <1> QED BY <1>2, <1>3 DEF FinalInv, FinalBacked, GoodShares

LEMMA FinalsVerify == ASSUME ~QuickSigVer PROVE Spec => []FinalInv
  <1>1. Init => FinalInv
    BY DEF Init, FinalInv, GoodShares, FinalBacked
  <1>2. TypeOK /\ FinalInv /\ [Next]_vars => FinalInv'
    <2> SUFFICES ASSUME TypeOK, FinalInv, [Next]_vars PROVE FinalInv'
      OBVIOUS
    <2>1. ASSUME NEW v \in Value, HandleInput(v) PROVE FinalInv'
      <3>1. /\ OwnEcho \in [Replica -> Share]
            /\ \A r \in Replica : OwnEcho[r] # "bad"
        BY DEF OwnEcho, ShareOf, Share, TypeOK, FinalInv, GoodShares
      <3>2. AcceptEcho(v, OwnEcho)
        BY <2>1 DEF HandleInput
      <3> QED BY <3>1, <3>2, AcceptEchoVerified
    <2>2. ASSUME NEW r \in Replica, NEW k \in {"good", "bad"}, HandleEcho(r, k) PROVE FinalInv'
      <3>1. /\ [echoMessages EXCEPT ![r] = k] \in [Replica -> Share]
            /\ \A s \in Replica : [echoMessages EXCEPT ![r] = k][s] # "bad"
        BY <2>2 DEF HandleEcho, Share, TypeOK, FinalInv, GoodShares
      <3>2. AcceptEcho(input, [echoMessages EXCEPT ![r] = k])
        BY <2>2 DEF HandleEcho
      <3> QED BY <3>1, <3>2, AcceptEchoVerified
    <2>3. ASSUME UNCHANGED <<echoMessages, finals>> PROVE FinalInv'
      BY <2>3 DEF FinalInv, GoodShares, FinalBacked
    <2> QED BY <2>1, <2>2, <2>3
            DEF Next, vars, HandleSend, BeginHandleSend, FinishHandleSend, HandleProposerFinal,
                HandleFaultyFinal, RemoveInstance
  <1> QED BY <1>1, <1>2, TypeCorrect, PTL DEF Spec

\* A proposer that verifies shares multicasts no FINAL that does not verify,
\* whoever signs garbage.
THEOREM FinalsBacked == ASSUME ~QuickSigVer PROVE Spec => []FinalBacked
  <1>1. FinalInv => FinalBacked
    BY DEF FinalInv
  <1> QED BY <1>1, FinalsVerify, PTL

\* Where FINALs verify and nobody sends others, no replica latches terminated
\* on a FINAL that gives it no output; also not one whose instance was removed.
LEMMA TerminatedHasOutput ==
    ASSUME ~QuickSigVer, FaultModel # "arbitrary" PROVE Spec => []TerminatedDecided
  <1> DEFINE Decided == \A r \in Replica : terminated[r] => output[r] # None
  <1>1. Init => Decided
    BY DEF Init
  <1>2. TypeOK /\ FinalInv /\ FinalInv' /\ Decided /\ [Next]_vars => Decided'
    <2> SUFFICES ASSUME TypeOK, FinalInv, FinalInv', Decided, [Next]_vars PROVE Decided'
      OBVIOUS
    <2>1. ASSUME NEW r \in Replica, NEW m, m.valid, m.value \in Value, HandleFinal(r, m)
          PROVE  Decided'
      BY <2>1, ValueAssumption DEF HandleFinal, TypeOK
    <2>2. ASSUME UNCHANGED <<terminated, output>> PROVE Decided'
      BY <2>2
    <2>3. ASSUME NEW v \in Value, NEW em, AcceptEcho(v, em) PROVE Decided'
      <3> DEFINE m == [value |-> v, valid |-> CombineValid(em)]
      <3>1. CASE UNCHANGED <<terminated, output>>
        BY <2>2, <3>1
      <3>2. CASE finals' = finals \cup {m} /\ HandleFinal(Proposer, m)
        <4>1. m.valid /\ m.value \in Value
          BY <3>2 DEF FinalInv, FinalBacked
        <4> QED BY <2>1, <3>2, <4>1, RunningReplicas
      <3> QED BY <2>3, <3>1, <3>2 DEF AcceptEcho
    <2>4. ASSUME NEW v \in Value, HandleInput(v) PROVE Decided'
      BY <2>3, <2>4 DEF HandleInput
    <2>5. ASSUME NEW r \in Replica, NEW k \in {"good", "bad"}, HandleEcho(r, k) PROVE Decided'
      <3>1. input \in Value
        BY <2>5 DEF HandleEcho, TypeOK
      <3> QED BY <2>3, <2>5, <3>1 DEF HandleEcho
    <2>6. ASSUME NEW r \in Replica, HandleProposerFinal(r) PROVE Decided'
      <3>1. PICK m \in finals : HandleFinal(r, m)
        BY <2>6 DEF HandleProposerFinal
      <3>2. m.valid /\ m.value \in Value
        BY <3>1 DEF FinalInv, FinalBacked, TypeOK, FinalMessage
      <3> QED BY <2>1, <3>1, <3>2
    <2>7. ASSUME NEW r \in Replica, RemoveInstance(r) PROVE Decided'
      BY <2>7 DEF RemoveInstance, TypeOK
    <2> QED BY <2>2, <2>4, <2>5, <2>6, <2>7
            DEF Next, vars, HandleSend, BeginHandleSend, FinishHandleSend, HandleFaultyFinal
  <1>3. Decided => TerminatedDecided
    BY RunningReplicas DEF TerminatedDecided
  <1> HIDE DEF Decided
  <1>4. Spec => []FinalInv
    BY FinalsVerify
  <1> QED BY <1>1, <1>2, <1>3, <1>4, TypeCorrect, PTL DEF Spec
-----------------------------------------------------------------------------
(***************************************************************************)
(* Totality needs fairness and is checked by TLC.  Here is what it rests   *)
(* on: no state in which everything was handled lacks an output.           *)
(***************************************************************************)

\* The correct replicas have handled what was sent to them: each its SEND, the
\* proposer their ECHOs (or it has removed its instance), each its FINAL.
AllHandled ==
    \A r \in Correct :
        /\ input \in echoed[r]
        /\ echoMessages[r] # "none" \/ ~echoSent[Proposer]
        /\ finals # {} => terminated[r] \/ output[r] # None

FinalSentInv ==
    /\ finalSent \/ Cardinality(Accepted(echoMessages)) >= Quorum => finals # {}
    /\ \A r \in Replica : output[r] # None => finals # {}
    /\ input # None /\ ~echoSent[Proposer] => output[Proposer] # None

LEMMA AcceptEchoSends ==
    ASSUME TypeOK, FinalSentInv, NEW v, NEW em, AcceptEcho(v, em)
    PROVE  /\ finalSent' \/ Cardinality(Accepted(echoMessages')) >= Quorum => finals' # {}
           /\ \A r \in Replica : output'[r] # None => finals' # {}
           /\ output[Proposer] # None => output'[Proposer] # None
  <1> DEFINE m == [value |-> v, valid |-> CombineValid(em)]
  <1>1. CASE /\ finalSent \/ Cardinality(Accepted(em)) < Quorum
             /\ UNCHANGED <<finalSent, finals, terminated, output>>
    <2>1. Accepted(em) \subseteq Replica
      BY DEF Accepted
    <2>2. Cardinality(Accepted(em)) \in Nat
      BY <2>1, RunningReplicas, FS_Subset, FS_CardinalityType
    <2>3. finalSent \/ ~(Cardinality(Accepted(em)) >= Quorum)
      BY <1>1, <2>2, FAssumption DEF Quorum
    <2>4. echoMessages' = em
      BY DEF AcceptEcho
    <2> QED BY <1>1, <2>3, <2>4 DEF FinalSentInv
  <1>2. CASE finals' = finals \cup {m} /\ (HandleFinal(Proposer, m) \/ output' = output)
    <2>1. output[Proposer] # None => output'[Proposer] # None
      BY <1>2, RunningReplicas DEF HandleFinal, TypeOK
    <2> QED BY <1>2, <2>1
  <1> QED BY <1>1, <1>2 DEF AcceptEcho

LEMMA FinalIsSent == ASSUME FaultModel # "arbitrary" PROVE Spec => []FinalSentInv
  <1>1. Init => FinalSentInv
    <2>1. ASSUME Init PROVE Accepted(echoMessages) = {}
      BY <2>1 DEF Init, Accepted
    <2>2. ASSUME Init PROVE ~(Cardinality(Accepted(echoMessages)) >= Quorum)
      BY <2>1, <2>2, FS_EmptySet, FAssumption DEF Quorum
    <2> QED BY <2>2, RunningReplicas DEF Init, FinalSentInv
  <1>2. TypeOK /\ FinalSentInv /\ [Next]_vars => FinalSentInv'
    <2> SUFFICES ASSUME TypeOK, FinalSentInv, [Next]_vars PROVE FinalSentInv'
      OBVIOUS
    <2>1. ASSUME NEW v \in Value, HandleInput(v) PROVE FinalSentInv'
      <3>1. echoSent'[Proposer]
        BY <2>1, RunningReplicas DEF HandleInput, TypeOK
      <3>2. AcceptEcho(v, OwnEcho)
        BY <2>1 DEF HandleInput
      <3> QED BY <3>1, <3>2, AcceptEchoSends DEF FinalSentInv
    <2>2. ASSUME NEW r \in Replica, NEW k \in {"good", "bad"}, HandleEcho(r, k)
          PROVE  FinalSentInv'
      <3>1. AcceptEcho(input, [echoMessages EXCEPT ![r] = k])
        BY <2>2 DEF HandleEcho
      <3>2. input' = input /\ echoSent' = echoSent
        BY <2>2 DEF HandleEcho
      <3> QED BY <3>1, <3>2, AcceptEchoSends DEF FinalSentInv
    <2>3. ASSUME NEW r \in Replica, NEW v \in Value, FinishHandleSend(r, v)
          PROVE  FinalSentInv'
      BY <2>3, RunningReplicas DEF FinishHandleSend, FinalSentInv, Accepted, TypeOK
    <2>4. ASSUME NEW r \in Replica, HandleProposerFinal(r) PROVE FinalSentInv'
      <3>1. finals # {} /\ finals' = finals
        BY <2>4 DEF HandleProposerFinal
      <3>2. output'[Proposer] = output[Proposer] /\ UNCHANGED <<input, echoSent>>
        BY <2>4, RunningReplicas DEF HandleProposerFinal, HandleFinal, TypeOK
      <3> QED BY <3>1, <3>2 DEF FinalSentInv
    <2>5. ASSUME NEW r \in Replica, RemoveInstance(r) PROVE FinalSentInv'
      BY <2>5, RunningReplicas DEF RemoveInstance, FinalSentInv, Accepted, TypeOK
    <2>6. ASSUME UNCHANGED <<input, echoSent, echoMessages, finalSent, finals, output>>
          PROVE  FinalSentInv'
      BY <2>6 DEF FinalSentInv, Accepted
    <2> QED BY <2>1, <2>2, <2>3, <2>4, <2>5, <2>6
            DEF Next, vars, HandleSend, BeginHandleSend, HandleFaultyFinal
  <1> QED BY <1>1, <1>2, TypeCorrect, PTL DEF Spec

\* With a correct proposer that verifies shares, and 2f+1 correct replicas, the
\* instance does not come to rest before all of them have the input: neither the
\* quorum, nor a bad share, nor the removal of an instance keeps FINAL away.
THEOREM NoStall ==
    ASSUME ~QuickSigVer, FaultModel # "arbitrary", Proposer \in Correct,
           Cardinality(Correct) >= Quorum
    PROVE  Spec => [](input # None /\ AllHandled => \A r \in Correct : output[r] = input)
  <1>1. FinalSentInv /\ TerminatedDecided /\ Integrity
            => (input # None /\ AllHandled => \A r \in Correct : output[r] = input)
    <2> SUFFICES ASSUME FinalSentInv, TerminatedDecided, Integrity, input # None, AllHandled,
                        NEW r \in Correct
                 PROVE  output[r] = input
      OBVIOUS
    <2>1. finals # {}
      <3>1. CASE echoSent[Proposer]
        <4>1. Correct \subseteq Accepted(echoMessages)
          BY <3>1, RunningReplicas DEF AllHandled, Accepted
        <4>2. IsFiniteSet(Accepted(echoMessages))
          BY RunningReplicas, FS_Subset DEF Accepted
        <4>3. /\ Cardinality(Correct) <= Cardinality(Accepted(echoMessages))
              /\ Cardinality(Correct) \in Nat /\ Cardinality(Accepted(echoMessages)) \in Nat
          BY <4>1, <4>2, FS_Subset, FS_CardinalityType
        <4> QED BY <4>3, FAssumption DEF FinalSentInv, Quorum
      <3>2. CASE ~echoSent[Proposer]
        BY <3>2, RunningReplicas DEF FinalSentInv
      <3> QED BY <3>1, <3>2
    <2>2. output[r] # None
      BY <2>1 DEF AllHandled, TerminatedDecided
    <2> QED BY <2>2 DEF Integrity
  <1>2. Spec => []FinalSentInv
    BY FinalIsSent
  <1>3. Spec => []TerminatedDecided
    BY TerminatedHasOutput
  <1>4. Spec => []Integrity
    BY InputDelivered DEF EnoughRun
  <1> QED BY <1>1, <1>2, <1>3, <1>4, PTL
-----------------------------------------------------------------------------
(***************************************************************************)
(* The instance implements the abstract broadcast.                         *)
(***************************************************************************)

\* The input is given once.
LEMMA InputStep ==
    ASSUME TypeOK, [Next]_vars
    PROVE  input' = input \/ (input = None /\ input' \in Value)
  BY DEF Next, vars, HandleInput, HandleSend, BeginHandleSend, FinishHandleSend,
         HandleEcho, HandleProposerFinal, HandleFaultyFinal, RemoveInstance

\* A step delivers at one replica at most, and never twice at the same one.
LEMMA OutputStep ==
    ASSUME TypeOK, [Next]_vars
    PROVE  \/ output' = output
           \/ \E r \in Replica, v \in Value :
                  output[r] = None /\ output' = [output EXCEPT ![r] = v]
  <1>1. ASSUME NEW r \in Replica, NEW m \in FinalMessage, HandleFinal(r, m), output' # output
        PROVE  output[r] = None /\ output' = [output EXCEPT ![r] = m.value] /\ m.value \in Value
    BY <1>1 DEF HandleFinal, FinalMessage, TypeOK
  <1>2. ASSUME NEW v \in Value, NEW em, AcceptEcho(v, em), output' # output
        PROVE  \E m \in FinalMessage : HandleFinal(Proposer, m)
    <2>1. [value |-> v, valid |-> CombineValid(em)] \in FinalMessage
      BY DEF FinalMessage, CombineValid
    <2> QED BY <1>2, <2>1 DEF AcceptEcho
  <1>3. ASSUME output' # output
        PROVE  \E r \in Replica, m \in FinalMessage : HandleFinal(r, m)
    <2>1. ASSUME NEW v \in Value, HandleInput(v)
          PROVE  \E r \in Replica, m \in FinalMessage : HandleFinal(r, m)
      BY <1>2, <1>3, <2>1, RunningReplicas DEF HandleInput
    <2>2. ASSUME NEW r \in Replica, NEW k \in {"good", "bad"}, HandleEcho(r, k)
          PROVE  \E s \in Replica, m \in FinalMessage : HandleFinal(s, m)
      <3>1. input \in Value /\ AcceptEcho(input, [echoMessages EXCEPT ![r] = k])
        BY <2>2 DEF HandleEcho, TypeOK
      <3> QED BY <1>2, <1>3, <3>1, RunningReplicas
    <2>3. ASSUME NEW r \in Replica, HandleProposerFinal(r)
          PROVE  \E s \in Replica, m \in FinalMessage : HandleFinal(s, m)
      BY <2>3 DEF HandleProposerFinal, TypeOK
    <2>4. ASSUME NEW r \in Replica, HandleFaultyFinal(r)
          PROVE  \E s \in Replica, m \in FinalMessage : HandleFinal(s, m)
      BY <2>4 DEF HandleFaultyFinal
    <2>5. \/ UNCHANGED output
          \/ \E v \in Value : HandleInput(v)
          \/ \E r \in Replica : \/ \E k \in {"good", "bad"} : HandleEcho(r, k)
                                \/ HandleProposerFinal(r)
                                \/ HandleFaultyFinal(r)
      BY DEF Next, vars, HandleSend, BeginHandleSend, FinishHandleSend, RemoveInstance
    <2> QED BY <1>3, <2>1, <2>2, <2>3, <2>4, <2>5
  <1> QED BY <1>1, <1>3

\* A step of the instance is one of ConsistentBroadcast, or none of its.
LEMMA BroadcastStep ==
    ASSUME TypeOK, TypeOK', Consistency', Integrity', [Next]_vars
    PROVE  [CB!Next]_(CB!vars)
  <1>1. CASE \E r \in Correct : output'[r] # output[r]
    <2>1. PICK r \in Correct, v \in Value :
              output[r] = None /\ output' = [output EXCEPT ![r] = v]
      <3>1. PICK r \in Replica, v \in Value :
                output[r] = None /\ output' = [output EXCEPT ![r] = v]
        BY <1>1, OutputStep
      <3>2. \A s \in Replica : s # r => output'[s] = output[s]
        BY <3>1 DEF TypeOK
      <3>3. r \in Correct
        BY <1>1, <3>2, RunningReplicas
      <3> QED BY <3>1, <3>3
    <2>2. output'[r] = v /\ v # None
      BY <2>1, RunningReplicas, ValueAssumption DEF TypeOK
    <2>3. \A s \in Correct : output[s] \in {None, v}
      BY <2>1, <2>2, RunningReplicas DEF Consistency, TypeOK
    <2>4. Proposer \in Correct => input' = v
      BY <2>2 DEF Integrity
    <2>5. [s \in Correct |-> output'[s]] = [[s \in Correct |-> output[s]] EXCEPT ![r] = v]
      BY <2>1, RunningReplicas DEF TypeOK
    <2>6. input' \in IF input = None THEN {None} \cup Value ELSE {input}
      BY InputStep
    <2>7. CB!Deliver(r, v)
      BY <2>1, <2>3, <2>4, <2>5, <2>6 DEF CB!Deliver
    <2> QED BY <2>7 DEF CB!Next
  <1>2. CASE \A r \in Correct : output'[r] = output[r]
    <2>1. [r \in Correct |-> output'[r]] = [r \in Correct |-> output[r]]
      BY <1>2
    <2>2. CASE input' = input
      BY <2>1, <2>2 DEF CB!vars
    <2>3. CASE input = None /\ input' \in Value
      <3>1. CB!Propose(input')
        BY <2>1, <2>3 DEF CB!Propose
      <3> QED BY <2>3, <3>1 DEF CB!Next
    <2> QED BY <2>2, <2>3, InputStep
  <1> QED BY <1>1, <1>2

\* The instance does what the layer above it may rely on.
THEOREM Implements ==
    ASSUME OneDigest, Resilient PROVE Spec => ImplementsConsistentBroadcast
  <1>1. Init => CB!Init
    BY RunningReplicas DEF Init, CB!Init
  <1>2. TypeOK /\ TypeOK' /\ Consistency' /\ Integrity' /\ [Next]_vars
            => [CB!Next]_(CB!vars)
    BY BroadcastStep
  <1>3. Spec => []Consistency
    BY Consistent
  <1>4. Spec => []Integrity
    BY InputDelivered DEF Resilient, EnoughRun
  <1> QED BY <1>1, <1>2, <1>3, <1>4, TypeCorrect, PTL
          DEF Spec, ImplementsConsistentBroadcast, CB!Spec

\* The use that Alea makes of it: instances are removed when they have output,
\* and several threads handle their messages.  A proposer that runs the code is
\* enough then; where faulty replicas only stop or sign garbage it always does,
\* and no bound on n or on their number is needed.
THEOREM ImplementsForProposer ==
    ASSUME Proposer \in Running, EnoughRun PROVE Spec => ImplementsConsistentBroadcast
  <1>1. Init => CB!Init
    BY RunningReplicas DEF Init, CB!Init
  <1>2. (\A r \in Replica : output[r] \in {None, input}) => Consistency /\ Integrity
    BY RunningReplicas DEF Consistency, Integrity
  <1>3. TypeOK /\ TypeOK' /\ Consistency' /\ Integrity' /\ [Next]_vars
            => [CB!Next]_(CB!vars)
    BY BroadcastStep
  <1> QED BY <1>1, <1>2, <1>3, InputOrNothing, TypeCorrect, PTL
          DEF Spec, ImplementsConsistentBroadcast, CB!Spec
=============================================================================
