----------------------- MODULE BrachaBroadcast2_proofs -----------------------
(***************************************************************************)
(* What BrachaBroadcast2 guarantees for every number of replicas, every F, *)
(* every set of values and whatever arbitrary replicas send.               *)
(***************************************************************************)
EXTENDS BrachaBroadcast2, FiniteSetTheorems, TLAPS

-----------------------------------------------------------------------------
\* What the handlers do with the fields of one replica.
LEMMA TryOutputFields ==
    ASSUME NEW s \in Fields, NEW v \in Root, NEW t, t = TryOutput(s, v)
    PROVE  /\ t \in Fields
           /\ t.echoed = s.echoed /\ t.echos = s.echos /\ t.sizes = s.sizes
           /\ t.blocks = s.blocks /\ t.readySent = s.readySent /\ t.known = s.known
           /\ t.readies = s.readies
           /\ \/ t.output = s.output
              \/ s.output = None /\ t.output = s.known /\ s.known # None
  <1>1. CASE t = s
    BY <1>1
  <1>2. CASE /\ t = [s EXCEPT !.output = s.known]
             /\ s.output = None /\ s.known # None
    BY <1>2 DEF Fields
  <1> QED BY <1>1, <1>2 DEF TryOutput

LEMMA StoreEchoFields ==
    ASSUME NEW s \in Fields, NEW q \in Replica, NEW e \in Echo, NEW t, t = StoreEcho(s, q, e)
    PROVE  /\ t \in Fields
           /\ t.echoed = s.echoed /\ t.echos = s.echos \cup {q}
           /\ t.readySent = s.readySent /\ t.known = s.known
           /\ t.readies = s.readies /\ t.output = s.output
           /\ t.sizes[e.root] \in {e.size, s.sizes[e.root]} /\ t.sizes[e.root] # None
           /\ \A v \in Root : v # e.root => t.sizes[v] = s.sizes[v]
           /\ \A v \in Root : /\ Received(s, v) \subseteq Received(t, v)
                              /\ Received(t, v) \subseteq Received(s, v) \cup {e.block}
                              /\ v # e.root => Received(t, v) = Received(s, v)
  <1>1. /\ e.root \in Root /\ e.size \in Size /\ e.block \in Replica
        /\ e.content \in {"good", "bad"}
    BY DEF Echo
  <1>2. s.sizes \in [Root -> Size \cup {None}]
    BY DEF Fields
  <1>3. s.blocks \in [Root -> [Replica -> {"none", "good", "bad"}]]
    BY DEF Fields
  <1>4. t = [s EXCEPT !.echos = @ \cup {q},
                      !.sizes[e.root] = IF @ = None THEN e.size ELSE @,
                      !.blocks[e.root][e.block] = IF @ = "none" THEN e.content ELSE @]
    BY DEF StoreEcho
  <1>5. /\ t.echoed = s.echoed /\ t.echos = s.echos \cup {q}
        /\ t.readySent = s.readySent /\ t.known = s.known
        /\ t.readies = s.readies /\ t.output = s.output
        /\ t.sizes = [s.sizes EXCEPT ![e.root] = IF @ = None THEN e.size ELSE @]
        /\ t.blocks = [s.blocks EXCEPT ![e.root][e.block] = IF @ = "none" THEN e.content ELSE @]
    BY <1>4 DEF Fields
  <1>6. t.sizes \in [Root -> Size \cup {None}]
    BY <1>1, <1>2, <1>5
  <1>7. t.blocks \in [Root -> [Replica -> {"none", "good", "bad"}]]
    <2>1. s.blocks[e.root][e.block] \in {"none", "good", "bad"}
      BY <1>1, <1>3
    <2>2. PICK c \in {"none", "good", "bad"} :
              c = IF s.blocks[e.root][e.block] = "none" THEN e.content
                  ELSE s.blocks[e.root][e.block]
      BY <1>1, <2>1
    <2>3. t.blocks = [s.blocks EXCEPT ![e.root][e.block] = c]
      BY <1>5, <2>2
    <2> QED BY <1>1, <1>3, <2>3
  <1>8. t \in Fields
    <2>1. s.echos \cup {q} \subseteq Replica
      BY DEF Fields
    <2> QED BY <1>4, <1>5, <1>6, <1>7, <2>1 DEF Fields
  <1>9. /\ t.sizes[e.root] \in {e.size, s.sizes[e.root]} /\ t.sizes[e.root] # None
        /\ \A v \in Root : v # e.root => t.sizes[v] = s.sizes[v]
    BY <1>1, <1>2, <1>5, NoneAssumption
  <1>10. \A v \in Root : /\ Received(s, v) \subseteq Received(t, v)
                         /\ Received(t, v) \subseteq Received(s, v) \cup {e.block}
                         /\ v # e.root => Received(t, v) = Received(s, v)
    BY <1>1, <1>3, <1>5 DEF Received
  <1> QED BY <1>5, <1>8, <1>9, <1>10

\* A replica is ready for a root, once, when it has the blocks of N - F places.
LEMMA TrySendReadyFields ==
    ASSUME NEW r \in Replica, NEW s \in Fields, NEW v \in Root, s.sizes[v] # None,
           NEW t, t = TrySendReady(r, s, v)
    PROVE  /\ t \in Fields
           /\ t.echoed = s.echoed /\ t.echos = s.echos /\ t.sizes = s.sizes
           /\ t.blocks = s.blocks
           /\ \/ t.known = s.known /\ t.output = s.output
              \/ /\ ~s.readySent /\ t.readySent
                 /\ Cardinality(Received(s, v)) = N - F /\ v # Junk
                 /\ t.known = [root |-> v, size |-> DecodeSize(r, s, v)]
                 /\ t.known \in Recovered /\ t.known.size # "other"
                 /\ t.output = s.output \/ (s.output = None /\ t.output = t.known)
           /\ s.readySent => t.readySent
  <1>1. CASE t = s
    BY <1>1
  <1>2. CASE /\ t = [s EXCEPT !.readySent = TRUE]
    BY <1>2 DEF Fields
  <1>3. CASE /\ Cardinality(Received(s, v)) = N - F /\ ~s.readySent
             /\ Recovers(r, s, v)
             /\ t = TryOutput([s EXCEPT !.readySent = TRUE,
                                        !.known = [root |-> v, size |-> DecodeSize(r, s, v)],
                                        !.readies[r] = v], v)
    <2>1. PICK k : k = [root |-> v, size |-> DecodeSize(r, s, v)]
      OBVIOUS
    <2>2. v \in Value
      BY <1>3 DEF Recovers, Root
    <2>3. DecodeSize(r, s, v) \in Size /\ DecodeSize(r, s, v) # "other"
      BY <1>3 DEF Recovers, DecodeSize, Size, Fields
    <2>4. k \in Recovered /\ k.size # "other"
      BY <2>1, <2>2, <2>3 DEF Recovered
    <2>5. PICK u : u = [s EXCEPT !.readySent = TRUE, !.known = k, !.readies[r] = v]
      OBVIOUS
    <2>6. /\ u \in Fields /\ u.readySent /\ u.known = k
          /\ u.echoed = s.echoed /\ u.echos = s.echos /\ u.sizes = s.sizes
          /\ u.blocks = s.blocks /\ u.output = s.output
      BY <2>4, <2>5 DEF Fields
    <2>7. t = TryOutput(u, v)
      BY <1>3, <2>1, <2>5
    <2> QED BY <1>3, <2>1, <2>2, <2>4, <2>6, <2>7, TryOutputFields, ValueAssumption
  <1> QED BY <1>1, <1>2, <1>3 DEF TrySendReady, BlocksNeeded

\* What one ECHO e of q makes of the fields s of replica r.
OutputStep(s, t) == \/ t.output = s.output
                    \/ s.output = None /\ t.known # None /\ t.output = t.known
KnownStep(r, s, t, v) ==
    \/ t.known = s.known
    \/ /\ ~s.readySent /\ t.readySent
       /\ v # Junk /\ Cardinality(Received(t, v)) = N - F
       /\ t.known = [root |-> v, size |-> DecodeSize(r, t, v)]
       /\ t.known \in Recovered /\ t.known.size # "other"
EchoStep(r, s, t, q, e) ==
    /\ t.echoed = s.echoed /\ t.echos = s.echos \cup {q}
    /\ s.readySent => t.readySent
    /\ t.sizes[e.root] \in {e.size, s.sizes[e.root]}
    /\ \A v \in Root : v # e.root => t.sizes[v] = s.sizes[v]
    /\ \A v \in Root : /\ Received(s, v) \subseteq Received(t, v)
                       /\ Received(t, v) \subseteq Received(s, v) \cup {e.block}
                       /\ v # e.root => Received(t, v) = Received(s, v)
    /\ KnownStep(r, s, t, e.root)
    /\ OutputStep(s, t)

LEMMA HandleEchoFields ==
    ASSUME NEW r \in Replica, NEW s \in Fields, NEW q \in Replica, NEW e \in Echo,
           q \notin s.echos, NEW t, t = HandleEchoMessage(r, s, q, e)
    PROVE  t \in Fields /\ EchoStep(r, s, t, q, e)
  <1>0. e.root \in Root
    BY DEF Echo
  <1>1. PICK u : u = StoreEcho(s, q, e)
    OBVIOUS
  <1>2. PICK w : w = TrySendReady(r, u, e.root)
    OBVIOUS
  <1>3. t = TryOutput(w, e.root)
    BY <1>1, <1>2 DEF HandleEchoMessage
  <1>4. /\ u \in Fields
        /\ u.echoed = s.echoed /\ u.echos = s.echos \cup {q}
        /\ u.readySent = s.readySent /\ u.known = s.known /\ u.output = s.output
        /\ u.sizes[e.root] \in {e.size, s.sizes[e.root]} /\ u.sizes[e.root] # None
        /\ \A v \in Root : v # e.root => u.sizes[v] = s.sizes[v]
        /\ \A v \in Root : /\ Received(s, v) \subseteq Received(u, v)
                           /\ Received(u, v) \subseteq Received(s, v) \cup {e.block}
                           /\ v # e.root => Received(u, v) = Received(s, v)
    BY <1>1, StoreEchoFields
  <1>5. /\ w \in Fields
        /\ w.echoed = u.echoed /\ w.echos = u.echos /\ w.sizes = u.sizes
        /\ w.blocks = u.blocks
        /\ \/ w.known = u.known /\ w.output = u.output
           \/ /\ ~u.readySent /\ w.readySent
              /\ Cardinality(Received(u, e.root)) = N - F /\ e.root # Junk
              /\ w.known = [root |-> e.root, size |-> DecodeSize(r, u, e.root)]
              /\ w.known \in Recovered /\ w.known.size # "other"
              /\ w.output = u.output \/ (u.output = None /\ w.output = w.known)
        /\ u.readySent => w.readySent
    BY <1>0, <1>2, <1>4, TrySendReadyFields
  <1>6. /\ t \in Fields
        /\ t.echoed = w.echoed /\ t.echos = w.echos /\ t.sizes = w.sizes
        /\ t.blocks = w.blocks /\ t.readySent = w.readySent /\ t.known = w.known
        /\ \/ t.output = w.output
           \/ w.output = None /\ t.output = w.known /\ w.known # None
    BY <1>0, <1>3, <1>5, TryOutputFields
  <1>7. \A v \in Root : Received(t, v) = Received(u, v)
    BY <1>5, <1>6 DEF Received
  <1>8. DecodeSize(r, t, e.root) = DecodeSize(r, u, e.root)
    BY <1>5, <1>6 DEF DecodeSize
  <1>9. KnownStep(r, s, t, e.root)
    BY <1>0, <1>4, <1>5, <1>6, <1>7, <1>8 DEF KnownStep
  <1>10. OutputStep(s, t)
    BY <1>4, <1>5, <1>6, NoneAssumption DEF OutputStep
  <1> QED BY <1>4, <1>5, <1>6, <1>7, <1>9, <1>10 DEF EchoStep

\* ... and a SEND m, which is echoed unless it is unsound.
SendStep(r, s, t, m) ==
    /\ t.echoed = m /\ s.echos \subseteq t.echos
    /\ \/ /\ t.echos = s.echos /\ t.readySent = s.readySent /\ t.sizes = s.sizes
          /\ t.blocks = s.blocks /\ t.known = s.known /\ t.output = s.output
       \/ m.sound /\ r \notin s.echos /\ EchoStep(r, [s EXCEPT !.echoed = m], t, r, EchoOf(r, m))

LEMMA EchoOfType == \A r \in Replica, m \in Send : EchoOf(r, m) \in Echo
  BY DEF EchoOf, Echo, Send

LEMMA HandleSendFields ==
    ASSUME NEW r \in Replica, NEW s \in Fields, NEW m \in Send, s.echoed = None,
           NEW t, t = HandleSendMessage(r, s, m)
    PROVE  t \in Fields /\ SendStep(r, s, t, m)
  <1>1. PICK u : u = [s EXCEPT !.echoed = m]
    OBVIOUS
  <1>2. /\ u \in Fields /\ u.echoed = m
        /\ u.echos = s.echos /\ u.readySent = s.readySent /\ u.sizes = s.sizes
        /\ u.blocks = s.blocks /\ u.known = s.known /\ u.output = s.output
    BY <1>1 DEF Fields
  <1>3. CASE t = u
    BY <1>2, <1>3 DEF SendStep
  <1>4. CASE m.sound /\ t = HandleEchoMessage(r, u, r, EchoOf(r, m)) /\ r \notin u.echos
    <2>1. t \in Fields /\ EchoStep(r, u, t, r, EchoOf(r, m))
      BY <1>2, <1>4, HandleEchoFields, EchoOfType
    <2> QED BY <1>1, <1>2, <1>4, <2>1 DEF SendStep, EchoStep
  <1> QED BY <1>1, <1>3, <1>4 DEF HandleSendMessage, HandleEchoMessage

LEMMA HandleReadyFields ==
    ASSUME NEW s \in Fields, NEW q \in Replica, NEW v \in Root,
           NEW t, t = HandleReadyMessage(s, q, v)
    PROVE  /\ t \in Fields
           /\ t.echoed = s.echoed /\ t.echos = s.echos /\ t.sizes = s.sizes
           /\ t.blocks = s.blocks /\ t.readySent = s.readySent /\ t.known = s.known
           /\ OutputStep(s, t)
  <1>1. CASE t = s
    BY <1>1 DEF OutputStep
  <1>2. CASE t = TryOutput([s EXCEPT !.readies[q] = v], v)
    <2>1. PICK u : u = [s EXCEPT !.readies[q] = v]
      OBVIOUS
    <2>2. /\ u \in Fields
          /\ u.echoed = s.echoed /\ u.echos = s.echos /\ u.sizes = s.sizes
          /\ u.blocks = s.blocks /\ u.readySent = s.readySent /\ u.known = s.known
          /\ u.output = s.output
      BY <2>1 DEF Fields
    <2>3. t = TryOutput(u, v)
      BY <1>2, <2>1
    <2>4. /\ t \in Fields
          /\ t.echoed = u.echoed /\ t.echos = u.echos /\ t.sizes = u.sizes
          /\ t.blocks = u.blocks /\ t.readySent = u.readySent /\ t.known = u.known
          /\ \/ t.output = u.output
             \/ u.output = None /\ t.output = u.known /\ u.known # None
      BY <2>2, <2>3, TryOutputFields
    <2> QED BY <2>2, <2>4 DEF OutputStep
  <1> QED BY <1>1, <1>2 DEF HandleReadyMessage
-----------------------------------------------------------------------------
\* A step is a message at one replica that runs the code.
SendArrives(r) ==
    \E m \in Send : /\ local[r].echoed = None
                    /\ IF Proposer \in Running THEN input' \in Value /\ m = SendOf(input')
                                               ELSE m \in FaultySend
                    /\ local'[r] \in Fields /\ SendStep(r, local[r], local'[r], m)
EchoArrives(r) ==
    \E q \in Replica, e \in Echo : /\ e \in EchosFrom(q) /\ q \notin local[r].echos
                                   /\ local'[r] \in Fields
                                   /\ EchoStep(r, local[r], local'[r], q, e)
ReadyArrives(r) ==
    LET s == local[r]  t == local'[r]
    IN  /\ t \in Fields
        /\ t.echoed = s.echoed /\ t.echos = s.echos /\ t.sizes = s.sizes
        /\ t.blocks = s.blocks /\ t.readySent = s.readySent /\ t.known = s.known
        /\ OutputStep(s, t)

LEMMA MessageTypes ==
    ASSUME TypeOK, NEW q \in Replica
    PROVE  SendsTo(q) \subseteq Send /\ EchosFrom(q) \subseteq Echo /\ ReadiesFrom(q) \subseteq Root
  <1>1. local[q] \in Fields
    BY DEF TypeOK
  <1>2. \A v \in Value : SendOf(v) \in Send
    BY DEF SendOf, Send, Root, Size
  <1>3. SendsTo(q) \subseteq Send
    BY <1>2, FaultyAssumption DEF SendsTo, TypeOK
  <1>4. EchosFrom(q) \subseteq Echo
    BY <1>1, EchoOfType, FaultyAssumption DEF EchosFrom, Fields
  <1>5. ReadiesFrom(q) \subseteq Root
    BY <1>1 DEF ReadiesFrom, Fields, Recovered, Root
  <1> QED BY <1>3, <1>4, <1>5

LEMMA StepAtReplica ==
    ASSUME TypeOK, [Next]_vars
    PROVE  /\ faulty' = faulty /\ arbitrary' = arbitrary
           /\ input # None => input' = input
           /\ input' \in Value \cup {None}
           /\ \/ local' = local
              \/ \E r \in Running : /\ local' = [local EXCEPT ![r] = local'[r]]
                                    /\ SendArrives(r) \/ EchoArrives(r) \/ ReadyArrives(r)
  <1>0. Running \subseteq Replica
    BY DEF Running, Correct
  <1>1. ASSUME NEW v \in Value, HandleInput(v)
        PROVE  \/ local' = local
               \/ \E r \in Running : /\ local' = [local EXCEPT ![r] = local'[r]]
                                     /\ SendArrives(r)
    <2>1. Proposer \in Replica /\ local[Proposer] \in Fields
      BY ReplicaAssumption DEF TypeOK
    <2>2. CASE local[Proposer].echoed # None
      BY <1>1, <2>1, <2>2 DEF HandleInput, HandleSendMessage, TypeOK
    <2>3. CASE local[Proposer].echoed = None
      <3>1. local' = [local EXCEPT ![Proposer] = HandleSendMessage(Proposer, local[Proposer], SendOf(v))]
        BY <1>1 DEF HandleInput
      <3>2. local'[Proposer] = HandleSendMessage(Proposer, local[Proposer], SendOf(v))
        BY <2>1, <3>1 DEF TypeOK
      <3>3. SendOf(v) \in Send
        BY DEF SendOf, Send, Root, Size
      <3>4. local'[Proposer] \in Fields /\ SendStep(Proposer, local[Proposer], local'[Proposer], SendOf(v))
        BY <2>1, <2>3, <3>2, <3>3, HandleSendFields
      <3>5. Proposer \in Running /\ input' = v
        BY <1>1 DEF HandleInput
      <3> QED BY <2>3, <3>1, <3>2, <3>3, <3>4, <3>5 DEF SendArrives
    <2> QED BY <2>2, <2>3
  <1>2. ASSUME NEW r \in Replica, HandleSend(r)
        PROVE  r \in Running /\ local' = [local EXCEPT ![r] = local'[r]] /\ SendArrives(r)
    <2>1. PICK m \in SendsTo(r) : local' = [local EXCEPT ![r] = HandleSendMessage(r, local[r], m)]
      BY <1>2 DEF HandleSend
    <2>2. m \in Send
      BY <2>1, MessageTypes
    <2>3. local'[r] = HandleSendMessage(r, local[r], m) /\ local[r] \in Fields
      BY <2>1 DEF TypeOK
    <2>4. local'[r] \in Fields /\ SendStep(r, local[r], local'[r], m)
      BY <1>2, <2>2, <2>3, HandleSendFields DEF HandleSend
    <2>5. IF Proposer \in Running THEN input' \in Value /\ m = SendOf(input') ELSE m \in FaultySend
      BY <1>2, <2>1 DEF HandleSend, SendsTo, TypeOK
    <2> QED BY <1>2, <2>1, <2>2, <2>3, <2>4, <2>5 DEF HandleSend, SendArrives
  <1>3. ASSUME NEW r \in Replica, NEW q \in Replica, HandleEcho(r, q)
        PROVE  r \in Running /\ local' = [local EXCEPT ![r] = local'[r]] /\ EchoArrives(r)
    <2>1. PICK e \in EchosFrom(q) : local' = [local EXCEPT ![r] = HandleEchoMessage(r, local[r], q, e)]
      BY <1>3 DEF HandleEcho
    <2>2. e \in Echo
      BY <2>1, MessageTypes
    <2>3. local'[r] = HandleEchoMessage(r, local[r], q, e) /\ local[r] \in Fields
      BY <2>1 DEF TypeOK
    <2>4. local'[r] \in Fields /\ EchoStep(r, local[r], local'[r], q, e)
      BY <1>3, <2>2, <2>3, HandleEchoFields DEF HandleEcho
    <2> QED BY <1>3, <2>1, <2>2, <2>3, <2>4 DEF HandleEcho, EchoArrives
  <1>4. ASSUME NEW r \in Replica, NEW q \in Replica, HandleReady(r, q)
        PROVE  r \in Running /\ local' = [local EXCEPT ![r] = local'[r]] /\ ReadyArrives(r)
    <2>1. PICK v \in ReadiesFrom(q) : local' = [local EXCEPT ![r] = HandleReadyMessage(local[r], q, v)]
      BY <1>4 DEF HandleReady
    <2>2. v \in Root
      BY <2>1, MessageTypes
    <2>3. local'[r] = HandleReadyMessage(local[r], q, v) /\ local[r] \in Fields
      BY <2>1 DEF TypeOK
    <2>4. ReadyArrives(r)
      BY <2>2, <2>3, HandleReadyFields DEF ReadyArrives
    <2> QED BY <1>4, <2>1, <2>3, <2>4 DEF HandleReady
  <1>5. /\ faulty' = faulty /\ arbitrary' = arbitrary
        /\ input # None => input' = input
        /\ input' \in Value \cup {None}
    BY DEF Next, vars, HandleInput, HandleSend, HandleEcho, HandleReady, TypeOK
  <1>6. CASE UNCHANGED vars
    BY <1>5, <1>6 DEF vars
  <1>7. CASE Next
    BY <1>1, <1>2, <1>3, <1>4, <1>5, <1>7 DEF Next
  <1> QED BY <1>6, <1>7

\* The types hold in every reachable state.
LEMMA TypeInit == Init => TypeOK
  <1> SUFFICES ASSUME Init PROVE TypeOK
    OBVIOUS
  <1>1. faulty \subseteq Replica /\ arbitrary \in BOOLEAN /\ input \in Value \cup {None}
    BY ReplicaAssumption DEF Init
  <1>2. local \in [Replica -> Fields]
    BY DEF Init, Fields
  <1> QED BY <1>1, <1>2 DEF TypeOK

LEMMA RunningReplicas == TypeOK => /\ Running \subseteq Replica /\ Correct \subseteq Running
                                   /\ Replica \ Running \subseteq faulty
  BY DEF Running, Correct, TypeOK

LEMMA TypeNext ==
    ASSUME TypeOK, [Next]_vars
    PROVE  TypeOK'
  <1>1. local' \in [Replica -> Fields]
    <2>1. ASSUME NEW r \in Running, local' = [local EXCEPT ![r] = local'[r]],
                 SendArrives(r) \/ EchoArrives(r) \/ ReadyArrives(r)
          PROVE  local' \in [Replica -> Fields]
      <3>1. local'[r] \in Fields
        BY <2>1 DEF SendArrives, EchoArrives, ReadyArrives
      <3> QED BY <2>1, <3>1 DEF TypeOK
    <2>2. CASE local' = local
      BY <2>2 DEF TypeOK
    <2> QED BY <2>1, <2>2, StepAtReplica
  <1> QED BY <1>1, StepAtReplica DEF TypeOK

\* Every field keeps its type; a replica that is ready has recovered a value.
THEOREM TypeCorrect == Spec => []TypeOK
  <1>1. TypeOK /\ [Next]_vars => TypeOK'
    BY TypeNext
  <1> QED BY <1>1, TypeInit, PTL DEF Spec
-----------------------------------------------------------------------------
\* Nothing that was received is taken back.
LEMMA FieldsGrow ==
    ASSUME TypeOK, [Next]_vars, NEW q \in Replica
    PROVE  /\ local[q].echoed # None => local'[q].echoed = local[q].echoed
           /\ local[q].echos \subseteq local'[q].echos
           /\ \A v \in Root : Received(local[q], v) \subseteq Received(local'[q], v)
           /\ local[q].known # None /\ local[q].readySent => local'[q].known = local[q].known
           /\ local[q].readySent => local'[q].readySent
  <1> DEFINE Grows(s, t) == /\ s.echoed # None => t.echoed = s.echoed
                            /\ s.echos \subseteq t.echos
                            /\ \A v \in Root : Received(s, v) \subseteq Received(t, v)
                            /\ s.known # None /\ s.readySent => t.known = s.known
                            /\ s.readySent => t.readySent
  <1>0. local[q] \in Fields
    BY DEF TypeOK
  <1>1. CASE local'[q] = local[q]
    BY <1>1
  <1>2. ASSUME NEW s \in Fields, NEW t, NEW p, NEW e, EchoStep(q, s, t, p, e)
        PROVE  Grows(s, t)
    BY <1>2 DEF EchoStep, KnownStep
  <1>3. CASE SendArrives(q)
    <2>1. PICK m \in Send : local[q].echoed = None /\ SendStep(q, local[q], local'[q], m)
      BY <1>3 DEF SendArrives
    <2>2. CASE /\ local'[q].blocks = local[q].blocks /\ local'[q].known = local[q].known
               /\ local'[q].readySent = local[q].readySent
      BY <2>1, <2>2 DEF SendStep, Received
    <2>3. CASE EchoStep(q, [local[q] EXCEPT !.echoed = m], local'[q], q, EchoOf(q, m))
      <3>1. PICK u : u = [local[q] EXCEPT !.echoed = m]
        OBVIOUS
      <3>2. /\ u \in Fields /\ u.echos = local[q].echos /\ u.blocks = local[q].blocks
            /\ u.known = local[q].known /\ u.readySent = local[q].readySent
        BY <1>0, <3>1 DEF Fields
      <3>3. Grows(u, local'[q])
        BY <1>2, <2>3, <3>1, <3>2
      <3> QED BY <2>1, <3>2, <3>3 DEF Received
    <2> QED BY <2>1, <2>2, <2>3 DEF SendStep
  <1>4. CASE EchoArrives(q)
    BY <1>0, <1>2, <1>4 DEF EchoArrives
  <1>5. CASE ReadyArrives(q)
    BY <1>5 DEF ReadyArrives, Received
  <1>6. \/ local'[q] = local[q]
        \/ SendArrives(q) \/ EchoArrives(q) \/ ReadyArrives(q)
    BY StepAtReplica, RunningReplicas DEF TypeOK
  <1> QED BY <1>1, <1>3, <1>4, <1>5, <1>6

\* Sets of replicas are finite and counted as expected.
LEMMA Counts ==
    ASSUME NEW A \in SUBSET Replica
    PROVE  IsFiniteSet(A) /\ Cardinality(A) \in Nat /\ Cardinality(A) <= N
  BY ReplicaAssumption, FS_Subset, FS_CardinalityType DEF N

LEMMA CountsMonotone ==
    ASSUME NEW A \in SUBSET Replica, NEW B \in SUBSET Replica, A \subseteq B
    PROVE  Cardinality(A) <= Cardinality(B)
  BY Counts, FS_Subset

LEMMA CountsDisjoint ==
    ASSUME NEW A \in SUBSET Replica, NEW B \in SUBSET Replica, A \cap B = {}
    PROVE  Cardinality(A \cup B) = Cardinality(A) + Cardinality(B)
  <1>1. /\ IsFiniteSet(A) /\ IsFiniteSet(B)
        /\ Cardinality(A) \in Nat /\ Cardinality(B) \in Nat
    BY Counts
  <1>2. Cardinality(A \cup B) = Cardinality(A) + Cardinality(B) - Cardinality(A \cap B)
    BY <1>1, FS_Union
  <1>3. Cardinality(A \cap B) = 0
    BY FS_EmptySet, Zenon
  <1> QED BY <1>1, <1>2, <1>3

LEMMA CountsGrow ==
    ASSUME NEW A \in SUBSET Replica, NEW B \in SUBSET Replica,
           NEW C \in SUBSET Replica, NEW D \in SUBSET Replica, NEW x, NEW y,
           Cardinality(A) <= Cardinality(B),
           C \subseteq A \cup {x}, y \notin B, B \cup {y} \subseteq D
    PROVE  Cardinality(C) <= Cardinality(D)
  <1>1. C \ {x} \in SUBSET Replica /\ C \ {x} \subseteq A /\ C = (C \ {x}) \cup (C \cap {x})
    OBVIOUS
  <1>2. Cardinality(C \ {x}) <= Cardinality(A)
    BY <1>1, CountsMonotone
  <1>3. Cardinality(C) <= Cardinality(C \ {x}) + 1
    <2>1. CASE x \in C
      <3>1. PICK E : E = C \ {x}
        OBVIOUS
      <3>2. E \in SUBSET Replica /\ C = E \cup {x} /\ x \notin E
        BY <2>1, <1>1, <3>1
      <3>3. IsFiniteSet(E) /\ Cardinality(E) \in Nat
        BY <3>2, Counts
      <3>4. Cardinality(E \cup {x}) = Cardinality(E) + 1
        BY <3>2, <3>3, FS_AddElement
      <3> QED BY <3>1, <3>2, <3>3, <3>4
    <2>2. CASE x \notin C
      <3>1. C = C \ {x}
        BY <2>2
      <3> QED BY <1>1, <3>1, Counts
    <2> QED BY <2>1, <2>2
  <1>4. Cardinality(B \cup {y}) = Cardinality(B) + 1 /\ B \cup {y} \in SUBSET Replica
    BY Counts, FS_AddElement
  <1>5. Cardinality(B \cup {y}) <= Cardinality(D)
    BY <1>4, CountsMonotone
  <1> QED BY <1>1, <1>2, <1>3, <1>4, <1>5, Counts
-----------------------------------------------------------------------------
\* A replica has the blocks of at most as many places as replicas have echoed to it,
\* each of which is faulty or has echoed this root; ready for a root, it has N - F.
Support(r, v) == {q \in local[r].echos : \/ q \in faulty
                                         \/ /\ local[q].echoed # None
                                            /\ local[q].echoed.root = v}
SupportInv ==
    \A r \in Replica, v \in Root : Cardinality(Received(local[r], v)) <= Cardinality(Support(r, v))
ReadyFields(s) ==
    /\ s.known # None =>
          /\ s.readySent /\ s.known.size # "other"
          /\ Cardinality(Received(s, s.known.root)) >= N - F
    /\ s.output # None => s.output = s.known
ReadyInv == \A r \in Replica : ReadyFields(local[r])

LEMMA SupportSets ==
    ASSUME TypeOK, NEW r \in Replica, NEW v
    PROVE  Support(r, v) \in SUBSET Replica /\ Received(local[r], v) \in SUBSET Replica
  <1>1. local[r].echos \subseteq Replica
    BY DEF TypeOK, Fields
  <1> QED BY <1>1 DEF Support, Received

LEMMA SupportGrows ==
    ASSUME TypeOK, [Next]_vars, NEW r \in Replica, NEW v
    PROVE  Support(r, v) \subseteq Support(r, v)'
  <1> SUFFICES ASSUME NEW q \in Support(r, v) PROVE q \in Support(r, v)'
    OBVIOUS
  <1>1. q \in Replica /\ q \in local[r].echos
    BY SupportSets DEF Support
  <1>2. q \in local'[r].echos
    BY <1>1, FieldsGrow
  <1>3. CASE q \in faulty
    BY <1>2, <1>3, StepAtReplica DEF Support
  <1>4. CASE local[q].echoed # None /\ local[q].echoed.root = v
    <2>1. local'[q].echoed = local[q].echoed
      BY <1>1, <1>4, FieldsGrow
    <2> QED BY <1>2, <1>4, <2>1 DEF Support
  <1> QED BY <1>3, <1>4 DEF Support

LEMMA EchoInRoot == \A e \in Echo : e.root \in Root
  BY DEF Echo

LEMMA SupportNext ==
    ASSUME TypeOK, SupportInv, [Next]_vars
    PROVE  SupportInv'
  <1> SUFFICES ASSUME NEW r \in Replica, NEW v \in Root
               PROVE  Cardinality(Received(local'[r], v)) <= Cardinality(Support(r, v)')
    BY DEF SupportInv, Received
  <1> DEFINE A == Received(local[r], v)
             B == Support(r, v)
             C == Received(local'[r], v)
             D == Support(r, v)'
  <1>0. /\ A \in SUBSET Replica /\ B \in SUBSET Replica
        /\ C \in SUBSET Replica /\ D \in SUBSET Replica
        /\ Cardinality(A) <= Cardinality(B) /\ B \subseteq D
    <2>1. TypeOK'
      BY TypeNext
    <2>2. D \in SUBSET Replica
      <3>1. local'[r].echos \subseteq Replica
        BY <2>1 DEF TypeOK, Fields
      <3> QED BY <3>1 DEF Support
    <2>3. C \in SUBSET Replica
      BY DEF Received
    <2> QED BY <2>2, <2>3, SupportSets, SupportGrows DEF SupportInv
  <1>1. CASE C \subseteq A
    <2>1. Cardinality(C) <= Cardinality(A) /\ Cardinality(B) <= Cardinality(D)
      BY <1>0, <1>1, CountsMonotone
    <2>2. /\ Cardinality(A) \in Nat /\ Cardinality(B) \in Nat
          /\ Cardinality(C) \in Nat /\ Cardinality(D) \in Nat
      BY <1>0, Counts
    <2> QED BY <1>0, <2>1, <2>2
  <1>2. ASSUME NEW x, NEW y, C \subseteq A \cup {x}, y \notin B, y \in D
        PROVE  Cardinality(C) <= Cardinality(D)
    <2>1. B \cup {y} \subseteq D
      BY <1>0, <1>2
    <2> HIDE DEF A, B, C, D
    <2> QED BY <1>0, <1>2, <2>1, CountsGrow
  <1>3. ASSUME NEW s \in Fields, NEW q \in Replica, NEW e \in Echo,
               s.echos = local[r].echos, s.blocks = local[r].blocks,
               q \notin s.echos, EchoStep(r, s, local'[r], q, e),
               \/ q \in faulty
               \/ local'[q].echoed # None /\ local'[q].echoed.root = e.root
        PROVE  Cardinality(C) <= Cardinality(D)
    <2>1. Received(s, v) = A
      BY <1>3 DEF Received
    <2>2. CASE v # e.root
      BY <1>1, <1>3, <2>1, <2>2 DEF EchoStep
    <2>3. CASE v = e.root
      <3>1. C \subseteq A \cup {e.block}
        BY <1>3, <2>1 DEF EchoStep
      <3>2. q \notin B
        BY <1>3 DEF Support
      <3>3. q \in D
        <4>1. q \in local'[r].echos /\ faulty' = faulty
          BY <1>3, StepAtReplica DEF EchoStep
        <4> QED BY <1>3, <2>3, <4>1 DEF Support
      <3> QED BY <1>2, <3>1, <3>2, <3>3
    <2> QED BY <2>2, <2>3
  <1>4. CASE local'[r] = local[r]
    BY <1>1, <1>4
  <1>5. CASE EchoArrives(r)
    <2>1. PICK q \in Replica, e \in Echo :
              /\ e \in EchosFrom(q) /\ q \notin local[r].echos
              /\ EchoStep(r, local[r], local'[r], q, e)
      BY <1>5 DEF EchoArrives
    <2>2. local[r] \in Fields
      BY DEF TypeOK
    <2>3. CASE q \in faulty
      BY <1>3, <2>1, <2>2, <2>3
    <2>4. CASE q \in Running
      <3>1. local[q].echoed # None /\ e.root = local[q].echoed.root
        BY <2>1, <2>4 DEF EchosFrom, EchoOf
      <3>2. local'[q].echoed = local[q].echoed
        BY <3>1, FieldsGrow
      <3> QED BY <1>3, <2>1, <2>2, <3>1, <3>2
    <2> QED BY <2>3, <2>4, RunningReplicas
  <1>6. CASE SendArrives(r)
    <2>1. PICK m \in Send : SendStep(r, local[r], local'[r], m)
      BY <1>6 DEF SendArrives
    <2>2. CASE local'[r].blocks = local[r].blocks
      BY <1>1, <2>2 DEF Received
    <2>3. CASE /\ r \notin local[r].echos
               /\ EchoStep(r, [local[r] EXCEPT !.echoed = m], local'[r], r, EchoOf(r, m))
      <3>1. PICK s : s = [local[r] EXCEPT !.echoed = m]
        OBVIOUS
      <3>2. s \in Fields /\ s.echos = local[r].echos /\ s.blocks = local[r].blocks
        <4>1. local[r] \in Fields
          BY DEF TypeOK
        <4> QED BY <3>1, <4>1 DEF Fields
      <3>3. local'[r].echoed = m /\ m # None /\ m.root = EchoOf(r, m).root
        BY <2>1, NoneAssumption DEF SendStep, EchoOf
      <3>4. EchoOf(r, m) \in Echo
        BY EchoOfType
      <3> QED BY <1>3, <2>3, <3>1, <3>2, <3>3, <3>4
    <2> QED BY <2>1, <2>2, <2>3 DEF SendStep
  <1>7. CASE ReadyArrives(r)
    BY <1>1, <1>7 DEF ReadyArrives, Received
  <1>8. \/ local'[r] = local[r]
        \/ SendArrives(r) \/ EchoArrives(r) \/ ReadyArrives(r)
    BY StepAtReplica, RunningReplicas DEF TypeOK
  <1> QED BY <1>4, <1>5, <1>6, <1>7, <1>8

LEMMA ReadyNext ==
    ASSUME TypeOK, ReadyInv, [Next]_vars
    PROVE  ReadyInv'
  <1> SUFFICES ASSUME NEW r \in Replica PROVE ReadyFields(local'[r])
    BY DEF ReadyInv, ReadyFields, Received
  <1>0. local[r] \in Fields /\ local'[r] \in Fields /\ ReadyFields(local[r])
    BY TypeNext DEF TypeOK, ReadyInv
  <1>1. ASSUME NEW s \in Fields, NEW t \in Fields, NEW v \in Root,
               ReadyFields(s), s.readySent => t.readySent,
               \A w \in Root : Received(s, w) \subseteq Received(t, w),
               KnownStep(r, s, t, v), OutputStep(s, t)
        PROVE  ReadyFields(t)
    <2>1. CASE t.known = s.known
      <3>1. s.known # None => s.known.root \in Root
        BY DEF Fields, Recovered, Root
      <3>2. s.known # None => Cardinality(Received(t, s.known.root)) >= N - F
        <4>1. ASSUME NEW w \in Root
              PROVE  /\ Cardinality(Received(s, w)) <= Cardinality(Received(t, w))
                     /\ Cardinality(Received(s, w)) \in Nat /\ Cardinality(Received(t, w)) \in Nat
          BY <1>1, Counts, CountsMonotone DEF Received
        <4>2. N \in Nat
          BY ReplicaAssumption, FS_CardinalityType DEF N
        <4> QED BY <1>1, <3>1, <4>1, <4>2, FAssumption DEF ReadyFields
      <3> QED BY <1>1, <2>1, <3>2 DEF ReadyFields, OutputStep
    <2>2. CASE t.known # s.known
      <3>1. /\ ~s.readySent /\ t.readySent /\ t.known.root = v /\ t.known.size # "other"
            /\ Cardinality(Received(t, v)) = N - F
        BY <1>1, <2>2 DEF KnownStep
      <3>2. s.known = None /\ s.output = None
        BY <1>1, <3>1 DEF ReadyFields
      <3>3. N - F >= N - F
        BY FAssumption, Counts, ReplicaAssumption, FS_CardinalityType DEF N
      <3> QED BY <1>1, <3>1, <3>2, <3>3 DEF ReadyFields, OutputStep
    <2> QED BY <2>1, <2>2
  <1>2. CASE local'[r] = local[r]
    BY <1>0, <1>2
  <1>3. CASE EchoArrives(r)
    BY <1>0, <1>1, <1>3, EchoInRoot DEF EchoArrives, EchoStep
  <1>4. CASE SendArrives(r)
    <2>1. PICK m \in Send : SendStep(r, local[r], local'[r], m)
      BY <1>4 DEF SendArrives
    <2>2. CASE /\ local'[r].blocks = local[r].blocks /\ local'[r].known = local[r].known
               /\ local'[r].readySent = local[r].readySent /\ local'[r].output = local[r].output
      BY <1>0, <2>2 DEF ReadyFields, Received
    <2>3. CASE EchoStep(r, [local[r] EXCEPT !.echoed = m], local'[r], r, EchoOf(r, m))
      <3>1. PICK s : s = [local[r] EXCEPT !.echoed = m]
        OBVIOUS
      <3>2. /\ s \in Fields /\ s.blocks = local[r].blocks /\ s.known = local[r].known
            /\ s.readySent = local[r].readySent /\ s.output = local[r].output
        BY <1>0, <3>1 DEF Fields
      <3>3. ReadyFields(s)
        BY <1>0, <3>2 DEF ReadyFields, Received
      <3>4. EchoOf(r, m).root \in Root
        BY EchoOfType, EchoInRoot
      <3>5. EchoStep(r, s, local'[r], r, EchoOf(r, m))
        BY <2>3, <3>1
      <3> QED BY <1>0, <1>1, <3>2, <3>3, <3>4, <3>5 DEF EchoStep
    <2> QED BY <2>1, <2>2, <2>3 DEF SendStep
  <1>5. CASE ReadyArrives(r)
    BY <1>0, <1>5 DEF ReadyArrives, ReadyFields, Received, OutputStep
  <1>6. \/ local'[r] = local[r]
        \/ SendArrives(r) \/ EchoArrives(r) \/ ReadyArrives(r)
    BY StepAtReplica, RunningReplicas DEF TypeOK
  <1> QED BY <1>2, <1>3, <1>4, <1>5, <1>6

Inv == TypeOK /\ SupportInv /\ ReadyInv

LEMMA InvInit == Init => Inv
  <1> SUFFICES ASSUME Init, NEW r \in Replica
               PROVE  /\ ReadyFields(local[r])
                      /\ \A v \in Root : Received(local[r], v) = {} /\ Support(r, v) = {}
    <2>1. Cardinality({}) <= Cardinality({})
      BY FS_EmptySet
    <2> QED BY <2>1, TypeInit DEF Inv, SupportInv, ReadyInv
  <1> QED BY DEF Init, ReadyFields, Received, Support

LEMMA InvNext == Inv /\ [Next]_vars => Inv'
  BY TypeNext, SupportNext, ReadyNext DEF Inv

\* The correct replicas that have echoed a root.
Echoers(v) == {q \in Correct : local[q].echoed # None /\ local[q].echoed.root = v}

\* A root that a replica is ready for was echoed by N - F replicas less the faulty ones.
LEMMA ReadyEchoed ==
    ASSUME Inv, NEW r \in Replica, local[r].known # None, NEW v, v = local[r].known.root
    PROVE  /\ v \in Root /\ Echoers(v) \in SUBSET Correct
           /\ Cardinality(Echoers(v)) + Cardinality(faulty) >= N - F
  <1>1. v \in Root /\ Cardinality(Received(local[r], v)) >= N - F
    BY DEF Inv, ReadyInv, ReadyFields, TypeOK, Fields, Recovered, Root
  <1>2. Cardinality(Received(local[r], v)) <= Cardinality(Support(r, v))
    BY <1>1 DEF Inv, SupportInv
  <1>3. /\ Support(r, v) \in SUBSET Replica /\ Received(local[r], v) \in SUBSET Replica
        /\ Echoers(v) \in SUBSET Replica /\ faulty \in SUBSET Replica
        /\ Echoers(v) \cup faulty \in SUBSET Replica
    BY SupportSets DEF Inv, TypeOK, Echoers, Correct
  <1>4. Support(r, v) \subseteq Echoers(v) \cup faulty
    BY <1>3 DEF Support, Echoers, Correct
  <1>5. Cardinality(Support(r, v)) <= Cardinality(Echoers(v) \cup faulty)
    BY <1>3, <1>4, CountsMonotone
  <1>6. Cardinality(Echoers(v) \cup faulty) <= Cardinality(Echoers(v)) + Cardinality(faulty)
    <2>1. /\ IsFiniteSet(Echoers(v)) /\ IsFiniteSet(faulty)
          /\ Echoers(v) \cap faulty \in SUBSET Replica
      BY <1>3, Counts
    <2>2. Cardinality(Echoers(v) \cup faulty)
              = Cardinality(Echoers(v)) + Cardinality(faulty) - Cardinality(Echoers(v) \cap faulty)
      BY <2>1, FS_Union
    <2> QED BY <1>3, <2>1, <2>2, Counts
  <1>7. /\ Cardinality(Received(local[r], v)) \in Nat /\ Cardinality(Support(r, v)) \in Nat
        /\ Cardinality(Echoers(v)) \in Nat /\ Cardinality(faulty) \in Nat
        /\ Cardinality(Echoers(v) \cup faulty) \in Nat /\ N - F \in Int
    <2>1. N \in Nat
      BY ReplicaAssumption, FS_CardinalityType DEF N
    <2> QED BY <1>3, <2>1, Counts, FAssumption
  <1> QED BY <1>1, <1>2, <1>5, <1>6, <1>7 DEF Echoers

\* At most F replicas have faults; Resilient adds that they are less than a third.
FewFaults == \A S \in StopSets \cup ArbitrarySets : Cardinality(S) <= F
Resilient == FewFaults /\ N > 3 * F
FaultyInv == faulty \in StopSets \cup ArbitrarySets

LEMMA FaultyInvAlways == /\ Init => FaultyInv
                         /\ FaultyInv /\ TypeOK /\ [Next]_vars => FaultyInv'
  <1>1. Init => FaultyInv
    BY DEF Init, FaultyInv
  <1>2. FaultyInv /\ TypeOK /\ [Next]_vars => FaultyInv'
    BY StepAtReplica DEF FaultyInv
  <1> QED BY <1>1, <1>2

\* Two roots with N - F echoers each share a correct one when n > 3f.
LEMMA OneRoot ==
    ASSUME Inv, FaultyInv, Resilient,
           NEW r \in Replica, NEW q \in Replica, local[r].known # None, local[q].known # None
    PROVE  local[r].known.root = local[q].known.root
  <1> SUFFICES ASSUME local[r].known.root # local[q].known.root PROVE FALSE
    OBVIOUS
  <1>1. PICK v, w : v = local[r].known.root /\ w = local[q].known.root
    OBVIOUS
  <1>2. /\ Echoers(v) \in SUBSET Correct /\ Echoers(w) \in SUBSET Correct
        /\ Cardinality(Echoers(v)) + Cardinality(faulty) >= N - F
        /\ Cardinality(Echoers(w)) + Cardinality(faulty) >= N - F
    BY <1>1, ReadyEchoed
  <1>3. Echoers(v) \cap Echoers(w) = {}
    BY <1>1 DEF Echoers
  <1>4. /\ Echoers(v) \in SUBSET Replica /\ Echoers(w) \in SUBSET Replica /\ faulty \in SUBSET Replica
        /\ Echoers(v) \cup Echoers(w) \in SUBSET Replica
        /\ (Echoers(v) \cup Echoers(w)) \cup faulty \in SUBSET Replica
        /\ (Echoers(v) \cup Echoers(w)) \cap faulty = {}
    BY <1>2 DEF Inv, TypeOK, Correct
  <1>5. Cardinality(Echoers(v) \cup Echoers(w)) = Cardinality(Echoers(v)) + Cardinality(Echoers(w))
    BY <1>3, <1>4, CountsDisjoint
  <1>6. Cardinality((Echoers(v) \cup Echoers(w)) \cup faulty)
            = Cardinality(Echoers(v) \cup Echoers(w)) + Cardinality(faulty)
    BY <1>4, CountsDisjoint
  <1>7. Cardinality((Echoers(v) \cup Echoers(w)) \cup faulty) <= N
    BY <1>4, Counts
  <1>8. Cardinality(faulty) <= F
    BY DEF FaultyInv, Resilient, FewFaults
  <1>9. /\ Cardinality(Echoers(v)) \in Nat /\ Cardinality(Echoers(w)) \in Nat
        /\ Cardinality(faulty) \in Nat /\ N \in Nat
    BY <1>4, Counts, ReplicaAssumption, FS_CardinalityType DEF N
  <1> QED BY <1>2, <1>5, <1>6, <1>7, <1>8, <1>9, FAssumption DEF Resilient

\* Ready replicas are ready for one root, whatever blocks and lengths arbitrary replicas
\* send (handleEchoMessage).
THEOREM ReadyForOne == ASSUME Resilient PROVE Spec => []ReadiesAgree
  <1>1. Inv /\ FaultyInv => ReadiesAgree
    BY OneRoot DEF ReadiesAgree, Correct
  <1>2. FaultyInv /\ TypeOK /\ [Next]_vars => FaultyInv'
    BY FaultyInvAlways
  <1>3. Init => FaultyInv
    BY FaultyInvAlways
  <1>4. Inv => TypeOK
    BY DEF Inv
  <1> QED BY <1>1, <1>2, <1>3, <1>4, InvInit, InvNext, PTL DEF Spec

\* What a correct replica delivers was echoed by N - 2F correct replicas, as many as the
\* decoder needs; with at most F faults, for any n.
THEOREM CanBeRetrieved == ASSUME FewFaults PROVE Spec => []Retrievable
  <1>1. ASSUME Inv, FaultyInv
        PROVE  Retrievable
    <2> SUFFICES ASSUME NEW r \in Correct, local[r].output # None
                 PROVE  Cardinality(Echoers(local[r].output.root)) >= N - 2 * F
      BY DEF Retrievable, Echoers
    <2>1. r \in Replica /\ local[r].known = local[r].output
      BY <1>1 DEF Correct, Inv, ReadyInv, ReadyFields
    <2>2. PICK v : v = local[r].known.root
      OBVIOUS
    <2>3. /\ Echoers(v) \in SUBSET Replica /\ faulty \in SUBSET Replica
          /\ Cardinality(Echoers(v)) + Cardinality(faulty) >= N - F
      BY <1>1, <2>1, <2>2, ReadyEchoed DEF Correct, Inv, TypeOK
    <2>4. Cardinality(faulty) <= F
      BY <1>1 DEF FaultyInv, FewFaults
    <2>5. Cardinality(Echoers(v)) \in Nat /\ Cardinality(faulty) \in Nat /\ N \in Nat
      BY <2>3, Counts, ReplicaAssumption, FS_CardinalityType DEF N
    <2> QED BY <2>1, <2>2, <2>3, <2>4, <2>5, FAssumption
  <1>2. FaultyInv /\ TypeOK /\ [Next]_vars => FaultyInv'
    BY FaultyInvAlways
  <1>3. Init => FaultyInv
    BY FaultyInvAlways
  <1>4. Inv => TypeOK
    BY DEF Inv
  <1>5. Inv /\ FaultyInv => Retrievable
    BY <1>1
  <1> QED BY <1>2, <1>3, <1>4, <1>5, InvInit, InvNext, PTL DEF Spec
-----------------------------------------------------------------------------
\* A proposer that runs the code sends its input to all.
SentInv == Proposer \in Running =>
    \A r \in Running : local[r].echoed # None =>
                           input # None /\ local[r].echoed = SendOf(input)

LEMMA SentNext ==
    ASSUME TypeOK, SentInv, [Next]_vars
    PROVE  SentInv'
  <1> SUFFICES ASSUME Proposer \in Running, NEW r \in Running, local'[r].echoed # None
               PROVE  input' # None /\ local'[r].echoed = SendOf(input')
    BY StepAtReplica DEF SentInv, Running, Correct
  <1>1. r \in Replica
    BY RunningReplicas
  <1>2. CASE local'[r].echoed = local[r].echoed
    BY <1>2, StepAtReplica DEF SentInv
  <1>3. CASE SendArrives(r)
    BY <1>3, ValueAssumption DEF SendArrives, SendStep
  <1>4. CASE EchoArrives(r) \/ ReadyArrives(r)
    BY <1>2, <1>4 DEF EchoArrives, EchoStep, ReadyArrives
  <1>5. \/ local'[r] = local[r]
        \/ SendArrives(r) \/ EchoArrives(r) \/ ReadyArrives(r)
    BY <1>1, StepAtReplica, RunningReplicas DEF TypeOK
  <1> QED BY <1>2, <1>3, <1>4, <1>5

\* With a correct proposer its input, or its input padded with zeros, is all that is
\* delivered: N - 2F correct replicas echoed it, and one is enough.
THEOREM OnlyInput == ASSUME FewFaults, N > 2 * F PROVE Spec => []Integrity
  <1>1. ASSUME Inv, FaultyInv, SentInv
        PROVE  Integrity
    <2> SUFFICES ASSUME Proposer \in Correct, NEW r \in Correct, local[r].output # None
                 PROVE  RootOf(local[r].output) = input
      BY DEF Integrity, RootOf
    <2>1. r \in Replica /\ local[r].known = local[r].output /\ local[r].known.size # "other"
      BY <1>1 DEF Correct, Inv, ReadyInv, ReadyFields
    <2>2. PICK v : v = local[r].known.root
      OBVIOUS
    <2>3. /\ Echoers(v) \in SUBSET Replica /\ faulty \in SUBSET Replica
          /\ Cardinality(Echoers(v)) + Cardinality(faulty) >= N - F
      BY <1>1, <2>1, <2>2, ReadyEchoed DEF Correct, Inv, TypeOK
    <2>4. Cardinality(faulty) <= F
      BY <1>1 DEF FaultyInv, FewFaults
    <2>5. Cardinality(Echoers(v)) \in Nat /\ Cardinality(faulty) \in Nat /\ N \in Nat
      BY <2>3, Counts, ReplicaAssumption, FS_CardinalityType DEF N
    <2>6. Cardinality(Echoers(v)) # 0
      BY <2>3, <2>4, <2>5, FAssumption
    <2>7. PICK q \in Echoers(v) : TRUE
      BY <2>6, FS_EmptySet
    <2>8. local[q].echoed = SendOf(input) /\ local[q].echoed.root = v
      BY <1>1, <2>7, RunningReplicas DEF SentInv, Echoers, Inv
    <2> QED BY <2>1, <2>2, <2>8 DEF RootOf, SendOf
  <1>2. FaultyInv /\ TypeOK /\ [Next]_vars => FaultyInv'
    BY FaultyInvAlways
  <1>3. Init => FaultyInv /\ SentInv
    BY FaultyInvAlways, RunningReplicas, TypeInit DEF Init, SentInv
  <1>4. Inv => TypeOK
    BY DEF Inv
  <1>5. Inv /\ FaultyInv /\ SentInv => Integrity
    BY <1>1
  <1>6. TypeOK /\ SentInv /\ [Next]_vars => SentInv'
    BY SentNext
  <1> QED BY <1>2, <1>3, <1>4, <1>5, <1>6, InvInit, InvNext, PTL DEF Spec

\* Where replicas only stop there is one length as well.
StopFields(s) == /\ \A v \in Root : s.sizes[v] \in {None, "right"}
                 /\ s.known # None =>
                       input # None /\ s.known = [root |-> input, size |-> "right"]
StopInv == ~arbitrary => \A r \in Replica : StopFields(local[r])

LEMMA StopNext ==
    ASSUME TypeOK, SentInv, StopInv, [Next]_vars
    PROVE  StopInv'
  <1> SUFFICES ASSUME ~arbitrary, NEW r \in Replica
               PROVE  /\ \A v \in Root : local'[r].sizes[v] \in {None, "right"}
                      /\ local'[r].known # None =>
                            input' # None /\ local'[r].known = [root |-> input', size |-> "right"]
    BY StepAtReplica DEF StopInv, StopFields
  <1>0. /\ Running = Replica /\ Proposer \in Running
        /\ local[r] \in Fields /\ StopFields(local[r])
    BY ReplicaAssumption DEF Running, TypeOK, StopInv
  <1>1. CASE local'[r].sizes = local[r].sizes /\ local'[r].known = local[r].known
    BY <1>0, <1>1, StepAtReplica DEF StopFields
  <1>2. ASSUME NEW s \in Fields, NEW q \in Replica, NEW m \in Send,
               s.sizes = local[r].sizes, s.known = local[r].known,
               EchoStep(r, s, local'[r], q, EchoOf(q, m)), m = SendOf(input'), input' # None
        PROVE  /\ \A v \in Root : local'[r].sizes[v] \in {None, "right"}
               /\ local'[r].known # None =>
                     input' # None /\ local'[r].known = [root |-> input', size |-> "right"]
    <2>1. PICK e : e = EchoOf(q, m)
      OBVIOUS
    <2>2. e \in Echo /\ e.root \in Root /\ e.root = input' /\ e.size = "right"
      BY <1>2, <2>1, EchoOfType, EchoInRoot DEF EchoOf, SendOf
    <2>3. \A v \in Root : local'[r].sizes[v] \in {None, "right"}
      BY <1>0, <1>2, <2>1, <2>2 DEF EchoStep, StopFields
    <2>4. CASE local'[r].known = local[r].known
      BY <1>0, <1>2, <2>3, <2>4, StepAtReplica DEF StopFields
    <2>5. CASE local'[r].known # local[r].known
      <3>1. /\ local'[r].known = [root |-> e.root, size |-> DecodeSize(r, local'[r], e.root)]
            /\ local'[r].known \in Recovered
        BY <1>2, <2>1, <2>5 DEF EchoStep, KnownStep
      <3>2. DecodeSize(r, local'[r], e.root) \in Size
        BY <3>1 DEF Recovered
      <3>3. DecodeSize(r, local'[r], e.root) = "right"
        BY <2>2, <2>3, <3>2, NoneAssumption DEF DecodeSize
      <3> QED BY <1>2, <2>2, <2>3, <3>1, <3>3
    <2> QED BY <2>4, <2>5
  <1>3. CASE EchoArrives(r)
    <2>1. PICK q \in Replica, e \in Echo :
              e \in EchosFrom(q) /\ EchoStep(r, local[r], local'[r], q, e)
      BY <1>3 DEF EchoArrives
    <2>2. PICK m : m = local[q].echoed
      OBVIOUS
    <2>3. m # None /\ e = EchoOf(q, m)
      BY <1>0, <2>1, <2>2 DEF EchosFrom
    <2>4. m = SendOf(input) /\ input # None /\ input' = input
      BY <1>0, <2>2, <2>3, StepAtReplica DEF SentInv
    <2>5. m \in Send
      BY <2>2, <2>3 DEF TypeOK, Fields
    <2> QED BY <1>0, <1>2, <2>1, <2>3, <2>4, <2>5
  <1>4. CASE SendArrives(r)
    <2>1. PICK m \in Send : /\ SendStep(r, local[r], local'[r], m)
                            /\ input' \in Value /\ m = SendOf(input')
      BY <1>0, <1>4, StepAtReplica DEF SendArrives
    <2>2. CASE EchoStep(r, [local[r] EXCEPT !.echoed = m], local'[r], r, EchoOf(r, m))
      <3>1. PICK s : s = [local[r] EXCEPT !.echoed = m]
        OBVIOUS
      <3>2. s \in Fields /\ s.sizes = local[r].sizes /\ s.known = local[r].known
        BY <1>0, <3>1 DEF Fields
      <3> QED BY <1>2, <2>1, <2>2, <3>1, <3>2, ValueAssumption
    <2> QED BY <1>1, <2>1, <2>2 DEF SendStep
  <1>5. CASE ReadyArrives(r)
    BY <1>1, <1>5 DEF ReadyArrives
  <1>6. \/ local'[r] = local[r]
        \/ SendArrives(r) \/ EchoArrives(r) \/ ReadyArrives(r)
    BY StepAtReplica, RunningReplicas DEF TypeOK
  <1> QED BY <1>1, <1>3, <1>4, <1>5, <1>6

\* Where faulty replicas only stop, however many, the bytes that are delivered are the
\* same everywhere: nobody sends another length.
THEOREM SameBytes == Spec => []StopConsistency
  <1>1. ASSUME Inv, StopInv
        PROVE  StopConsistency
    <2> SUFFICES ASSUME ~arbitrary, NEW r \in Correct, NEW q \in Correct,
                        local[r].output # None, local[q].output # None
                 PROVE  local[r].output = local[q].output
      BY DEF StopConsistency, Consistency
    <2>1. ASSUME NEW p \in Correct, local[p].output # None
          PROVE  local[p].output = [root |-> input, size |-> "right"]
      <3>1. p \in Replica
        BY DEF Correct
      <3> QED BY <1>1, <2>1, <3>1 DEF Inv, ReadyInv, ReadyFields, StopInv, StopFields
    <2> QED BY <2>1
  <1>2. Init => SentInv /\ StopInv
    BY RunningReplicas, TypeInit DEF Init, SentInv, StopInv, StopFields
  <1>3. Inv => TypeOK
    BY DEF Inv
  <1>4. Inv /\ StopInv => StopConsistency
    BY <1>1
  <1>5. TypeOK /\ SentInv /\ [Next]_vars => SentInv'
    BY SentNext
  <1>6. TypeOK /\ SentInv /\ StopInv /\ [Next]_vars => StopInv'
    BY StopNext
  <1> QED BY <1>2, <1>3, <1>4, <1>5, <1>6, InvInit, InvNext, PTL DEF Spec
-----------------------------------------------------------------------------
\* The roots that the correct replicas have delivered.
Delivered == [r \in Replica |-> IF r \in Correct THEN RootOf(local[r].output) ELSE None]

LEMMA DeliveredRoot ==
    ASSUME Inv, NEW r \in Correct
    PROVE  /\ local[r].output = None => RootOf(local[r].output) = None
           /\ local[r].output # None => /\ local[r].known # None
                                        /\ RootOf(local[r].output) = local[r].known.root
                                        /\ local[r].known.root \in Root
  <1>1. r \in Replica /\ local[r] \in Fields /\ ReadyFields(local[r])
    BY DEF Correct, Inv, TypeOK, ReadyInv
  <1>2. local[r].output # None => /\ local[r].known # None
                                  /\ local[r].output = local[r].known
                                  /\ local[r].known.size # "other"
    BY <1>1 DEF ReadyFields
  <1>3. local[r].known # None => local[r].known.root \in Root
    BY <1>1 DEF Fields, Recovered, Root
  <1> QED BY <1>2, <1>3 DEF RootOf

OneKnown == \A p, q \in Replica : local[p].known # None /\ local[q].known # None
                                   => local[p].known.root = local[q].known.root

LEMMA OneKnownNext == ASSUME Resilient PROVE (Inv /\ FaultyInv)' => OneKnown'
  <1>1. Inv /\ FaultyInv => OneKnown
    BY OneRoot DEF OneKnown
  <1> QED BY <1>1, PTL

LEMMA ImplementsInit == Init => CB!Init
  <1> SUFFICES ASSUME Init PROVE CB!Init
    OBVIOUS
  <1>1. Delivered = [r \in Replica |-> None] /\ input = None
    BY DEF Init, Delivered, RootOf
  <1> QED BY <1>1 DEF CB!Init, Delivered

LEMMA DeliverRoot ==
    ASSUME NEW r \in Replica, NEW v, Delivered[r] = None,
           \A s \in Replica : Delivered[s] \in {None, v},
           input' \in IF input = None THEN {None} \cup Root ELSE {input},
           Delivered' = [Delivered EXCEPT ![r] = v]
    PROVE  CB!Deliver(r, v)
  BY DEF CB!Deliver, Delivered

LEMMA ProposeOnly ==
    ASSUME input' # input => input = None /\ input' \in Value,
           Delivered' = Delivered
    PROVE  [CB!Next]_CB!vars
  <1>1. CASE input' = input
    BY <1>1 DEF CB!vars, Delivered
  <1>2. CASE input' # input
    <2>1. CB!Propose(input')
      BY <1>2 DEF CB!Propose, Delivered
    <2> QED BY <1>2, <2>1 DEF CB!Next, Root
  <1> QED BY <1>1, <1>2

LEMMA ImplementsNext ==
    ASSUME Inv, FaultyInv, Resilient, [Next]_vars
    PROVE  [CB!Next]_CB!vars
  <1>0. TypeOK /\ Inv' /\ FaultyInv'
    BY InvNext, FaultyInvAlways DEF Inv
  <1>1. Correct' = Correct
    BY <1>0, StepAtReplica DEF Correct
  <1>2. /\ input' # input => input = None /\ input' \in Value
        /\ input' \in IF input = None THEN {None} \cup Root ELSE {input}
    BY <1>0, StepAtReplica DEF Root
  <1>3. CASE \A r \in Correct : local'[r].output = local[r].output
    <2>1. Delivered' = Delivered
      BY <1>1, <1>3 DEF Delivered
    <2> QED BY <1>2, <2>1, ProposeOnly
  <1>4. ASSUME NEW r \in Correct, local'[r].output # local[r].output
        PROVE  \E v \in Root : CB!Deliver(r, v)
    <2>1. r \in Replica
      BY DEF Correct
    <2>2. \A s \in Replica : s # r => local'[s] = local[s]
      BY <1>0, <1>4, <2>1, StepAtReplica, RunningReplicas DEF TypeOK
    <2>3. OutputStep(local[r], local'[r])
      <3>1. \/ local'[r] = local[r]
            \/ SendArrives(r) \/ EchoArrives(r) \/ ReadyArrives(r)
        BY <1>0, <2>1, StepAtReplica, RunningReplicas DEF TypeOK
      <3>2. CASE SendArrives(r)
        <4>1. PICK m \in Send : SendStep(r, local[r], local'[r], m)
          BY <3>2 DEF SendArrives
        <4>2. PICK s : s = [local[r] EXCEPT !.echoed = m]
          OBVIOUS
        <4>3. local[r] \in Fields
          BY <1>0, <2>1 DEF TypeOK
        <4>4. s.output = local[r].output
          BY <4>2, <4>3 DEF Fields
        <4>5. EchoStep(r, s, local'[r], r, EchoOf(r, m))
          BY <1>4, <4>1, <4>2 DEF SendStep
        <4> QED BY <4>4, <4>5 DEF EchoStep, OutputStep
      <3> QED BY <1>4, <3>1, <3>2 DEF EchoArrives, EchoStep, ReadyArrives
    <2>4. /\ local[r].output = None /\ local'[r].output # None
          /\ local'[r].known # None /\ local'[r].output = local'[r].known
      BY <1>4, <2>3 DEF OutputStep
    <2>5. PICK v : v = local'[r].known.root
      OBVIOUS
    <2>6. r \in Correct' /\ (RootOf(local[r].output))' = v /\ v \in Root
      <3>1. r \in Correct'
        BY <1>1
      <3>2. /\ RootOf(local'[r].output) = local'[r].known.root
            /\ local'[r].known.root \in Root
        <4>1. r \in Replica /\ local'[r] \in Fields /\ ReadyFields(local'[r])
          BY <1>0, <2>1 DEF Inv, TypeOK, ReadyInv, ReadyFields, Received
        <4> QED BY <2>4, <4>1 DEF ReadyFields, Fields, Recovered, Root, RootOf
      <3> QED BY <2>5, <3>1, <3>2 DEF RootOf
    <2>7. \A s \in Replica : Delivered[s] \in {None, v}
      <3> SUFFICES ASSUME NEW s \in Correct, s # r, local[s].output # None
                   PROVE  RootOf(local[s].output) = v
        BY <2>4 DEF Delivered, RootOf
      <3>1. s \in Replica /\ local'[s] = local[s]
        BY <2>2 DEF Correct
      <3>2. local[s].known # None /\ RootOf(local[s].output) = local[s].known.root
        BY DeliveredRoot
      <3>3. OneKnown'
        BY <1>0, OneKnownNext
      <3>4. local'[s].known.root = local'[r].known.root
        BY <2>1, <2>4, <3>1, <3>2, <3>3 DEF OneKnown
      <3> QED BY <2>5, <3>1, <3>2, <3>4
    <2>8. Delivered' = [Delivered EXCEPT ![r] = v]
      BY <1>1, <2>1, <2>2, <2>6 DEF Delivered, RootOf, Correct
    <2>9. Delivered[r] = None
      BY <2>1, <2>4 DEF Delivered, RootOf
    <2>10. CB!Deliver(r, v)
      BY <1>2, <2>1, <2>7, <2>8, <2>9, DeliverRoot
    <2> QED BY <2>6, <2>10
  <1> QED BY <1>3, <1>4 DEF CB!Next, Correct

\* Every step delivers at most one root at one correct replica, and the root all others
\* deliver: the instance implements a consistent broadcast of roots.
THEOREM Implements == ASSUME Resilient PROVE Spec => ImplementsConsistentBroadcast
  <1>1. FaultyInv /\ TypeOK /\ [Next]_vars => FaultyInv'
    BY FaultyInvAlways
  <1>2. Init => FaultyInv
    BY FaultyInvAlways
  <1>3. Inv => TypeOK
    BY DEF Inv
  <1>4. Inv /\ FaultyInv /\ [Next]_vars => [CB!Next]_CB!vars
    BY ImplementsNext
  <1> QED BY <1>1, <1>2, <1>3, <1>4, InvInit, InvNext, ImplementsInit, PTL
       DEF Spec, ImplementsConsistentBroadcast, CB!Spec
-----------------------------------------------------------------------------
(***************************************************************************)
(* Delivery, as far as safety reaches.  Where faulty replicas only stop,   *)
(* everybody echoes the block of its place, so a replica that has n - f    *)
(* ECHOs has recovered the input v, and delivered it if it has 2f+1        *)
(* READYs as well: no order of the two kinds of message leaves a replica   *)
(* with enough of both and no output.                                      *)
(***************************************************************************)
Readies(s, v) == {q \in Replica : s.readies[q] = v}

\* The fields s of replica r when v is the only input, the output aside.
Recovering(r, s, v) ==
    /\ \A q \in Replica : s.blocks[v][q] = IF q \in s.echos THEN "good" ELSE "none"
    /\ s.sizes[v] \in {None, "right"}
    /\ s.readySent => s.known # None
    /\ Cardinality(s.echos) >= N - F => s.readySent
    /\ s.known # None => s.known.root = v /\ s.readies[r] = v
    /\ \A q \in Replica : s.readies[q] \in {None, v}
Delivering(s, v) ==
    s.known # None /\ Cardinality(Readies(s, v)) >= 2 * F + 1 => s.output # None

LEMMA DeliversThen ==
    ASSUME NEW r \in Replica, NEW v \in Value, NEW s \in Fields, Recovering(r, s, v),
           NEW t, t = TryOutput(s, v)
    PROVE  /\ t \in Fields /\ t.echos = s.echos /\ t.echoed = s.echoed
           /\ Recovering(r, t, v) /\ Delivering(t, v)
  <1>0. v \in Root
    BY DEF Root
  <1>1. /\ t \in Fields
        /\ t.echoed = s.echoed /\ t.echos = s.echos /\ t.sizes = s.sizes
        /\ t.blocks = s.blocks /\ t.readySent = s.readySent /\ t.known = s.known
        /\ t.readies = s.readies
    BY <1>0, TryOutputFields
  <1>2. Recovering(r, t, v)
    BY <1>1 DEF Recovering
  <1>3. Readies(t, v) = Readies(s, v)
    BY <1>1 DEF Readies
  <1>4. Delivering(t, v)
    <2>1. CASE /\ s.known # None /\ s.known.root = v
               /\ Cardinality(Readies(s, v)) >= 2 * F + 1 /\ s.output = None
      <3>1. t = [s EXCEPT !.output = s.known]
        BY <2>1 DEF TryOutput, Readies
      <3>2. t.output = s.known
        BY <3>1 DEF Fields
      <3> QED BY <2>1, <3>2 DEF Delivering
    <2>2. CASE ~(/\ s.known # None /\ s.known.root = v
                 /\ Cardinality(Readies(s, v)) >= 2 * F + 1 /\ s.output = None)
      <3>1. t = s
        BY <2>2 DEF TryOutput, Readies
      <3> QED BY <2>2, <3>1 DEF Delivering, Recovering
    <2> QED BY <2>1, <2>2
  <1> QED BY <1>1, <1>2, <1>4

\* An ECHO of replica q, of the block that the proposer sent it.
LEMMA EchoRecovers ==
    ASSUME N > F, NEW r \in Replica, NEW v \in Value, NEW s \in Fields, Recovering(r, s, v),
           NEW q \in Replica, q \notin s.echos, NEW e, e = EchoOf(q, SendOf(v)),
           NEW t, t = HandleEchoMessage(r, s, q, e)
    PROVE  /\ t \in Fields /\ t.echos = s.echos \cup {q} /\ t.echoed = s.echoed
           /\ Recovering(r, t, v) /\ Delivering(t, v)
  <1>0. v \in Root /\ v # Junk
    BY ValueAssumption DEF Root
  <1>1. /\ e \in Echo /\ e.root = v /\ e.size = "right" /\ e.block = q /\ e.content = "good"
    <2>1. SendOf(v) \in Send
      BY <1>0 DEF SendOf, Send, Size
    <2> QED BY <2>1, EchoOfType DEF EchoOf, SendOf
  <1>2. PICK u : u = StoreEcho(s, q, e)
    OBVIOUS
  <1>3. /\ u \in Fields
        /\ u.echoed = s.echoed /\ u.echos = s.echos \cup {q}
        /\ u.readySent = s.readySent /\ u.known = s.known
        /\ u.readies = s.readies /\ u.output = s.output
        /\ u.sizes[e.root] \in {e.size, s.sizes[e.root]} /\ u.sizes[e.root] # None
    BY <1>1, <1>2, StoreEchoFields
  <1>4. u.sizes[v] = "right"
    BY <1>1, <1>3 DEF Recovering
  <1>5. \A p \in Replica : u.blocks[v][p] = IF p \in u.echos THEN "good" ELSE "none"
    <2>1. s.blocks \in [Root -> [Replica -> {"none", "good", "bad"}]]
      BY DEF Fields
    <2>2. s.blocks[v][q] = "none"
      BY DEF Recovering
    <2>3. u.blocks = [s.blocks EXCEPT ![e.root][e.block] =
                          IF @ = "none" THEN e.content ELSE @]
      BY <1>2 DEF StoreEcho, Fields
    <2>4. u.blocks = [s.blocks EXCEPT ![v][q] = "good"]
      BY <1>0, <1>1, <2>1, <2>2, <2>3
    <2>5. u.blocks[v][q] = "good" /\ \A p \in Replica : p # q => u.blocks[v][p] = s.blocks[v][p]
      BY <1>0, <2>1, <2>4
    <2> QED BY <1>3, <2>5 DEF Recovering
  <1>6. Received(u, v) = u.echos
    BY <1>3, <1>5 DEF Received, Fields
  <1>7. /\ s.echos \in SUBSET Replica /\ u.echos \in SUBSET Replica
        /\ Cardinality(s.echos) \in Nat /\ Cardinality(u.echos) = Cardinality(s.echos) + 1
    <2>1. s.echos \in SUBSET Replica /\ u.echos \in SUBSET Replica
      BY <1>3 DEF Fields
    <2>2. IsFiniteSet(s.echos)
      BY <2>1, ReplicaAssumption, FS_Subset
    <2> QED BY <1>3, <2>1, <2>2, FS_AddElement, FS_CardinalityType
  <1>8. N \in Nat /\ F \in Nat
    BY ReplicaAssumption, FAssumption, FS_CardinalityType DEF N
  <1>9. PICK w : w = TrySendReady(r, u, v)
    OBVIOUS
  <1>10. w \in Fields /\ w.echos = u.echos /\ w.echoed = u.echoed /\ Recovering(r, w, v)
    <2>1. CASE Cardinality(u.echos) # N - F \/ u.readySent
      <3>1. w = u
        BY <1>6, <1>9, <2>1 DEF TrySendReady, BlocksNeeded
      <3>2. Cardinality(u.echos) >= N - F => u.readySent
        BY <1>3, <1>7, <1>8, <2>1 DEF Recovering
      <3>3. Recovering(r, u, v)
        BY <1>3, <1>4, <1>5, <3>2 DEF Recovering
      <3> QED BY <1>3, <3>1, <3>3
    <2>2. CASE Cardinality(u.echos) = N - F /\ ~u.readySent
      <3>1. DecodeSize(r, u, v) = "right"
        BY <1>4 DEF DecodeSize
      <3>2. Recovers(r, u, v)
        BY <1>0, <1>3, <1>5, <1>6, <1>7, <3>1 DEF Recovers
      <3>3. PICK k : k = [root |-> v, size |-> "right"]
        OBVIOUS
      <3>4. k \in Recovered /\ k.root = v /\ k # None
        BY <3>3, NoneAssumption DEF Recovered, Size
      <3>5. PICK x : x = [u EXCEPT !.readySent = TRUE, !.known = k, !.readies[r] = v]
        OBVIOUS
      <3>6. w = TryOutput(x, v)
        BY <1>6, <1>9, <2>2, <3>1, <3>2, <3>3, <3>5 DEF TrySendReady, BlocksNeeded
      <3>7. /\ x \in Fields /\ x.readySent /\ x.known = k
            /\ x.echoed = u.echoed /\ x.echos = u.echos /\ x.sizes = u.sizes
            /\ x.blocks = u.blocks /\ x.readies = [u.readies EXCEPT ![r] = v]
        BY <1>0, <1>3, <3>4, <3>5 DEF Fields
      <3>8. x.readies[r] = v /\ \A p \in Replica : x.readies[p] \in {None, v}
        <4>1. u.readies \in [Replica -> Root \cup {None}]
          BY <1>3 DEF Fields
        <4> QED BY <1>3, <3>7, <4>1 DEF Recovering
      <3>9. Recovering(r, x, v)
        BY <1>4, <1>5, <3>4, <3>7, <3>8 DEF Recovering
      <3> QED BY <3>6, <3>7, <3>9, DeliversThen
    <2> QED BY <2>1, <2>2
  <1>11. t = TryOutput(w, v)
    BY <1>1, <1>2, <1>9 DEF HandleEchoMessage
  <1> QED BY <1>3, <1>10, <1>11, DeliversThen

\* ... and the output and its own ECHO with them.
RecoveredAt(r, s, v) == /\ Recovering(r, s, v) /\ Delivering(s, v)
                        /\ s.echoed # None => r \in s.echos

LEMMA SendRecovers ==
    ASSUME N > F, NEW r \in Replica, NEW v \in Value, NEW s \in Fields, RecoveredAt(r, s, v),
           NEW t, t = HandleSendMessage(r, s, SendOf(v))
    PROVE  RecoveredAt(r, t, v) /\ t.echoed # None
  <1>1. CASE s.echoed # None
    BY <1>1 DEF HandleSendMessage
  <1>2. CASE s.echoed = None
    <2>1. PICK m : m = SendOf(v)
      OBVIOUS
    <2>2. m \in Send /\ m # None /\ m.sound
      <3>1. m \in Send /\ m.sound
        BY <2>1 DEF SendOf, Send, Size, Root
      <3> QED BY <3>1, NoneAssumption
    <2>3. PICK u : u = [s EXCEPT !.echoed = m]
      OBVIOUS
    <2>4. /\ u \in Fields /\ u.echoed = m /\ u.echos = s.echos /\ u.sizes = s.sizes
          /\ u.blocks = s.blocks /\ u.readySent = s.readySent /\ u.known = s.known
          /\ u.readies = s.readies /\ u.output = s.output
      BY <2>2, <2>3 DEF Fields
    <2>5. Recovering(r, u, v) /\ Delivering(u, v)
      <3>1. Readies(u, v) = Readies(s, v)
        BY <2>4 DEF Readies
      <3> QED BY <2>4, <3>1 DEF RecoveredAt, Recovering, Delivering
    <2>6. t = HandleEchoMessage(r, u, r, EchoOf(r, m))
      BY <1>2, <2>1, <2>2, <2>3 DEF HandleSendMessage
    <2>7. CASE r \in u.echos
      <3>1. t = u
        BY <2>6, <2>7 DEF HandleEchoMessage
      <3> QED BY <2>2, <2>4, <2>5, <2>7, <3>1 DEF RecoveredAt
    <2>8. CASE r \notin u.echos
      <3>1. /\ t \in Fields /\ t.echos = u.echos \cup {r} /\ t.echoed = u.echoed
            /\ Recovering(r, t, v) /\ Delivering(t, v)
        BY <2>1, <2>4, <2>5, <2>6, <2>8, EchoRecovers
      <3> QED BY <2>2, <2>4, <3>1 DEF RecoveredAt
    <2> QED BY <2>7, <2>8
  <1> QED BY <1>1, <1>2

LEMMA ReadyDelivers ==
    ASSUME NEW r \in Replica, NEW v \in Value, NEW s \in Fields, RecoveredAt(r, s, v),
           NEW q \in Replica, NEW t, t = HandleReadyMessage(s, q, v)
    PROVE  RecoveredAt(r, t, v)
  <1>1. CASE s.readies[q] # None
    BY <1>1 DEF HandleReadyMessage
  <1>2. CASE s.readies[q] = None
    <2>1. PICK u : u = [s EXCEPT !.readies[q] = v]
      OBVIOUS
    <2>2. /\ u \in Fields /\ u.echoed = s.echoed /\ u.echos = s.echos /\ u.sizes = s.sizes
          /\ u.blocks = s.blocks /\ u.readySent = s.readySent /\ u.known = s.known
          /\ u.readies = [s.readies EXCEPT ![q] = v]
      BY <2>1 DEF Fields, Root
    <2>3. /\ \A p \in Replica : u.readies[p] \in {None, v}
          /\ s.readies[r] = v => u.readies[r] = v
      <3>1. s.readies \in [Replica -> Root \cup {None}]
        BY DEF Fields
      <3> QED BY <2>2, <3>1 DEF RecoveredAt, Recovering
    <2>4. Recovering(r, u, v)
      BY <2>2, <2>3 DEF RecoveredAt, Recovering
    <2>5. t = TryOutput(u, v)
      BY <1>2, <2>1 DEF HandleReadyMessage
    <2>6. /\ t.echos = u.echos /\ t.echoed = u.echoed
          /\ Recovering(r, t, v) /\ Delivering(t, v)
      BY <2>2, <2>4, <2>5, DeliversThen
    <2> QED BY <2>2, <2>6 DEF RecoveredAt
  <1> QED BY <1>1, <1>2

\* Before there is an input this holds of any value that may become it.
RecoverInv == ~arbitrary =>
    /\ \A r \in Replica, v \in Value : input \in {None, v} => RecoveredAt(r, local[r], v)
    /\ input # None => local[Proposer].echoed # None

LEMMA RecoverInit == ASSUME N > F PROVE Init => RecoverInv
  <1> SUFFICES ASSUME Init PROVE RecoverInv
    OBVIOUS
  <1>1. N \in Nat /\ F \in Nat
    BY ReplicaAssumption, FAssumption, FS_CardinalityType DEF N
  <1>2. ASSUME NEW r \in Replica, NEW v \in Value
        PROVE  RecoveredAt(r, local[r], v)
    <2>1. PICK s : s = local[r]
      OBVIOUS
    <2>2. /\ s.echoed = None /\ s.echos = {} /\ s.readySent = FALSE /\ s.known = None
          /\ \A q \in Replica : s.readies[q] = None
          /\ \A w \in Root : s.sizes[w] = None
          /\ \A w \in Root, q \in Replica : s.blocks[w][q] = "none"
      BY <2>1 DEF Init
    <2>3. v \in Root
      BY DEF Root
    <2>4. ~(Cardinality(s.echos) >= N - F)
      BY <1>1, <2>2, FS_EmptySet
    <2> QED BY <2>1, <2>2, <2>3, <2>4 DEF RecoveredAt, Recovering, Delivering
  <1> QED BY <1>2 DEF RecoverInv, Init

LEMMA RecoverNext ==
    ASSUME N > F, TypeOK, SentInv, StopInv, RecoverInv, [Next]_vars
    PROVE  RecoverInv'
  <1> SUFFICES ASSUME ~arbitrary
               PROVE  /\ \A r \in Replica, v \in Value :
                             input' \in {None, v} => RecoveredAt(r, local'[r], v)
                      /\ input' # None => local'[Proposer].echoed # None
    BY StepAtReplica DEF RecoverInv
  <1>0. /\ Running = Replica /\ Proposer \in Replica
        /\ local \in [Replica -> Fields]
        /\ \A r \in Replica, v \in Value : input \in {None, v} => RecoveredAt(r, local[r], v)
        /\ input # None => local[Proposer].echoed # None
    BY ReplicaAssumption DEF Running, TypeOK, RecoverInv
  <1>1. CASE UNCHANGED vars
    BY <1>0, <1>1 DEF vars
  <1>2. ASSUME NEW w \in Value, HandleInput(w)
        PROVE  /\ \A r \in Replica, v \in Value :
                      input' \in {None, v} => RecoveredAt(r, local'[r], v)
               /\ input' # None => local'[Proposer].echoed # None
    <2>1. PICK t : t = HandleSendMessage(Proposer, local[Proposer], SendOf(w))
      OBVIOUS
    <2>2. /\ local' = [local EXCEPT ![Proposer] = t] /\ input' = w /\ input = None
      BY <1>2, <2>1 DEF HandleInput
    <2>3. RecoveredAt(Proposer, t, w) /\ t.echoed # None
      <3>1. PICK s \in Fields : s = local[Proposer]
        BY <1>0
      <3>2. RecoveredAt(Proposer, s, w)
        BY <1>0, <2>2, <3>1
      <3> QED BY <1>0, <2>1, <3>1, <3>2, SendRecovers
    <2>4. local'[Proposer] = t /\ \A r \in Replica : r # Proposer => local'[r] = local[r]
      BY <1>0, <2>2
    <2>5. w # None
      BY ValueAssumption
    <2> QED BY <1>0, <2>2, <2>3, <2>4, <2>5
  <1>3. ASSUME NEW p \in Replica, NEW t, local' = [local EXCEPT ![p] = t], input' = input,
               \A v \in Value : input \in {None, v} => RecoveredAt(p, t, v),
               p = Proposer => t.echoed = local[p].echoed
        PROVE  /\ \A r \in Replica, v \in Value :
                      input' \in {None, v} => RecoveredAt(r, local'[r], v)
               /\ input' # None => local'[Proposer].echoed # None
    <2>1. local'[p] = t /\ \A r \in Replica : r # p => local'[r] = local[r]
      BY <1>0, <1>3
    <2> QED BY <1>0, <1>3, <2>1
  <1>4. ASSUME NEW p \in Replica, HandleSend(p)
        PROVE  \E t : /\ local' = [local EXCEPT ![p] = t] /\ input' = input
                      /\ \A v \in Value : input \in {None, v} => RecoveredAt(p, t, v)
                      /\ p = Proposer => t.echoed = local[p].echoed
    <2>1. PICK m \in SendsTo(p) : local' = [local EXCEPT ![p] = HandleSendMessage(p, local[p], m)]
      BY <1>4 DEF HandleSend
    <2>2. input # None /\ m = SendOf(input) /\ p # Proposer /\ input' = input
      BY <1>0, <1>4, <2>1 DEF SendsTo, HandleSend
    <2>3. PICK s \in Fields : s = local[p]
      BY <1>0
    <2>4. PICK t : t = HandleSendMessage(p, s, m)
      OBVIOUS
    <2>5. ASSUME NEW v \in Value, input \in {None, v}
          PROVE  RecoveredAt(p, t, v)
      <3>1. m = SendOf(v)
        BY <2>2, <2>5
      <3>2. RecoveredAt(p, s, v)
        BY <1>0, <2>3, <2>5
      <3> QED BY <2>4, <3>1, <3>2, SendRecovers
    <2> QED BY <2>1, <2>2, <2>3, <2>4, <2>5
  <1>5. ASSUME NEW p \in Replica, NEW q \in Replica, HandleEcho(p, q)
        PROVE  \E t : /\ local' = [local EXCEPT ![p] = t] /\ input' = input
                      /\ \A v \in Value : input \in {None, v} => RecoveredAt(p, t, v)
                      /\ p = Proposer => t.echoed = local[p].echoed
    <2>1. PICK e \in EchosFrom(q) : local' = [local EXCEPT ![p] = HandleEchoMessage(p, local[p], q, e)]
      BY <1>5 DEF HandleEcho
    <2>2. PICK m : m = local[q].echoed
      OBVIOUS
    <2>3. m # None /\ e = EchoOf(q, m)
      BY <1>0, <2>1, <2>2 DEF EchosFrom
    <2>4. input # None /\ m = SendOf(input) /\ input' = input /\ q \notin local[p].echos
      BY <1>0, <1>5, <2>2, <2>3 DEF SentInv, HandleEcho
    <2>5. PICK s \in Fields : s = local[p]
      BY <1>0
    <2>6. PICK t : t = HandleEchoMessage(p, s, q, e)
      OBVIOUS
    <2>7. input \in Value
      BY <2>4 DEF TypeOK
    <2>8. PICK v \in Value : v = input
      BY <2>7
    <2>9. RecoveredAt(p, s, v)
      BY <1>0, <2>5, <2>8
    <2>10. /\ t.echos = s.echos \cup {q} /\ t.echoed = s.echoed
           /\ Recovering(p, t, v) /\ Delivering(t, v)
      <3>1. Recovering(p, s, v) /\ e = EchoOf(q, SendOf(v)) /\ q \notin s.echos
        BY <2>3, <2>4, <2>5, <2>8, <2>9 DEF RecoveredAt
      <3> QED BY <2>6, <3>1, EchoRecovers
    <2>11. RecoveredAt(p, t, v)
      BY <2>9, <2>10 DEF RecoveredAt
    <2>12. \A w \in Value : input \in {None, w} => w = v
      BY <2>4, <2>8
    <2> QED BY <2>1, <2>4, <2>5, <2>6, <2>10, <2>11, <2>12
  <1>6. ASSUME NEW p \in Replica, NEW q \in Replica, HandleReady(p, q)
        PROVE  \E t : /\ local' = [local EXCEPT ![p] = t] /\ input' = input
                      /\ \A v \in Value : input \in {None, v} => RecoveredAt(p, t, v)
                      /\ p = Proposer => t.echoed = local[p].echoed
    <2>1. PICK w \in ReadiesFrom(q) : local' = [local EXCEPT ![p] = HandleReadyMessage(local[p], q, w)]
      BY <1>6 DEF HandleReady
    <2>2. local[q].known # None /\ w = local[q].known.root
      BY <1>0, <2>1 DEF ReadiesFrom
    <2>3. input # None /\ w = input /\ input' = input
      BY <1>6, <2>2 DEF StopInv, StopFields, HandleReady
    <2>4. PICK s \in Fields : s = local[p]
      BY <1>0
    <2>5. PICK t : t = HandleReadyMessage(s, q, w)
      OBVIOUS
    <2>6. ASSUME NEW v \in Value, input \in {None, v}
          PROVE  RecoveredAt(p, t, v)
      <3>1. w = v
        BY <2>3, <2>6
      <3>2. RecoveredAt(p, s, v)
        BY <1>0, <2>4, <2>6
      <3> QED BY <2>5, <3>1, <3>2, ReadyDelivers
    <2>7. t.echoed = s.echoed
      <3>1. w \in Root
        BY <2>3 DEF TypeOK, Root
      <3> QED BY <2>5, <3>1, HandleReadyFields
    <2> QED BY <2>1, <2>3, <2>4, <2>5, <2>6, <2>7
  <1> QED BY <1>1, <1>2, <1>3, <1>4, <1>5, <1>6 DEF Next

\* Every message for a correct replica that runs the code's handlers was received.
Handled ==
    \A r \in Correct :
        /\ r # Proposer /\ Proposer \in Correct /\ SendsTo(r) # {} => local[r].echoed # None
        /\ \A q \in Correct \ {r} :
              /\ EchosFrom(q) # {} => q \in local[r].echos
              /\ ReadiesFrom(q) # {} => local[r].readies[q] # None

RestsDelivered ==
    ~arbitrary /\ Proposer \in Correct /\ input # None /\ Handled
        => \A r \in Correct : local[r].output = [root |-> input, size |-> "right"]

\* A broadcast whose faulty replicas only stop does not end short of its outputs: when a
\* correct proposer has an input and every message among correct replicas was received,
\* all of them have delivered the input.  It is the part of Delivery that does not speak
\* of fairness: readySent and output, each set once and under a condition that is tested
\* when a message comes, miss no message.
THEOREM NoStall ==
    ASSUME N > 3 * F, \A S \in StopSets : Cardinality(S) <= F
    PROVE  Spec => []RestsDelivered
  <1>0. N \in Nat /\ F \in Nat /\ N > F /\ N - F >= 2 * F + 1
    BY ReplicaAssumption, FAssumption, FS_CardinalityType DEF N
  <1>1. ASSUME Inv, StopInv, SentInv, RecoverInv, ~arbitrary => Cardinality(faulty) <= F
        PROVE  RestsDelivered
    <2> SUFFICES ASSUME ~arbitrary, Proposer \in Correct, input # None, Handled,
                        NEW r \in Correct
                 PROVE  local[r].output = [root |-> input, size |-> "right"]
      BY DEF RestsDelivered
    <2>1. /\ TypeOK /\ Running = Replica /\ input \in Value /\ Correct \subseteq Replica
          /\ Cardinality(faulty) <= F
      BY <1>1 DEF Inv, TypeOK, Running, Correct
    <2>2. PICK v \in Value : v = input
      BY <2>1
    <2>3. \A q \in Correct : RecoveredAt(q, local[q], v) /\ local[q] \in Fields
      BY <1>1, <2>1, <2>2 DEF RecoverInv, TypeOK
    <2>4. \A S \in SUBSET Replica : Correct \subseteq S => Cardinality(S) >= N - F
      <3> SUFFICES ASSUME NEW S \in SUBSET Replica, Correct \subseteq S
                   PROVE  Cardinality(S) >= N - F
        OBVIOUS
      <3>1. faulty \subseteq Replica /\ Replica \cap faulty = faulty
        BY <2>1 DEF TypeOK
      <3>2. IsFiniteSet(faulty) /\ Cardinality(faulty) \in Nat
        BY <3>1, ReplicaAssumption, FS_Subset, FS_CardinalityType
      <3>3. Cardinality(Correct) = N - Cardinality(faulty)
        BY <3>1, ReplicaAssumption, FS_Difference DEF Correct, N
      <3>4. Cardinality(Correct) <= Cardinality(S) /\ Cardinality(S) \in Nat
        BY ReplicaAssumption, FS_Subset, FS_CardinalityType
      <3> QED BY <1>0, <2>1, <3>2, <3>3, <3>4
    <2>5. \A q \in Correct : local[q].echoed # None
      <3>1. local[Proposer].echoed # None
        BY <1>1 DEF RecoverInv
      <3>2. \A q \in Correct : SendsTo(q) = {SendOf(input)}
        BY <2>1, ReplicaAssumption DEF SendsTo
      <3> QED BY <3>1, <3>2 DEF Handled
    <2>6. ASSUME NEW q \in Correct
          PROVE  local[q].known # None
      <3>1. \A p \in Correct : EchosFrom(p) # {}
        <4>1. \A p \in Correct : local[p].echoed = SendOf(input)
          BY <1>1, <2>1, <2>5, ReplicaAssumption DEF SentInv
        <4> QED BY <2>1, <2>5, <4>1 DEF EchosFrom, SendOf
      <3>2. \A p \in Correct : p \in local[q].echos
        BY <2>3, <2>5, <3>1 DEF Handled, RecoveredAt
      <3>3. local[q].echos \in SUBSET Replica
        BY <2>3 DEF Fields
      <3>4. Cardinality(local[q].echos) >= N - F
        BY <2>4, <3>2, <3>3
      <3> QED BY <2>3, <3>4 DEF RecoveredAt, Recovering
    <2>7. local[r].output # None
      <3>1. PICK s \in Fields : s = local[r] /\ Recovering(r, s, v) /\ Delivering(s, v)
        BY <2>3 DEF RecoveredAt
      <3>2. \A q \in Correct : s.readies[q] = v
        <4> SUFFICES ASSUME NEW q \in Correct PROVE s.readies[q] = v
          OBVIOUS
        <4>1. CASE q = r
          BY <2>6, <3>1, <4>1 DEF Recovering
        <4>2. CASE q # r
          <5>1. ReadiesFrom(q) # {}
            BY <2>1, <2>6 DEF ReadiesFrom
          <5>2. s.readies[q] # None
            BY <3>1, <4>2, <5>1 DEF Handled
          <5> QED BY <2>1, <3>1, <5>2 DEF Recovering
        <4> QED BY <4>1, <4>2
      <3>3. Correct \subseteq Readies(s, v) /\ Readies(s, v) \in SUBSET Replica
        BY <2>1, <3>2 DEF Readies
      <3>4. Cardinality(Readies(s, v)) >= N - F /\ Cardinality(Readies(s, v)) \in Nat
        BY <2>4, <3>3, ReplicaAssumption, FS_Subset, FS_CardinalityType
      <3>5. Cardinality(Readies(s, v)) >= 2 * F + 1
        BY <1>0, <3>4
      <3> QED BY <2>6, <3>1, <3>5 DEF Delivering
    <2> QED BY <1>1, <2>1, <2>7 DEF Inv, ReadyInv, ReadyFields, StopInv, StopFields
  <1>2. Init => SentInv /\ StopInv /\ RecoverInv
    <2>1. Init => SentInv /\ StopInv
      BY RunningReplicas, TypeInit DEF Init, SentInv, StopInv, StopFields
    <2> QED BY <1>0, <2>1, RecoverInit
  <1>3. Inv => TypeOK
    BY DEF Inv
  <1>4. Inv /\ SentInv /\ StopInv /\ RecoverInv /\ [Next]_vars
            => SentInv' /\ StopInv' /\ RecoverInv'
    BY <1>0, <1>3, SentNext, StopNext, RecoverNext
  <1>5. Init => (~arbitrary => Cardinality(faulty) <= F)
    BY DEF Init
  <1>6. TypeOK /\ (~arbitrary => Cardinality(faulty) <= F) /\ [Next]_vars
            => (~arbitrary => Cardinality(faulty) <= F)'
    BY StepAtReplica
  <1> QED BY <1>1, <1>2, <1>3, <1>4, <1>5, <1>6, InvInit, InvNext, PTL DEF Spec
=============================================================================
