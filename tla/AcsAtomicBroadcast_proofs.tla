---------------------- MODULE AcsAtomicBroadcast_proofs ----------------------
(***************************************************************************)
(* What AcsAtomicBroadcast guarantees for every number of replicas, every  *)
(* F, every set of transactions, every number of epochs and of threads     *)
(* that call handleInput.                                                  *)
(***************************************************************************)
EXTENDS AcsAtomicBroadcast, FiniteSetTheorems, TLAPS

-----------------------------------------------------------------------------
\* A transaction read from the queue is one, and a vote is one.
LEMMA CastType == \A v, b \in Vote : Cast(v, b) \in Vote
  BY DEF Cast, Vote

LEMMA VoteNoForRestType ==
    ASSUME NEW r \in Replica, NEW e, NEW v \in [Replica -> [Replica -> Vote]]
    PROVE  VoteNoForRest(r, e, v) \in [Replica -> [Replica -> Vote]]
  <1>1. "no" \in Vote
    BY DEF Vote
  <1>2. \A i \in Replica : [v[i] EXCEPT ![r] = Cast(@, "no")] \in [Replica -> Vote]
    BY <1>1, CastType
  <1> QED BY <1>2 DEF VoteNoForRest

\* Where a thread goes.
LEMMA LocalType ==
    /\ Idle \in Local
    /\ \A l \in Local : l.unsent \in SUBSET Epoch
    /\ \A l \in Local, c \in {"get", "claim", "propose", "test"} :
           [l EXCEPT !.pc = c] \in Local
    /\ \A l \in Local, t \in Tx : [[l EXCEPT !.pc = "claim"] EXCEPT !.batch = t] \in Local
  <1>1. Idle \in Local
    BY DEF Local
  <1>2. ASSUME NEW l \in Local
        PROVE  /\ l = [pc |-> l.pc, batch |-> l.batch, ending |-> l.ending,
                       unsent |-> l.unsent]
               /\ l.batch \in Tx \cup {None} /\ l.ending \in Epoch \cup {None}
               /\ l.unsent \in SUBSET Epoch
    BY <1>2 DEF Local, Idle
  <1>3. ASSUME NEW l \in Local, NEW c \in {"get", "claim", "propose", "test"}
        PROVE  [l EXCEPT !.pc = c] \in Local
    <2>1. [l EXCEPT !.pc = c] = [pc |-> c, batch |-> l.batch, ending |-> l.ending,
                                 unsent |-> l.unsent]
      BY <1>2, <1>3
    <2> QED BY <1>2, <1>3, <2>1 DEF Local
  <1>4. ASSUME NEW l \in Local, NEW t \in Tx
        PROVE  [[l EXCEPT !.pc = "claim"] EXCEPT !.batch = t] \in Local
    <2>1. [[l EXCEPT !.pc = "claim"] EXCEPT !.batch = t]
              = [pc |-> "claim", batch |-> t, ending |-> l.ending, unsent |-> l.unsent]
      <3>1. PICK m : m = [l EXCEPT !.pc = "claim"]
        OBVIOUS
      <3>2. m = [pc |-> "claim", batch |-> l.batch, ending |-> l.ending, unsent |-> l.unsent]
        BY <1>2, <3>1
      <3>3. [m EXCEPT !.batch = t]
                = [pc |-> "claim", batch |-> t, ending |-> l.ending, unsent |-> l.unsent]
        BY <3>2
      <3> QED BY <3>1, <3>3
    <2> QED BY <1>2, <1>4, <2>1 DEF Local
  <1> QED BY <1>1, <1>2, <1>3, <1>4

LEMMA AtType ==
    ASSUME thread \in [Replica -> [Thread -> Local]], NEW r \in Replica, NEW k \in Thread
    PROVE  /\ \A c \in {"get", "claim", "propose", "test"} : At(r, k, c) \in Local
           /\ \A e \in Epoch : [At(r, k, "finish") EXCEPT !.ending = e] \in Local
           /\ \A e \in Epoch : [At(r, k, "test") EXCEPT !.unsent = @ \cup {e}] \in Local
  <1>1. PICK u \in SUBSET Epoch : u = thread[r][k].unsent
    BY LocalType
  <1>2. ASSUME NEW c \in {"get", "claim", "propose", "test", "finish"}
        PROVE  At(r, k, c) = [pc |-> c, batch |-> None, ending |-> None, unsent |-> u]
    <2>1. At(r, k, c) = [[Idle EXCEPT !.pc = c] EXCEPT !.unsent = u]
      BY <1>1 DEF At
    <2>2. [Idle EXCEPT !.pc = c] = [pc |-> c, batch |-> None, ending |-> None, unsent |-> {}]
      <3>1. PICK m, v : m = Idle /\ v = {}
        OBVIOUS
      <3>2. m = [pc |-> "idle", batch |-> None, ending |-> None, unsent |-> v]
        BY <3>1 DEF Idle
      <3>3. [m EXCEPT !.pc = c] = [pc |-> c, batch |-> None, ending |-> None, unsent |-> v]
        BY <3>2
      <3> QED BY <3>1, <3>3
    <2> QED BY <2>1, <2>2
  <1>3. ASSUME NEW c \in {"get", "claim", "propose", "test"} PROVE At(r, k, c) \in Local
    BY <1>2, <1>3 DEF Local
  <1>4. ASSUME NEW e \in Epoch PROVE [At(r, k, "finish") EXCEPT !.ending = e] \in Local
    <2>1. [At(r, k, "finish") EXCEPT !.ending = e]
              = [pc |-> "finish", batch |-> None, ending |-> e, unsent |-> u]
      BY <1>2
    <2> QED BY <1>4, <2>1 DEF Local
  <1>5. ASSUME NEW e \in Epoch
        PROVE  [At(r, k, "test") EXCEPT !.unsent = @ \cup {e}] \in Local
    <2>1. [At(r, k, "test") EXCEPT !.unsent = @ \cup {e}]
              = [pc |-> "test", batch |-> None, ending |-> None, unsent |-> u \cup {e}]
      <3>1. PICK m : m = At(r, k, "test")
        OBVIOUS
      <3>2. m = [pc |-> "test", batch |-> None, ending |-> None, unsent |-> u]
        BY <1>2, <3>1
      <3>3. m.unsent = u
        BY <3>2
      <3>4. PICK v : v = u \cup {e}
        OBVIOUS
      <3>5. [m EXCEPT !.unsent = v]
                = [pc |-> "test", batch |-> None, ending |-> None, unsent |-> v]
        BY <3>2
      <3> QED BY <3>1, <3>3, <3>4, <3>5
    <2> QED BY <1>5, <2>1 DEF Local
  <1> QED BY <1>3, <1>4, <1>5

\* A thread that has proposed looks at the epoch.
LEMMA ProposeLooks ==
    ASSUME TypeOK, NEW r \in Replica, NEW k \in Thread, Propose(r, k)
    PROVE  thread'[r][k].pc = "test"
  <1>1. At(r, k, "test").pc = "test"
    BY DEF At, Idle
  <1>2. [At(r, k, "test") EXCEPT !.unsent = @ \cup {epoch[r]}].pc = "test"
    BY DEF At, Idle
  <1>3. ASSUME NEW l, l.pc = "test", thread' = [thread EXCEPT ![r][k] = l]
        PROVE  thread'[r][k].pc = "test"
    BY <1>3 DEF TypeOK
  <1>4. \/ thread' = [thread EXCEPT ![r][k] = At(r, k, "test")]
        \/ thread' = [thread EXCEPT ![r][k] =
                         [At(r, k, "test") EXCEPT !.unsent = @ \cup {epoch[r]}]]
    BY DEF Propose
  <1> QED BY <1>1, <1>2, <1>3, <1>4

LEMMA ReturnedType ==
    ASSUME thread \in [Replica -> [Thread -> Local]], NEW r \in Replica, NEW k \in Thread
    PROVE  Returned(r, k) \in Local
  BY LocalType, AtType DEF Returned

LEMMA ThreadType ==
    ASSUME thread \in [Replica -> [Thread -> Local]],
           NEW r \in Replica, NEW k \in Thread, NEW l \in Local
    PROVE  [thread EXCEPT ![r][k] = l] \in [Replica -> [Thread -> Local]]
  OBVIOUS

\* The types hold in every reachable state.
LEMMA TypeInit == Init => TypeOK
  <1> SUFFICES ASSUME Init PROVE TypeOK
    OBVIOUS
  <1>1. faulty \subseteq Replica
    BY ReplicaAssumption DEF Init
  <1>2. thread \in [Replica -> [Thread -> Local]]
    BY LocalType DEF Init
  <1>3. delivered \in [Replica -> Seq(Block)]
    BY DEF Init
  <1>4. /\ votes \in [Epoch -> [Replica -> [Replica -> Vote]]]
        /\ decided \in [Epoch -> [Replica -> Vote]]
        /\ state \in [Replica -> [Epoch -> [Replica -> ProposalState]]]
    BY DEF Init, Vote, ProposalState
  <1> QED BY <1>1, <1>2, <1>3, <1>4 DEF Init, TypeOK

\* What a message leaves as it is, and where its thread goes on.
LEMMA ReceivingType ==
    ASSUME TypeOK, NEW r \in Replica, NEW e, Receiving(r, e)
    PROVE  /\ faulty' = faulty /\ proposed' = proposed /\ epoch' = epoch
           /\ hasInput' = hasInput /\ queue' = queue /\ submitted' = submitted
           /\ delivered' = delivered
           /\ thread' \in [Replica -> [Thread -> Local]]
  <1>1. "message" \in Thread
    BY DEF Thread
  <1>2. [thread[r]["message"] EXCEPT !.pc = "test"] \in Local
    <2>1. thread[r]["message"] \in Local
      BY <1>1 DEF TypeOK
    <2> QED BY <2>1, LocalType
  <1>3. thread' = [thread EXCEPT ![r]["message"] = [@ EXCEPT !.pc = "test"]]
    BY DEF Receiving
  <1>4. thread' \in [Replica -> [Thread -> Local]]
    BY <1>1, <1>2, <1>3, ThreadType DEF TypeOK
  <1> QED BY <1>4 DEF Receiving

LEMMA TypeMessage ==
    ASSUME TypeOK, NEW r \in Replica, NEW e \in Epoch, NEW i \in Replica, HandleMessage(r, e, i)
    PROVE  TypeOK'
  <1>1. CASE HandleSend(r, e, i)
    <2>1. Receiving(r, e)
      BY <1>1 DEF HandleSend
    <2> QED BY <1>1, <2>1, ReceivingType DEF HandleSend, TypeOK
  <1>2. CASE HandleBroadcast(r, e, i)
    <2>1. Receiving(r, e)
      BY <1>2 DEF HandleBroadcast
    <2>2. state' \in [Replica -> [Epoch -> [Replica -> ProposalState]]]
      <3>1. PICK w \in ProposalState : state' = [state EXCEPT ![r][e][i] = w]
        BY <1>2 DEF HandleBroadcast, ProposalState
      <3> QED BY <3>1 DEF TypeOK
    <2>3. votes[e] \in [Replica -> [Replica -> Vote]]
      BY DEF TypeOK
    <2>7. "yes" \in Vote
      BY DEF Vote
    <2>4. [votes[e] EXCEPT ![i][r] = Cast(@, "yes")] \in [Replica -> [Replica -> Vote]]
      BY <2>3, <2>7, CastType
    <2>5. /\ VoteNoForRest(r, e, votes[e]) \in [Replica -> [Replica -> Vote]]
          /\ VoteNoForRest(r, e, [votes[e] EXCEPT ![i][r] = Cast(@, "yes")])
                 \in [Replica -> [Replica -> Vote]]
      BY <2>3, <2>4, VoteNoForRestType
    <2>6. votes' \in [Epoch -> [Replica -> [Replica -> Vote]]]
      <3>1. PICK w \in [Replica -> [Replica -> Vote]] : votes' = [votes EXCEPT ![e] = w]
        <4>1. \/ votes' = [votes EXCEPT ![e] = VoteNoForRest(r, e, votes[e])]
              \/ votes' = [votes EXCEPT ![e] =
                     VoteNoForRest(r, e, [votes[e] EXCEPT ![i][r] = Cast(@, "yes")])]
          BY <1>2 DEF HandleBroadcast
        <4> QED BY <2>5, <4>1
      <3> QED BY <3>1 DEF TypeOK
    <2> QED BY <1>2, <2>1, <2>2, <2>6, ReceivingType DEF HandleBroadcast, TypeOK
  <1>3. CASE HandleAgreement(r, e, i)
    <2>1. Receiving(r, e)
      BY <1>3 DEF HandleAgreement
    <2>2. state' \in [Replica -> [Epoch -> [Replica -> ProposalState]]]
      <3>1. PICK w \in ProposalState : state' = [state EXCEPT ![r][e][i] = w]
        BY <1>3 DEF HandleAgreement, ProposalState
      <3> QED BY <3>1 DEF TypeOK
    <2>3. VoteNoForRest(r, e, votes[e]) \in [Replica -> [Replica -> Vote]]
      BY VoteNoForRestType DEF TypeOK
    <2>4. votes' \in [Epoch -> [Replica -> [Replica -> Vote]]]
      BY <1>3, <2>3 DEF HandleAgreement, TypeOK
    <2> QED BY <1>3, <2>1, <2>2, <2>4, ReceivingType DEF HandleAgreement, TypeOK
  <1> QED BY <1>1, <1>2, <1>3 DEF HandleMessage

LEMMA TypeDecide ==
    ASSUME TypeOK, NEW e \in Epoch, NEW i \in Replica, Decide(e, i)
    PROVE  TypeOK'
  <1>1. PICK r \in Correct : decided' = [decided EXCEPT ![e][i] = votes[e][i][r]]
    BY DEF Decide
  <1>2. votes[e][i][r] \in Vote
    BY <1>1 DEF Correct, TypeOK
  <1>3. decided' \in [Epoch -> [Replica -> Vote]]
    BY <1>1, <1>2 DEF TypeOK
  <1>4. votes' \in [Epoch -> [Replica -> [Replica -> Vote]]]
    BY <1>3 DEF Decide, TypeOK
  <1> QED BY <1>3, <1>4 DEF Decide, TypeOK

LEMMA TypeStep ==
    ASSUME TypeOK, NEW r \in Replica, NEW k \in Thread, Step(r, k)
    PROVE  TypeOK'
  <1>1. thread[r][k] \in Local
    BY DEF TypeOK
  <1>2. CASE Get(r, k)
    <2>1. thread' \in [Replica -> [Thread -> Local]]
      <3>1. CASE thread' = [thread EXCEPT ![r][k] = Returned(r, k)]
        BY <3>1, ReturnedType, ThreadType DEF TypeOK
      <3>2. ASSUME NEW t \in queue[r],
                   thread' = [thread EXCEPT ![r][k].pc = "claim", ![r][k].batch = t]
            PROVE  thread' \in [Replica -> [Thread -> Local]]
        <4>1. t \in Tx
          BY DEF TypeOK
        <4>2. thread' = [thread EXCEPT ![r][k] = [[@ EXCEPT !.pc = "claim"] EXCEPT !.batch = t]]
          BY <1>1, <3>2 DEF TypeOK
        <4> QED BY <1>1, <4>1, <4>2, LocalType, ThreadType DEF TypeOK
      <3> QED BY <1>2, <3>1, <3>2 DEF Get
    <2> QED BY <1>2, <2>1 DEF Get, net, TypeOK
  <1>3. CASE Claim(r, k)
    <2>1. [thread[r][k] EXCEPT !.pc = "propose"] \in Local /\ Returned(r, k) \in Local
      BY <1>1, LocalType, ReturnedType DEF TypeOK
    <2>2. thread' \in [Replica -> [Thread -> Local]]
      BY <1>3, <2>1, ThreadType DEF Claim, TypeOK
    <2> QED BY <1>3, <2>2 DEF Claim, net, TypeOK
  <1>4. CASE Propose(r, k)
    <2> DEFINE Accepts == /\ epoch[r] \in Epoch /\ proposed[epoch[r]][r] = None
                          /\ state[r][epoch[r]][r] = "ongoing"
    <2>1. thread' \in [Replica -> [Thread -> Local]]
      <3>1. PICK l \in Local : thread' = [thread EXCEPT ![r][k] = l]
        <4>1. CASE Accepts
          <5>1. thread' = [thread EXCEPT ![r][k] =
                              [At(r, k, "test") EXCEPT !.unsent = @ \cup {epoch[r]}]]
            BY <1>4, <4>1 DEF Propose
          <5> QED BY <4>1, <5>1, AtType DEF TypeOK
        <4>2. CASE ~Accepts
          <5>1. thread' = [thread EXCEPT ![r][k] = At(r, k, "test")]
            BY <1>4, <4>2 DEF Propose
          <5> QED BY <5>1, AtType DEF TypeOK
        <4> QED BY <4>1, <4>2
      <3> QED BY <3>1, ThreadType DEF TypeOK
    <2>2. thread[r][k].batch \in Tx \cup {None}
      BY <1>1 DEF Local, Idle
    <2>3. /\ proposed' \in [Epoch -> [Replica -> Tx \cup {None}]]
          /\ echoed' \in [Epoch -> [Replica -> SUBSET Replica]]
      <3>1. CASE Accepts
        <4>1. /\ proposed' = [proposed EXCEPT ![epoch[r]][r] = thread[r][k].batch]
              /\ echoed' = [echoed EXCEPT ![epoch[r]][r] = @ \cup {r}]
          BY <1>4, <3>1 DEF Propose
        <4>2. echoed[epoch[r]][r] \cup {r} \in SUBSET Replica
          BY <3>1 DEF TypeOK
        <4> QED BY <2>2, <3>1, <4>1, <4>2 DEF TypeOK
      <3>2. CASE ~Accepts
        BY <1>4, <3>2 DEF Propose, TypeOK
      <3> QED BY <3>1, <3>2
    <2> QED BY <1>4, <2>1, <2>3 DEF Propose, TypeOK
  <1>5. CASE Test(r, k)
    <2>1. thread' \in [Replica -> [Thread -> Local]]
      <3>1. PICK l \in Local : thread' = [thread EXCEPT ![r][k] = l]
        BY <1>5, LocalType, AtType DEF Test, TypeOK
      <3> QED BY <3>1, ThreadType DEF TypeOK
    <2> QED BY <1>5, <2>1 DEF Test, net, TypeOK
  <1>6. CASE Finish(r, k)
    <2>1. thread[r][k].ending \in Epoch
      BY <1>1, <1>6 DEF Finish, Local, Idle
    <2>2. [epoch |-> thread[r][k].ending, from |-> Accepted(r, thread[r][k].ending)] \in Block
      BY <2>1 DEF Block, Accepted
    <2>3. delivered' \in [Replica -> Seq(Block)]
      BY <1>6, <2>2 DEF Finish, TypeOK
    <2>4. thread' = [thread EXCEPT ![r][k] = [@ EXCEPT !.pc = "get"]]
      BY <1>6 DEF Finish
    <2>5. thread' \in [Replica -> [Thread -> Local]]
      BY <1>1, <2>4, LocalType, ThreadType DEF TypeOK
    <2> QED BY <1>6, <2>3, <2>5 DEF Finish, net, TypeOK
  <1> QED BY <1>2, <1>3, <1>4, <1>5, <1>6 DEF Step

LEMMA TypeInput ==
    ASSUME TypeOK, NEW r \in Replica, NEW h \in Caller, NEW t \in Tx, HandleInput(r, h, t)
    PROVE  TypeOK'
  <1>1. h \in Thread
    BY DEF Thread
  <1>2. thread' = [thread EXCEPT ![r][h] = [@ EXCEPT !.pc = "get"]]
    BY DEF HandleInput
  <1>3. [thread[r][h] EXCEPT !.pc = "get"] \in Local
    <2>1. thread[r][h] \in Local
      BY <1>1 DEF TypeOK
    <2> QED BY <2>1, LocalType
  <1>4. thread' \in [Replica -> [Thread -> Local]]
    BY <1>1, <1>2, <1>3, ThreadType DEF TypeOK
  <1> QED BY <1>4 DEF HandleInput, net, TypeOK

LEMMA TypeNext ==
    ASSUME TypeOK, [Next]_vars
    PROVE  TypeOK'
  <1>1. CASE UNCHANGED vars
    BY <1>1 DEF vars, net, TypeOK
  <1> QED BY <1>1, TypeInput, TypeMessage, TypeDecide, TypeStep DEF Next

\* Every variable keeps its type; an epoch about to be ended is one (Finish).
THEOREM TypeCorrect == Spec => []TypeOK
  <1>1. Init => TypeOK
    BY TypeInit
  <1>2. TypeOK /\ [Next]_vars => TypeOK'
    BY TypeNext
  <1> QED BY <1>1, <1>2, PTL DEF Spec
-----------------------------------------------------------------------------
\* What a step does, whoever takes it: a broadcast carries one proposal, ...
LEMMA ProposedOnce ==
    ASSUME TypeOK, [Next]_vars, NEW e \in Epoch, NEW i \in Replica, proposed[e][i] # None
    PROVE  proposed'[e][i] = proposed[e][i]
  <1>1. CASE proposed' = proposed
    BY <1>1
  <1>2. ASSUME NEW r \in Replica, NEW k \in Thread, Propose(r, k)
        PROVE  proposed'[e][i] = proposed[e][i]
    <2>1. CASE proposed' = proposed
      BY <2>1
    <2>2. CASE proposed' # proposed
      <3>1. /\ epoch[r] \in Epoch /\ proposed[epoch[r]][r] = None
            /\ proposed' = [proposed EXCEPT ![epoch[r]][r] = thread[r][k].batch]
        BY <1>2, <2>2 DEF Propose
      <3>2. ~(epoch[r] = e /\ r = i)
        BY <3>1
      <3> QED BY <3>1, <3>2 DEF TypeOK
    <2> QED BY <2>1, <2>2
  <1>3. CASE UNCHANGED vars
    BY <1>3, <1>1 DEF vars, net
  <1>4. CASE Next
    <2>1. ASSUME NEW r \in Replica, NEW h \in Caller, NEW t \in Tx, HandleInput(r, h, t)
          PROVE  proposed' = proposed
      BY <2>1 DEF HandleInput, net
    <2>2. ASSUME NEW r \in Replica, NEW f \in Epoch, NEW j \in Replica, HandleMessage(r, f, j)
          PROVE  proposed' = proposed
      BY <2>2 DEF HandleMessage, HandleSend, HandleBroadcast, HandleAgreement, Receiving
    <2>3. ASSUME NEW r \in Replica, NEW k \in Thread, Step(r, k), ~Propose(r, k)
          PROVE  proposed' = proposed
      BY <2>3 DEF Step, Get, Claim, Test, Finish, net
    <2>4. ASSUME NEW f \in Epoch, NEW j \in Replica, Decide(f, j)
          PROVE  proposed' = proposed
      BY <2>4 DEF Decide
    <2> QED BY <1>1, <1>2, <1>4, <2>1, <2>2, <2>3, <2>4 DEF Next
  <1> QED BY <1>3, <1>4

LEMMA OnlyPropose ==
    ASSUME TypeOK, [Next]_vars, NEW e \in Epoch, NEW i \in Replica,
           proposed[e][i] = None, proposed'[e][i] # None
    PROVE  e = epoch[i]
  <1>1. proposed' # proposed
    OBVIOUS
  <1>2. PICK r \in Replica, k \in Thread : Propose(r, k)
    <2>1. ASSUME NEW r \in Replica, NEW h \in Caller, NEW t \in Tx, HandleInput(r, h, t)
          PROVE  proposed' = proposed
      BY <2>1 DEF HandleInput, net
    <2>2. ASSUME NEW r \in Replica, NEW f \in Epoch, NEW j \in Replica, HandleMessage(r, f, j)
          PROVE  proposed' = proposed
      BY <2>2 DEF HandleMessage, HandleSend, HandleBroadcast, HandleAgreement, Receiving
    <2>3. ASSUME NEW r \in Replica, NEW k \in Thread, Step(r, k), ~Propose(r, k)
          PROVE  proposed' = proposed
      BY <2>3 DEF Step, Get, Claim, Test, Finish, net
    <2>4. ASSUME NEW f \in Epoch, NEW j \in Replica, Decide(f, j)
          PROVE  proposed' = proposed
      BY <2>4 DEF Decide
    <2>5. ~UNCHANGED vars
      BY <1>1 DEF vars, net
    <2> QED BY <1>1, <2>1, <2>2, <2>3, <2>4, <2>5 DEF Next
  <1>3. proposed' = [proposed EXCEPT ![epoch[r]][r] = thread[r][k].batch]
    BY <1>1, <1>2 DEF Propose
  <1> QED BY <1>3 DEF TypeOK

\* ... an agreement ends once, ...
LEMMA OnlyDecide ==
    ASSUME [Next]_vars
    PROVE  decided' = decided \/ \E e \in Epoch, i \in Replica : Decide(e, i)
  <1>1. ASSUME NEW r \in Replica, NEW h \in Caller, NEW t \in Tx, HandleInput(r, h, t)
        PROVE  decided' = decided
    BY <1>1 DEF HandleInput, net
  <1>2. ASSUME NEW r \in Replica, NEW f \in Epoch, NEW j \in Replica, HandleMessage(r, f, j)
        PROVE  decided' = decided
    BY <1>2 DEF HandleMessage, HandleSend, HandleBroadcast, HandleAgreement
  <1>3. ASSUME NEW r \in Replica, NEW k \in Thread, Step(r, k)
        PROVE  decided' = decided
    BY <1>3 DEF Step, Get, Claim, Propose, Test, Finish, net
  <1>4. CASE UNCHANGED vars
    BY <1>4 DEF vars, net
  <1> QED BY <1>1, <1>2, <1>3, <1>4 DEF Next

LEMMA DecidedOnce ==
    ASSUME TypeOK, [Next]_vars, NEW e \in Epoch, NEW i \in Replica, decided[e][i] # "none"
    PROVE  decided'[e][i] = decided[e][i]
  <1>1. ASSUME NEW f \in Epoch, NEW j \in Replica, Decide(f, j)
        PROVE  decided'[e][i] = decided[e][i]
    BY <1>1 DEF Decide, TypeOK
  <1> QED BY <1>1, OnlyDecide

\* ... and only Finish outputs, takes out of a queue and ends an epoch.
LEMMA OnlyFinish ==
    ASSUME TypeOK, [Next]_vars, NEW r \in Replica, \A k \in Thread : ~Finish(r, k)
    PROVE  /\ delivered'[r] = delivered[r]
           /\ epoch'[r] = epoch[r]
           /\ \/ queue'[r] = queue[r] /\ submitted'[r] = submitted[r]
              \/ \E t \in Tx : /\ queue'[r] = queue[r] \cup {t}
                               /\ submitted'[r] = submitted[r] \cup {t}
  <1>1. CASE UNCHANGED vars
    BY <1>1 DEF vars
  <1>2. CASE Next
    <2>1. ASSUME NEW s \in Replica, NEW h \in Caller, NEW t \in Tx, HandleInput(s, h, t)
          PROVE  /\ delivered' = delivered /\ epoch' = epoch
                 /\ \/ queue'[r] = queue[r] /\ submitted'[r] = submitted[r]
                    \/ /\ queue'[r] = queue[r] \cup {t}
                       /\ submitted'[r] = submitted[r] \cup {t}
      BY <2>1 DEF HandleInput, TypeOK
    <2>2. ASSUME NEW s \in Replica, NEW f \in Epoch, NEW j \in Replica, HandleMessage(s, f, j)
          PROVE  delivered' = delivered /\ epoch' = epoch /\ queue' = queue /\ submitted' = submitted
      BY <2>2 DEF HandleMessage, HandleSend, HandleBroadcast, HandleAgreement, Receiving
    <2>3. ASSUME NEW s \in Replica, NEW k \in Thread, Step(s, k)
          PROVE  /\ delivered'[r] = delivered[r] /\ epoch'[r] = epoch[r]
                 /\ queue'[r] = queue[r] /\ submitted'[r] = submitted[r]
      <3>1. CASE Finish(s, k)
        <4>1. s # r
          BY <3>1
        <4> QED BY <3>1, <4>1 DEF Finish, TypeOK
      <3> QED BY <2>3, <3>1 DEF Step, Get, Claim, Propose, Test
    <2>4. ASSUME NEW f \in Epoch, NEW j \in Replica, Decide(f, j)
          PROVE  delivered' = delivered /\ epoch' = epoch /\ queue' = queue /\ submitted' = submitted
      BY <2>4 DEF Decide
    <2> QED BY <1>2, <2>1, <2>2, <2>3, <2>4 DEF Next
  <1> QED BY <1>1, <1>2

LEMMA FaultyFixed == ASSUME [Next]_vars PROVE faulty' = faulty
  <1>1. ASSUME NEW r \in Replica, NEW h \in Caller, NEW t \in Tx, HandleInput(r, h, t)
        PROVE  faulty' = faulty
    BY <1>1 DEF HandleInput
  <1>2. ASSUME NEW r \in Replica, NEW e \in Epoch, NEW i \in Replica, HandleMessage(r, e, i)
        PROVE  faulty' = faulty
    BY <1>2 DEF HandleMessage, HandleSend, HandleBroadcast, HandleAgreement, Receiving
  <1>3. ASSUME NEW r \in Replica, NEW k \in Thread, Step(r, k)
        PROVE  faulty' = faulty
    BY <1>3 DEF Step, Get, Claim, Propose, Test, Finish
  <1>4. ASSUME NEW e \in Epoch, NEW i \in Replica, Decide(e, i)
        PROVE  faulty' = faulty
    BY <1>4 DEF Decide
  <1> QED BY <1>1, <1>2, <1>3, <1>4 DEF Next, vars

\* What is in a block stays in it.
LEMMA ContentKept ==
    ASSUME TypeOK, [Next]_vars, NEW b \in Block, NEW t \in Tx, t \in Content(b)
    PROVE  t \in Content(b)'
  <1>1. PICK i \in b.from : t = proposed[b.epoch][i]
    BY DEF Content
  <1>2. b.epoch \in Epoch /\ i \in Replica
    BY <1>1 DEF Block
  <1>3. proposed'[b.epoch][i] = proposed[b.epoch][i]
    BY <1>1, <1>2, ProposedOnce, TxAssumption
  <1> QED BY <1>1, <1>3 DEF Content

\* Finish appends a block and takes no more than its content out of the queue.
LEMMA FinishAppends ==
    ASSUME TypeOK, NEW r \in Replica, NEW k \in Thread, Finish(r, k),
           NEW e, e = thread[r][k].ending,
           NEW b, b = [epoch |-> e, from |-> Accepted(r, e)]
    PROVE  /\ e \in Epoch /\ b \in Block
           /\ delivered' = [delivered EXCEPT ![r] = Append(@, b)]
           /\ delivered'[r] = Append(delivered[r], b)
           /\ queue'[r] = queue[r] \ Content(b)
           /\ proposed' = proposed /\ submitted' = submitted
           /\ epoch' = [epoch EXCEPT ![r] = @ + 1]
           /\ thread' = [thread EXCEPT ![r][k].pc = "get"]
  <1>1. thread[r][k] \in Local
    BY DEF TypeOK
  <1>2. e \in Epoch
    BY <1>1 DEF Finish, Local, Idle
  <1>3. b \in Block
    BY <1>2 DEF Block, Accepted
  <1>4. Content(b) = {proposed[e][i] : i \in Accepted(r, e)}
    BY DEF Content
  <1>5. /\ delivered' = [delivered EXCEPT ![r] = Append(@, b)]
        /\ queue' = [queue EXCEPT ![r] = @ \ {proposed[e][i] : i \in Accepted(r, e)}]
    BY DEF Finish
  <1> QED BY <1>2, <1>3, <1>4, <1>5 DEF Finish, net, TypeOK

\* No transaction given to a correct replica is lost, whatever is accepted of what it
\* proposes and whichever way its threads run.
LEMMA LosesNothingNext ==
    ASSUME TypeOK, NothingLost, [Next]_vars
    PROVE  NothingLost'
  <1> SUFFICES ASSUME NEW r \in Correct', NEW t \in submitted'[r]
               PROVE  \/ t \in queue'[r]
                      \/ \E j \in 1 .. Len(delivered'[r]) : t \in Content(delivered[r][j])'
    BY DEF NothingLost
  <1>1. r \in Correct /\ r \in Replica
    BY FaultyFixed DEF Correct
  <1>2. delivered[r] \in Seq(Block) /\ submitted[r] \subseteq Tx
    BY <1>1 DEF TypeOK
  <1>3. ASSUME NEW b \in Block, t \in Tx, t \in Content(b),
               NEW j \in 1 .. Len(delivered'[r]), b = delivered'[r][j]
        PROVE  t \in Content(delivered[r][j])'
    <2>1. t \in Content(b)'
      BY <1>3, ContentKept
    <2> QED BY <1>3, <2>1 DEF Content
  <1>4. CASE \A k \in Thread : ~Finish(r, k)
    <2>1. delivered'[r] = delivered[r]
      BY <1>1, <1>4, OnlyFinish
    <2>2. CASE t \in queue'[r]
      BY <2>2
    <2>3. CASE t \notin queue'[r]
      <3>1. t \in submitted[r] /\ t \notin queue[r]
        BY <1>1, <1>4, <2>3, OnlyFinish
      <3>2. PICK j \in 1 .. Len(delivered[r]) : t \in Content(delivered[r][j])
        BY <1>1, <3>1 DEF NothingLost
      <3>3. PICK b \in Block : b = delivered[r][j]
        BY <1>2
      <3>4. t \in Tx /\ t \in Content(b)
        BY <1>2, <3>1, <3>2, <3>3
      <3> QED BY <1>3, <2>1, <3>3, <3>4
    <2> QED BY <2>2, <2>3
  <1>5. ASSUME NEW k \in Thread, Finish(r, k)
        PROVE  \/ t \in queue'[r]
               \/ \E j \in 1 .. Len(delivered'[r]) : t \in Content(delivered[r][j])'
    <2>1. PICK e : e = thread[r][k].ending
      OBVIOUS
    <2>2. PICK c : c = [epoch |-> e, from |-> Accepted(r, e)]
      OBVIOUS
    <2>3. /\ c \in Block /\ delivered'[r] = Append(delivered[r], c)
          /\ queue'[r] = queue[r] \ Content(c) /\ submitted' = submitted
      BY <1>1, <1>5, <2>1, <2>2, FinishAppends
    <2>4. t \in submitted[r] /\ t \in Tx
      BY <1>2, <2>3
    <2>5. CASE t \in queue[r]
      <3>1. CASE t \in Content(c)
        <4>1. /\ Len(delivered[r]) + 1 \in 1 .. Len(delivered'[r])
              /\ delivered'[r][Len(delivered[r]) + 1] = c
          BY <1>2, <2>3
        <4> QED BY <1>3, <2>3, <2>4, <3>1, <4>1
      <3> QED BY <2>3, <2>5, <3>1
    <2>6. CASE t \notin queue[r]
      <3>1. PICK j \in 1 .. Len(delivered[r]) : t \in Content(delivered[r][j])
        BY <1>1, <2>4, <2>6 DEF NothingLost
      <3>2. PICK b \in Block : b = delivered[r][j]
        BY <1>2
      <3>3. j \in 1 .. Len(delivered'[r]) /\ b = delivered'[r][j]
        BY <1>2, <2>3, <3>2
      <3> QED BY <1>3, <2>4, <3>1, <3>2, <3>3
    <2> QED BY <2>5, <2>6
  <1> QED BY <1>4, <1>5

\* A transaction given to a correct replica is pending there or delivered, whatever
\* the threads of the replica do (tryPropose, handleEpochStep).
THEOREM LosesNothing == Spec => []NothingLost
  <1>1. Init => TypeOK /\ NothingLost
    BY TypeInit DEF Init, NothingLost, Correct
  <1>2. TypeOK /\ NothingLost /\ [Next]_vars => (TypeOK /\ NothingLost)'
    BY TypeNext, LosesNothingNext
  <1> QED BY <1>1, <1>2, PTL DEF Spec
-----------------------------------------------------------------------------
\* A proposal is accepted, and complete, by what its agreement decided, which does
\* not change: an epoch that has terminated stays as it is.
Yes(e) == {i \in Replica : decided[e][i] = "yes"}
StateDecided ==
    \A r \in Replica, e \in Epoch, i \in Replica :
        /\ state[r][e][i] = "complete" => decided[e][i] # "none"
        /\ state[r][e][i] = "accepted" => decided[e][i] = "yes"
EndsTerminated ==
    \A r \in Replica, k \in Thread :
        thread[r][k].pc = "finish" => Terminated(r, thread[r][k].ending)
Decisive(b) == /\ \A i \in Replica : decided[b.epoch][i] # "none"
               /\ b.from = Yes(b.epoch)
               /\ Cardinality(b.from) >= N - F
BlocksDecided ==
    \A r \in Replica : \A j \in 1 .. Len(delivered[r]) : Decisive(delivered[r][j])
BlockInv == TypeOK /\ StateDecided /\ EndsTerminated /\ BlocksDecided

LEMMA StateStep ==
    ASSUME TypeOK, [Next]_vars, NEW r \in Replica, NEW e \in Epoch, NEW i \in Replica
    PROVE  \/ state'[r][e][i] = state[r][e][i]
           \/ state[r][e][i] = "ongoing" /\ state'[r][e][i] = "hasValue"
           \/ state[r][e][i] = "accepted" /\ state'[r][e][i] = "complete"
           \/ /\ state[r][e][i] \in {"ongoing", "hasValue"} /\ decided[e][i] # "none"
              /\ \/ state'[r][e][i] = "complete"
                 \/ state'[r][e][i] = "accepted" /\ decided[e][i] = "yes"
  <1>1. CASE state' = state
    BY <1>1
  <1>2. ASSUME NEW s \in Replica, NEW f \in Epoch, NEW j \in Replica, HandleBroadcast(s, f, j)
        PROVE  \/ state'[r][e][i] = state[r][e][i]
               \/ state[r][e][i] = "ongoing" /\ state'[r][e][i] = "hasValue"
               \/ state[r][e][i] = "accepted" /\ state'[r][e][i] = "complete"
    <2>1. state[s][f][j] \in {"ongoing", "accepted"}
      BY <1>2 DEF HandleBroadcast
    <2>2. CASE state[s][f][j] = "ongoing"
      <3>1. state' = [state EXCEPT ![s][f][j] = "hasValue"]
        BY <1>2, <2>2 DEF HandleBroadcast
      <3> QED BY <2>2, <3>1 DEF TypeOK
    <2>3. CASE state[s][f][j] = "accepted"
      <3>1. state' = [state EXCEPT ![s][f][j] = "complete"]
        BY <1>2, <2>3 DEF HandleBroadcast
      <3> QED BY <2>3, <3>1 DEF TypeOK
    <2> QED BY <2>1, <2>2, <2>3
  <1>3. ASSUME NEW s \in Replica, NEW f \in Epoch, NEW j \in Replica, HandleAgreement(s, f, j)
        PROVE  \/ state'[r][e][i] = state[r][e][i]
               \/ /\ state[r][e][i] \in {"ongoing", "hasValue"} /\ decided[e][i] # "none"
                  /\ \/ state'[r][e][i] = "complete"
                     \/ state'[r][e][i] = "accepted" /\ decided[e][i] = "yes"
    BY <1>3 DEF HandleAgreement, TypeOK
  <1>4. CASE UNCHANGED vars
    BY <1>1, <1>4 DEF vars, net
  <1>5. CASE Next
    <2>1. ASSUME NEW s \in Replica, NEW h \in Caller, NEW t \in Tx, HandleInput(s, h, t)
          PROVE  state' = state
      BY <2>1 DEF HandleInput, net
    <2>2. ASSUME NEW s \in Replica, NEW f \in Epoch, NEW j \in Replica, HandleSend(s, f, j)
          PROVE  state' = state
      BY <2>2 DEF HandleSend
    <2>3. ASSUME NEW s \in Replica, NEW k \in Thread, Step(s, k)
          PROVE  state' = state
      BY <2>3 DEF Step, Get, Claim, Propose, Test, Finish, net
    <2>4. ASSUME NEW f \in Epoch, NEW j \in Replica, Decide(f, j)
          PROVE  state' = state
      BY <2>4 DEF Decide
    <2> QED BY <1>1, <1>2, <1>3, <1>5, <2>1, <2>2, <2>3, <2>4 DEF Next, HandleMessage
  <1> QED BY <1>4, <1>5

LEMMA StateDecidedNext ==
    ASSUME TypeOK, StateDecided, [Next]_vars
    PROVE  StateDecided'
  <1> SUFFICES ASSUME NEW r \in Replica, NEW e \in Epoch, NEW i \in Replica
               PROVE  /\ state'[r][e][i] = "complete" => decided'[e][i] # "none"
                      /\ state'[r][e][i] = "accepted" => decided'[e][i] = "yes"
    BY DEF StateDecided
  <1>1. /\ state'[r][e][i] = "complete" => decided[e][i] # "none"
        /\ state'[r][e][i] = "accepted" => decided[e][i] = "yes"
    BY StateStep DEF StateDecided
  <1> QED BY <1>1, DecidedOnce

LEMMA TerminatedYes ==
    ASSUME StateDecided, NEW r \in Replica, NEW e \in Epoch, Terminated(r, e)
    PROVE  /\ \A i \in Replica : decided[e][i] # "none"
           /\ Accepted(r, e) = Yes(e) /\ Cardinality(Yes(e)) >= N - F
  <1>1. \A i \in Replica : state[r][e][i] = "complete"
    BY DEF Terminated
  <1>2. Accepted(r, e) = Yes(e)
    BY <1>1 DEF Accepted, Yes
  <1> QED BY <1>1, <1>2 DEF StateDecided, Terminated

LEMMA YesFixed ==
    ASSUME TypeOK, [Next]_vars, NEW e \in Epoch, \A i \in Replica : decided[e][i] # "none"
    PROVE  /\ \A i \in Replica : decided'[e][i] # "none"
           /\ Yes(e)' = Yes(e)
  <1>1. \A i \in Replica : decided'[e][i] = decided[e][i]
    BY DecidedOnce
  <1> QED BY <1>1 DEF Yes

LEMMA TerminatedStays ==
    ASSUME TypeOK, StateDecided, [Next]_vars,
           NEW r \in Replica, NEW e \in Epoch, Terminated(r, e)
    PROVE  Terminated(r, e)'
  <1>1. \A i \in Replica : state[r][e][i] = "complete"
    BY DEF Terminated
  <1>3. \A i \in Replica : state'[r][e][i] = "complete"
    BY <1>1, StateStep
  <1>4. Yes(e)' = Yes(e) /\ Cardinality(Yes(e)) >= N - F
    BY YesFixed, TerminatedYes
  <1>5. Accepted(r, e)' = Yes(e)'
    BY <1>3 DEF Accepted, Yes
  <1> QED BY <1>3, <1>4, <1>5 DEF Terminated

\* Only Test brings a thread to finish, and the epoch has terminated then.
LEMMA OnlyTest ==
    ASSUME TypeOK, [Next]_vars, NEW r \in Replica, NEW k \in Thread,
           thread'[r][k].pc = "finish"
    PROVE  \/ thread'[r][k] = thread[r][k]
           \/ /\ epoch[r] \in Epoch /\ Terminated(r, epoch[r])
              /\ thread'[r][k].ending = epoch[r]
              /\ Test(r, k)
  <1>0. thread[r][k] \in Local
    BY DEF TypeOK
  <1>1. CASE thread' = thread
    BY <1>1
  <1>2. CASE UNCHANGED vars
    BY <1>1, <1>2 DEF vars
  <1>3. CASE Next
    <2>1. ASSUME NEW s \in Replica, NEW h \in Caller, NEW t \in Tx, HandleInput(s, h, t)
          PROVE  thread'[r][k] = thread[r][k]
      BY <2>1 DEF HandleInput, TypeOK, Local, Idle
    <2>2. ASSUME NEW s \in Replica, NEW f \in Epoch, NEW j \in Replica, HandleMessage(s, f, j)
          PROVE  thread'[r][k] = thread[r][k]
      <3>1. thread' = [thread EXCEPT ![s]["message"].pc = "test"]
        BY <2>2 DEF HandleMessage, HandleSend, HandleBroadcast, HandleAgreement, Receiving
      <3> QED BY <3>1 DEF TypeOK, Local, Idle
    <2>3. ASSUME NEW s \in Replica, NEW l \in Thread, Step(s, l), s # r \/ l # k
          PROVE  thread'[r][k] = thread[r][k]
      BY <2>3 DEF Step, Get, Claim, Propose, Test, Finish, TypeOK
    <2>4. ASSUME Step(r, k)
          PROVE  /\ epoch[r] \in Epoch /\ Terminated(r, epoch[r])
                 /\ thread'[r][k].ending = epoch[r]
                 /\ Test(r, k)
      <3>1. CASE Test(r, k)
        BY <3>1 DEF Test, At, Idle, TypeOK
      <3>2. CASE Get(r, k)
        <4>1. thread'[r][k].pc \in {"idle", "test", "claim"}
          <5>1. ASSUME NEW l \in Local, thread' = [thread EXCEPT ![r][k] = l]
                PROVE  thread'[r][k].pc = l.pc
            BY <5>1 DEF TypeOK
          <5>2. CASE thread' = [thread EXCEPT ![r][k] = Returned(r, k)]
            <6>1. Returned(r, k).pc \in {"idle", "test"}
              BY DEF Returned, At, Idle
            <6> QED BY <5>1, <5>2, <6>1, ReturnedType DEF TypeOK
          <5>3. ASSUME NEW t \in Tx,
                       thread' = [thread EXCEPT ![r][k].pc = "claim", ![r][k].batch = t]
                PROVE  thread'[r][k].pc = "claim"
            <6>1. thread[r][k] \in Local
              BY DEF TypeOK
            <6> QED BY <5>3, <6>1 DEF TypeOK, Local, Idle
          <5> QED BY <3>2, <5>2, <5>3 DEF Get, TypeOK
        <4> QED BY <1>0, <4>1
      <3>3. CASE Claim(r, k)
        <4>1. thread'[r][k].pc \in {"idle", "test", "propose"}
          BY <3>3 DEF Claim, Returned, At, Idle, TypeOK
        <4> QED BY <1>0, <4>1
      <3>4. CASE Propose(r, k)
        BY <1>0, <3>4, ProposeLooks
      <3>5. CASE Finish(r, k)
        BY <1>0, <3>5 DEF Finish, TypeOK, Local
      <3> QED BY <2>4, <3>1, <3>2, <3>3, <3>4, <3>5 DEF Step
    <2>5. ASSUME NEW f \in Epoch, NEW j \in Replica, Decide(f, j)
          PROVE  thread' = thread
      BY <2>5 DEF Decide
    <2> QED BY <1>1, <1>3, <2>1, <2>2, <2>3, <2>4, <2>5 DEF Next
  <1> QED BY <1>2, <1>3

LEMMA EndsTerminatedNext ==
    ASSUME TypeOK, StateDecided, EndsTerminated, [Next]_vars
    PROVE  EndsTerminated'
  <1> SUFFICES ASSUME NEW r \in Replica, NEW k \in Thread, thread'[r][k].pc = "finish"
               PROVE  Terminated(r, thread[r][k].ending)'
    BY DEF EndsTerminated
  <1>1. PICK e : e = thread'[r][k].ending
    OBVIOUS
  <1>2. e \in Epoch /\ Terminated(r, e)
    <2>1. CASE thread'[r][k] = thread[r][k]
      <3>1. thread[r][k] \in Local
        BY DEF TypeOK
      <3> QED BY <1>1, <2>1, <3>1 DEF EndsTerminated, Local, Idle
    <2> QED BY <1>1, <2>1, OnlyTest
  <1>3. Terminated(r, e)'
    BY <1>2, TerminatedStays
  <1> QED BY <1>1, <1>3 DEF Terminated, Accepted

LEMMA BlocksDecidedNext ==
    ASSUME BlockInv, [Next]_vars
    PROVE  BlocksDecided'
  <1> USE DEF BlockInv
  <1> SUFFICES ASSUME NEW r \in Replica, NEW j \in 1 .. Len(delivered'[r])
               PROVE  Decisive(delivered[r][j])'
    BY DEF BlocksDecided
  <1>1. ASSUME NEW b \in Block, Decisive(b)
        PROVE  Decisive(b)'
    BY <1>1, YesFixed DEF Decisive, Block
  <1>2. delivered[r] \in Seq(Block)
    BY DEF TypeOK
  <1>3. \E b \in Block : b = delivered'[r][j] /\ Decisive(b)
    <2>1. ASSUME j \in 1 .. Len(delivered[r]), delivered'[r][j] = delivered[r][j]
          PROVE  \E b \in Block : b = delivered'[r][j] /\ Decisive(b)
      BY <1>2, <2>1 DEF BlocksDecided, Decisive
    <2>2. CASE \A k \in Thread : ~Finish(r, k)
      BY <2>1, <2>2, OnlyFinish
    <2>3. ASSUME NEW k \in Thread, Finish(r, k)
          PROVE  \E b \in Block : b = delivered'[r][j] /\ Decisive(b)
      <3>1. PICK e : e = thread[r][k].ending
        OBVIOUS
      <3>2. PICK c : c = [epoch |-> e, from |-> Accepted(r, e)]
        OBVIOUS
      <3>3. e \in Epoch /\ c \in Block /\ delivered'[r] = Append(delivered[r], c)
        BY <2>3, <3>1, <3>2, FinishAppends
      <3>4. Terminated(r, e)
        BY <2>3, <3>1 DEF Finish, EndsTerminated
      <3>5. Decisive(c)
        BY <3>2, <3>3, <3>4, TerminatedYes DEF Decisive
      <3>6. CASE j = Len(delivered[r]) + 1
        BY <1>2, <3>3, <3>5, <3>6
      <3>7. CASE j # Len(delivered[r]) + 1
        <4>1. j \in 1 .. Len(delivered[r]) /\ delivered'[r][j] = delivered[r][j]
          BY <1>2, <3>3, <3>7
        <4> QED BY <2>1, <4>1
      <3> QED BY <3>6, <3>7
    <2> QED BY <2>2, <2>3
  <1>4. PICK b \in Block : b = delivered'[r][j] /\ Decisive(b)
    BY <1>3
  <1>5. Decisive(b)'
    BY <1>1, <1>4
  <1> QED BY <1>4, <1>5 DEF Decisive, Yes

LEMMA BlockInvInit == Init => BlockInv
  <1> SUFFICES ASSUME Init PROVE StateDecided /\ EndsTerminated /\ BlocksDecided
    BY TypeInit DEF BlockInv
  <1>1. StateDecided
    BY DEF Init, StateDecided
  <1>2. EndsTerminated
    BY DEF Init, EndsTerminated, Idle
  <1>3. BlocksDecided
    BY DEF Init, BlocksDecided
  <1> QED BY <1>1, <1>2, <1>3

LEMMA BlockInvNext == BlockInv /\ [Next]_vars => BlockInv'
  BY TypeNext, StateDecidedNext, EndsTerminatedNext, BlocksDecidedNext DEF BlockInv

\* Whichever threads end an epoch, and however often, at whatever replicas: what they
\* output as its block is the same (tryOutput, handleEpochStep).
THEOREM OneBlock == Spec => []SameBlocks
  <1>1. ASSUME BlockInv PROVE SameBlocks
    <2> SUFFICES ASSUME NEW r \in Correct, NEW s \in Correct,
                        NEW i \in 1 .. Len(delivered[r]), NEW j \in 1 .. Len(delivered[s]),
                        delivered[r][i].epoch = delivered[s][j].epoch
                 PROVE  delivered[r][i] = delivered[s][j]
      BY DEF SameBlocks
    <2>1. r \in Replica /\ s \in Replica
      BY DEF Correct
    <2>2. delivered[r][i] \in Block /\ delivered[s][j] \in Block
      BY <1>1, <2>1 DEF BlockInv, TypeOK
    <2>3. delivered[r][i].from = delivered[s][j].from
      BY <1>1, <2>1 DEF BlockInv, BlocksDecided, Decisive
    <2> QED BY <2>2, <2>3 DEF Block
  <1>2. BlockInv => SameBlocks
    BY <1>1
  <1> QED BY <1>2, BlockInvInit, BlockInvNext, PTL DEF Spec
-----------------------------------------------------------------------------
\* A replica outputs as many blocks as it has ended epochs.  A thread that is about to
\* end one is not ahead of it; if it is behind, the block has been output.
Counted == \A r \in Replica : Len(delivered[r]) = epoch[r]
EndsReached == \A r \in Replica, k \in Thread :
    thread[r][k].pc = "finish" => thread[r][k].ending <= epoch[r]
Skips == \A r \in Replica : InOrder(r) \/ Repeats(r)
OrderInv == TypeOK /\ Counted /\ EndsReached /\ Skips

LEMMA EndsReachedNext ==
    ASSUME TypeOK, EndsReached, [Next]_vars
    PROVE  EndsReached'
  <1> SUFFICES ASSUME NEW r \in Replica, NEW k \in Thread, thread'[r][k].pc = "finish"
               PROVE  thread'[r][k].ending <= epoch'[r]
    BY DEF EndsReached
  <1>1. epoch[r] \in Nat /\ epoch'[r] \in {epoch[r], epoch[r] + 1}
    <2>1. ASSUME NEW l \in Thread, Finish(r, l)
          PROVE  epoch'[r] = epoch[r] + 1
      BY <2>1 DEF Finish, TypeOK
    <2>2. epoch[r] \in Nat
      BY DEF TypeOK
    <2> QED BY <2>1, <2>2, OnlyFinish
  <1>2. thread'[r][k].ending \in Int /\ thread'[r][k].ending <= epoch[r]
    <2>1. CASE thread'[r][k] = thread[r][k]
      <3>1. thread[r][k] \in Local
        BY DEF TypeOK
      <3>2. thread[r][k].ending \in Epoch
        BY <2>1, <3>1 DEF Local, Idle
      <3> QED BY <2>1, <3>2 DEF EndsReached, Epoch
    <2> QED BY <1>1, <2>1, OnlyTest
  <1> QED BY <1>1, <1>2

LEMMA CountedNext ==
    ASSUME TypeOK, Counted, [Next]_vars
    PROVE  Counted'
  <1> SUFFICES ASSUME NEW r \in Replica PROVE Len(delivered'[r]) = epoch'[r]
    BY DEF Counted
  <1>1. CASE \A k \in Thread : ~Finish(r, k)
    BY <1>1, OnlyFinish DEF Counted
  <1>2. ASSUME NEW k \in Thread, Finish(r, k)
        PROVE  Len(delivered'[r]) = epoch'[r]
    <2>1. PICK b \in Block : delivered'[r] = Append(delivered[r], b)
      BY <1>2, FinishAppends
    <2>2. epoch'[r] = epoch[r] + 1 /\ delivered[r] \in Seq(Block)
      BY <1>2 DEF Finish, TypeOK
    <2> QED BY <2>1, <2>2 DEF Counted
  <1> QED BY <1>1, <1>2

LEMMA SkipsNext ==
    ASSUME OrderInv, [Next]_vars
    PROVE  Skips'
  <1> USE DEF OrderInv
  <1> SUFFICES ASSUME NEW r \in Replica PROVE InOrder(r)' \/ Repeats(r)'
    BY DEF Skips
  <1>0. /\ delivered[r] \in Seq(Block) /\ epoch[r] \in Nat /\ Len(delivered[r]) = epoch[r]
        /\ InOrder(r) \/ Repeats(r)
    BY DEF TypeOK, Counted, Skips
  <1>1. CASE \A k \in Thread : ~Finish(r, k)
    <2>1. delivered'[r] = delivered[r] /\ epoch'[r] = epoch[r]
      BY <1>1, OnlyFinish
    <2> QED BY <1>0, <2>1 DEF InOrder, Repeats
  <1>2. ASSUME NEW k \in Thread, Finish(r, k)
        PROVE  InOrder(r)' \/ Repeats(r)'
    <2>1. PICK e : e = thread[r][k].ending
      OBVIOUS
    <2>2. PICK c : c = [epoch |-> e, from |-> Accepted(r, e)]
      OBVIOUS
    <2>3. e \in Epoch /\ c \in Block /\ delivered'[r] = Append(delivered[r], c)
      BY <1>2, <2>1, <2>2, FinishAppends
    <2>4. c.epoch = e /\ e \in Nat /\ e <= epoch[r] /\ epoch'[r] = epoch[r] + 1
      BY <1>2, <2>1, <2>2, <2>3 DEF Finish, EndsReached, Epoch, TypeOK
    <2>5. /\ Len(delivered'[r]) = epoch[r] + 1
          /\ delivered'[r][epoch[r] + 1] = c
          /\ \A j \in 1 .. epoch[r] : delivered'[r][j] = delivered[r][j]
      BY <1>0, <2>3
    <2>6. CASE Repeats(r)
      <3>1. PICK i, j \in 1 .. epoch[r] :
                i # j /\ delivered[r][i].epoch = delivered[r][j].epoch
        BY <1>0, <2>6 DEF Repeats
      <3>2. i \in 1 .. epoch[r] + 1 /\ j \in 1 .. epoch[r] + 1
        BY <1>0
      <3> QED BY <2>5, <3>1, <3>2 DEF Repeats
    <2>7. CASE InOrder(r)
      <3>1. \A j \in 1 .. epoch[r] : delivered[r][j].epoch = j - 1
        BY <1>0, <2>7 DEF InOrder
      <3>2. CASE e = epoch[r]
        <4>1. ASSUME NEW j \in 1 .. epoch[r] + 1
              PROVE  delivered'[r][j].epoch = j - 1
          <5>1. CASE j \in 1 .. epoch[r]
            BY <2>5, <3>1, <5>1
          <5>2. CASE j = epoch[r] + 1
            <6>1. j - 1 = e
              BY <1>0, <3>2, <5>2
            <6> QED BY <2>4, <2>5, <5>2, <6>1
          <5>3. j \in 1 .. epoch[r] \/ j = epoch[r] + 1
            BY <1>0, <4>1
          <5> QED BY <5>1, <5>2, <5>3
        <4> QED BY <2>4, <2>5, <4>1 DEF InOrder
      <3>3. CASE e # epoch[r]
        <4>1. e + 1 \in 1 .. epoch[r] /\ (e + 1) - 1 = e
          BY <1>0, <2>4, <3>3
        <4>2. delivered'[r][e + 1].epoch = e
          BY <2>5, <3>1, <4>1
        <4>3. /\ e + 1 \in 1 .. epoch[r] + 1 /\ epoch[r] + 1 \in 1 .. epoch[r] + 1
              /\ e + 1 # epoch[r] + 1
          BY <1>0, <2>4, <3>3
        <4> QED BY <2>4, <2>5, <4>2, <4>3 DEF Repeats
      <3> QED BY <3>2, <3>3
    <2> QED BY <1>0, <2>6, <2>7
  <1> QED BY <1>1, <1>2

LEMMA OrderInvInit == Init => OrderInv
  <1> SUFFICES ASSUME Init PROVE Counted /\ EndsReached /\ Skips
    BY TypeInit DEF OrderInv
  <1>1. Counted
    BY DEF Init, Counted
  <1>2. EndsReached
    BY DEF Init, EndsReached, Idle
  <1>3. Skips
    BY DEF Init, Skips, InOrder
  <1> QED BY <1>1, <1>2, <1>3

LEMMA OrderInvNext == OrderInv /\ [Next]_vars => OrderInv'
  BY TypeNext, CountedNext, EndsReachedNext, SkipsNext DEF OrderInv

\* The current epoch of a correct replica is the earliest one whose block it has not
\* output (AcsAtomicBroadcast.epoch), unless it has output some block twice: an epoch
\* ended by two of its threads is all that makes it pass another over.
THEOREM OnlyRepeatsSkip == Spec => []SkipsOnlyByRepeat
  <1>1. OrderInv => SkipsOnlyByRepeat
    BY DEF OrderInv, Skips, SkipsOnlyByRepeat, Correct
  <1> QED BY <1>1, OrderInvInit, OrderInvNext, PTL DEF Spec
-----------------------------------------------------------------------------
\* The blocks whose agreements have ended, and what the correct replicas delivered.
Decided(e) == \A i \in Replica : decided[e][i] # "none"
BlockOf(e) == [epoch |-> e, from |-> Yes(e)]
Blocks == {BlockOf(e) : e \in {f \in Epoch : Decided(f)}}
Outputs == [r \in Replica |-> IF r \in Correct THEN InTurn(delivered[r]) ELSE <<>>]

LEMMA BlocksInit == Init => Blocks = {}
  <1> SUFFICES ASSUME Init, NEW e \in Epoch PROVE ~Decided(e)
    BY DEF Blocks
  <1>1. PICK i \in Replica : TRUE
    BY ReplicaAssumption
  <1> QED BY <1>1 DEF Init, Decided

\* An agreement that ends completes at most the block of its epoch.
LEMMA BlocksDecide ==
    ASSUME TypeOK, [Next]_vars, NEW e \in Epoch, NEW i \in Replica, Decide(e, i)
    PROVE  \/ Blocks' = Blocks
           \/ \E b \in Block : Blocks' = Blocks \cup {b}
  <1>1. \A f \in Epoch : f # e => Decided(f)' = Decided(f) /\ Yes(f)' = Yes(f)
    BY DEF Decide, Decided, Yes, TypeOK
  <1>2. ~Decided(e)
    BY DEF Decide, Decided
  <1>3. PICK b : b = [epoch |-> e, from |-> Yes(e)']
    OBVIOUS
  <1>4. b \in Block
    BY <1>3 DEF Block, Yes
  <1>5. CASE Decided(e)'
    <2>1. Blocks' = Blocks \cup {b}
      BY <1>1, <1>2, <1>3, <1>5 DEF Blocks, BlockOf
    <2> QED BY <1>4, <2>1
  <1>6. CASE ~Decided(e)'
    <2>1. Blocks' = Blocks
      BY <1>1, <1>2, <1>6 DEF Blocks, BlockOf
    <2> QED BY <2>1
  <1> QED BY <1>5, <1>6

\* Deliver and Submit of AtomicBroadcast, in those terms.
LEMMA Deliver ==
    ASSUME NEW r \in Replica, NEW b, NEW n, n = Len(Outputs[r]) + 1,
           b \in Blocks, \A i \in 1 .. n - 1 : Outputs[r][i] # b,
           \A s \in Replica : Len(Outputs[s]) >= n => Outputs[s][n] = b,
           Outputs' = [Outputs EXCEPT ![r] = Append(@, b)],
           Blocks' = Blocks
    PROVE  AB!Deliver(r, b)
  <1> USE DEF Outputs, Blocks, BlockOf, Decided, Yes
  <1> QED BY Zenon DEF AB!Deliver

\* How many blocks of a sequence come in turn: there is one such number at most.
LEMMA TurnUnique ==
    ASSUME NEW d \in Seq(Block), NEW n \in 0 .. Len(d), Ordered(d, n)
    PROVE  /\ InTurn(d) = SubSeq(d, 1, n)
           /\ InTurn(d) \in Seq(Block) /\ Len(InTurn(d)) = n
           /\ \A j \in 1 .. n : InTurn(d)[j] = d[j] /\ d[j].epoch = j - 1
  <1>1. PICK m : m = CHOOSE i \in 0 .. Len(d) : Ordered(d, i)
    OBVIOUS
  <1>2. m \in 0 .. Len(d) /\ Ordered(d, m)
    BY <1>1
  <1>3. ASSUME NEW i \in Nat, NEW j \in Nat, i < j, Ordered(d, i), Ordered(d, j), j <= Len(d)
        PROVE  FALSE
    <2>1. i + 1 \in 1 .. j /\ (i + 1) - 1 = i /\ i # Len(d)
      BY <1>3
    <2> QED BY <1>3, <2>1 DEF Ordered
  <1>4. m = n
    BY <1>2, <1>3
  <1>5. InTurn(d) = SubSeq(d, 1, n)
    BY <1>1, <1>4 DEF InTurn
  <1>6. /\ SubSeq(d, 1, n) \in Seq(Block) /\ Len(SubSeq(d, 1, n)) = n
        /\ \A j \in 1 .. n : SubSeq(d, 1, n)[j] = d[j]
    OBVIOUS
  <1> QED BY <1>5, <1>6 DEF Ordered

\* A block put at the end is in turn if all before are and it is the next one.
LEMMA TurnAppends ==
    ASSUME NEW d \in Seq(Block), NEW b \in Block, NEW n \in 0 .. Len(d), Ordered(d, n),
           NEW c, c = Append(d, b)
    PROVE  \/ n = Len(d) /\ b.epoch = n /\ Ordered(c, n + 1) /\ InTurn(c) = Append(InTurn(d), b)
           \/ Ordered(c, n) /\ InTurn(c) = InTurn(d)
  <1>1. /\ c \in Seq(Block) /\ Len(c) = Len(d) + 1 /\ c[Len(d) + 1] = b
        /\ \A j \in 1 .. Len(d) : c[j] = d[j]
    OBVIOUS
  <1>2. n \in Nat /\ n <= Len(d) /\ Len(d) \in Nat /\ \A j \in 1 .. n : d[j].epoch = j - 1
    BY DEF Ordered
  <1>3. \A j \in 1 .. n : c[j].epoch = j - 1
    BY <1>1, <1>2
  <1>4. CASE n = Len(d) /\ b.epoch = n
    <2>1. \A j \in 1 .. n + 1 : c[j].epoch = j - 1
      BY <1>1, <1>2, <1>3, <1>4
    <2>2. Ordered(c, n + 1) /\ n + 1 \in 0 .. Len(c)
      BY <1>1, <1>2, <1>4, <2>1 DEF Ordered
    <2>3. InTurn(c) = SubSeq(c, 1, n + 1) /\ InTurn(d) = SubSeq(d, 1, n)
      BY <1>1, <2>2, TurnUnique
    <2>4. SubSeq(c, 1, n + 1) = c /\ SubSeq(d, 1, n) = d
      BY <1>1, <1>4
    <2> QED BY <1>4, <2>2, <2>3, <2>4
  <1>5. CASE ~(n = Len(d) /\ b.epoch = n)
    <2>1. Ordered(c, n) /\ n \in 0 .. Len(c)
      <3>1. CASE n = Len(d)
        BY <1>1, <1>2, <1>3, <1>5, <3>1 DEF Ordered
      <3>2. CASE n # Len(d)
        <4>1. n + 1 \in 1 .. Len(d) /\ d[n + 1].epoch # n
          BY <1>2, <3>2 DEF Ordered
        <4> QED BY <1>1, <1>2, <1>3, <4>1 DEF Ordered
      <3> QED BY <3>1, <3>2
    <2>2. InTurn(c) = SubSeq(c, 1, n) /\ InTurn(d) = SubSeq(d, 1, n)
      BY <1>1, <2>1, TurnUnique
    <2>3. SubSeq(c, 1, n) = SubSeq(d, 1, n)
      BY <1>1, <1>2
    <2> QED BY <2>1, <2>2, <2>3
  <1> QED BY <1>4, <1>5

TurnInv == \A r \in Replica : \E n \in 0 .. Len(delivered[r]) : Ordered(delivered[r], n)

LEMMA TurnInvInit == Init => TurnInv
  <1> SUFFICES ASSUME Init, NEW r \in Replica
               PROVE  \E n \in 0 .. Len(delivered[r]) : Ordered(delivered[r], n)
    BY DEF TurnInv
  <1>1. delivered[r] = <<>> /\ 0 \in 0 .. Len(delivered[r])
    BY DEF Init
  <1>2. Ordered(delivered[r], 0)
    BY <1>1 DEF Ordered
  <1> QED BY <1>1, <1>2

LEMMA TurnInvNext ==
    ASSUME TypeOK, TurnInv, [Next]_vars
    PROVE  TurnInv'
  <1> SUFFICES ASSUME NEW r \in Replica
               PROVE  \E n \in 0 .. Len(delivered'[r]) : Ordered(delivered'[r], n)
    BY DEF TurnInv
  <1>1. PICK n \in 0 .. Len(delivered[r]) : Ordered(delivered[r], n)
    BY DEF TurnInv
  <1>2. CASE \A k \in Thread : ~Finish(r, k)
    BY <1>1, <1>2, OnlyFinish
  <1>3. ASSUME NEW k \in Thread, Finish(r, k)
        PROVE  \E m \in 0 .. Len(delivered'[r]) : Ordered(delivered'[r], m)
    <2>1. PICK b \in Block : delivered'[r] = Append(delivered[r], b)
      BY <1>3, FinishAppends
    <2>2. delivered[r] \in Seq(Block)
      BY DEF TypeOK
    <2>3. Len(delivered'[r]) = Len(delivered[r]) + 1 /\ Len(delivered[r]) \in Nat
      BY <2>1, <2>2
    <2>4. Ordered(delivered'[r], n) \/ Ordered(delivered'[r], n + 1)
      BY <1>1, <2>1, <2>2, TurnAppends
    <2>5. n \in 0 .. Len(delivered'[r]) /\ n + 1 \in 0 .. Len(delivered'[r])
      BY <2>3
    <2> QED BY <2>4, <2>5
  <1> QED BY <1>2, <1>3

LEMMA Stutter ==
    ASSUME Blocks' = Blocks, Outputs' = Outputs
    PROVE  UNCHANGED AB!vars
  <1> USE DEF Outputs, Blocks, BlockOf, Decided, Yes
  <1> QED BY Zenon DEF AB!vars

\* What Finish outputs in its turn is decided, new to the replica, and what every other
\* correct replica that is as far has output in that place.
LEMMA FinishDelivers ==
    ASSUME BlockInv, TurnInv, NEW r \in Correct, NEW k \in Thread, Finish(r, k)
    PROVE  UNCHANGED AB!vars \/ \E b \in Block : AB!Deliver(r, b)
  <1> USE DEF BlockInv
  <1>0. r \in Replica
    BY DEF Correct
  <1>1. PICK e : e = thread[r][k].ending
    OBVIOUS
  <1>2. PICK b : b = [epoch |-> e, from |-> Accepted(r, e)]
    OBVIOUS
  <1>3. /\ e \in Epoch /\ b \in Block
        /\ delivered' = [delivered EXCEPT ![r] = Append(@, b)]
        /\ delivered'[r] = Append(delivered[r], b)
    BY <1>0, <1>1, <1>2, FinishAppends
  <1>4. Terminated(r, e)
    BY <1>0, <1>1 DEF Finish, EndsTerminated
  <1>5. Decided(e) /\ b = BlockOf(e)
    BY <1>0, <1>2, <1>3, <1>4, TerminatedYes DEF Decided, BlockOf
  <1>6. b \in Blocks
    BY <1>3, <1>5 DEF Blocks
  <1>7. Blocks' = Blocks
    BY DEF Finish, net, Blocks, BlockOf, Decided, Yes
  <1>8. delivered \in [Replica -> Seq(Block)]
    BY DEF TypeOK
  <1>9. PICK n \in 0 .. Len(delivered[r]) : Ordered(delivered[r], n)
    BY <1>0 DEF TurnInv
  <1>10. Outputs' = [Outputs EXCEPT ![r] = InTurn(delivered'[r])]
    <2>1. Correct' = Correct
      BY DEF Finish, Correct
    <2>2. \A s \in Replica : s # r => delivered'[s] = delivered[s]
      BY <1>3, <1>8
    <2> QED BY <1>0, <2>1, <2>2 DEF Outputs
  <1>11. Outputs[r] = InTurn(delivered[r])
    BY <1>0 DEF Outputs
  <1>12. CASE InTurn(delivered'[r]) = InTurn(delivered[r])
    <2>1. Outputs' = Outputs
      BY <1>0, <1>10, <1>11, <1>12 DEF Outputs
    <2> QED BY <1>7, <2>1, Stutter
  <1>13. CASE /\ n = Len(delivered[r]) /\ b.epoch = n
              /\ InTurn(delivered'[r]) = Append(InTurn(delivered[r]), b)
    <2>1. e = n /\ n \in Nat
      BY <1>2, <1>13
    <2>2. /\ Len(Outputs[r]) = n
          /\ \A i \in 1 .. n : Outputs[r][i].epoch = i - 1
      <3>1. /\ Len(InTurn(delivered[r])) = n
            /\ \A j \in 1 .. n : InTurn(delivered[r])[j] = delivered[r][j]
                                 /\ delivered[r][j].epoch = j - 1
        BY <1>0, <1>8, <1>9, TurnUnique
      <3> QED BY <1>11, <3>1
    <2>3. \A i \in 1 .. n : Outputs[r][i] # b
      BY <1>13, <2>1, <2>2
    <2>4. ASSUME NEW s \in Replica, Len(Outputs[s]) >= n + 1
          PROVE  Outputs[s][n + 1] = b
      <3>1. s \in Correct /\ Outputs[s] = InTurn(delivered[s])
        BY <2>1, <2>4 DEF Outputs
      <3>2. PICK m \in 0 .. Len(delivered[s]) : Ordered(delivered[s], m)
        BY DEF TurnInv
      <3>3. /\ Len(Outputs[s]) = m
            /\ \A j \in 1 .. m : Outputs[s][j] = delivered[s][j] /\ delivered[s][j].epoch = j - 1
        BY <1>8, <3>1, <3>2, TurnUnique
      <3>4. n + 1 \in 1 .. m /\ n + 1 \in 1 .. Len(delivered[s]) /\ (n + 1) - 1 = n
        BY <1>8, <2>1, <2>4, <3>2, <3>3
      <3>5. Outputs[s][n + 1] = delivered[s][n + 1] /\ delivered[s][n + 1].epoch = n
        BY <3>3, <3>4
      <3>6. delivered[s][n + 1] \in Block
        BY <1>8, <3>4
      <3>7. delivered[s][n + 1].from = Yes(n)
        BY <3>4, <3>5 DEF BlocksDecided, Decisive
      <3> QED BY <1>5, <2>1, <3>5, <3>6, <3>7 DEF BlockOf, Block
    <2>5. Outputs' = [Outputs EXCEPT ![r] = Append(@, b)]
      BY <1>0, <1>10, <1>11, <1>13 DEF Outputs
    <2>6. PICK m : m = n + 1
      OBVIOUS
    <2>7. m = Len(Outputs[r]) + 1 /\ m - 1 = n
      BY <2>1, <2>2, <2>6
    <2>8. AB!Deliver(r, b)
      BY <1>0, <1>6, <1>7, <2>3, <2>4, <2>5, <2>6, <2>7, Deliver
    <2> QED BY <1>3, <2>8
  <1>14. \/ n = Len(delivered[r]) /\ b.epoch = n
            /\ InTurn(delivered'[r]) = Append(InTurn(delivered[r]), b)
         \/ InTurn(delivered'[r]) = InTurn(delivered[r])
    BY <1>0, <1>3, <1>8, <1>9, TurnAppends
  <1> QED BY <1>12, <1>13, <1>14

\* Every other step delivers nothing at a correct replica.
LEMMA OutputsKept ==
    ASSUME TypeOK, [Next]_vars, \A r \in Correct, k \in Thread : ~Finish(r, k)
    PROVE  Outputs' = Outputs
  <1>1. Correct' = Correct
    BY FaultyFixed DEF Correct
  <1>2. \A r \in Correct : delivered'[r] = delivered[r]
    BY OnlyFinish DEF Correct
  <1> QED BY <1>1, <1>2 DEF Outputs

LEMMA Submit ==
    ASSUME NEW b, Blocks' = Blocks \cup {b}, Outputs' = Outputs
    PROVE  AB!Submit(b)
  <1> USE DEF Outputs, Blocks, BlockOf, Decided, Yes
  <1> QED BY Zenon DEF AB!Submit

LEMMA ImplementsInit == Init => AB!Init
  <1> SUFFICES ASSUME Init PROVE AB!Init
    OBVIOUS
  <1>1. Blocks = {}
    BY BlocksInit
  <1>2. Outputs = [r \in Replica |-> <<>>]
    <2>1. Ordered(<<>>, 0) /\ <<>> \in Seq(Block) /\ 0 \in 0 .. Len(<<>>)
      BY DEF Ordered
    <2>2. Len(InTurn(<<>>)) = 0 /\ InTurn(<<>>) \in Seq(Block)
      BY <2>1, TurnUnique
    <2>3. InTurn(<<>>) = <<>>
      BY <2>2
    <2> QED BY <2>3 DEF Outputs, Init
  <1> USE DEF Outputs, Blocks, BlockOf, Decided, Yes
  <1> QED BY <1>1, <1>2, Zenon DEF AB!Init

LEMMA ImplementsNext ==
    ASSUME BlockInv, TurnInv, [Next]_vars
    PROVE  [AB!Next]_AB!vars
  <1> USE DEF BlockInv
  <1>1. CASE \E r \in Correct, k \in Thread : Finish(r, k)
    <2>1. PICK r \in Correct, k \in Thread : Finish(r, k)
      BY <1>1
    <2>2. r \in Replica
      BY DEF Correct
    <2>3. CASE UNCHANGED AB!vars
      BY <2>3
    <2>4. ASSUME NEW b \in Block, AB!Deliver(r, b)
          PROVE  AB!Next
      BY <2>2, <2>4 DEF AB!Next
    <2> QED BY <2>1, <2>3, <2>4, FinishDelivers
  <1>2. CASE \A r \in Correct, k \in Thread : ~Finish(r, k)
    <2>1. Outputs' = Outputs
      BY <1>2, OutputsKept
    <2>2. CASE decided' = decided
      <3>1. Blocks' = Blocks
        BY <2>2 DEF Blocks, BlockOf, Decided, Yes
      <3> QED BY <2>1, <3>1, Stutter
    <2>3. CASE \E e \in Epoch, i \in Replica : Decide(e, i)
      <3>1. CASE Blocks' = Blocks
        BY <2>1, <3>1, Stutter
      <3>2. ASSUME NEW b \in Block, Blocks' = Blocks \cup {b}
            PROVE  AB!Next
        <4>1. AB!Submit(b)
          BY <2>1, <3>2, Submit
        <4> QED BY <4>1 DEF AB!Next
      <3> QED BY <2>3, <3>1, <3>2, BlocksDecide
    <2> QED BY <2>2, <2>3, OnlyDecide
  <1> QED BY <1>1, <1>2

\* Correct replicas deliver the same blocks in one order and each once, up to where one
\* of them outputs a block out of its turn: HoneyBadger implements atomic broadcast
\* there (AcsAtomicBroadcast).
THEOREM Implements == Spec => ImplementsAtomicBroadcast
  <1>1. BlockInv /\ TurnInv /\ [Next]_vars => TurnInv'
    BY TurnInvNext DEF BlockInv
  <1>2. BlockInv /\ TurnInv /\ [Next]_vars => [AB!Next]_AB!vars
    BY ImplementsNext
  <1> QED BY <1>1, <1>2, BlockInvInit, BlockInvNext, TurnInvInit, ImplementsInit, PTL
       DEF Spec, ImplementsAtomicBroadcast, AB!Spec
-----------------------------------------------------------------------------
\* A replica proposes in epochs that it has reached.
Reached == \A e \in Epoch, q \in Replica : proposed[e][q] # None => e <= epoch[q]

LEMMA ReachedNext ==
    ASSUME TypeOK, Reached, [Next]_vars
    PROVE  Reached'
  <1> SUFFICES ASSUME NEW e \in Epoch, NEW q \in Replica, proposed'[e][q] # None
               PROVE  e <= epoch'[q]
    BY DEF Reached
  <1>1. e \in Int /\ epoch[q] \in Nat /\ epoch'[q] \in {epoch[q], epoch[q] + 1}
    <2>1. ASSUME NEW l \in Thread, Finish(q, l)
          PROVE  epoch'[q] = epoch[q] + 1
      BY <2>1 DEF Finish, TypeOK
    <2>2. e \in Int /\ epoch[q] \in Nat
      BY DEF Epoch, TypeOK
    <2> QED BY <2>1, <2>2, OnlyFinish
  <1>2. CASE proposed[e][q] # None
    BY <1>1, <1>2 DEF Reached
  <1>3. CASE proposed[e][q] = None
    <2>1. e = epoch[q]
      BY <1>3, OnlyPropose
    <2> QED BY <1>1, <2>1
  <1> QED BY <1>2, <1>3
-----------------------------------------------------------------------------
\* What is never taken back: an ECHO, an accepted proposal, a vote.  A vote for a
\* proposal follows its value, one against it N - F accepted ones, and a value or an
\* N - F'th accepted proposal never stays without the votes it asks for.
Many(S) == Cardinality(S) >= N - F
Carried == \A e \in Epoch, i \in Replica :
    decided[e][i] = "yes" \/ (\E r \in Replica : votes[e][i][r] = "yes") => Many(echoed[e][i])
Refused == \A e \in Epoch, i \in Replica :
    decided[e][i] = "no" \/ (\E r \in Replica : votes[e][i][r] = "no")
        => \E s \in Replica : Many(Accepted(s, e))
DecidedVoted == \A e \in Epoch, i, r \in Replica :
    decided[e][i] # "none" => votes[e][i][r] # "none"
ValueVoted == \A e \in Epoch, i, r \in Replica :
    state[r][e][i] = "hasValue" => votes[e][i][r] # "none"
RestVoted == \A e \in Epoch, i, r \in Replica :
    Many(Accepted(r, e)) => votes[e][i][r] # "none"
VotesInv == Carried /\ Refused /\ DecidedVoted /\ ValueVoted /\ RestVoted

LEMMA ManySubset ==
    ASSUME NEW S, NEW T, S \subseteq T, T \subseteq Replica, Many(S)
    PROVE  Many(T)
  <1>1. IsFiniteSet(T)
    BY ReplicaAssumption, FS_Subset
  <1>2. Cardinality(S) <= Cardinality(T) /\ IsFiniteSet(S)
    BY <1>1, FS_Subset
  <1>3. Cardinality(S) \in Nat /\ Cardinality(T) \in Nat /\ Cardinality(Replica) \in Nat
    BY <1>1, <1>2, FS_CardinalityType, ReplicaAssumption
  <1> QED BY <1>2, <1>3, NumberAssumption DEF Many, N

LEMMA EchoedGrows ==
    ASSUME TypeOK, [Next]_vars, NEW e \in Epoch, NEW i \in Replica
    PROVE  echoed[e][i] \subseteq echoed'[e][i]
  <1> DEFINE Echoes(f, j, r) == echoed' = [echoed EXCEPT ![f][j] = @ \cup {r}]
  <1>1. CASE echoed' = echoed
    BY <1>1
  <1>2. CASE UNCHANGED vars
    BY <1>1, <1>2 DEF vars, net
  <1>3. CASE Next
    <2>1. ASSUME NEW r \in Replica, NEW h \in Caller, NEW t \in Tx, HandleInput(r, h, t)
          PROVE  echoed' = echoed
      BY <2>1 DEF HandleInput, net
    <2>2. ASSUME NEW r \in Replica, NEW f \in Epoch, NEW j \in Replica, HandleMessage(r, f, j)
          PROVE  \/ echoed' = echoed
                 \/ Echoes(f, j, r)
      BY <2>2 DEF HandleMessage, HandleSend, HandleBroadcast, HandleAgreement
    <2>3. ASSUME NEW r \in Replica, NEW k \in Thread, Step(r, k)
          PROVE  \/ echoed' = echoed
                 \/ Echoes(epoch[r], r, r)
      BY <2>3 DEF Step, Get, Claim, Propose, Test, Finish, net
    <2>5. ASSUME NEW f, NEW j, NEW r, Echoes(f, j, r)
          PROVE  echoed[e][i] \subseteq echoed'[e][i]
      <3>1. echoed \in [Epoch -> [Replica -> SUBSET Replica]]
        BY DEF TypeOK
      <3>2. CASE f = e /\ j = i
        <4>1. echoed'[e][i] = echoed[e][i] \cup {r}
          BY <2>5, <3>1, <3>2
        <4> QED BY <4>1
      <3>3. CASE ~(f = e /\ j = i)
        <4>1. echoed'[e][i] = echoed[e][i]
          BY <2>5, <3>1, <3>3
        <4> QED BY <4>1
      <3> QED BY <3>2, <3>3
    <2>4. ASSUME NEW f \in Epoch, NEW j \in Replica, Decide(f, j)
          PROVE  echoed' = echoed
      BY <2>4 DEF Decide
    <2> HIDE DEF Echoes
    <2> QED BY <1>1, <1>3, <2>1, <2>2, <2>3, <2>4, <2>5 DEF Next
  <1> QED BY <1>2, <1>3

LEMMA ManyEchoed ==
    ASSUME TypeOK, [Next]_vars, NEW e \in Epoch, NEW i \in Replica, Many(echoed[e][i])
    PROVE  Many(echoed[e][i])'
  <1>1. echoed'[e][i] \subseteq Replica
    <2>1. TypeOK'
      BY TypeNext
    <2> QED BY <2>1 DEF TypeOK
  <1>2. PICK S : S = echoed'[e][i]
    OBVIOUS
  <1>3. Many(S)
    BY <1>1, <1>2, EchoedGrows, ManySubset
  <1> QED BY <1>2, <1>3 DEF Many

LEMMA AcceptedGrows ==
    ASSUME TypeOK, StateDecided, [Next]_vars, NEW r \in Replica, NEW e \in Epoch
    PROVE  Accepted(r, e) \subseteq Accepted(r, e)'
  <1> SUFFICES ASSUME NEW i \in Accepted(r, e)
               PROVE  i \in Accepted(r, e)'
    OBVIOUS
  <1>1. i \in Replica /\ decided[e][i] = "yes" /\ state[r][e][i] \in {"accepted", "complete"}
    BY DEF Accepted, StateDecided
  <1>2. state'[r][e][i] \in {"accepted", "complete"}
    BY <1>1, StateStep
  <1>3. decided'[e][i] = "yes"
    BY <1>1, DecidedOnce
  <1> QED BY <1>1, <1>2, <1>3 DEF Accepted

LEMMA ManyAccepted ==
    ASSUME TypeOK, StateDecided, [Next]_vars, NEW r \in Replica, NEW e \in Epoch,
           Many(Accepted(r, e))
    PROVE  Many(Accepted(r, e))'
  <1>1. Accepted(r, e)' \subseteq Replica
    BY DEF Accepted
  <1>2. PICK S : S = Accepted(r, e)'
    OBVIOUS
  <1>3. Many(S)
    BY <1>1, <1>2, AcceptedGrows, ManySubset
  <1> QED BY <1>2, <1>3 DEF Many

\* One proposal more is accepted at a time, when its agreement ends.
LEMMA AcceptedStep ==
    ASSUME TypeOK, StateDecided, [Next]_vars, NEW r \in Replica, NEW e \in Epoch
    PROVE  \/ Accepted(r, e)' = Accepted(r, e)
           \/ \E i \in Replica : /\ HandleAgreement(r, e, i)
                                 /\ Accepted(r, e)' \subseteq Accepted(r, e) \cup {i}
  <1>1. CASE state'[r][e] = state[r][e]
    <2>1. ASSUME NEW i \in Replica, i \in Accepted(r, e)'
          PROVE  i \in Accepted(r, e)
      <3>1. state[r][e][i] = "accepted" \/ (state[r][e][i] = "complete" /\ decided'[e][i] = "yes")
        BY <1>1, <2>1 DEF Accepted
      <3>2. decided[e][i] # "none"
        BY <3>1 DEF StateDecided
      <3>3. decided'[e][i] = decided[e][i]
        BY <3>2, DecidedOnce
      <3> QED BY <3>1, <3>3 DEF Accepted
    <2>2. Accepted(r, e)' \subseteq Accepted(r, e)
      BY <2>1 DEF Accepted
    <2> QED BY <2>2, AcceptedGrows
  <1>2. ASSUME NEW i \in Replica, HandleBroadcast(r, e, i)
        PROVE  Accepted(r, e)' = Accepted(r, e)
    <2>0. decided' = decided /\ state[r][e][i] \in {"ongoing", "accepted"}
      BY <1>2 DEF HandleBroadcast
    <2>1. CASE state[r][e][i] = "ongoing"
      <3>1. state' = [state EXCEPT ![r][e][i] = "hasValue"]
        BY <1>2, <2>1 DEF HandleBroadcast
      <3> QED BY <2>0, <2>1, <3>1 DEF Accepted, TypeOK
    <2>2. CASE state[r][e][i] = "accepted"
      <3>1. state' = [state EXCEPT ![r][e][i] = "complete"] /\ decided[e][i] = "yes"
        BY <1>2, <2>2 DEF HandleBroadcast, StateDecided
      <3> QED BY <2>0, <2>2, <3>1 DEF Accepted, TypeOK
    <2> QED BY <2>0, <2>1, <2>2
  <1>3. ASSUME NEW i \in Replica, HandleAgreement(r, e, i)
        PROVE  Accepted(r, e)' \subseteq Accepted(r, e) \cup {i}
    <2>1. decided' = decided
      BY <1>3 DEF HandleAgreement
    <2>2. \A j \in Replica : j # i => state'[r][e][j] = state[r][e][j]
      BY <1>3 DEF HandleAgreement, TypeOK
    <2> QED BY <2>1, <2>2 DEF Accepted
  <1>4. CASE UNCHANGED vars
    BY <1>1, <1>4 DEF vars, net
  <1>5. CASE Next
    <2>1. ASSUME NEW s \in Replica, NEW h \in Caller, NEW t \in Tx, HandleInput(s, h, t)
          PROVE  state' = state
      BY <2>1 DEF HandleInput, net
    <2>2. ASSUME NEW s \in Replica, NEW f \in Epoch, NEW j \in Replica, HandleMessage(s, f, j)
          PROVE  \/ state'[r][e] = state[r][e]
                 \/ HandleBroadcast(r, e, j)
                 \/ HandleAgreement(r, e, j)
      <3>1. CASE HandleSend(s, f, j)
        BY <3>1 DEF HandleSend
      <3>2. CASE HandleBroadcast(s, f, j)
        <4>1. PICK w : state' = [state EXCEPT ![s][f][j] = w]
          BY <3>2 DEF HandleBroadcast
        <4> QED BY <3>2, <4>1 DEF TypeOK
      <3>3. CASE HandleAgreement(s, f, j)
        <4>1. PICK w : state' = [state EXCEPT ![s][f][j] = w]
          BY <3>3 DEF HandleAgreement
        <4> QED BY <3>3, <4>1 DEF TypeOK
      <3> QED BY <2>2, <3>1, <3>2, <3>3 DEF HandleMessage
    <2>3. ASSUME NEW s \in Replica, NEW k \in Thread, Step(s, k)
          PROVE  state' = state
      BY <2>3 DEF Step, Get, Claim, Propose, Test, Finish, net
    <2>4. ASSUME NEW f \in Epoch, NEW j \in Replica, Decide(f, j)
          PROVE  state' = state
      BY <2>4 DEF Decide
    <2> QED BY <1>1, <1>2, <1>3, <1>5, <2>1, <2>2, <2>3, <2>4 DEF Next
  <1> QED BY <1>4, <1>5

\* A vote against what nobody has proposed here is cast with the N - F'th acceptance.
LEMMA NoForRest ==
    ASSUME NEW r \in Replica, NEW e \in Epoch, NEW v \in [Replica -> [Replica -> Vote]]
    PROVE  \A i, q \in Replica :
               \/ /\ VoteNoForRest(r, e, v)[i][q] = v[i][q]
                  /\ q = r /\ Cardinality(Accepted(r, e)') = N - F => v[i][q] # "none"
               \/ /\ q = r /\ v[i][q] = "none" /\ VoteNoForRest(r, e, v)[i][q] = "no"
                  /\ Cardinality(Accepted(r, e)') = N - F
  BY DEF VoteNoForRest, Cast, Vote

\* How a vote changes.
LEMMA VoteStep ==
    ASSUME TypeOK, [Next]_vars, NEW e \in Epoch, NEW i \in Replica, NEW r \in Replica
    PROVE  \/ votes'[e][i][r] = votes[e][i][r]
           \/ /\ votes[e][i][r] = "none" /\ votes'[e][i][r] = "yes"
              /\ Many(echoed[e][i]) /\ HandleBroadcast(r, e, i)
           \/ /\ votes[e][i][r] = "none" /\ votes'[e][i][r] = "no"
              /\ Cardinality(Accepted(r, e)') = N - F
           \/ Decide(e, i) /\ votes'[e][i][r] = decided'[e][i]
  <1> DEFINE V == votes[e]
  <1>0. votes \in [Epoch -> [Replica -> [Replica -> Vote]]] /\ V \in [Replica -> [Replica -> Vote]]
    BY DEF TypeOK
  <1>1. CASE votes' = votes
    BY <1>1
  <1>2. CASE UNCHANGED vars
    BY <1>1, <1>2 DEF vars, net
  <1>3. CASE Next
    <2>1. ASSUME NEW s \in Replica, NEW h \in Caller, NEW t \in Tx, HandleInput(s, h, t)
          PROVE  votes' = votes
      BY <2>1 DEF HandleInput, net
    <2>2. ASSUME NEW s \in Replica, NEW k \in Thread, Step(s, k)
          PROVE  votes' = votes
      BY <2>2 DEF Step, Get, Claim, Propose, Test, Finish, net
    <2>3. ASSUME NEW f \in Epoch, NEW j \in Replica, Decide(f, j)
          PROVE  \/ votes'[e][i][r] = votes[e][i][r]
                 \/ Decide(e, i) /\ votes'[e][i][r] = decided'[e][i]
      <3>1. votes' = [votes EXCEPT ![f][j] = [q \in Replica |-> decided'[f][j]]]
        BY <2>3 DEF Decide
      <3>2. CASE f = e /\ j = i
        <4>1. votes'[e][i] = [q \in Replica |-> decided'[e][i]]
          BY <1>0, <3>1, <3>2
        <4> QED BY <2>3, <3>2, <4>1
      <3>3. CASE ~(f = e /\ j = i)
        <4>1. votes'[e][i] = votes[e][i]
          BY <1>0, <3>1, <3>3
        <4> QED BY <4>1
      <3> QED BY <3>2, <3>3
    <2>4. ASSUME NEW s \in Replica, NEW f \in Epoch, NEW j \in Replica, HandleMessage(s, f, j)
          PROVE  \/ votes'[e][i][r] = votes[e][i][r]
                 \/ /\ votes[e][i][r] = "none" /\ votes'[e][i][r] = "yes"
                    /\ Many(echoed[e][i]) /\ HandleBroadcast(r, e, i)
                 \/ /\ votes[e][i][r] = "none" /\ votes'[e][i][r] = "no"
                    /\ Cardinality(Accepted(r, e)') = N - F
      <3>1. CASE HandleSend(s, f, j)
        BY <1>1, <3>1 DEF HandleSend
      <3>2. ASSUME NEW v \in [Replica -> [Replica -> Vote]],
                   votes' = [votes EXCEPT ![f] = VoteNoForRest(s, f, v)],
                   v[i][r] = votes[f][i][r]
            PROVE  \/ votes'[e][i][r] = votes[e][i][r]
                   \/ /\ votes[e][i][r] = "none" /\ votes'[e][i][r] = "no"
                      /\ Cardinality(Accepted(r, e)') = N - F
        <4>1. CASE f = e
          <5>1. votes'[e] = VoteNoForRest(s, e, v)
            BY <1>0, <3>2, <4>1
          <5>2. \/ VoteNoForRest(s, e, v)[i][r] = v[i][r]
                \/ /\ r = s /\ v[i][r] = "none" /\ VoteNoForRest(s, e, v)[i][r] = "no"
                   /\ Cardinality(Accepted(s, e)') = N - F
            BY NoForRest
          <5> QED BY <3>2, <4>1, <5>1, <5>2
        <4>2. CASE f # e
          <5>1. votes'[e] = votes[e]
            BY <1>0, <3>2, <4>2
          <5> QED BY <5>1
        <4> QED BY <4>1, <4>2
      <3>3. CASE HandleAgreement(s, f, j)
        <4>1. votes' = [votes EXCEPT ![f] = VoteNoForRest(s, f, votes[f])]
          BY <3>3 DEF HandleAgreement
        <4>2. PICK v : v = votes[f]
          OBVIOUS
        <4> QED BY <1>0, <3>2, <4>1, <4>2
      <3>4. CASE HandleBroadcast(s, f, j)
        <4>0. Many(echoed[f][j]) /\ state[s][f][j] \in {"ongoing", "accepted"}
          BY <3>4 DEF HandleBroadcast, Many
        <4>1. CASE state[s][f][j] = "accepted"
          <5>1. votes' = [votes EXCEPT ![f] = VoteNoForRest(s, f, votes[f])]
            BY <3>4, <4>1 DEF HandleBroadcast
          <5>2. PICK v : v = votes[f]
            OBVIOUS
          <5> QED BY <1>0, <3>2, <5>1, <5>2
        <4>2. CASE state[s][f][j] = "ongoing"
          <5>1. PICK v : v = [votes[f] EXCEPT ![j][s] = Cast(@, "yes")]
            OBVIOUS
          <5>2. votes' = [votes EXCEPT ![f] = VoteNoForRest(s, f, v)]
            BY <3>4, <4>2, <5>1 DEF HandleBroadcast
          <5>3. votes[f] \in [Replica -> [Replica -> Vote]] /\ "yes" \in Vote
            BY <1>0 DEF Vote
          <5>4. v \in [Replica -> [Replica -> Vote]]
            BY <5>1, <5>3, CastType
          <5>5. \A x, y \in Replica : v[x][y] = IF x = j /\ y = s THEN Cast(votes[f][x][y], "yes")
                                                                   ELSE votes[f][x][y]
            BY <5>1, <5>3
          <5>6. CASE v[i][r] = votes[f][i][r]
            BY <3>2, <5>2, <5>4, <5>6
          <5>7. CASE v[i][r] # votes[f][i][r]
            <6>1. i = j /\ r = s /\ votes[f][i][r] = "none" /\ v[i][r] = "yes"
              BY <5>5, <5>7 DEF Cast
            <6>2. CASE f = e
              <7>1. votes'[e] = VoteNoForRest(s, e, v)
                BY <1>0, <5>2, <6>2
              <7>2. VoteNoForRest(s, e, v)[i][r] = v[i][r] \/ v[i][r] = "none"
                BY <5>4, NoForRest
              <7> QED BY <3>4, <4>0, <6>1, <6>2, <7>1, <7>2
            <6>3. CASE f # e
              <7>1. votes'[e] = votes[e]
                BY <1>0, <5>2, <6>3
              <7> QED BY <7>1
            <6> QED BY <6>2, <6>3
          <5> QED BY <5>6, <5>7
        <4> QED BY <4>0, <4>1, <4>2
      <3> QED BY <2>4, <3>1, <3>3, <3>4 DEF HandleMessage
    <2> QED BY <1>1, <1>3, <2>1, <2>2, <2>3, <2>4 DEF Next
  <1> QED BY <1>2, <1>3

LEMMA DecideVote ==
    ASSUME NEW e \in Epoch, NEW i \in Replica, TypeOK, Decide(e, i)
    PROVE  /\ \E s \in Replica : decided'[e][i] = votes[e][i][s] /\ votes[e][i][s] # "none"
           /\ \A f \in Epoch, j \in Replica :
                  f # e \/ j # i => decided'[f][j] = decided[f][j]
  <1>1. PICK s \in Correct : /\ votes[e][i][s] # "none"
                             /\ decided' = [decided EXCEPT ![e][i] = votes[e][i][s]]
    BY DEF Decide
  <1>2. s \in Replica /\ decided'[e][i] = votes[e][i][s]
    BY <1>1 DEF Correct, TypeOK
  <1> QED BY <1>1, <1>2 DEF TypeOK

LEMMA DecidedStep ==
    ASSUME TypeOK, [Next]_vars, NEW e \in Epoch, NEW i \in Replica
    PROVE  \/ decided'[e][i] = decided[e][i]
           \/ /\ Decide(e, i)
              /\ \E s \in Replica : decided'[e][i] = votes[e][i][s] /\ votes[e][i][s] # "none"
  BY OnlyDecide, DecideVote

LEMMA CarriedNext ==
    ASSUME TypeOK, Carried, [Next]_vars
    PROVE  Carried'
  <1> SUFFICES ASSUME NEW e \in Epoch, NEW i \in Replica,
                      decided'[e][i] = "yes" \/ \E r \in Replica : votes'[e][i][r] = "yes"
               PROVE  Many(echoed[e][i])'
    BY DEF Carried
  <1>1. decided'[e][i] = "yes" => Many(echoed[e][i])
    BY DecidedStep DEF Carried
  <1>2. ASSUME NEW r \in Replica, votes'[e][i][r] = "yes"
        PROVE  Many(echoed[e][i])
    BY <1>1, <1>2, VoteStep DEF Carried
  <1> QED BY <1>1, <1>2, ManyEchoed

LEMMA RefusedNext ==
    ASSUME TypeOK, StateDecided, Refused, [Next]_vars
    PROVE  Refused'
  <1> SUFFICES ASSUME NEW e \in Epoch, NEW i \in Replica,
                      decided'[e][i] = "no" \/ \E r \in Replica : votes'[e][i][r] = "no"
               PROVE  \E s \in Replica : Many(Accepted(s, e))'
    BY DEF Refused
  <1>1. ASSUME NEW s \in Replica, Many(Accepted(s, e))
        PROVE  \E q \in Replica : Many(Accepted(q, e))'
    BY <1>1, ManyAccepted
  <1>2. decided'[e][i] = "no" => \E s \in Replica : Many(Accepted(s, e))
    BY DecidedStep DEF Refused
  <1>3. ASSUME NEW r \in Replica, votes'[e][i][r] = "no"
        PROVE  \/ \E s \in Replica : Many(Accepted(s, e))
               \/ Many(Accepted(r, e))'
    <2>1. \/ votes'[e][i][r] = votes[e][i][r]
          \/ Cardinality(Accepted(r, e)') = N - F
          \/ Decide(e, i) /\ votes'[e][i][r] = decided'[e][i]
      BY <1>3, VoteStep
    <2>2. CASE votes'[e][i][r] = votes[e][i][r]
      BY <1>3, <2>2 DEF Refused
    <2>3. CASE Cardinality(Accepted(r, e)') = N - F
      <3>1. Accepted(r, e)' \subseteq Replica
        BY DEF Accepted
      <3>2. Cardinality(Accepted(r, e)') \in Nat
        BY <3>1, ReplicaAssumption, FS_Subset, FS_CardinalityType
      <3>3. Cardinality(Accepted(r, e)') >= N - F
        BY <2>3, <3>2
      <3> QED BY <3>3 DEF Many, N
    <2> QED BY <1>2, <1>3, <2>1, <2>2, <2>3
  <1> QED BY <1>1, <1>2, <1>3

LEMMA DecidedVotedNext ==
    ASSUME TypeOK, DecidedVoted, [Next]_vars
    PROVE  DecidedVoted'
  <1> SUFFICES ASSUME NEW e \in Epoch, NEW i \in Replica, NEW r \in Replica,
                      decided'[e][i] # "none"
               PROVE  votes'[e][i][r] # "none"
    BY DEF DecidedVoted
  <1>1. CASE decided'[e][i] = decided[e][i]
    BY <1>1, VoteStep DEF DecidedVoted
  <1>2. CASE Decide(e, i)
    <2>1. votes'[e][i] = [q \in Replica |-> decided'[e][i]]
      BY <1>2 DEF Decide, TypeOK
    <2> QED BY <2>1
  <1> QED BY <1>1, <1>2, DecidedStep

\* A vote is never withdrawn.
LEMMA VoteStays ==
    ASSUME TypeOK, [Next]_vars, NEW e \in Epoch, NEW i \in Replica, NEW r \in Replica,
           votes[e][i][r] # "none"
    PROVE  votes'[e][i][r] # "none"
  <1>1. CASE Decide(e, i) /\ votes'[e][i][r] = decided'[e][i]
    BY <1>1, DecideVote
  <1> QED BY <1>1, VoteStep

LEMMA ValueVotedNext ==
    ASSUME TypeOK, ValueVoted, [Next]_vars
    PROVE  ValueVoted'
  <1> SUFFICES ASSUME NEW e \in Epoch, NEW i \in Replica, NEW r \in Replica,
                      state'[r][e][i] = "hasValue"
               PROVE  votes'[e][i][r] # "none"
    BY DEF ValueVoted
  <1>1. CASE state[r][e][i] = "hasValue"
    BY <1>1, VoteStays DEF ValueVoted
  <1>2. CASE HandleBroadcast(r, e, i) /\ state[r][e][i] = "ongoing"
    <2>1. PICK v : v = [votes[e] EXCEPT ![i][r] = Cast(@, "yes")]
      OBVIOUS
    <2>2. votes' = [votes EXCEPT ![e] = VoteNoForRest(r, e, v)]
      BY <1>2, <2>1 DEF HandleBroadcast
    <2>3. votes[e] \in [Replica -> [Replica -> Vote]] /\ "yes" \in Vote
      BY DEF TypeOK, Vote
    <2>4. v \in [Replica -> [Replica -> Vote]]
      BY <2>1, <2>3, CastType
    <2>5. v[i][r] # "none"
      BY <2>1, <2>3 DEF Cast
    <2>6. VoteNoForRest(r, e, v)[i][r] # "none"
      BY <2>4, <2>5, NoForRest
    <2> QED BY <2>2, <2>6 DEF TypeOK
  <1>3. \/ state[r][e][i] = "hasValue"
        \/ HandleBroadcast(r, e, i) /\ state[r][e][i] = "ongoing"
    <2>1. CASE state' = state
      BY <2>1
    <2>2. CASE UNCHANGED vars
      BY <2>1, <2>2 DEF vars, net
    <2>3. CASE Next
      <3>1. ASSUME NEW s \in Replica, NEW h \in Caller, NEW t \in Tx, HandleInput(s, h, t)
            PROVE  state' = state
        BY <3>1 DEF HandleInput, net
      <3>2. ASSUME NEW s \in Replica, NEW k \in Thread, Step(s, k)
            PROVE  state' = state
        BY <3>2 DEF Step, Get, Claim, Propose, Test, Finish, net
      <3>3. ASSUME NEW f \in Epoch, NEW j \in Replica, Decide(f, j)
            PROVE  state' = state
        BY <3>3 DEF Decide
      <3>4. ASSUME NEW s \in Replica, NEW f \in Epoch, NEW j \in Replica, HandleMessage(s, f, j)
            PROVE  \/ state[r][e][i] = "hasValue"
                   \/ HandleBroadcast(r, e, i) /\ state[r][e][i] = "ongoing"
        <4>1. CASE HandleSend(s, f, j)
          BY <2>1, <4>1 DEF HandleSend
        <4>2. CASE HandleAgreement(s, f, j)
          <5>1. \/ state' = [state EXCEPT ![s][f][j] = "accepted"]
                \/ state' = [state EXCEPT ![s][f][j] = "complete"]
            BY <4>2 DEF HandleAgreement
          <5>2. state \in [Replica -> [Epoch -> [Replica -> ProposalState]]]
            BY DEF TypeOK
          <5>3. CASE state' = [state EXCEPT ![s][f][j] = "accepted"]
            BY <5>2, <5>3
          <5>4. CASE state' = [state EXCEPT ![s][f][j] = "complete"]
            BY <5>2, <5>4
          <5> QED BY <5>1, <5>3, <5>4
        <4>3. CASE HandleBroadcast(s, f, j)
          <5>1. PICK w : /\ state' = [state EXCEPT ![s][f][j] = w]
                         /\ w = "hasValue" => state[s][f][j] = "ongoing"
            BY <4>3 DEF HandleBroadcast
          <5> QED BY <4>3, <5>1 DEF TypeOK
        <4> QED BY <3>4, <4>1, <4>2, <4>3 DEF HandleMessage
      <3> QED BY <2>1, <2>3, <3>1, <3>2, <3>3, <3>4 DEF Next
    <2> QED BY <2>2, <2>3
  <1> QED BY <1>1, <1>2, <1>3

\* With the N - F'th acceptance a replica has voted on everything.
LEMMA RestVotedNext ==
    ASSUME TypeOK, StateDecided, RestVoted, [Next]_vars
    PROVE  RestVoted'
  <1> SUFFICES ASSUME NEW e \in Epoch, NEW i \in Replica, NEW r \in Replica,
                      Many(Accepted(r, e))'
               PROVE  votes'[e][i][r] # "none"
    BY DEF RestVoted
  <1>1. CASE Many(Accepted(r, e))
    BY <1>1, VoteStays DEF RestVoted
  <1>2. CASE ~Many(Accepted(r, e))
    <2>1. Accepted(r, e)' # Accepted(r, e)
      <3>1. PICK S : S = Accepted(r, e)'
        OBVIOUS
      <3>2. Cardinality(S) >= N - F
        BY <3>1 DEF Many, N
      <3> QED BY <1>2, <3>1, <3>2 DEF Many
    <2>2. PICK j \in Replica : /\ HandleAgreement(r, e, j)
                               /\ Accepted(r, e)' \subseteq Accepted(r, e) \cup {j}
      BY <2>1, AcceptedStep
    <2>3. IsFiniteSet(Accepted(r, e)) /\ Cardinality(Accepted(r, e)) \in Nat
      <3>1. Accepted(r, e) \subseteq Replica
        BY DEF Accepted
      <3> QED BY <3>1, ReplicaAssumption, FS_Subset, FS_CardinalityType
    <2>4. Cardinality(Accepted(r, e) \cup {j}) <= Cardinality(Accepted(r, e)) + 1
          /\ IsFiniteSet(Accepted(r, e) \cup {j})
      <3>1. PICK A : A = Accepted(r, e)
        OBVIOUS
      <3>2. /\ IsFiniteSet(A \cup {j})
            /\ Cardinality(A \cup {j}) = IF j \in A THEN Cardinality(A) ELSE Cardinality(A) + 1
        BY <2>3, <3>1, FS_AddElement
      <3> QED BY <2>3, <3>1, <3>2
    <2>5. PICK S : S = Accepted(r, e)'
      OBVIOUS
    <2>6. Cardinality(S) <= Cardinality(Accepted(r, e) \cup {j}) /\ IsFiniteSet(S)
      BY <2>2, <2>4, <2>5, FS_Subset
    <2>7. Cardinality(S) >= N - F
      BY <2>5 DEF Many, N
    <2>8. Cardinality(S) \in Nat /\ Cardinality(Accepted(r, e) \cup {j}) \in Nat /\ N \in Nat
      BY <2>4, <2>6, FS_CardinalityType, ReplicaAssumption DEF N
    <2>9. Cardinality(S) = N - F
      BY <1>2, <2>3, <2>4, <2>6, <2>7, <2>8, NumberAssumption DEF Many
    <2>10. PICK v : v = votes[e]
      OBVIOUS
    <2>11. votes' = [votes EXCEPT ![e] = VoteNoForRest(r, e, v)]
      BY <2>2, <2>10 DEF HandleAgreement
    <2>12. v \in [Replica -> [Replica -> Vote]]
      BY <2>10 DEF TypeOK
    <2>13. VoteNoForRest(r, e, v)[i][r] # "none"
      <3>1. Cardinality(Accepted(r, e)') = N - F
        BY <2>5, <2>9
      <3>2. \/ VoteNoForRest(r, e, v)[i][r] = "no"
            \/ VoteNoForRest(r, e, v)[i][r] = v[i][r] /\ v[i][r] # "none"
        <4>1. \A x, y \in Replica :
                  \/ VoteNoForRest(r, e, v)[x][y] = "no"
                  \/ /\ VoteNoForRest(r, e, v)[x][y] = v[x][y]
                     /\ y = r /\ Cardinality(Accepted(r, e)') = N - F => v[x][y] # "none"
          BY <2>12, NoForRest
        <4> QED BY <3>1, <4>1
      <3> QED BY <3>2
    <2> QED BY <2>11, <2>13 DEF TypeOK
  <1> QED BY <1>1, <1>2

LEMMA VotesNext ==
    ASSUME TypeOK, StateDecided, VotesInv, [Next]_vars
    PROVE  VotesInv'
  BY CarriedNext, RefusedNext, DecidedVotedNext, ValueVotedNext, RestVotedNext DEF VotesInv

\* With fewer than N stopped, nothing is accepted at first.
LEMMA VotesInit == F < N /\ Init => VotesInv
  <1> SUFFICES ASSUME F < N, Init PROVE VotesInv
    OBVIOUS
  <1>1. \A e \in Epoch, i \in Replica : decided[e][i] = "none"
    BY DEF Init
  <1>2. \A e \in Epoch, i, r \in Replica : votes[e][i][r] = "none" /\ state[r][e][i] = "ongoing"
    BY DEF Init
  <1>3. \A e \in Epoch, r \in Replica : ~Many(Accepted(r, e))
    <2> SUFFICES ASSUME NEW e \in Epoch, NEW r \in Replica PROVE ~Many(Accepted(r, e))
      OBVIOUS
    <2>1. Accepted(r, e) = {}
      BY <1>2 DEF Accepted
    <2>2. Cardinality(Accepted(r, e)) = 0
      BY <2>1, FS_EmptySet
    <2>3. N \in Nat
      BY ReplicaAssumption, FS_CardinalityType DEF N
    <2> QED BY <2>2, <2>3, NumberAssumption DEF Many
  <1> QED BY <1>1, <1>2, <1>3
       DEF VotesInv, Carried, Refused, DecidedVoted, ValueVoted, RestVoted
-----------------------------------------------------------------------------
\* A replica whose current epoch has terminated has a thread on the way to Test.
ToLook(r, k) ==
    \/ thread[r][k].pc \in {"test", "finish", "propose"}
    \/ thread[r][k].pc \in {"get", "claim"} /\ thread[r][k].ending # None
Awake == \A r \in Replica :
    epoch[r] \in Epoch /\ Terminated(r, epoch[r]) => \E k \in Thread : ToLook(r, k)

LEMMA AwakeNext ==
    ASSUME BlockInv, Awake, [Next]_vars
    PROVE  Awake'
  <1> USE DEF BlockInv
  <1> SUFFICES ASSUME NEW r \in Replica, epoch'[r] \in Epoch, Terminated(r, epoch[r])'
               PROVE  \E k \in Thread : ToLook(r, k)'
    BY DEF Awake
  <1>1. ASSUME UNCHANGED <<state, decided>>, epoch'[r] = epoch[r]
        PROVE  \E k \in Thread : ToLook(r, k)
    <2>1. Terminated(r, epoch[r])
      BY <1>1 DEF Terminated, Accepted
    <2> QED BY <1>1, <2>1 DEF Awake
  <1>2. ASSUME UNCHANGED <<state, decided>>, epoch'[r] = epoch[r], thread'[r] = thread[r]
        PROVE  \E k \in Thread : ToLook(r, k)'
    BY <1>1, <1>2 DEF ToLook
  <1>3. CASE UNCHANGED vars
    BY <1>2, <1>3 DEF vars, net
  <1>4. ASSUME NEW s \in Replica, NEW h \in Caller, NEW t \in Tx, HandleInput(s, h, t)
        PROVE  \E k \in Thread : ToLook(r, k)'
    <2>1. UNCHANGED <<state, decided>> /\ epoch'[r] = epoch[r]
      BY <1>4 DEF HandleInput, net
    <2>2. CASE s # r
      <3>1. thread'[r] = thread[r]
        BY <1>4, <2>2 DEF HandleInput, TypeOK
      <3> QED BY <1>2, <2>1, <3>1
    <2>3. CASE s = r
      <3>1. PICK k \in Thread : ToLook(r, k)
        BY <1>1, <2>1
      <3>2. thread'[r][k] = thread[r][k]
        <4>1. k # h
          BY <1>4, <2>3, <3>1 DEF HandleInput, ToLook
        <4> QED BY <1>4, <4>1 DEF HandleInput, TypeOK
      <3> QED BY <3>1, <3>2 DEF ToLook
    <2> QED BY <2>2, <2>3
  <1>5. ASSUME NEW s \in Replica, NEW f \in Epoch, NEW j \in Replica, HandleMessage(s, f, j)
        PROVE  \E k \in Thread : ToLook(r, k)'
    <2>1. Receiving(s, f) /\ decided' = decided
      BY <1>5 DEF HandleMessage, HandleSend, HandleBroadcast, HandleAgreement
    <2>2. CASE s # r
      <3>1. thread'[r] = thread[r] /\ epoch' = epoch
        BY <2>1, <2>2 DEF Receiving, TypeOK
      <3>2. state'[r] = state[r]
        BY <1>5, <2>2 DEF HandleMessage, HandleSend, HandleBroadcast, HandleAgreement, TypeOK
      <3>3. Terminated(r, epoch[r])
        BY <2>1, <3>1, <3>2 DEF Terminated, Accepted
      <3> QED BY <3>1, <3>3 DEF Awake, ToLook
    <2>3. CASE s = r
      <3>1. "message" \in Thread /\ thread'[r]["message"].pc = "test"
        BY <2>1, <2>3 DEF Receiving, TypeOK, Thread, Local, Idle
      <3> QED BY <3>1 DEF ToLook
    <2> QED BY <2>2, <2>3
  <1>6. ASSUME NEW f \in Epoch, NEW j \in Replica, Decide(f, j)
        PROVE  \E k \in Thread : ToLook(r, k)'
    <2>1. UNCHANGED <<state, epoch, thread>>
      BY <1>6 DEF Decide
    <2>2. \A i \in Replica : decided[epoch[r]][i] # "none"
      BY <2>1 DEF Terminated, StateDecided
    <2>3. f # epoch[r]
      BY <1>6, <2>2 DEF Decide
    <2>4. \A i \in Replica : decided'[epoch[r]][i] = decided[epoch[r]][i]
      BY <1>6, <2>1, <2>3, DecideVote
    <2>5. Terminated(r, epoch[r])
      BY <2>1, <2>4 DEF Terminated, Accepted
    <2> QED BY <2>1, <2>5 DEF Awake, ToLook
  <1>7. ASSUME NEW s \in Replica, NEW k \in Thread, Step(s, k), s # r
        PROVE  \E l \in Thread : ToLook(r, l)'
    <2>1. thread'[r] = thread[r] /\ epoch'[r] = epoch[r] /\ UNCHANGED <<state, decided>>
      BY <1>7 DEF Step, Get, Claim, Propose, Test, Finish, net, TypeOK
    <2> QED BY <1>2, <2>1
  <1>8. ASSUME NEW k \in Thread, Step(r, k)
        PROVE  \E l \in Thread : ToLook(r, l)'
    <2>0. thread[r][k] \in Local /\ thread[r][k].pc # "idle"
      BY <1>8 DEF TypeOK, Step, Get, Claim, Propose, Test, Finish
    <2>1. CASE Finish(r, k)
      <3>1. thread[r][k].ending \in Epoch /\ thread[r][k].ending # None
        BY <2>0, <2>1, NoneAssumption DEF Finish, Local, Idle
      <3>2. thread'[r][k].pc = "get" /\ thread'[r][k].ending = thread[r][k].ending
        BY <2>0, <2>1 DEF Finish, TypeOK, Local, Idle
      <3> QED BY <3>1, <3>2 DEF ToLook
    <2>2. CASE Test(r, k)
      <3>1. UNCHANGED <<state, decided>> /\ epoch' = epoch
        BY <2>2 DEF Test, net
      <3>2. Terminated(r, epoch[r]) /\ epoch[r] \in Epoch
        BY <3>1 DEF Terminated, Accepted
      <3>3. thread'[r][k].pc = "finish"
        BY <2>2, <3>2 DEF Test, At, TypeOK, Idle
      <3> QED BY <3>3 DEF ToLook
    <2>3. CASE Propose(r, k)
      <3>1. thread'[r][k].pc = "test"
        BY <1>8, <2>3, ProposeLooks
      <3> QED BY <3>1 DEF ToLook
    <2>4. CASE Get(r, k) \/ Claim(r, k)
      <3>1. UNCHANGED <<state, decided>> /\ epoch'[r] = epoch[r]
        BY <2>4 DEF Get, Claim, net
      <3>2. PICK l \in Thread : ToLook(r, l)
        BY <1>1, <3>1
      <3>3. CASE l # k
        <4>1. thread'[r][l] = thread[r][l]
          BY <2>4, <3>3 DEF Get, Claim, TypeOK
        <4> QED BY <3>2, <4>1 DEF ToLook
      <3> SUFFICES ASSUME l = k PROVE ToLook(r, k)'
        BY <3>3
      <3>4. thread[r][k].ending # None
        BY <2>4, <3>2 DEF ToLook, Get, Claim
      <3>5. thread'[r][k].pc = "test" \/ thread'[r][k].pc = "propose"
            \/ (thread'[r][k].pc = "claim" /\ thread'[r][k].ending = thread[r][k].ending)
        <4>1. CASE Get(r, k)
          <5>1. CASE thread' = [thread EXCEPT ![r][k] = Returned(r, k)]
            BY <3>4, <5>1 DEF Returned, At, Idle, TypeOK
          <5>2. ASSUME NEW t \in queue[r],
                       thread' = [thread EXCEPT ![r][k].pc = "claim", ![r][k].batch = t]
                PROVE  thread'[r][k].pc = "claim" /\ thread'[r][k].ending = thread[r][k].ending
            BY <2>0, <5>2 DEF TypeOK, Local, Idle
          <5> QED BY <4>1, <5>1, <5>2 DEF Get
        <4>2. CASE Claim(r, k)
          BY <2>0, <3>4, <4>2 DEF Claim, Returned, At, Idle, TypeOK, Local
        <4> QED BY <2>4, <4>1, <4>2
      <3> QED BY <3>4, <3>5 DEF ToLook
    <2> QED BY <1>8, <2>1, <2>2, <2>3, <2>4 DEF Step
  <1>9. CASE Next
    <2>1. ASSUME NEW s \in Replica, NEW k \in Thread, Step(s, k)
          PROVE  \E l \in Thread : ToLook(r, l)'
      BY <1>7, <1>8, <2>1
    <2> QED BY <1>4, <1>5, <1>6, <1>9, <2>1 DEF Next
  <1> QED BY <1>3, <1>9

LEMMA AwakeInit == F < N /\ Init => Awake
  <1> SUFFICES ASSUME F < N, Init, NEW r \in Replica
               PROVE  ~Terminated(r, epoch[r])
    BY DEF Awake
  <1>1. epoch[r] \in Epoch
    BY NumberAssumption DEF Init, Epoch
  <1>2. PICK i \in Replica : TRUE
    BY ReplicaAssumption
  <1>3. state[r][epoch[r]][i] = "ongoing"
    BY <1>1, <1>2 DEF Init
  <1> QED BY <1>2, <1>3 DEF Terminated

\* At rest a correct replica is not in an epoch that others have ended, ...
LEMMA RestBehind ==
    ASSUME TypeOK, StateDecided, VotesInv, Awake, AtRest,
           NEW r \in Correct, epoch[r] \in Epoch
    PROVE  ~(Many(Yes(epoch[r])) /\ \A i \in Replica : decided[epoch[r]][i] # "none")
  <1> SUFFICES ASSUME Many(Yes(epoch[r])), \A i \in Replica : decided[epoch[r]][i] # "none"
               PROVE  FALSE
    OBVIOUS
  <1>1. PICK e \in Epoch : e = epoch[r]
    OBVIOUS
  <1>2. r \in Replica /\ e >= epoch[r]
    BY <1>1 DEF Correct, TypeOK
  <1>3. \A i \in Replica : /\ decided[e][i] # "none"
                           /\ state[r][e][i] \in {"accepted", "complete"}
    <2>1. \A i \in Replica : state[r][e][i] \notin {"ongoing", "hasValue"}
      BY <1>1, <1>2 DEF AtRest
    <2> QED BY <1>1, <1>2, <2>1 DEF TypeOK, ProposalState
  <1>4. ASSUME NEW i \in Replica, state[r][e][i] = "accepted"
        PROVE  FALSE
    <2>1. Cardinality(echoed[e][i]) >= N - F
      BY <1>2, <1>4 DEF StateDecided, VotesInv, Carried, Many
    <2> QED BY <1>2, <1>4, <2>1 DEF AtRest
  <1>5. \A i \in Replica : state[r][e][i] = "complete"
    BY <1>3, <1>4
  <1>6. Accepted(r, e) = Yes(e)
    BY <1>5 DEF Accepted, Yes
  <1>7. Terminated(r, epoch[r])
    BY <1>1, <1>5, <1>6 DEF Terminated, Many
  <1>8. PICK k \in Thread : ToLook(r, k)
    BY <1>2, <1>7 DEF Awake
  <1>9. thread[r][k].pc = "idle"
    BY DEF AtRest
  <1> QED BY <1>8, <1>9 DEF ToLook

\* ... and in an epoch with N - F proposals in which all still are, N - F proposals are
\* accepted, by replicas that agree on the rest.
LEMMA RestAccepts ==
    ASSUME TypeOK, StateDecided, VotesInv, AtRest, F < N,
           NEW e \in Epoch, \A r \in Correct : epoch[r] <= e,
           Many({i \in Correct : proposed[e][i] # None})
    PROVE  Many(Yes(e)) /\ \A i \in Replica : decided[e][i] # "none"
  <1> DEFINE P == {i \in Correct : proposed[e][i] # None}
  <1>1. Correct \subseteq Replica /\ P \subseteq Correct /\ N \in Nat
    BY ReplicaAssumption, FS_CardinalityType DEF Correct, N
  <1>2. Many(Correct) /\ Correct # {}
    <2>1. Many(Correct)
      BY <1>1, ManySubset
    <2>2. Correct # {}
      <3>1. Cardinality({}) = 0
        BY FS_EmptySet
      <3> QED BY <1>1, <2>1, <3>1, NumberAssumption DEF Many
    <2> QED BY <2>1, <2>2
  <1>3. \A r \in Correct : r \in Replica /\ e >= epoch[r]
    BY <1>1 DEF TypeOK, Epoch
  <1>4. ASSUME NEW i \in Replica, \A r \in Correct : votes[e][i][r] # "none"
        PROVE  decided[e][i] # "none"
    <2>1. PICK H : H = {r \in Replica : votes[e][i][r] # "none"}
      OBVIOUS
    <2>2. Correct \subseteq H /\ H \subseteq Replica
      BY <1>1, <1>4, <2>1
    <2>3. Cardinality(H) >= N - F
      BY <1>2, <2>2, ManySubset DEF Many
    <2>4. H \cap Correct # {}
      BY <1>2, <2>2
    <2>5. Cardinality(H) >= N - F /\ H \cap Correct # {} => decided[e][i] # "none"
      BY <2>1 DEF AtRest
    <2> QED BY <2>3, <2>4, <2>5
  <1>5. ASSUME NEW i \in P
        PROVE  decided[e][i] # "none"
    <2>1. i \in Replica /\ proposed[e][i] # None
      BY <1>1
    <2>8. Sent(e, i)
      <3>1. \A k \in Thread : thread[i][k] \in Local /\ thread[i][k].pc = "idle"
        BY <1>1 DEF AtRest, TypeOK
      <3>2. \A k \in Thread : thread[i][k].unsent = {}
        BY <3>1 DEF Local, Idle
      <3> QED BY <3>2 DEF Sent
    <2>2. \A r \in Correct : r \in echoed[e][i]
      BY <1>3, <2>1, <2>8 DEF AtRest
    <2>3. echoed[e][i] \subseteq Replica
      BY <2>1 DEF TypeOK
    <2>4. Many(echoed[e][i])
      BY <1>2, <2>2, <2>3, ManySubset
    <2>5. \A r \in Correct : state[r][e][i] \notin {"ongoing", "accepted"}
      BY <1>3, <2>1, <2>4 DEF AtRest, Many
    <2>6. \A r \in Correct : state[r][e][i] \in {"hasValue", "complete"}
      BY <1>3, <2>1, <2>5 DEF TypeOK, ProposalState
    <2>7. CASE decided[e][i] = "none"
      <3>1. \A r \in Correct : state[r][e][i] = "hasValue"
        BY <1>3, <2>1, <2>6, <2>7 DEF StateDecided
      <3>2. \A r \in Correct : votes[e][i][r] # "none"
        BY <1>3, <2>1, <3>1 DEF VotesInv, ValueVoted
      <3> QED BY <1>4, <2>1, <3>2
    <2> QED BY <2>7
  <1>6. Many(Yes(e))
    <2>1. Yes(e) \subseteq Replica
      BY DEF Yes
    <2>2. CASE \E s \in Replica : Many(Accepted(s, e))
      <3>1. PICK s \in Replica : Many(Accepted(s, e))
        BY <2>2
      <3>2. Accepted(s, e) \subseteq Yes(e)
        BY DEF Accepted, Yes, StateDecided
      <3> QED BY <2>1, <3>1, <3>2, ManySubset
    <2>3. CASE ~\E s \in Replica : Many(Accepted(s, e))
      <3>1. \A i \in P : i \in Replica /\ decided[e][i] # "no"
        BY <1>1, <2>3 DEF VotesInv, Refused
      <3>2. \A i \in P : decided[e][i] = "yes"
        BY <1>5, <3>1 DEF TypeOK, Vote
      <3>3. P \subseteq Yes(e)
        BY <3>1, <3>2 DEF Yes
      <3> QED BY <2>1, <3>3, ManySubset
    <2> QED BY <2>2, <2>3
  <1>7. ASSUME NEW r \in Correct
        PROVE  Many(Accepted(r, e))
    <2>1. \A i \in Yes(e) : i \in Replica /\ decided[e][i] = "yes"
      BY DEF Yes
    <2>2. \A i \in Yes(e) : state[r][e][i] \in {"accepted", "complete"}
      <3>1. \A i \in Yes(e) : state[r][e][i] \notin {"ongoing", "hasValue"}
        BY <1>3, <2>1 DEF AtRest
      <3> QED BY <1>3, <2>1, <3>1 DEF TypeOK, ProposalState
    <2>3. Yes(e) \subseteq Accepted(r, e) /\ Accepted(r, e) \subseteq Replica
      BY <2>1, <2>2 DEF Accepted
    <2> QED BY <1>6, <2>3, ManySubset
  <1>8. \A i \in Replica, r \in Correct : votes[e][i][r] # "none"
    BY <1>3, <1>7 DEF VotesInv, RestVoted
  <1> QED BY <1>4, <1>6, <1>8

\* What a correct replica has output in order decides the epochs it has left.
LEMMA LeftDecided ==
    ASSUME BlockInv, OrderInv, NEW q \in Replica, ~Repeats(q), NEW e \in Epoch, e < epoch[q]
    PROVE  Many(Yes(e)) /\ \A i \in Replica : decided[e][i] # "none"
  <1>1. e \in Nat /\ epoch[q] \in Nat /\ Len(delivered[q]) = epoch[q]
    BY DEF Epoch, OrderInv, TypeOK, Counted
  <1>2. e + 1 \in 1 .. epoch[q] /\ (e + 1) - 1 = e
    BY <1>1
  <1>3. delivered[q][e + 1].epoch = e
    <2>1. InOrder(q)
      BY DEF OrderInv, Skips
    <2>2. [j \in 1 .. epoch[q] |-> delivered[q][j].epoch] = [j \in 1 .. epoch[q] |-> j - 1]
      BY <1>1, <2>1 DEF InOrder
    <2>3. \A j \in 1 .. epoch[q] : delivered[q][j].epoch = j - 1
      BY <2>2
    <2> QED BY <1>2, <2>3
  <1>4. Decisive(delivered[q][e + 1])
    BY <1>1, <1>2 DEF BlockInv, BlocksDecided
  <1> QED BY <1>3, <1>4 DEF Decisive, Many

LEMMA RestEnds ==
    ASSUME BlockInv, OrderInv, Reached, VotesInv, Awake, F < N
    PROVE  RestsBetweenEpochs
  <1> USE DEF BlockInv
  <1> SUFFICES ASSUME AtRest, \A q \in Correct : ~Repeats(q), NEW e \in Epoch,
                      Many({i \in Correct : proposed[e][i] # None}),
                      NEW r \in Correct, ~(epoch[r] > e)
               PROVE  FALSE
    BY DEF RestsBetweenEpochs, Begun, Ended, Many
  <1>1. r \in Replica /\ epoch[r] \in Epoch /\ epoch[r] <= e
    <2>1. r \in Replica
      BY DEF Correct
    <2>2. epoch[r] \in Nat
      BY <2>1 DEF TypeOK
    <2> QED BY <2>1, <2>2, NumberAssumption DEF Epoch
  <1>2. \A q \in Correct : /\ q \in Replica /\ epoch[q] \in Nat
                           /\ (epoch[q] > epoch[r] => epoch[r] < epoch[q])
    BY <1>1 DEF TypeOK, Epoch, Correct
  <1>3. ASSUME NEW q \in Correct, epoch[q] > epoch[r]
        PROVE  FALSE
    BY <1>1, <1>2, <1>3, LeftDecided, RestBehind
  <1>4. CASE epoch[r] = e
    <2>1. \A q \in Correct : epoch[q] <= e
      BY <1>2, <1>3, <1>4 DEF Epoch
    <2> QED BY <1>1, <1>4, <2>1, RestAccepts, RestBehind
  <1>5. CASE epoch[r] < e
    <2>1. PICK q \in Correct : proposed[e][q] # None
      <3>1. Cardinality({}) = 0 /\ N \in Nat
        BY FS_EmptySet, ReplicaAssumption, FS_CardinalityType DEF N
      <3>2. {i \in Correct : proposed[e][i] # None} # {}
        BY <3>1, NumberAssumption DEF Many
      <3> QED BY <3>2
    <2>2. e <= epoch[q]
      BY <1>2, <2>1 DEF Reached
    <2>3. epoch[q] > epoch[r]
      BY <1>1, <1>2, <1>5, <2>2 DEF Epoch
    <2> QED BY <1>3, <2>3
  <1> QED BY <1>1, <1>4, <1>5 DEF Epoch

\* The replicas come to rest only when every epoch in which N - F correct ones have
\* proposed has ended at all of them, or one has output a block twice, whatever is late,
\* whoever has stopped and however many threads a replica has: what remains of
\* EpochsEnd is that steps are taken (tryOutput, handleEpochStep).
THEOREM NoStall == Spec => []RestsBetweenEpochs
  <1>0. F < N
    <2>1. N \in Nat
      BY ReplicaAssumption, FS_CardinalityType DEF N
    <2> QED BY <2>1, NumberAssumption, QuorumAssumption
  <1>1. Init => Reached
    BY DEF Init, Reached
  <1>2. BlockInv /\ Reached /\ [Next]_vars => Reached'
    BY ReachedNext DEF BlockInv
  <1>3. BlockInv /\ VotesInv /\ [Next]_vars => VotesInv'
    BY VotesNext DEF BlockInv
  <1>4. BlockInv /\ Awake /\ [Next]_vars => Awake'
    BY AwakeNext
  <1>5. Init => VotesInv /\ Awake
    BY <1>0, VotesInit, AwakeInit
  <1>6. BlockInv /\ OrderInv /\ Reached /\ VotesInv /\ Awake => RestsBetweenEpochs
    BY <1>0, RestEnds
  <1> QED BY <1>1, <1>2, <1>3, <1>4, <1>5, <1>6, BlockInvInit, BlockInvNext, OrderInvInit,
             OrderInvNext, PTL DEF Spec
=============================================================================
