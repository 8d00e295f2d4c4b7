-------------------------- MODULE AcsAtomicBroadcast --------------------------
(***************************************************************************)
(* HoneyBadger, the other protocol a replica can run: P/abc/acs at every   *)
(* replica, over P/subset.  In an epoch every replica that has something   *)
(* pending proposes it; HoneyBadgerSubset runs a reliable broadcast of     *)
(* every proposal and a binary agreement on whether it is in the block.  A *)
(* replica votes yes for a proposal it has, and no for the others once     *)
(* N - F are accepted; when all are decided, and those accepted are here,  *)
(* the epoch ends with a block.                                            *)
(*                                                                         *)
(* A broadcast is its ECHOs: as BrachaBroadcast2 shows, who delivers it    *)
(* has the blocks of N - F replicas, and all do whom the blocks of N - F   *)
(* reach.  An agreement is what BinaryAgreement promises, made when N - F  *)
(* replicas have voted.  The replica runs it without encryption            *)
(* (Replica.java:162) and, by its defaults, with one transaction to a      *)
(* proposal.                                                               *)
(*                                                                         *)
(* handleMessage is synchronized and handleInput is not.  One thread of a  *)
(* replica handles messages and others may be in handleInput; what both    *)
(* call, handleEpochStep and tryPropose, is split where one thread may act *)
(* on what another has changed: after reading a batch (Get), setting       *)
(* hasInput (Claim), giving the batch to an epoch (Propose) and seeing an  *)
(* epoch terminated (Test).  The output and the change of epoch are one    *)
(* step (Finish).                                                          *)
(*                                                                         *)
(* What a call sends is in the Step it returns (Replica.handleStep), so    *)
(* nobody can answer a proposal before the thread that made it is out of   *)
(* tryPropose: unsent.  The votes and ECHOs of the thread that handles a   *)
(* message count at once: what its replica does until it returns depends   *)
(* on nothing that others do in the meantime.                              *)
(***************************************************************************)
EXTENDS Integers, FiniteSets, Sequences

CONSTANTS
    Replica,
    StopSets,    \* the sets of replicas that may be those that stop
    F,           \* networkInfo.getF()
    Tx,
    Clients,     \* [Replica -> SUBSET Tx]: what clients submit to each replica
    None,
    MaxEpoch,    \* bound: epochs
    Caller       \* the threads of a replica that call handleInput, one to a client

ASSUME ReplicaAssumption ==
    IsFiniteSet(Replica) /\ Replica # {} /\ StopSets \subseteq SUBSET Replica
ASSUME NumberAssumption == F \in Nat /\ MaxEpoch \in Nat
ASSUME TxAssumption == None \notin Tx /\ Clients \in [Replica -> SUBSET Tx]
ASSUME CallerAssumption == "message" \notin Caller

N == Cardinality(Replica)
Epoch == 0 .. MaxEpoch
ASSUME NoneAssumption == None \notin Epoch
\* A broadcast needs the ECHO of another replica.
ASSUME QuorumAssumption == N >= F + 2
Thread == {"message"} \cup Caller

VARIABLES
    faulty,      \* the replicas that are owed no fairness; never changes
    proposed,    \* [Epoch -> [Replica -> Tx or None]]: what a broadcast carries
    echoed,      \* [Epoch -> [Replica -> SUBSET Replica]]: who has echoed it
    votes,       \* [Epoch -> [Replica -> [Replica -> "none", "yes" or "no"]]]
    decided,     \* [Epoch -> [Replica -> "none", "yes" or "no"]]
    state,       \* [Replica -> [Epoch -> [Replica -> ProposalState]]]
    epoch,       \* [Replica -> Nat]
    hasInput,    \* [Replica -> BOOLEAN]
    queue,       \* [Replica -> SUBSET Tx]
    submitted,   \* [Replica -> SUBSET Tx]: what handleInput was called with
    delivered,   \* [Replica -> Seq(Block)]
    thread       \* [Replica -> [Thread -> where it is and what it has read]]

net == <<proposed, echoed, votes, decided, state>>
vars == <<faulty, net, epoch, hasInput, queue, submitted, delivered, thread>>

Correct == Replica \ faulty
Vote == {"none", "yes", "no"}
ProposalState == {"ongoing", "hasValue", "accepted", "complete"}
Block == [epoch : Epoch, from : SUBSET Replica]
Idle == [pc |-> "idle", batch |-> None, ending |-> None, unsent |-> {}]
Local == {Idle} \cup [pc : {"get", "claim", "propose", "test"}, batch : Tx \cup {None},
                      ending : Epoch \cup {None}, unsent : SUBSET Epoch]
               \cup [pc : {"finish"}, batch : {None}, ending : Epoch, unsent : SUBSET Epoch]

TypeOK ==
    /\ faulty \subseteq Replica
    /\ proposed \in [Epoch -> [Replica -> Tx \cup {None}]]
    /\ echoed \in [Epoch -> [Replica -> SUBSET Replica]]
    /\ votes \in [Epoch -> [Replica -> [Replica -> Vote]]]
    /\ decided \in [Epoch -> [Replica -> Vote]]
    /\ state \in [Replica -> [Epoch -> [Replica -> ProposalState]]]
    /\ epoch \in [Replica -> Nat]
    /\ hasInput \in [Replica -> BOOLEAN]
    /\ queue \in [Replica -> SUBSET Tx]
    /\ submitted \in [Replica -> SUBSET Tx]
    /\ delivered \in [Replica -> Seq(Block)]
    /\ thread \in [Replica -> [Thread -> Local]]

Init ==
    /\ faulty \in StopSets
    /\ proposed = [e \in Epoch |-> [i \in Replica |-> None]]
    /\ echoed = [e \in Epoch |-> [i \in Replica |-> {}]]
    /\ votes = [e \in Epoch |-> [i \in Replica |-> [r \in Replica |-> "none"]]]
    /\ decided = [e \in Epoch |-> [i \in Replica |-> "none"]]
    /\ state = [r \in Replica |-> [e \in Epoch |-> [i \in Replica |-> "ongoing"]]]
    /\ epoch = [r \in Replica |-> 0]
    /\ hasInput = [r \in Replica |-> FALSE]
    /\ queue = [r \in Replica |-> {}]
    /\ submitted = [r \in Replica |-> {}]
    /\ delivered = [r \in Replica |-> <<>>]
    /\ thread = [r \in Replica |-> [k \in Thread |-> Idle]]
-----------------------------------------------------------------------------
\* The subset.  accepted of the proposal states: in CompleteState it is the bit.
Accepted(r, e) == {i \in Replica : \/ state[r][e][i] = "accepted"
                                   \/ state[r][e][i] = "complete" /\ decided[e][i] = "yes"}

\* Mutant: the accepted proposals suffice.
TerminatedAccepted(r, e) ==
    Cardinality({i \in Accepted(r, e) : state[r][e][i] = "complete"}) >= N - F

\* hasTerminated of Epoch and of HoneyBadgerSubset: its tryOutput looks after
\* every message.
Terminated(r, e) == /\ Cardinality(Accepted(r, e)) >= N - F
                    /\ \A i \in Replica : state[r][e][i] = "complete"

\* A vote after the first has no effect (canPropose of the agreement).
Cast(v, b) == IF v = "none" THEN b ELSE v

\* Mutant: once N - F are accepted the replica does not vote any more.
VoteNoMore(r, e, v) == v

\* tryOutput: with N - F accepted, vote no for the remaining ones.
VoteNoForRest(r, e, v) ==
    IF Cardinality(Accepted(r, e)') = N - F
    THEN [i \in Replica |-> [v[i] EXCEPT ![r] = Cast(@, "no")]]
    ELSE v

\* The message thread takes the lock, handles one message for epoch e, and goes
\* on with handleEpochStep.
Receiving(r, e) ==
    /\ thread[r]["message"].pc = "idle"
    /\ e \in Epoch /\ e >= epoch[r]
    /\ thread' = [thread EXCEPT ![r]["message"].pc = "test"]
    /\ UNCHANGED <<faulty, proposed, epoch, hasInput, queue, submitted, delivered>>

\* The thread that made the proposal has returned.
Sent(e, i) == \A k \in Thread : e \notin thread[i][k].unsent

\* The broadcast of i: its SEND is echoed ...
HandleSend(r, e, i) ==
    /\ Receiving(r, e)
    /\ proposed[e][i] # None /\ Sent(e, i) /\ r \notin echoed[e][i]
    /\ echoed' = [echoed EXCEPT ![e][i] = @ \cup {r}]
    /\ UNCHANGED <<votes, decided, state>>

\* ... and it delivers.  OngoingState votes yes; AcceptedState is complete.
HandleBroadcast(r, e, i) ==
    /\ Receiving(r, e)
    /\ UNCHANGED <<echoed, decided>>
    /\ Cardinality(echoed[e][i]) >= N - F
    /\ \/ /\ state[r][e][i] = "ongoing"
          /\ state' = [state EXCEPT ![r][e][i] = "hasValue"]
          /\ votes' = [votes EXCEPT ![e] =
                 VoteNoForRest(r, e, [votes[e] EXCEPT ![i][r] = Cast(@, "yes")])]
       \/ /\ state[r][e][i] = "accepted"
          /\ state' = [state EXCEPT ![r][e][i] = "complete"]
          /\ votes' = [votes EXCEPT ![e] = VoteNoForRest(r, e, votes[e])]

\* The agreement on i ends at r.
HandleAgreement(r, e, i) ==
    /\ Receiving(r, e)
    /\ UNCHANGED <<echoed, decided>>
    /\ decided[e][i] # "none"
    /\ state[r][e][i] \in {"ongoing", "hasValue"}
    /\ state' = [state EXCEPT ![r][e][i] =
           IF @ = "ongoing" /\ decided[e][i] = "yes" THEN "accepted" ELSE "complete"]
    /\ votes' = [votes EXCEPT ![e] = VoteNoForRest(r, e, votes[e])]

\* The agreement on i is made, for a bit a correct replica voted for.  A vote that
\* comes after it has no effect, so that none is missing any more.
Decide(e, i) ==
    /\ decided[e][i] = "none"
    /\ Cardinality({r \in Replica : votes[e][i][r] # "none"}) >= N - F
    /\ \E r \in Correct : /\ votes[e][i][r] # "none"
                          /\ decided' = [decided EXCEPT ![e][i] = votes[e][i][r]]
    /\ votes' = [votes EXCEPT ![e][i] = [r \in Replica |-> decided'[e][i]]]
    /\ UNCHANGED <<faulty, proposed, echoed, state, epoch, hasInput, queue, submitted,
                   delivered, thread>>
-----------------------------------------------------------------------------
\* handleInput: the transaction is put into the queue.
HandleInput(r, k, t) ==
    /\ t \in Clients[r] \ submitted[r]
    /\ thread[r][k].pc = "idle"
    /\ submitted' = [submitted EXCEPT ![r] = @ \cup {t}]
    /\ queue' = [queue EXCEPT ![r] = @ \cup {t}]
    /\ thread' = [thread EXCEPT ![r][k].pc = "get"]
    /\ UNCHANGED <<faulty, net, epoch, hasInput, delivered>>

\* A thread goes on, with what it has to send when it is out.
At(r, k, where) == [Idle EXCEPT !.pc = where, !.unsent = thread[r][k].unsent]

\* Mutant: handleEpochStep does not look at the next epoch.
ReturnedOut(r, k) == Idle

\* tryPropose returns: to handleInput, or to the handleEpochStep that called it,
\* which goes on with the next epoch.
Returned(r, k) == IF thread[r][k].ending = None THEN Idle ELSE At(r, k, "test")

\* Mutant: the batch is taken out of the queue.
GetAndRemove(r, k) ==
    /\ thread[r][k].pc = "get"
    /\ \/ /\ queue[r] = {}
          /\ thread' = [thread EXCEPT ![r][k] = Returned(r, k)]
          /\ UNCHANGED queue
       \/ \E t \in queue[r] :
              /\ thread' = [thread EXCEPT ![r][k].pc = "claim", ![r][k].batch = t]
              /\ queue' = [queue EXCEPT ![r] = @ \ {t}]
    /\ UNCHANGED <<faulty, net, epoch, hasInput, submitted, delivered>>

\* tryPropose: read a batch,
Get(r, k) ==
    /\ thread[r][k].pc = "get"
    /\ \/ /\ queue[r] = {}
          /\ thread' = [thread EXCEPT ![r][k] = Returned(r, k)]
       \/ \E t \in queue[r] :
              thread' = [thread EXCEPT ![r][k].pc = "claim", ![r][k].batch = t]
    /\ UNCHANGED <<faulty, net, epoch, hasInput, queue, submitted, delivered>>

\* test and set hasInput,
Claim(r, k) ==
    /\ thread[r][k].pc = "claim"
    /\ hasInput' = [hasInput EXCEPT ![r] = TRUE]
    /\ thread' = [thread EXCEPT ![r][k] =
           IF hasInput[r] THEN Returned(r, k) ELSE [@ EXCEPT !.pc = "propose"]]
    /\ UNCHANGED <<faulty, net, epoch, queue, submitted, delivered>>

\* and give the batch to the subset of the current epoch.  The broadcast takes
\* one input (sendSent) and OngoingState alone passes it on; the proposer echoes.
Propose(r, k) ==
    /\ thread[r][k].pc = "propose"
    /\ LET e == epoch[r] IN
       IF e \in Epoch /\ proposed[e][r] = None /\ state[r][e][r] = "ongoing"
       THEN /\ proposed' = [proposed EXCEPT ![e][r] = thread[r][k].batch]
            /\ echoed' = [echoed EXCEPT ![e][r] = @ \cup {r}]
            /\ thread' = [thread EXCEPT ![r][k] = [At(r, k, "test") EXCEPT !.unsent = @ \cup {e}]]
       ELSE /\ UNCHANGED <<proposed, echoed>>
            /\ thread' = [thread EXCEPT ![r][k] = At(r, k, "test")]
    /\ UNCHANGED <<faulty, votes, decided, state, epoch, hasInput, queue, submitted,
                   delivered>>

\* Mutant: whichever epoch has terminated is ended.
TestAny(r, k) ==
    /\ thread[r][k].pc = "test"
    /\ LET over == {e \in Epoch : e >= epoch[r] /\ Terminated(r, e)} IN
       \/ /\ over = {}
          /\ thread' = [thread EXCEPT ![r][k] = Idle]
       \/ \E e \in over :
              thread' = [thread EXCEPT ![r][k] = [At(r, k, "finish") EXCEPT !.ending = e]]
    /\ UNCHANGED <<faulty, net, epoch, hasInput, queue, submitted, delivered>>

\* handleEpochStep: return unless the current epoch has terminated.  (It is called
\* again after it has returned in a handleEpochStep or tryPropose further out, until
\* the thread is out of all of them; looking again right after this changes nothing.)
Test(r, k) ==
    /\ thread[r][k].pc = "test"
    /\ thread' = [thread EXCEPT ![r][k] =
           IF epoch[r] \in Epoch /\ Terminated(r, epoch[r])
           THEN [At(r, k, "finish") EXCEPT !.ending = epoch[r]] ELSE Idle]
    /\ UNCHANGED <<faulty, net, epoch, hasInput, queue, submitted, delivered>>

\* Mutant: the replica's own proposal goes back into the queue unless it is in the
\* block.
FinishAndPutBack(r, k) ==
    /\ thread[r][k].pc = "finish"
    /\ LET e == thread[r][k].ending
       IN  /\ delivered' = [delivered EXCEPT ![r] =
                  Append(@, [epoch |-> e, from |-> Accepted(r, e)])]
           /\ queue' = [queue EXCEPT ![r] = (@ \cup {proposed[e][r]})
                                                \ {proposed[e][i] : i \in Accepted(r, e)}]
    /\ epoch' = [epoch EXCEPT ![r] = @ + 1]
    /\ hasInput' = [hasInput EXCEPT ![r] = FALSE]
    /\ thread' = [thread EXCEPT ![r][k].pc = "get"]
    /\ UNCHANGED <<faulty, net, submitted>>

\* output its block, remove what is in it from the queue, go to the next epoch
\* and propose there.
Finish(r, k) ==
    /\ thread[r][k].pc = "finish"
    /\ LET e == thread[r][k].ending
       IN  /\ delivered' = [delivered EXCEPT ![r] =
                  Append(@, [epoch |-> e, from |-> Accepted(r, e)])]
           /\ queue' = [queue EXCEPT ![r] = @ \ {proposed[e][i] : i \in Accepted(r, e)}]
    /\ epoch' = [epoch EXCEPT ![r] = @ + 1]
    /\ hasInput' = [hasInput EXCEPT ![r] = FALSE]
    /\ thread' = [thread EXCEPT ![r][k].pc = "get"]
    /\ UNCHANGED <<faulty, net, submitted>>

HandleMessage(r, e, i) ==
    HandleSend(r, e, i) \/ HandleBroadcast(r, e, i) \/ HandleAgreement(r, e, i)
Step(r, k) == Get(r, k) \/ Claim(r, k) \/ Propose(r, k) \/ Test(r, k) \/ Finish(r, k)

Next ==
    \/ \E r \in Replica :
          \/ \E k \in Caller, t \in Tx : HandleInput(r, k, t)
          \/ \E e \in Epoch, i \in Replica : HandleMessage(r, e, i)
          \/ \E k \in Thread : Step(r, k)
    \/ \E e \in Epoch, i \in Replica : Decide(e, i)

Spec == Init /\ [][Next]_vars

\* Threads of correct replicas are scheduled, what correct replicas send arrives
\* and agreements end; nothing is assumed of clients.
Fairness ==
    /\ \A r \in Replica :
           WF_vars(/\ r \in Correct
                   /\ \/ \E k \in Thread : Step(r, k)
                      \/ \E e \in Epoch, i \in Replica : HandleMessage(r, e, i))
    /\ WF_vars(\E e \in Epoch, i \in Replica : Decide(e, i))

FairSpec == Spec /\ Fairness
-----------------------------------------------------------------------------
Content(b) == {proposed[b.epoch][i] : i \in b.from}

\* The earliest epoch whose block r has not output is its current one.
InOrder(r) == [j \in 1 .. Len(delivered[r]) |-> delivered[r][j].epoch]
                  = [j \in 1 .. epoch[r] |-> j - 1]
Repeats(r) == \E i, j \in 1 .. Len(delivered[r]) :
                  i # j /\ delivered[r][i].epoch = delivered[r][j].epoch

\* Whichever threads end an epoch, at whatever replicas and however often, its block is
\* one (HoneyBadgerSubset.tryOutput, handleEpochStep).
SameBlocks ==
    \A r, s \in Correct : \A i \in 1 .. Len(delivered[r]), j \in 1 .. Len(delivered[s]) :
        delivered[r][i].epoch = delivered[s][j].epoch => delivered[r][i] = delivered[s][j]

\* A transaction that a client gave to a correct replica is pending there or
\* delivered, also when the proposal it was in was not accepted (tryPropose,
\* handleEpochStep).
NothingLost ==
    \A r \in Correct : \A t \in submitted[r] :
        t \in queue[r] \/ \E j \in 1 .. Len(delivered[r]) : t \in Content(delivered[r][j])

\* No transaction that a client gave to one replica is delivered twice: it is proposed
\* again only if it was not in the block (handleEpochStep, "remove the block contents
\* form the pending queue").  The code does not have it: a thread may have read the
\* batch before another one removes it.
DeliveredOnce ==
    \A r \in Correct, t \in Tx :
        Cardinality({x \in (1 .. Len(delivered[r])) \X Replica :
                        /\ x[2] \in delivered[r][x[1]].from
                        /\ proposed[delivered[r][x[1]].epoch][x[2]] = t}) <= 1

\* The current epoch is the earliest one whose block has not been output
\* (AcsAtomicBroadcast.epoch).  The code does not have it.
EarliestEpoch == \A r \in Correct : InOrder(r)

\* An epoch is passed over, or output out of its turn, only at a replica that outputs
\* some block twice: the two threads of one end of an epoch are all that can go wrong
\* (handleEpochStep, updateEpoch).
SkipsOnlyByRepeat == \A r \in Correct : InOrder(r) \/ Repeats(r)

\* Correct replicas deliver the same blocks in one order: of each its blocks from that
\* of epoch 0 on, up to where one comes out of its turn.
Ordered(d, n) == /\ \A j \in 1 .. n : d[j].epoch = j - 1
                 /\ n = Len(d) \/ d[n + 1].epoch # n
InTurn(d) == SubSeq(d, 1, CHOOSE n \in 0 .. Len(d) : Ordered(d, n))

AB == INSTANCE AtomicBroadcast WITH
          Correct <- Replica,
          Batch <- Block,
          submitted <- {[epoch |-> e, from |-> {i \in Replica : decided[e][i] = "yes"}] :
                           e \in {f \in Epoch : \A i \in Replica : decided[f][i] # "none"}},
          delivered <- [r \in Replica |-> IF r \in Correct THEN InTurn(delivered[r]) ELSE <<>>]

ImplementsAtomicBroadcast == AB!Spec

\* N - F correct replicas have made their proposals of e.
Begun(e) == Cardinality({i \in Correct : proposed[e][i] # None}) >= N - F
Ended(e) == \A r \in Correct : epoch[r] > e

\* An epoch in which N - F correct replicas have proposed ends everywhere, whoever
\* is late with the votes and values (tryOutput, "Vote false for all remaining"), unless
\* some replica outputs a block twice and passes an epoch over.
EpochsEnd == \A e \in Epoch : Begun(e) ~> Ended(e) \/ \E r \in Correct : Repeats(r)

\* Nothing is left to do: at correct replicas no thread is inside and no message is due,
\* and no agreement can be made.
AtRest ==
    /\ \A r \in Correct :
          /\ \A k \in Thread : thread[r][k].pc = "idle"
          /\ \A e \in Epoch, i \in Replica : e >= epoch[r] =>
                /\ proposed[e][i] # None /\ Sent(e, i) => r \in echoed[e][i]
                /\ Cardinality(echoed[e][i]) >= N - F =>
                       state[r][e][i] \notin {"ongoing", "accepted"}
                /\ decided[e][i] # "none" => state[r][e][i] \notin {"ongoing", "hasValue"}
    /\ \A e \in Epoch, i \in Replica :
          LET heard == {r \in Replica : votes[e][i][r] # "none"}
          IN  Cardinality(heard) >= N - F /\ heard \cap Correct # {} => decided[e][i] # "none"

\* The replicas never come to rest before the end of an epoch in which N - F correct
\* ones have proposed, unless one has output a block twice: no vote, value or look at
\* the epoch is missing that nobody is about to give, whatever several threads of a
\* replica leave to each other (tryOutput, handleEpochStep).
RestsBetweenEpochs ==
    AtRest => \/ \A e \in Epoch : Begun(e) => Ended(e)
              \/ \E r \in Correct : Repeats(r)

\* What is submitted is delivered.  The code does not have it: a replica with
\* nothing pending makes no proposal, and N - F are needed.
Delivery ==
    \A r \in Replica, t \in Tx :
        (r \in Correct /\ t \in submitted[r])
            ~> \/ epoch[r] > MaxEpoch
               \/ \E j \in 1 .. Len(delivered[r]) : t \in Content(delivered[r][j])
=============================================================================
