--------------------------- MODULE EchoVBroadcast2 ---------------------------
(***************************************************************************)
(* One instance of the verifiable consistent broadcast the replica runs,   *)
(* P/vbroadcast/echo/EchoVBroadcast2.java, at every replica: the proposer  *)
(* multicasts SEND(hash(input)), every replica signs the digest once and   *)
(* returns an ECHO, 2f+1 ECHOs are combined into a threshold signature     *)
(* and FINAL(input, signature) is multicast; whoever verifies it delivers. *)
(*                                                                         *)
(* A digest is its value.  A threshold signature is the fact that it is,   *)
(* or is not, made of 2f+1 good shares of distinct replicas over a value.  *)
(* A handler runs to its end in one step, the messages a replica sends to  *)
(* itself handled inside, as in send(); the exception is handleSendMessage,*)
(* whose test and set of echoSent are two operations that the worker       *)
(* threads of a replica may interleave.                                    *)
(*                                                                         *)
(* Messages are never removed: a handler that meets one again returns      *)
(* early, so a second delivery is a stuttering step.                       *)
(*                                                                         *)
(* Alea removes an instance that has output; the next message makes a new  *)
(* one, whose flags are clear.  output is what Alea keeps: the queue slot  *)
(* of the instance, which is filled once.                                  *)
(***************************************************************************)
EXTENDS Integers, FiniteSets

CONSTANTS
    Replica,
    Faulty,        \* the replicas that are not correct
    Proposer,      \* proposerId
    F,             \* networkInfo.getF()
    Value,
    None,
    QuickSigVer,   \* Utils.QUICK_SIG_VER: ECHO shares are not verified
    Workers,       \* threads of one replica that may run handleSendMessage
    Removal,       \* instances that have output are removed, and made again
    FaultModel     \* what a faulty replica does: "stop", "badshare" or "arbitrary"

ASSUME ReplicaAssumption == IsFiniteSet(Replica) /\ Faulty \subseteq Replica
                            /\ Proposer \in Replica
ASSUME FAssumption == F \in Nat
ASSUME ValueAssumption == None \notin Value
ASSUME ModeAssumption == /\ QuickSigVer \in BOOLEAN
                         /\ Workers \in Nat \ {0}
                         /\ Removal \in BOOLEAN
                         /\ FaultModel \in {"stop", "badshare", "arbitrary"}

Correct == Replica \ Faulty
\* Mutants of Quorum: one short of the intersection, one too many to be reached.
QuorumTooSmall == F + 1
QuorumTooLarge == 2 * F + 2

Quorum == 2 * F + 1

\* The replicas that run the code.  A replica that stops, and one that signs
\* garbage (Utils.BYZ), runs it too: it is only owed no fairness.
Running == IF FaultModel = "arbitrary" THEN Correct ELSE Replica

Share == {"none", "good", "bad"}
\* The share a replica running the code signs with.
ShareOf(r) == IF r \in Faulty /\ FaultModel = "badshare" THEN "bad" ELSE "good"

VARIABLES
    input,         \* the proposer's input; None is sendSent = false
    signing,       \* [Replica -> SUBSET Value]: SENDs past the echoSent test
    echoSent,      \* [Replica -> BOOLEAN]
    echoed,        \* [Replica -> SUBSET Value]: ECHOs sent, hence digests signed
    echoMessages,  \* [Replica -> Share]: the proposer's accepted ECHOs
    finalSent,     \* the proposer's flag
    finals,        \* FINALs multicast by a proposer running the code
    terminated,    \* [Replica -> BOOLEAN]
    output         \* [Replica -> Value \cup {None}]

vars == <<input, signing, echoSent, echoed, echoMessages, finalSent, finals,
          terminated, output>>

FinalMessage == [value : Value, valid : BOOLEAN]

TypeOK ==
    /\ input \in Value \cup {None}
    /\ signing \in [Replica -> SUBSET Value]
    /\ echoSent \in [Replica -> BOOLEAN]
    /\ echoed \in [Replica -> SUBSET Value]
    /\ echoMessages \in [Replica -> Share]
    /\ finalSent \in BOOLEAN
    /\ finals \in SUBSET FinalMessage
    /\ terminated \in [Replica -> BOOLEAN]
    /\ output \in [Replica -> Value \cup {None}]

Init ==
    /\ input = None
    /\ signing = [r \in Replica |-> {}]
    /\ echoSent = [r \in Replica |-> FALSE]
    /\ echoed = [r \in Replica |-> {}]
    /\ echoMessages = [r \in Replica |-> "none"]
    /\ finalSent = FALSE
    /\ finals = {}
    /\ terminated = [r \in Replica |-> FALSE]
    /\ output = [r \in Replica |-> None]
-----------------------------------------------------------------------------
\* The replicas whose share over v exists.  A replica with arbitrary faults is
\* counted for every value; one that signs garbage for none.
Signers(v) == {r \in Running : v \in echoed[r] /\ ShareOf(r) = "good"}
                  \cup (Replica \ Running)
Certified(v) == Cardinality(Signers(v)) >= Quorum

\* Mutants of HandleFinal: the message is stored, or its signature not verified.
HandleFinalWhole(r, m) ==
    /\ ~terminated[r]
    /\ terminated' = [terminated EXCEPT ![r] = TRUE]
    /\ output' = IF m.valid THEN [output EXCEPT ![r] = m] ELSE output
HandleFinalUnverified(r, m) ==
    /\ ~terminated[r]
    /\ terminated' = [terminated EXCEPT ![r] = TRUE]
    /\ output' = [output EXCEPT ![r] = m.value]

\* handleFinalMessage.  terminated is latched before the signature is looked
\* at, so a FINAL that does not verify is consumed without an output.  The
\* output of an instance that was made again finds its slot filled.
HandleFinal(r, m) ==
    /\ ~terminated[r]
    /\ terminated' = [terminated EXCEPT ![r] = TRUE]
    /\ output' = IF m.valid /\ output[r] = None
                     THEN [output EXCEPT ![r] = m.value] ELSE output

\* The end of handleEchoMessage, once the ECHOs accepted are em.  combine()
\* does not check its shares: one bad share makes a signature nobody verifies.
Accepted(em) == {r \in Replica : em[r] # "none"}
CombineValid(em) == \A r \in Accepted(em) : em[r] = "good"

AcceptEcho(v, em) ==
    /\ echoMessages' = em
    /\ \/ /\ finalSent \/ Cardinality(Accepted(em)) < Quorum
          /\ UNCHANGED <<finalSent, finals, terminated, output>>
       \/ /\ ~finalSent
          /\ Cardinality(Accepted(em)) >= Quorum
          /\ finalSent' = TRUE
          /\ LET m == [value |-> v, valid |-> CombineValid(em)]
             IN  /\ finals' = finals \cup {m}
                 /\ \/ HandleFinal(Proposer, m)
                    \/ /\ terminated[Proposer]
                       /\ UNCHANGED <<terminated, output>>

\* handleInput at the proposer: SEND, its own ECHO and the acceptance of that
\* ECHO happen in the one call.  With QUICK_SIG_VER off the proposer's own
\* share is verified like any other.
OwnEcho == IF QuickSigVer \/ ShareOf(Proposer) = "good"
               THEN [echoMessages EXCEPT ![Proposer] = ShareOf(Proposer)]
               ELSE echoMessages

HandleInput(v) ==
    /\ Proposer \in Running
    /\ input = None
    /\ input' = v
    /\ echoSent' = [echoSent EXCEPT ![Proposer] = TRUE]
    /\ echoed' = [echoed EXCEPT ![Proposer] = @ \cup {v}]
    /\ AcceptEcho(v, OwnEcho)
    /\ UNCHANGED signing

\* handleSendMessage up to the test of echoSent.  A faulty proposer may send
\* any value to anybody.
SendArrives(v) == IF Proposer \in Running THEN v = input ELSE v \in Value

BeginHandleSend(r, v) ==
    /\ r \in Running \ {Proposer}
    /\ SendArrives(v)
    /\ ~echoSent[r]
    /\ v \notin signing[r]
    /\ Cardinality(signing[r]) < Workers
    /\ signing' = [signing EXCEPT ![r] = @ \cup {v}]
    /\ UNCHANGED <<input, echoSent, echoed, echoMessages, finalSent, finals,
                   terminated, output>>

\* The rest of handleSendMessage: set echoSent, sign, ECHO to the proposer.
FinishHandleSend(r, v) ==
    /\ v \in signing[r]
    /\ signing' = [signing EXCEPT ![r] = @ \ {v}]
    /\ echoSent' = [echoSent EXCEPT ![r] = TRUE]
    /\ echoed' = [echoed EXCEPT ![r] = @ \cup {v}]
    /\ UNCHANGED <<input, echoMessages, finalSent, finals, terminated, output>>

\* handleEchoMessage at the proposer, for the ECHO of r with share k.  An ECHO
\* over another digest and, unless QUICK_SIG_VER, a bad share is ignored; so is
\* every ECHO once the instance was removed, since the new one has sent nothing
\* (the proposer's echoSent is set with its sendSent).
EchoArrives(r, k) == IF r \in Running THEN input \in echoed[r] /\ k = ShareOf(r)
                                      ELSE k \in {"good", "bad"}

\* Mutant: the share is accepted whatever QUICK_SIG_VER says.
HandleEchoUnverified(r, k) ==
    /\ Proposer \in Running
    /\ input # None /\ echoSent[Proposer]
    /\ r # Proposer
    /\ echoMessages[r] = "none"
    /\ EchoArrives(r, k)
    /\ AcceptEcho(input, [echoMessages EXCEPT ![r] = k])
    /\ UNCHANGED <<input, signing, echoSent, echoed>>

HandleEcho(r, k) ==
    /\ Proposer \in Running
    /\ input # None /\ echoSent[Proposer]
    /\ r # Proposer
    /\ echoMessages[r] = "none"
    /\ EchoArrives(r, k)
    /\ QuickSigVer \/ k = "good"
    /\ AcceptEcho(input, [echoMessages EXCEPT ![r] = k])
    /\ UNCHANGED <<input, signing, echoSent, echoed>>

\* handleFinalMessage at a replica, for the proposer's FINAL ...
HandleProposerFinal(r) ==
    /\ r \in Running \ {Proposer}
    /\ \E m \in finals : HandleFinal(r, m)
    /\ UNCHANGED <<input, signing, echoSent, echoed, echoMessages, finalSent, finals>>

\* ... and for the FINAL of a faulty replica: the handler does not look at the
\* sender, only at the signature, and a good one needs 2f+1 shares.  The ECHOs
\* go to the proposer alone: who is not it can only pass its signature on.
HandleFaultyFinal(r) ==
    /\ FaultModel = "arbitrary" /\ Faulty # {}
    /\ r \in Correct
    /\ \E m \in FinalMessage :
          /\ m.valid => Certified(m.value) /\ (Proposer \in Correct => m \in finals)
          /\ HandleFinal(r, m)
    /\ UNCHANGED <<input, signing, echoSent, echoed, echoMessages, finalSent, finals>>

\* The end of Alea.handleVBroadcastStep: the instance is removed, and what it
\* remembered of its SEND and FINAL with it.  (A thread of the old instance that
\* is past the test of echoSent is waited for.)
RemoveInstance(r) ==
    /\ Removal
    /\ r \in Running
    /\ terminated[r] /\ output[r] # None
    /\ signing[r] = {}
    /\ terminated' = [terminated EXCEPT ![r] = FALSE]
    /\ echoSent' = [echoSent EXCEPT ![r] = FALSE]
    /\ UNCHANGED <<input, signing, echoed, echoMessages, finalSent, finals, output>>

HandleSend(r) == \E v \in Value : BeginHandleSend(r, v) \/ FinishHandleSend(r, v)

Next ==
    \/ \E v \in Value : HandleInput(v)
    \/ \E r \in Replica :
          \/ HandleSend(r)
          \/ \E k \in {"good", "bad"} : HandleEcho(r, k)
          \/ HandleProposerFinal(r)
          \/ HandleFaultyFinal(r)
          \/ RemoveInstance(r)

Spec == Init /\ [][Next]_vars

\* Correct replicas are scheduled and TCP delivers between correct replicas;
\* nothing is assumed of a faulty replica, or of when there is an input.
Fairness ==
    \A r \in Correct :
        /\ Proposer \in Correct => WF_vars(HandleSend(r))
        /\ Proposer \in Correct => WF_vars(HandleEcho(r, "good"))
        /\ Proposer \in Correct => WF_vars(HandleProposerFinal(r))

FairSpec == Spec /\ Fairness
-----------------------------------------------------------------------------
\* A correct replica never signs two digests of one instance (handleSendMessage, "already
\* echoed").  The code has it under a proposer that runs the code; under an arbitrary one,
\* with several worker threads or with instances that are removed, it does not.
SignOnce == \A r \in Correct : \A v, w \in echoed[r] : v = w

\* No two correct replicas deliver different values: the quorums behind two
\* threshold signatures meet in a correct replica, which signed only once.
Consistency ==
    \A r, s \in Correct : output[r] # None /\ output[s] # None => output[r] = output[s]

\* With a correct proposer only its input can be delivered, whatever FINALs
\* the faulty replicas send.
Integrity == Proposer \in Correct => \A r \in Correct : output[r] \in {None, input}

\* A proposer multicasts FINAL only on 2f+1 valid ECHOs (handleEchoMessage,
\* "upon receiving 2*f + 1 valid Echo messages").
FinalBacked == \A m \in finals : m.valid

\* An instance that ignores further FINALs has decided (handleFinalMessage, "ignore if
\* already decided").  The code does not have it: a FINAL that does not verify is enough.
TerminatedDecided == \A r \in Correct : terminated[r] => output[r] # None

\* Once a correct proposer has an input every correct replica delivers it, but one that
\* has consumed a FINAL that does not verify (handleFinalMessage): nobody else suffers.
Totality ==
    (Proposer \in Correct /\ input # None)
        ~> \A r \in Correct : output[r] = input \/ (terminated[r] /\ output[r] = None)

\* The implementation of the abstract broadcast.
CB == INSTANCE ConsistentBroadcast WITH
          ProposerCorrect <- Proposer \in Correct,
          proposal <- input,
          delivered <- [r \in Correct |-> output[r]]

\* Every step of the instance is a step of ConsistentBroadcast, or none of its.
ImplementsConsistentBroadcast == CB!Spec
=============================================================================
