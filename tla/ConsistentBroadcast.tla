------------------------- MODULE ConsistentBroadcast -------------------------
(***************************************************************************)
(* What one instance of P/vbroadcast promises the layer above it (Alea's   *)
(* queues): the correct replicas that deliver all deliver one value, once, *)
(* and it is the proposer's input when the proposer is correct.  Nothing   *)
(* forces anybody to deliver: totality is not part of the promise.         *)
(***************************************************************************)
CONSTANTS Correct,          \* the replicas the promise is made to
          Value,
          None,
          ProposerCorrect   \* BOOLEAN

VARIABLES proposal,         \* the proposer's input, None before
          delivered         \* [Correct -> Value \cup {None}]

vars == <<proposal, delivered>>

Init == /\ proposal = None
        /\ delivered = [r \in Correct |-> None]

Propose(v) == /\ proposal = None
              /\ proposal' = v
              /\ UNCHANGED delivered

\* A step may also propose and deliver at once: with 2f+1 = 1 the proposer
\* completes the broadcast inside its own handleInput.
Deliver(r, v) == /\ delivered[r] = None
                 /\ \A s \in Correct : delivered[s] \in {None, v}
                 /\ proposal' \in IF proposal = None THEN {None} \cup Value
                                                     ELSE {proposal}
                 /\ ProposerCorrect => proposal' = v
                 /\ delivered' = [delivered EXCEPT ![r] = v]

Next == \E v \in Value : Propose(v) \/ \E r \in Correct : Deliver(r, v)

Spec == Init /\ [][Next]_vars
=============================================================================
