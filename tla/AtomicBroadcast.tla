--------------------------- MODULE AtomicBroadcast ---------------------------
(***************************************************************************)
(* What P/abc promises: the correct replicas deliver batches that were     *)
(* submitted, each once, in one order.                                     *)
(***************************************************************************)
EXTENDS Naturals, Sequences

CONSTANTS Correct, Batch

VARIABLES submitted,        \* SUBSET Batch
          delivered         \* [Correct -> Seq(Batch)]

vars == <<submitted, delivered>>

Init == /\ submitted = {}
        /\ delivered = [r \in Correct |-> <<>>]

Submit(b) == /\ submitted' = submitted \cup {b}
             /\ UNCHANGED delivered

\* A replica that is not ahead of the others delivers what they delivered; one
\* that is picks a batch it has not delivered.
Deliver(r, b) ==
    LET n == Len(delivered[r]) + 1
    IN  /\ b \in submitted
        /\ \A i \in 1 .. n - 1 : delivered[r][i] # b
        /\ \A s \in Correct : Len(delivered[s]) >= n => delivered[s][n] = b
        /\ delivered' = [delivered EXCEPT ![r] = Append(@, b)]
        /\ UNCHANGED submitted

Next == \E b \in Batch : Submit(b) \/ \E r \in Correct : Deliver(r, b)

Spec == Init /\ [][Next]_vars
=============================================================================
