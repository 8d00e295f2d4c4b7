--------------------------- MODULE BinaryAgreement ---------------------------
(***************************************************************************)
(* What one instance of P/binaryagreement promises the layer above it      *)
(* (Alea's epochs, the subset protocols): the correct replicas that decide *)
(* decide one bit, once, and a correct replica proposed it.                *)
(***************************************************************************)
CONSTANT Correct            \* the replicas the promise is made to

VARIABLES proposed,         \* [Correct -> SUBSET BOOLEAN], {} before the input
          decided           \* [Correct -> SUBSET BOOLEAN], {} before the decision

vars == <<proposed, decided>>

Init == /\ proposed = [r \in Correct |-> {}]
        /\ decided = [r \in Correct |-> {}]

Propose(r, b) == /\ proposed[r] = {}
                 /\ proposed' = [proposed EXCEPT ![r] = {b}]
                 /\ UNCHANGED decided

Decide(r, b) == /\ decided[r] = {}
                /\ \A s \in Correct : decided[s] \subseteq {b}
                /\ \E s \in Correct : b \in proposed[s]
                /\ decided' = [decided EXCEPT ![r] = {b}]
                /\ UNCHANGED proposed

Next == \E r \in Correct, b \in BOOLEAN : Propose(r, b) \/ Decide(r, b)

Spec == Init /\ [][Next]_vars
=============================================================================
