------------------------------- MODULE MCAlea -------------------------------
(***************************************************************************)
(* Alea on small instances.  Batches are interchangeable; replicas are not, *)
(* the leader of an epoch is a number.                                     *)
(***************************************************************************)
EXTENDS Alea, TLC

MCSlot == 0 .. MaxSlot
Symm == Permutations(Batch)

\* bound: the batches are replicas' numbers, and batch b is submitted at b.
OwnBatch == \A p \in Replica : Proposals(p) \subseteq {p}

\* bound: batch 1 is everywhere before batch 0 is proposed, so that every replica
\* has something to agree on; and replica 0 stops before it agrees on anything.
OneFirst == proposed[0] # <<>> => \A r \in Replica : <<1, 0>> \in bcDelivered[r]
ZeroStops == \A e \in Epoch : baInput[e][0] = {} /\ baDecided[e][0] = {}

\* bound: of the replicas that may miss the broadcast of the one that stops, the
\* last is one.
LastMisses == <<0, 0>> \notin bcDelivered[N - 1]

\* bound: an instance starts with its end.  Without DELAY_BC nobody looks whether
\* it has started.
StartsUnseen == \A r \in Replica : bcInstances[r] \subseteq {r} \X Slot
=============================================================================
