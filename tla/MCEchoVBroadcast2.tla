-------------------------- MODULE MCEchoVBroadcast2 --------------------------
(***************************************************************************)
(* EchoVBroadcast2 on small instances.  Replicas are model values; those   *)
(* that play the same part are interchangeable, and so are the values.     *)
(***************************************************************************)
EXTENDS EchoVBroadcast2, TLC

Symm == Permutations(Replica \ (Faulty \cup {Proposer})) \cup Permutations(Value)
=============================================================================
