-------------------------- MODULE MCBrachaBroadcast2 --------------------------
(***************************************************************************)
(* BrachaBroadcast2 on small instances.  What a replica does with an ECHO  *)
(* or a READY depends on its own fields only and nothing is ever taken     *)
(* back, so receptions at different replicas commute, and so do those at   *)
(* one replica that cross no threshold; Schedule fixes their order.        *)
(***************************************************************************)
EXTENDS BrachaBroadcast2

Rank == CHOOSE f \in [Replica -> 1 .. N] :
            /\ f[Proposer] = 1
            /\ \A p, q \in Replica : p # q => f[p] # f[q]

\* bound: what an arbitrary replica sends.  It may have made the blocks of all
\* places itself; which place a block takes makes no difference as long as the
\* sender has one, so there is one of its own and one of another.
Other == CHOOSE r \in Replica : Rank[r] = N
MCSend == [root : Value, size : {"right", "other"}, sound : {TRUE}]
              \cup {[root |-> Junk, size |-> "right", sound |-> k] : k \in BOOLEAN}
MCEcho == [root : Value, size : {"right"}, block : {Proposer, Other}, content : {"good"}]
              \cup [root : Value, size : {"right"}, block : {Proposer}, content : {"bad"}]
              \cup [root : {Junk}, size : {"right"}, block : {Proposer}, content : {"good"}]

\* bound: where a replica is arbitrary, first every replica gets its SEND, an unsound
\* one in place of none, and who gets which is fixed up to the names; then one replica
\* after the other receives its ECHOs; then READYs are received.
Kind(m) == IF ~m.sound THEN 4 ELSE IF m.root = Junk THEN 3
           ELSE IF m.size = "right" THEN 1 ELSE 2
SendsReceived == \A r \in Correct : local[r].echoed # None
EchosReceived(r) == \A q \in Correct : EchosFrom(q) # {} => q \in local[r].echos
SendTurn(r) == arbitrary => \A q \in Correct : Rank[q] < Rank[r] =>
                   /\ local[q].echoed # None
                   /\ Kind(local[q].echoed) <= Kind(local'[r].echoed)
EchoTurn(r) == arbitrary => /\ SendsReceived
                            /\ \A q \in Correct : Rank[q] < Rank[r] => EchosReceived(q)
                            /\ \A q \in Correct : Rank[q] > Rank[r] => local[q].echos \subseteq {q}
ReadyTurn == arbitrary => SendsReceived /\ \A r \in Correct : EchosReceived(r)

GetsSend(r) == local'[r].echoed # local[r].echoed
GetsEcho(r, q) == q # r /\ q \in local'[r].echos \ local[r].echos
GetsReady(r, q) == q # r /\ local'[r].readies[q] # local[r].readies[q]
InTurn ==
    \A r \in Running :
        /\ GetsSend(r) => SendTurn(r)
        /\ \A q \in Replica : (GetsEcho(r, q) => EchoTurn(r)) /\ (GetsReady(r, q) => ReadyTurn)

\* bound: an ECHO of an arbitrary replica is received before all others or as the one
\* that completes n - f blocks; between the two it has the same effect as before.  The
\* proposer echoes a root that it has sent.  Its READY is received when it brings an
\* output, until which it is stored.
Echoing(v) == {r \in Correct : \E e \in EchosFrom(r) : e.root = v}
FaultyInTime == arbitrary =>
    \A r \in Correct, q \in faulty :
        LET L == local[r]  M == local'[r] IN
        /\ GetsEcho(r, q) =>
              /\ L.echos \subseteq {r} \/ M.readySent # L.readySent
              /\ q = Proposer => \A v \in Root : M.blocks[v] # L.blocks[v] => Echoing(v) # {}
        /\ GetsReady(r, q) => M.output # L.output

\* A message of a replica that runs the code and crosses no threshold is only stored: a
\* READY that brings no output, and an ECHO that neither fixes a length nor
\* completes n - f blocks, when no block can come in its place.
QuietReady(r, q) ==
    /\ ReadyTurn
    /\ q \in Running \ {r} /\ local[r].readies[q] = None /\ ReadiesFrom(q) # {}
    /\ \A v \in ReadiesFrom(q) :
           \/ local[r].output # None
           \/ Cardinality({s \in Replica : local[r].readies[s] = v}) < 2 * F
QuietEcho(r, q) ==
    /\ EchoTurn(r)
    /\ q \in Running \ (local[r].echos \cup {r})
    /\ \E e \in EchosFrom(q) :
           /\ arbitrary => /\ local[r].sizes[e.root] # None
                           /\ faulty \subseteq local[r].echos \/ local[r].echos \ {r} # {}
           /\ local[r].readySent \/ Cardinality(Received(local[r], e.root)) < BlocksNeeded - 1

\* bound: quiet messages are received first and in an order of the replicas; one
\* that stops need not receive them, so the others do not wait for it.
QuietAt(S) == {x \in S \X Replica : QuietReady(x[1], x[2]) \/ QuietEcho(x[1], x[2])}
Before(x, y) == Rank[x[1]] < Rank[y[1]] \/ (x[1] = y[1] /\ Rank[x[2]] <= Rank[y[2]])
QuietFirst ==
    LET quiet == QuietAt(IF \A r \in faulty : local'[r] = local[r] THEN Correct ELSE faulty)
    IN  quiet # {} => \E x \in quiet : /\ GetsEcho(x[1], x[2]) \/ GetsReady(x[1], x[2])
                                       /\ \A y \in quiet : Before(x, y)

\* bound: the values differ in their names only, so the first to be sent is fixed.
FirstValue ==
    LET one == CHOOSE v \in Value : TRUE IN
    /\ input' \in {None, one}
    /\ \A r \in Correct : (\A q \in Correct : local[q].echoed = None) /\ GetsSend(r)
                              => local'[r].echoed.root \in {one, Junk}

Schedule == FaultyInTime /\ FirstValue /\ InTurn /\ QuietFirst
=============================================================================
