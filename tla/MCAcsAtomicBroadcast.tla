------------------------- MODULE MCAcsAtomicBroadcast -------------------------
(***************************************************************************)
(* AcsAtomicBroadcast on small instances.                                  *)
(***************************************************************************)
EXTENDS AcsAtomicBroadcast

Rank == CHOOSE f \in [Replica -> 1 .. N] : \A p, q \in Replica : p # q => f[p] # f[q]

CONSTANT Late        \* bound: the replica that is not in step with the others

\* bound: clients submit to each replica transactions of its own, to Late one.
CONSTANT Each        \* bound: how many
MCTx == Replica \X (1 .. Each)
MCClients == [r \in Replica |-> {r} \X IF r = Late THEN {1} ELSE 1 .. Each]

\* Clients that submit to all replicas (oksRequested of Client).
Everywhere == [r \in Replica |-> MCTx]

\* bound: in handleInput a thread of Late alone takes its time, if Late does not stop.
\* Another thread is out of the call before anything happens elsewhere; with the one that
\* handles the messages of Late the callers of Late may go on.
Slow == {Late} \cap Correct
Inside(r) == {k \in Thread : thread[r][k].pc # "idle"}
Busy == {r \in Replica : IF r \in Slow THEN "message" \in Inside(r) ELSE Inside(r) # {}}
BusyFirst == Busy # {} =>
    \E r \in Busy : /\ \E k \in IF r \in Slow THEN Thread ELSE Inside(r) :
                           thread'[r][k] # thread[r][k]
                    /\ \A s \in Busy : Rank[r] <= Rank[s]

\* bound: of its pending transactions a replica proposes the first.
FirstPending == \A r \in Replica, k \in Thread :
    thread'[r][k].pc = "claim" => \A t \in queue[r] : thread'[r][k].batch[2] <= t[2]

\* bound: clients submit their transactions in order, those of the other replicas before
\* messages are handled.
InTheirOrder == \A r \in Replica : \A t \in submitted'[r] \ submitted[r] :
    \A u \in Clients[r] \ submitted'[r] : t[2] < u[2]
SubmittedFirst ==
    LET todo == {r \in Replica \ {Late} : submitted[r] # Clients[r]} IN
    todo # {} /\ Busy = {} =>
        \E r \in todo : /\ submitted'[r] # submitted[r]
                        /\ \A s \in todo : Rank[r] <= Rank[s]

\* A message is quiet that brings no vote and ends no epoch; it commutes with what
\* happens elsewhere.
Voted(r, e) == \A i \in Replica : votes[e][i][r] # "none"
LastOf(r, e, i) == \A j \in Replica \ {i} : state[r][e][j] = "complete"
QuietSend(r, e, i) == proposed[e][i] # None /\ Sent(e, i) /\ r \notin echoed[e][i]
QuietBroadcast(r, e, i) ==
    /\ Cardinality(echoed[e][i]) >= N - F
    /\ \/ state[r][e][i] = "ongoing" /\ votes[e][i][r] # "none"
       \/ state[r][e][i] = "accepted" /\ ~LastOf(r, e, i)
QuietAgreement(r, e, i) ==
    /\ decided[e][i] # "none" /\ state[r][e][i] \in {"ongoing", "hasValue"}
    /\ ~LastOf(r, e, i)
    /\ decided[e][i] = "no" \/ Voted(r, e) \/ Cardinality(Accepted(r, e)) # N - F - 1

\* bound: quiet messages are received first, in an order of the replicas.
Quiet == {x \in Replica \X Epoch \X Replica :
    LET r == x[1]  e == x[2]  i == x[3] IN
    r \in Correct /\ e >= epoch[r] /\ (QuietSend(r, e, i) \/ QuietBroadcast(r, e, i) \/ QuietAgreement(r, e, i))}
Before(x, y) == \/ Rank[x[1]] < Rank[y[1]]
                \/ Rank[x[1]] = Rank[y[1]] /\ x[2] < y[2]
                \/ Rank[x[1]] = Rank[y[1]] /\ x[2] = y[2] /\ Rank[x[3]] <= Rank[y[3]]
Handled(r, e, i) == state'[r][e][i] # state[r][e][i] \/ r \in echoed'[e][i] \ echoed[e][i]
QuietFirst == Quiet # {} =>
    \E x \in Quiet : Handled(x[1], x[2], x[3]) /\ \A y \in Quiet : Before(x, y)

\* bound: of what is not about the proposal of Late, the other replicas receive what is
\* ready in an order of them and of the proposals; Late, in an order of the proposals;
\* agreements are made in an order of the proposals.  Of a later epoch than its own Late
\* receives messages when the others have ended it.
Others == Replica \ {Late}
Ready(r, e, i) ==
    /\ e >= epoch[r]
    /\ \/ Cardinality(echoed[e][i]) >= N - F /\ state[r][e][i] \in {"ongoing", "accepted"}
       \/ decided[e][i] # "none" /\ state[r][e][i] \in {"ongoing", "hasValue"}
ReadyElsewhere == {x \in Others \X Epoch \X Others : Ready(x[1], x[2], x[3])}
Decisions == {x \in {Late} \X Epoch \X Replica :
    /\ decided[x[2]][x[3]] = "none"
    /\ Cardinality({r \in Replica : votes[x[2]][x[3]][r] # "none"}) >= N - F}
StepsInOrder ==
    /\ \A x \in ReadyElsewhere : Handled(x[1], x[2], x[3]) => \A y \in ReadyElsewhere : Before(x, y)
    /\ \A e \in Epoch, i, j \in Others :
          Rank[i] < Rank[j] /\ Ready(Late, e, i) => ~Handled(Late, e, j)
    /\ \A e \in Epoch, i \in Replica : Handled(Late, e, i) /\ e > epoch[Late] =>
          \A r \in Others : epoch[r] > e
    /\ \A x \in Decisions : decided'[x[2]][x[3]] # "none" => \A y \in Decisions : Before(x, y)

\* bound: a replica that stops does so in the first epoch, or when it has proposed in the
\* second; it receives what there is in an order of the proposals.
StopsEarly == \A r \in faulty, e \in Epoch, i \in Replica : Handled(r, e, i) =>
    /\ e = 0
    /\ \A j \in Replica : Rank[j] < Rank[i] => ~QuietSend(r, e, j) /\ ~Ready(r, e, j)

\* bound: callers of Late go on when nothing quiet is left, or with its message thread.
Submitted == \A r \in Others : submitted[r] = Clients[r]

\* bound: what follows when a correct replica has output a block twice is left out; that
\* the blocks are the same and nothing is lost then is proved for all instances.
UntilRepeat == \A r \in Correct : ~Repeats(r)

Schedule ==
    /\ UntilRepeat /\ FirstPending /\ InTheirOrder /\ BusyFirst /\ SubmittedFirst
    /\ Busy = {} /\ Submitted => QuietFirst /\ (Quiet = {} => StepsInOrder /\ StopsEarly)
=============================================================================
