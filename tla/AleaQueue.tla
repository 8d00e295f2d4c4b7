------------------------------ MODULE AleaQueue ------------------------------
(***************************************************************************)
(* The operations of P/abc/alea/queue/PriorityQueue.java, each under the   *)
(* queue's own lock, as operators on a record: head, the batch of each     *)
(* slot (None where nothing was enqueued) and the slots marked removed.    *)
(* A slot is never taken out of the map.                                   *)
(***************************************************************************)
EXTENDS Integers

CONSTANTS Slot,             \* the priorities a proposer uses, 0 .. MaxSlot
          Batch,
          None

EmptyQueue == [head |-> 0, slots |-> [s \in Slot |-> None], removed |-> {}]

Present(q, s) == s \in Slot /\ q.slots[s] # None
Peek(q) == Present(q, q.head)

\* putIfAbsent: the batch that came first stays.
Enqueue(q, s, b) == [q EXCEPT !.slots[s] = IF @ = None THEN b ELSE @]

\* The loop "while head is present and removed, head += 1".
Skipped(q, s) == Present(q, s) /\ s \in q.removed
\* Mutant: an if in the place of the loop.
AdvanceHeadOnce(q) == IF Skipped(q, q.head) THEN [q EXCEPT !.head = @ + 1] ELSE q

AdvanceHead(q) ==
    [q EXCEPT !.head =
        CHOOSE h \in Slot \cup {s + 1 : s \in Slot} :
                           /\ h >= q.head
                           /\ ~Skipped(q, h)
                           /\ \A s \in q.head .. h - 1 : Skipped(q, s)]

\* dequeue(long), for a slot that is present.
DequeueSlot(q, s) == AdvanceHead([q EXCEPT !.removed = @ \cup {s}])

\* dequeue(byte[]): the first slot that holds the batch, removed before or not,
\* and no other.
Holding(q, b) == {s \in Slot : q.slots[s] = b}
\* Mutant: the head stays where it is.
DequeueBatchInPlace(q, b) == [q EXCEPT !.removed = @ \cup Holding(q, b)]

DequeueBatch(q, b) ==
    IF Holding(q, b) = {} THEN q
    ELSE LET s == CHOOSE s \in Holding(q, b) : \A t \in Holding(q, b) : s <= t
             p == [q EXCEPT !.removed = @ \cup {s}]
         IN  IF s = q.head THEN AdvanceHead(p) ELSE p
=============================================================================
