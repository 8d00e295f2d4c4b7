----------------------- MODULE AleaTryProgress_proofs -----------------------
(***************************************************************************)
(* For every number of threads: the state machine is run by one of them at *)
(* a time, and no event is left with nobody to look at it.  So the counter *)
(* loses nothing, however the threads interleave.                          *)
(***************************************************************************)
EXTENDS AleaTryProgress, FiniteSetTheorems, TLAPS

\* waitingForLock counts the threads between its increment and its decrement.
Waiting == {t \in Thread : pc[t] \in {"lock", "dec"}}

IInv ==
    /\ pc \in [Thread -> Label] /\ pending \subseteq Thread /\ lock \subseteq Thread
    /\ waitingForLock = Cardinality(Waiting)
    /\ \A t \in Thread : Running(t) => lock = {t}
    /\ EventSeen

\* A thread waits when the counter is not 0.
LEMMA SomebodyWaits ==
    ASSUME waitingForLock = Cardinality(Waiting), waitingForLock # 0
    PROVE  \E t \in Thread : pc[t] \in {"lock", "dec"}
  <1>1. Waiting # {}
    BY FS_EmptySet
  <1> QED BY <1>1 DEF Waiting

\* The counter follows the set of waiting threads, one at a time.
LEMMA WaitingChanges ==
    ASSUME NEW t \in Thread
    PROVE  /\ IsFiniteSet(Waiting) /\ Cardinality(Waiting) \in Nat
           /\ Cardinality(Waiting) <= Cardinality(Thread)
           /\ t \notin Waiting => Cardinality(Waiting \cup {t}) = Cardinality(Waiting) + 1
           /\ t \in Waiting => Cardinality(Waiting \ {t}) = Cardinality(Waiting) - 1
  <1>1. IsFiniteSet(Waiting) /\ Cardinality(Waiting) <= Cardinality(Thread)
    BY ThreadAssumption, FS_Subset DEF Waiting
  <1> QED BY <1>1, FS_CardinalityType, FS_AddElement, FS_RemoveElement

\* One step of one thread.
LEMMA ThreadStep ==
    ASSUME IInv, NEW t \in Thread, Step(t)
    PROVE  IInv'
  <1> USE DEF Label, Goto
  <1>1. CASE Publish(t)
    <2>1. Waiting' = Waiting
      BY <1>1 DEF Publish, IInv, Waiting
    <2> QED BY <1>1, <2>1 DEF Publish, IInv, Running, EventSeen, WillLook
  <1>2. CASE Check(t)
    <2>1. Waiting' = Waiting
      BY <1>2 DEF Check, IInv, Waiting
    <2> QED BY <1>2, <2>1 DEF Check, IInv, Running, EventSeen, WillLook
  <1>3. CASE Test(t)
    <2>1. Waiting' = Waiting
      BY <1>3 DEF Test, IInv, Waiting
    <2>2. EventSeen'
      <3>1. CASE waitingForLock = 0
        BY <1>3, <3>1 DEF Test, IInv, EventSeen, WillLook
      <3>2. CASE waitingForLock # 0
        <4>1. PICK u \in Thread : pc[u] \in {"lock", "dec"}
          BY <3>2, SomebodyWaits DEF IInv
        <4> QED BY <1>3, <4>1 DEF Test, IInv, EventSeen, WillLook
      <3> QED BY <3>1, <3>2
    <2> QED BY <1>3, <2>1, <2>2 DEF Test, IInv, Running
  <1>4. CASE Inc(t)
    <2>1. Waiting' = Waiting \cup {t} /\ t \notin Waiting
      BY <1>4 DEF Inc, IInv, Waiting
    <2>2. waitingForLock' = Cardinality(Waiting')
      BY <1>4, <2>1, WaitingChanges DEF Inc, IInv
    <2> QED BY <1>4, <2>2 DEF Inc, IInv, Running, EventSeen, WillLook
  <1>5. CASE Lock(t)
    <2>1. Waiting' = Waiting
      BY <1>5 DEF Lock, IInv, Waiting
    <2> QED BY <1>5, <2>1 DEF Lock, IInv, Running, EventSeen, WillLook
  <1>6. CASE Dec(t)
    <2>1. Waiting' = Waiting \ {t} /\ t \in Waiting
      BY <1>6 DEF Dec, IInv, Waiting
    <2>2. waitingForLock' = Cardinality(Waiting')
      BY <1>6, <2>1, WaitingChanges DEF Dec, IInv
    <2> QED BY <1>6, <2>2 DEF Dec, IInv, Running, EventSeen, WillLook
  <1>7. CASE Retest(t)
    <2>1. Waiting' = Waiting
      BY <1>7 DEF Retest, IInv, Waiting
    <2>2. EventSeen'
      <3>1. CASE waitingForLock = 0
        BY <1>7, <3>1 DEF Retest, IInv, EventSeen, WillLook
      <3>2. CASE waitingForLock # 0
        <4>1. PICK u \in Thread : pc[u] \in {"lock", "dec"}
          BY <3>2, SomebodyWaits DEF IInv
        <4> QED BY <1>7, <4>1 DEF Retest, IInv, EventSeen, WillLook
      <3> QED BY <3>1, <3>2
    <2> QED BY <1>7, <2>1, <2>2 DEF Retest, IInv, Running
  <1>8. CASE Run(t)
    <2>1. Waiting' = Waiting
      BY <1>8 DEF Run, IInv, Waiting
    <2> QED BY <1>8, <2>1 DEF Run, IInv, Running, EventSeen, WillLook
  <1>9. CASE Unlock(t)
    <2>1. Waiting' = Waiting
      BY <1>9 DEF Unlock, IInv, Waiting
    <2> QED BY <1>9, <2>1 DEF Unlock, IInv, Running, EventSeen, WillLook
  <1> QED BY <1>1, <1>2, <1>3, <1>4, <1>5, <1>6, <1>7, <1>8, <1>9 DEF Step

\* The invariant of the protocol.
LEMMA Invariant == Spec => []IInv
  <1>1. Init => IInv
    <2>1. Init => Waiting = {}
      BY DEF Init, Waiting
    <2> QED BY <2>1, FS_EmptySet DEF Init, IInv, Label, Running, EventSeen
  <1>2. IInv /\ [Next]_vars => IInv'
    <2>1. IInv /\ UNCHANGED vars => IInv'
      BY DEF vars, IInv, Waiting, Running, EventSeen, WillLook
    <2> QED BY <2>1, ThreadStep DEF Next
  <1> QED BY <1>1, <1>2, PTL DEF Spec

\* The counter is never negative, nor more than the threads there are.
THEOREM TypeCorrect == Spec => []TypeOK
  <1>1. IInv => TypeOK
    <2> SUFFICES ASSUME IInv PROVE waitingForLock \in 0 .. Cardinality(Thread)
      BY DEF IInv, TypeOK
    <2>1. /\ IsFiniteSet(Waiting) /\ Cardinality(Waiting) <= Cardinality(Thread)
          /\ Cardinality(Thread) \in Nat /\ Cardinality(Waiting) \in Nat
      BY ThreadAssumption, FS_Subset, FS_CardinalityType DEF Waiting
    <2> QED BY <2>1 DEF IInv
  <1> QED BY <1>1, Invariant, PTL

\* agreementStateLock keeps two threads out of the state machine.
THEOREM OneThreadRuns == Spec => []OneRuns
  <1>1. IInv => OneRuns
    BY DEF IInv, OneRuns
  <1> QED BY <1>1, Invariant, PTL

\* "The hack that should do the trick most of the time" always does: an event
\* that was published has a thread that will look at it.
THEOREM EventsAreSeen == Spec => []EventSeen
  <1>1. IInv => EventSeen
    BY DEF IInv
  <1> QED BY <1>1, Invariant, PTL
=============================================================================
