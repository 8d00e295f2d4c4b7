--------------------------- MODULE AleaTryProgress ---------------------------
(***************************************************************************)
(* The thread-level protocol of Alea.tryProgress at one replica.  A worker *)
(* thread that enqueued a batch or moved an agreement calls tryProgress,   *)
(* which must run the agreement state machine after that event, unless     *)
(* some other thread is sure to.  waitingForLock is the counter the code   *)
(* calls "a hack that should do the trick most of the time".               *)
(*                                                                         *)
(* An event is pending from the moment a thread publishes it until the     *)
(* state machine looks at the queues and agreements, in the body of the    *)
(* lock.  The state machine looks again until it finds nothing to do.      *)
(***************************************************************************)
EXTENDS Integers, FiniteSets

CONSTANT Thread

ASSUME ThreadAssumption == IsFiniteSet(Thread)

VARIABLES
    pc,               \* [Thread -> Label]
    pending,          \* the threads whose events have not been looked at
    waitingForLock,
    lock              \* the threads that hold agreementStateLock

vars == <<pc, pending, waitingForLock, lock>>

Label == {"idle", "check", "test", "inc", "lock", "dec", "retest", "run", "unlock", "done"}

TypeOK == /\ pc \in [Thread -> Label]
          /\ pending \subseteq Thread
          /\ waitingForLock \in 0 .. Cardinality(Thread)
          /\ lock \subseteq Thread

Init == /\ pc = [t \in Thread |-> "idle"]
        /\ pending = {}
        /\ waitingForLock = 0
        /\ lock = {}

Goto(t, from, to) == pc[t] = from /\ pc' = [pc EXCEPT ![t] = to]

\* queue.enqueue, or the handler of the binary agreement.
Publish(t) == /\ Goto(t, "idle", "check")
              /\ pending' = pending \cup {t}
              /\ UNCHANGED <<waitingForLock, lock>>

\* if (!agreementState.canProgress()) return.  The state may be able to move
\* without a new event, and it is read without the lock: while another thread
\* moves it, the answer may be that of the state before.
Check(t) == /\ \/ Goto(t, "check", "test")
               \/ /\ pending = {} \/ \E u \in Thread : pc[u] = "run"
                  /\ Goto(t, "check", "done")
            /\ UNCHANGED <<pending, waitingForLock, lock>>

\* Mutant of Test: also gives up when the lock is held.
TestTryLock(t) == /\ Goto(t, "test", IF waitingForLock = 0 /\ lock = {} THEN "inc" ELSE "done")
                  /\ UNCHANGED <<pending, waitingForLock, lock>>

\* if (waitingForLock.get() == 0)
Test(t) == /\ Goto(t, "test", IF waitingForLock = 0 THEN "inc" ELSE "done")
           /\ UNCHANGED <<pending, waitingForLock, lock>>

\* waitingForLock.incrementAndGet()
Inc(t) == /\ Goto(t, "inc", "lock")
          /\ waitingForLock' = waitingForLock + 1
          /\ UNCHANGED <<pending, lock>>

\* Mutant of Lock: does not wait for the holder.
LockAnyway(t) == /\ Goto(t, "lock", "dec")
                 /\ lock' = lock \cup {t}
                 /\ UNCHANGED <<pending, waitingForLock>>

\* agreementStateLock.lock()
Lock(t) == /\ Goto(t, "lock", "dec")
           /\ lock = {}
           /\ lock' = {t}
           /\ UNCHANGED <<pending, waitingForLock>>

\* waitingForLock.decrementAndGet()
Dec(t) == /\ Goto(t, "dec", "retest")
          /\ waitingForLock' = waitingForLock - 1
          /\ UNCHANGED <<pending, lock>>

\* Mutant of Retest: decrements again on the way out.
RetestAndDec(t) == /\ Goto(t, "retest", IF waitingForLock = 0 THEN "run" ELSE "unlock")
                   /\ waitingForLock' = IF waitingForLock = 0 THEN 0 ELSE waitingForLock - 1
                   /\ UNCHANGED <<pending, lock>>

\* if (waitingForLock.get() == 0)
Retest(t) == /\ Goto(t, "retest", IF waitingForLock = 0 THEN "run" ELSE "unlock")
             /\ UNCHANGED <<pending, waitingForLock, lock>>

\* agreementState.tryProgress(), one look of the state machine: it moves, and
\* looks again, or finds nothing and returns.
Run(t) == /\ Goto(t, "run", IF pending = {} THEN "unlock" ELSE "run")
          /\ pending' = {}
          /\ UNCHANGED <<waitingForLock, lock>>

\* agreementStateLock.unlock()
Unlock(t) == /\ Goto(t, "unlock", "done")
             /\ lock' = lock \ {t}
             /\ UNCHANGED <<pending, waitingForLock>>

Step(t) == \/ Publish(t) \/ Check(t) \/ Test(t) \/ Inc(t) \/ Lock(t)
           \/ Dec(t) \/ Retest(t) \/ Run(t) \/ Unlock(t)

Next == \E t \in Thread : Step(t)

Spec == Init /\ [][Next]_vars

\* Worker threads are scheduled, and whoever holds the lock gives it up; the
\* lock need not be fair.
FairSpec == Spec /\ \A t \in Thread : WF_vars(Step(t))
-----------------------------------------------------------------------------
Running(t) == pc[t] \in {"dec", "retest", "run", "unlock"}

\* The agreement state machine is run by one thread at a time.
OneRuns == \A t, u \in Thread : Running(t) /\ Running(u) => t = u

\* An event that is pending has somebody who will look at it: its own thread on
\* the way to the lock, or a thread that will run the state machine.
WillLook(t) == pc[t] \in {"check", "test", "inc", "lock", "dec", "retest", "run"}
EventSeen == pending # {} => \E t \in Thread : WillLook(t)

\* Every published event is looked at, although threads give up when another one
\* is waiting for the lock.
EventuallySeen == \A t \in Thread : t \in pending ~> t \notin pending
=============================================================================
