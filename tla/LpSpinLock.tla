----------------------------- MODULE LpSpinLock -----------------------------
(***************************************************************************)
(* LpUtility/LpSpinLock: a lock word and a compare-and-swap loop.          *)
(*                                                                         *)
(* compare_exchange_strong takes `expected` by reference: when it fails it *)
(* stores the value it saw into `expected`, and the loop body of Lock puts *)
(* the 0 back before the next attempt.  The two are separate steps here,   *)
(* with the local variable `expected` of each thread between them.         *)
(***************************************************************************)
EXTENDS Naturals

CONSTANT Threads

VARIABLES
  m_lock,      \* the atomic<int>: 0 free, 1 taken
  expected,    \* per thread, the local variable of Lock()
  pc           \* per thread: "idle", in Lock() ("cas", "reset") or "critical"

vars == <<m_lock, expected, pc>>

Init ==
  /\ m_lock = 0
  /\ expected = [t \in Threads |-> 0]
  /\ pc = [t \in Threads |-> "idle"]

\* Entry of Lock(): int expected = 0.
Lock(t) ==
  /\ pc[t] = "idle"
  /\ expected' = [expected EXCEPT ![t] = 0]
  /\ pc' = [pc EXCEPT ![t] = "cas"]
  /\ UNCHANGED m_lock

\* m_lock.compare_exchange_strong(expected, desired), one atomic step.
CompareExchange(t) ==
  /\ pc[t] = "cas"
  /\ \/ /\ m_lock = expected[t]
        /\ m_lock' = 1
        /\ pc' = [pc EXCEPT ![t] = "critical"]
        /\ UNCHANGED expected
     \/ /\ m_lock # expected[t]
        /\ expected' = [expected EXCEPT ![t] = m_lock]
        /\ pc' = [pc EXCEPT ![t] = "reset"]
        /\ UNCHANGED m_lock

\* Variant: the loop body is empty, as in many hand-written spin locks.
ResetExpectedForgotten(t) ==
  /\ pc[t] = "reset"
  /\ pc' = [pc EXCEPT ![t] = "cas"]
  /\ UNCHANGED <<m_lock, expected>>

\* The loop body: expected = 0.
ResetExpected(t) ==
  /\ pc[t] = "reset"
  /\ expected' = [expected EXCEPT ![t] = 0]
  /\ pc' = [pc EXCEPT ![t] = "cas"]
  /\ UNCHANGED m_lock

\* Variant: the early return of a caller that forgets to unlock.
UnLockForgotten(t) ==
  /\ pc[t] = "critical"
  /\ pc' = [pc EXCEPT ![t] = "idle"]
  /\ UNCHANGED <<m_lock, expected>>

UnLock(t) ==
  /\ pc[t] = "critical"
  /\ m_lock' = 0
  /\ pc' = [pc EXCEPT ![t] = "idle"]
  /\ UNCHANGED expected

Acquiring(t) == CompareExchange(t) \/ ResetExpected(t)

Next == \E t \in Threads : Lock(t) \/ Acquiring(t) \/ UnLock(t)

(***************************************************************************)
(* A thread in Lock() keeps running its loop, and every critical section   *)
(* of the code is straight-line code that ends in UnLock().  Nobody is     *)
(* obliged to call Lock(), and the loop is not fair between its callers.   *)
(***************************************************************************)
Spec ==
  /\ Init /\ [][Next]_vars
  /\ \A t \in Threads : WF_vars(Acquiring(t)) /\ WF_vars(UnLock(t))

-----------------------------------------------------------------------------
TypeOK ==
  /\ m_lock \in {0, 1}
  /\ expected \in [Threads -> {0, 1}]
  /\ pc \in [Threads -> {"idle", "cas", "reset", "critical"}]

Critical == {t \in Threads : pc[t] = "critical"}

\* Two threads are never both between Lock() and UnLock(), however their
\* compare-and-swap attempts interleave (LpSpinLock.cpp:5-12).
MutualExclusion == \A t, u \in Critical : t = u

\* What makes MutualExclusion inductive: the word says whether somebody is
\* inside, and every attempt compares against 0.
LockWordOK ==
  /\ m_lock = 0 <=> Critical = {}
  /\ \A t \in Threads : pc[t] = "cas" => expected[t] = 0

IInv == TypeOK /\ MutualExclusion /\ LockWordOK

\* The lock is a mutex: it implements Mutex, its holders being the threads
\* inside the critical section.
M == INSTANCE Mutex WITH holders <- Critical
ImplementsMutex == M!Spec

\* While somebody spins in Lock(), somebody gets in: the loop cannot leave a
\* free lock untaken.  (Which of the spinning threads it is, is left open.)
SomebodyGetsIn ==
  (\E t \in Threads : pc[t] \in {"cas", "reset"}) ~> (Critical # {})
=============================================================================
