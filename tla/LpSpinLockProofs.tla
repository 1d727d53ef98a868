-------------------------- MODULE LpSpinLockProofs --------------------------
(***************************************************************************)
(* The spin lock is a mutex for every set of threads.                      *)
(***************************************************************************)
EXTENDS LpSpinLock, TLAPS

LEMMA InitIInv == Init => IInv
BY DEF Init, IInv, TypeOK, MutualExclusion, LockWordOK, Critical

\* Every step keeps the inductive invariant: the compare-and-swap succeeds
\* only against a free word, since `expected` is 0 whenever it is attempted.
LEMMA NextIInv == IInv /\ [Next]_vars => IInv'
<1> SUFFICES ASSUME IInv, [Next]_vars PROVE IInv'
  OBVIOUS
<1> USE DEF IInv, TypeOK, MutualExclusion, LockWordOK, Critical
<1>1. ASSUME NEW t \in Threads, Lock(t) PROVE IInv'
  BY <1>1 DEF Lock
<1>2. ASSUME NEW t \in Threads, CompareExchange(t) PROVE IInv'
  <2>1. CASE m_lock = expected[t]
    BY <1>2, <2>1 DEF CompareExchange
  <2>2. CASE m_lock # expected[t]
    BY <1>2, <2>2 DEF CompareExchange
  <2> QED BY <2>1, <2>2
<1>3. ASSUME NEW t \in Threads, ResetExpected(t) PROVE IInv'
  BY <1>3 DEF ResetExpected
<1>4. ASSUME NEW t \in Threads, UnLock(t) PROVE IInv'
  BY <1>4 DEF UnLock
<1>5. CASE UNCHANGED vars
  BY <1>5 DEF vars
<1> QED
  BY <1>1, <1>2, <1>3, <1>4, <1>5 DEF Next, Acquiring

\* In every reachable state the lock word tells whether a thread is inside,
\* and at most one is (LpSpinLock.cpp:5-16).
THEOREM SpinLockInvariant == Spec => []IInv
BY InitIInv, NextIInv, PTL DEF Spec

\* LpSpinLock implements Mutex: a successful compare-and-swap acquires it,
\* UnLock releases it and every other step changes no holder.
THEOREM SpinLockIsMutex == Spec => ImplementsMutex
<1>1. Init => M!Init
  BY DEF Init, M!Init, Critical
<1>2. IInv /\ [Next]_vars => [M!Next]_Critical
  <2> SUFFICES ASSUME IInv, [Next]_vars PROVE M!Next \/ Critical' = Critical
    OBVIOUS
  <2> USE DEF IInv, TypeOK, MutualExclusion, LockWordOK, Critical
  <2>1. ASSUME NEW t \in Threads, Lock(t) PROVE Critical' = Critical
    BY <2>1 DEF Lock
  <2>2. ASSUME NEW t \in Threads, CompareExchange(t)
        PROVE  M!Acquire(t) \/ Critical' = Critical
    <3>1. CASE m_lock = expected[t]
      BY <2>2, <3>1 DEF CompareExchange, M!Acquire
    <3>2. CASE m_lock # expected[t]
      BY <2>2, <3>2 DEF CompareExchange
    <3> QED BY <3>1, <3>2
  <2>3. ASSUME NEW t \in Threads, ResetExpected(t) PROVE Critical' = Critical
    BY <2>3 DEF ResetExpected
  <2>4. ASSUME NEW t \in Threads, UnLock(t) PROVE M!Release(t)
    BY <2>4 DEF UnLock, M!Release
  <2>5. CASE UNCHANGED vars
    BY <2>5 DEF vars
  <2> QED
    BY <2>1, <2>2, <2>3, <2>4, <2>5 DEF Next, Acquiring, M!Next
<1> QED
  BY <1>1, <1>2, SpinLockInvariant, PTL DEF Spec, ImplementsMutex, M!Spec
=============================================================================
