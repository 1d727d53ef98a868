------------------------------- MODULE Mutex -------------------------------
(***************************************************************************)
(* What the users of a lock rely on, whatever lock it is: a thread that    *)
(* has acquired it is alone until it releases it.  LpSpinLock implements   *)
(* this module; LpBuffer relies on it when it makes one step of each of    *)
(* its critical sections.                                                  *)
(***************************************************************************)
CONSTANT Threads

VARIABLE holders    \* the threads inside the critical section

Init == holders = {}

Acquire(t) == holders = {} /\ holders' = {t}

Release(t) == holders = {t} /\ holders' = {}

Next == \E t \in Threads : Acquire(t) \/ Release(t)

Spec == Init /\ [][Next]_holders
=============================================================================
