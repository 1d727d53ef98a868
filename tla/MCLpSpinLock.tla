---------------------------- MODULE MCLpSpinLock ----------------------------
(***************************************************************************)
(* Four threads on one lock word: one inside, one that has just failed its *)
(* compare-and-swap, one about to try and one outside.                     *)
(***************************************************************************)
EXTENDS LpSpinLock

MCThreads == 1..4
=============================================================================
