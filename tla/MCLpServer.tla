----------------------------- MODULE MCLpServer -----------------------------
(***************************************************************************)
(* Two asio threads, two workers, a pool of one session, so that others    *)
(* are allocated; three accepts, so that ids come round after INT_MAX = 4. *)
(***************************************************************************)
EXTENDS LpServer

CONSTANTS a1, a2
MCAsioThreads == {a1, a2}
=============================================================================
