----------------------------- MODULE MCLpClient -----------------------------
(***************************************************************************)
(* Two sessions, one of them allocated, two packets each, two rounds: the  *)
(* first leaves sessions in the pool twice and completions to come late.   *)
(***************************************************************************)
EXTENDS LpClient
=============================================================================
