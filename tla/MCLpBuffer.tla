----------------------------- MODULE MCLpBuffer -----------------------------
(***************************************************************************)
(* The buffer with a ring of 2 bytes that can grow to 8.                   *)
(*                                                                         *)
(*   read loop   chunks of up to 3 that fit in what is available: the ring *)
(*               wraps, grows while wrapped, grows on an exact fit, and    *)
(*               after a failed realloc fills up completely                *)
(*   any caller  chunks of up to 5, whatever is available: more than one   *)
(*               doubling in a Push, chunks that are dropped, a full ring  *)
(*               that is expanded                                          *)
(***************************************************************************)
EXTENDS LpBuffer
=============================================================================
