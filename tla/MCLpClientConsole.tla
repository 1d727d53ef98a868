------------------------- MODULE MCLpClientConsole -------------------------
(***************************************************************************)
(* Two clients with two rounds each.  The counter overflows in the last    *)
(* round: the total 3 of the test is that of no other round.               *)
(***************************************************************************)
EXTENDS LpClientConsole
=============================================================================
