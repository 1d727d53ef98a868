------------------------------ MODULE ByteFifo ------------------------------
(***************************************************************************)
(* What a byte buffer between two threads promises.  The bytes of the      *)
(* stream are numbered 1, 2, 3, ... in the order they are accepted: a      *)
(* buffer does not look at the bytes, so numbering them says which byte    *)
(* comes out, whatever its value.                                          *)
(***************************************************************************)
EXTENDS Integers

VARIABLES
  accepted,   \* bytes 1..accepted have been put in
  taken,      \* bytes 1..taken have been taken out
  handed      \* the bytes taken out by the last Take, in order

vars == <<accepted, taken, handed>>

Init == accepted = 0 /\ taken = 0 /\ handed = [i \in 1..0 |-> 0]

\* A chunk of any length goes in behind everything accepted before.
Accept ==
  /\ accepted' \in Nat /\ accepted' > accepted
  /\ UNCHANGED <<taken, handed>>

\* The oldest bytes come out, in order, each once.
Take ==
  /\ \E n \in 1..(accepted - taken) :
       /\ handed' = [i \in 1..n |-> taken + i]
       /\ taken' = taken + n
  /\ UNCHANGED accepted

Next == Accept \/ Take

Spec == Init /\ [][Next]_vars
=============================================================================
