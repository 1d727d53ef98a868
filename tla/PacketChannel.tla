---------------------------- MODULE PacketChannel ----------------------------
(***************************************************************************)
(* What the receive path promises to each session: the bytes that come in  *)
(* are cut into packets of PacketSize bytes, and the packets are handled   *)
(* in order, each once, whatever the other sessions do.                    *)
(***************************************************************************)
EXTENDS Integers, Sequences

CONSTANTS Sessions, PacketSize

VARIABLES
  arrived,   \* per session: bytes 1..arrived of its stream have come in
  handled    \* per session: first bytes of the packets handled, in order

vars == <<arrived, handled>>

Init ==
  /\ arrived = [s \in Sessions |-> 0]
  /\ handled = [s \in Sessions |-> <<>>]

Arrive(s) ==
  /\ arrived'[s] \in Nat /\ arrived'[s] > arrived[s]
  /\ arrived' = [arrived EXCEPT ![s] = arrived'[s]]
  /\ UNCHANGED handled

\* The next whole packet of the stream.
Handle(s) ==
  LET done == Len(handled[s]) * PacketSize
  IN  /\ done + PacketSize <= arrived[s]
      /\ handled' = [handled EXCEPT ![s] = Append(@, done + 1)]
      /\ UNCHANGED arrived

Next == \E s \in Sessions : Arrive(s) \/ Handle(s)

Spec == Init /\ [][Next]_vars
=============================================================================
