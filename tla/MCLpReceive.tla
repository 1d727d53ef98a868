----------------------------- MODULE MCLpReceive -----------------------------
(***************************************************************************)
(* Two sessions with a worker and a handler thread each; the four threads  *)
(* share the pool of one block.                                            *)
(***************************************************************************)
EXTENDS LpReceive

Packet(n, t) == [seqNum |-> n, head |-> TRUE, tail |-> t]

MCStreams == [s \in Sessions |-> IF s = 0 THEN {<<Packet(1, FALSE), Packet(1, TRUE)>>} ELSE {<<Packet(0, TRUE)>>}]
=============================================================================
