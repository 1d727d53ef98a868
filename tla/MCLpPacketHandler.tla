------------------------- MODULE MCLpPacketHandler -------------------------
(***************************************************************************)
(* The packet handler alone: each worker is given batches of whole packets *)
(* of its own sessions, as LpSession::ProcessReceive gives them.           *)
(* Sessions 0 and 2 share a queue, session 1 has the other.                *)
(***************************************************************************)
EXTENDS LpPacketHandler

CONSTANT MaxBatch   \* bound: packets in a batch

VARIABLE fed         \* per session: packets given to PushPacket

vars == <<phVars, fed>>

Packet(n, h, t) == [seqNum |-> n, head |-> h, tail |-> t]

MCPackets ==
  {Packet(0, TRUE, TRUE), Packet(1, TRUE, TRUE), Packet(2, TRUE, FALSE),
   Packet(2, FALSE, TRUE)}

\* Sessions 1 and 2 compete for blocks and queue 0: one plain packet each.
MCStreams ==
  [s \in Sessions |-> IF s # 0 THEN {<<Packet(0, TRUE, TRUE)>>} ELSE [1..2 -> MCPackets]]

Init == PHInit /\ fed = [s \in Sessions |-> 0]

\* AsyncAccept registers a session before it can send anything.
Register(s) ==
  /\ s \notin DOMAIN m_sessionSequnceMap
  /\ ResetSequence(s)
  /\ UNCHANGED <<queues, content, push, handler, stream, history, fed>>

\* Worker i has popped n packets of session s.
Batch(i, s, n) ==
  /\ s % m_ioThreadCount = i /\ s \in DOMAIN m_sessionSequnceMap
  /\ fed[s] + n <= Len(stream[s])
  /\ PushPacket(i, s, fed[s] * PacketSize + 1, n * PacketSize)
  /\ fed' = [fed EXCEPT ![s] = @ + n]
  /\ UNCHANGED <<queues, m_sessionSequnceMap, content, handler, stream, history>>

Next ==
  \/ \E s \in Sessions : Register(s)
  \/ \E i \in Threads, s \in Sessions, n \in 1..MaxBatch : Batch(i, s, n)
  \/ \E i \in Threads : (Pushing(i) \/ Update(i)) /\ UNCHANGED fed

Spec == Init /\ [][Next]_vars

\* Each session's packets are handled in order, each once, whole.
Channel == INSTANCE PacketChannel
  WITH arrived <- [s \in Sessions |-> fed[s] * PacketSize]
ImplementsChannel == Channel!Spec
=============================================================================
