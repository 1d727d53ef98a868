-------------------------- MODULE LpPacketHandler --------------------------
(***************************************************************************)
(* LpNetCore/LpPacketHandler: the singleton that cuts what a worker popped *)
(* from a session's ring into packets, queues them, and processes them.    *)
(*                                                                         *)
(*   producers  the LpNetManager workers, in PushPacket                    *)
(*   consumers  the LpServer handler threads, in Update(i)                 *)
(*                                                                         *)
(* They share the queues and the pool of packet blocks.  The queues are    *)
(* concurrent_queues: try_pop and push are atomic steps.                   *)
(*                                                                         *)
(* The bytes of a session's stream are numbered from 1; the peer's packet  *)
(* number k is bytes (k-1)*PacketSize+1 .. k*PacketSize.  A block holds    *)
(* PacketSize consecutive bytes, so it is known by the first one.          *)
(***************************************************************************)
EXTENDS Integers, Sequences, FiniteSets

CONSTANTS
  Sessions,         \* session ids
  m_ioThreadCount,  \* queues, handler threads and workers
  PacketSize,       \* sizeof(Packet)
  PoolSize,         \* blocks the constructor puts in the pool
  SeqMax,           \* UINT32_MAX, the greatest sequence number
  Streams           \* per session: the streams of packets its peer may send

Threads == 0..(m_ioThreadCount - 1)

\* head: Process accepts size and type; tail: it accepts the tail.
PacketType == [seqNum : 0..SeqMax, head : BOOLEAN, tail : BOOLEAN]

ASSUME PacketHandlerAssumption ==
  /\ Sessions \subseteq Nat
  /\ m_ioThreadCount \in Nat \ {0}
  /\ PacketSize \in Nat \ {0}
  /\ PoolSize \in Nat
  /\ SeqMax \in Nat \ {0}
  /\ Streams \in [Sessions -> SUBSET Seq(PacketType)]

VARIABLES
  m_recvPacketPool,    \* blocks free for reuse
  m_packetQueue,       \* per thread: <<session, block>> pairs
  m_sessionSequnceMap, \* sequence numbers, for the sessions it has
  content,             \* per block of the heap: session and first byte
  push,                \* per worker: where it is in PushPacket
  handler,             \* per handler thread: where it is in Update
  stream,              \* per session: the packets of the peer, in order
  handled,             \* history, per session: first bytes of the packets
                       \* that went through Process
  passed               \* history, per session: those Process accepted

queues  == <<m_recvPacketPool, m_packetQueue>>
history == <<handled, passed>>
phVars  == <<queues, m_sessionSequnceMap, content, push, handler, stream, history>>

Null == 0
NoSession == -1

\* The content of a block outside PushPacket and Update: whatever it last
\* held, which nobody reads.
Free == <<NoSession, 0>>

InitPush(i) ==
  [pc |-> "idle", session |-> NoSession, at |-> 1,
   recvSize |-> 0, recvCount |-> 0, packet |-> Null]

InitHandler(i) ==
  [pc |-> "idle", session |-> NoSession, packet |-> Null, seq |-> 0]

PHInit ==
  /\ m_recvPacketPool = [b \in 1..PoolSize |-> b]
  /\ m_packetQueue = [i \in Threads |-> <<>>]
  /\ m_sessionSequnceMap = [s \in {} |-> 0]
  /\ content = [b \in 1..PoolSize |-> Free]
  /\ push = [i \in Threads |-> InitPush(i)]
  /\ handler = [i \in Threads |-> InitHandler(i)]
  /\ stream \in [Sessions -> UNION {Streams[s] : s \in Sessions}]
  /\ \A s \in Sessions : stream[s] \in Streams[s]
  /\ handled = [s \in Sessions |-> <<>>]
  /\ passed = [s \in Sessions |-> <<>>]

-----------------------------------------------------------------------------
(* PushPacket(_sessionID, _data, _size) on worker i; _data starts with     *)
(* byte at of the session's stream.                                        *)

PushPacket(i, s, at, size) ==
  /\ push[i].pc = "idle"
  /\ push' = [push EXCEPT ![i] =
       [pc |-> "take", session |-> s, at |-> at,
        recvSize |-> size, recvCount |-> 0, packet |-> Null]]

\* The loop test, then a block from the pool, or from malloc.
TakePacket(i) ==
  /\ push[i].pc = "take" /\ push[i].recvSize >= PacketSize
  /\ LET block == IF m_recvPacketPool = <<>> THEN Cardinality(DOMAIN content) + 1
                  ELSE Head(m_recvPacketPool)
     IN  /\ push' = [push EXCEPT ![i].pc = "put", ![i].packet = block]
         /\ m_recvPacketPool' = IF m_recvPacketPool = <<>> THEN <<>>
                                ELSE Tail(m_recvPacketPool)
         /\ content' = [b \in DOMAIN content \cup {block} |->
                          IF b = block THEN Free ELSE content[b]]
  /\ UNCHANGED <<m_packetQueue, m_sessionSequnceMap, handler, stream, history>>

\* Variant: the queue follows the packet instead of the session.
QueueOfPacket(s, k) == k % m_ioThreadCount

\* The queue of packet k of a batch of session s.
QueueOf(s, k) == s % m_ioThreadCount

\* Variant: the offset of the memcpy never moves.
FirstByteOfBatch(at, k) == at

\* The byte of the stream at offset sizeof(Packet) * recvCount of _data.
FirstByte(at, k) == at + PacketSize * k

\* memcpy into the block, and the pair goes to the session's queue.
PutPacket(i) ==
  LET p == push[i]
      q == QueueOf(p.session, p.recvCount)
  IN  /\ p.pc = "put"
      /\ content' = [content EXCEPT ![p.packet] =
                       <<p.session, FirstByte(p.at, p.recvCount)>>]
      /\ m_packetQueue' = [m_packetQueue EXCEPT ![q] = Append(@, <<p.session, p.packet>>)]
      /\ push' = [push EXCEPT ![i].pc = "take", ![i].packet = Null,
                              ![i].recvSize = @ - PacketSize,
                              ![i].recvCount = @ + 1]
      /\ UNCHANGED <<m_recvPacketPool, m_sessionSequnceMap, handler, stream, history>>

\* What is left of _data, less than a packet, goes nowhere.
PushReturn(i) ==
  /\ push[i].pc = "take" /\ push[i].recvSize < PacketSize
  /\ push' = [push EXCEPT ![i] = [InitPush(i) EXCEPT !.recvCount = push[i].recvCount]]
  /\ UNCHANGED <<queues, m_sessionSequnceMap, content, handler, stream, history>>

-----------------------------------------------------------------------------
(* Update(i) on handler thread i.                                          *)

\* Variant: an off-by-one in the loop test.
CheckQueueForTwo(i) ==
  /\ handler[i].pc = "idle" /\ Len(m_packetQueue[i]) > 1
  /\ handler' = [handler EXCEPT ![i].pc = "pop"]
  /\ UNCHANGED <<queues, m_sessionSequnceMap, content, push, stream, history>>

\* Variant: a loop that does not look.
CheckNothing(i) ==
  /\ handler[i].pc = "idle"
  /\ handler' = [handler EXCEPT ![i].pc = "pop"]
  /\ UNCHANGED <<queues, m_sessionSequnceMap, content, push, stream, history>>

\* m_packetQueue[_index].empty() == false
CheckQueue(i) ==
  /\ handler[i].pc = "idle" /\ m_packetQueue[i] # <<>>
  /\ handler' = [handler EXCEPT ![i].pc = "pop"]
  /\ UNCHANGED <<queues, m_sessionSequnceMap, content, push, stream, history>>

\* Variant: the block goes back to the pool before it is processed.
PopPacketRecycled(i) ==
  LET pair == Head(m_packetQueue[i])
  IN  /\ handler[i].pc = "pop" /\ m_packetQueue[i] # <<>>
      /\ handler' = [handler EXCEPT ![i].pc = "process",
                                    ![i].session = pair[1], ![i].packet = pair[2]]
      /\ m_packetQueue' = [m_packetQueue EXCEPT ![i] = Tail(@)]
      /\ m_recvPacketPool' = Append(m_recvPacketPool, pair[2])
      /\ UNCHANGED <<m_sessionSequnceMap, content, push, stream, history>>

\* try_pop into a value-initialised pair: from an empty queue it would leave
\* <<0, nullptr>> in it.
PopPacket(i) ==
  LET pair == IF m_packetQueue[i] = <<>> THEN <<0, Null>> ELSE Head(m_packetQueue[i])
  IN  /\ handler[i].pc = "pop"
      /\ handler' = [handler EXCEPT ![i].pc = "process",
                                    ![i].session = pair[1], ![i].packet = pair[2]]
      /\ m_packetQueue' = [m_packetQueue EXCEPT ![i] = IF @ = <<>> THEN @ ELSE Tail(@)]
      /\ UNCHANGED <<m_recvPacketPool, m_sessionSequnceMap, content, push, stream, history>>

\* The packets a block may read as: the peer's packet, or anything when it
\* does not start where one of the peer's packets does.
Reads(b) ==
  LET s == content[b][1]
      k == (content[b][2] - 1) \div PacketSize + 1
  IN  IF content[b][2] = (k - 1) * PacketSize + 1 /\ k \in DOMAIN stream[s]
      THEN {stream[s][k]}
      ELSE [seqNum : {0, 1}, head : BOOLEAN, tail : BOOLEAN]

\* For a session that is not there, -1 as uint32_t.
GetSequence(s) ==
  IF s \in DOMAIN m_sessionSequnceMap THEN m_sessionSequnceMap[s] ELSE SeqMax

\* Process, to the call of GetSequence: the nullptr test, then size and type.
ProcessHeader(i) ==
  LET h == handler[i]
  IN  /\ h.pc = "process"
      /\ IF h.packet = Null
         THEN /\ handler' = [handler EXCEPT ![i].pc = "recycle"]
              /\ UNCHANGED handled
         ELSE \E p \in Reads(h.packet) :
           IF p.head
           THEN /\ handler' = [handler EXCEPT ![i].pc = "seq",
                                              ![i].seq = GetSequence(h.session)]
                /\ UNCHANGED handled
           ELSE /\ handler' = [handler EXCEPT ![i].pc = "recycle"]
                /\ handled' = [handled EXCEPT ![h.session] =
                                 Append(@, content[h.packet][2])]
      /\ UNCHANGED <<queues, m_sessionSequnceMap, content, push, stream, passed>>

\* Variant: a repeated sequence number is let through.
SeqOKOrEqual(p, seq) == p.seqNum = 0 \/ p.seqNum >= seq

SeqOK(p, seq) == p.seqNum = 0 \/ p.seqNum > seq

\* Process, from the sequence check on.  SetSequence comes before the check
\* of the tail, so a packet with a bad tail uses its sequence number up.
ProcessSequence(i) ==
  LET h == handler[i]
  IN  /\ h.pc = "seq"
      /\ \E p \in Reads(h.packet) :
           /\ p.head
           /\ m_sessionSequnceMap' =
                IF SeqOK(p, h.seq) /\ h.session \in DOMAIN m_sessionSequnceMap
                THEN [m_sessionSequnceMap EXCEPT ![h.session] = p.seqNum]
                ELSE m_sessionSequnceMap
           /\ passed' = IF SeqOK(p, h.seq) /\ p.tail
                        THEN [passed EXCEPT ![h.session] =
                                Append(@, content[h.packet][2])]
                        ELSE passed
      /\ handled' = [handled EXCEPT ![h.session] = Append(@, content[h.packet][2])]
      /\ handler' = [handler EXCEPT ![i].pc = "recycle"]
      /\ UNCHANGED <<queues, content, push, stream>>

\* The block goes back to the pool, whatever Process said.
Recycle(i) ==
  /\ handler[i].pc = "recycle"
  /\ m_recvPacketPool' = Append(m_recvPacketPool, handler[i].packet)
  /\ content' = [content EXCEPT ![handler[i].packet] = Free]
  /\ handler' = [handler EXCEPT ![i] = InitHandler(i)]
  /\ UNCHANGED <<m_packetQueue, m_sessionSequnceMap, push, stream, history>>

-----------------------------------------------------------------------------
\* Called by AsyncAccept for the id of the session it waits for.
ResetSequence(s) ==
  m_sessionSequnceMap' =
    [t \in DOMAIN m_sessionSequnceMap \cup {s} |->
       IF t = s THEN 0 ELSE m_sessionSequnceMap[t]]

Pushing(i) == TakePacket(i) \/ PutPacket(i) \/ PushReturn(i)

Update(i) ==
  \/ CheckQueue(i) \/ PopPacket(i)
  \/ ProcessHeader(i) \/ ProcessSequence(i) \/ Recycle(i)

-----------------------------------------------------------------------------
Blocks == DOMAIN content

PHTypeOK ==
  /\ IsFiniteSet(Blocks) /\ Blocks = 1..Cardinality(Blocks)
  /\ m_recvPacketPool \in Seq(Blocks)
  /\ m_packetQueue \in [Threads -> Seq(Sessions \X Blocks)]
  /\ DOMAIN m_sessionSequnceMap \subseteq Sessions
  /\ \A s \in DOMAIN m_sessionSequnceMap : m_sessionSequnceMap[s] \in 0..SeqMax
  /\ \A b \in Blocks : content[b] \in (Sessions \cup {NoSession}) \X Nat
  /\ push \in [Threads -> [pc : {"idle", "take", "put"}, session : Sessions \cup {NoSession},
                           at : Nat, recvSize : Nat, recvCount : Nat,
                           packet : Blocks \cup {Null}]]
  /\ handler \in [Threads -> [pc : {"idle", "pop", "process", "seq", "recycle"},
                              session : Sessions \cup {NoSession},
                              packet : Blocks \cup {Null}, seq : 0..SeqMax]]
  /\ stream \in [Sessions -> Seq(PacketType)]
  /\ handled \in [Sessions -> Seq(Nat)] /\ passed \in [Sessions -> Seq(Nat)]

\* The entries of the queues.
Queued == UNION {{i} \X DOMAIN m_packetQueue[i] : i \in Threads}
Entry(x) == m_packetQueue[x[1]][x[2]]

\* The places a block can be in, each with the number of times it is there.
TimesIn(b) ==
  LET inPool   == Cardinality({j \in DOMAIN m_recvPacketPool : m_recvPacketPool[j] = b})
      inQueues == Cardinality({x \in Queued : Entry(x)[2] = b})
      inHands  == Cardinality({i \in Threads : push[i].packet = b})
                  + Cardinality({i \in Threads : handler[i].packet = b})
  IN  inPool + inQueues + inHands

\* Every block has exactly one owner: it is free, or a worker is filling it,
\* or it is queued once, or a handler is processing it.  So no packet is
\* overwritten while it is read, and none leaks (LpPacketHandler.cpp:50-54,
\* 159-168).
OneOwner == \A b \in Blocks : TimesIn(b) = 1

\* No nullptr ever takes the place of a block: Update pops from a queue it
\* saw non-empty and nobody else empties (LpPacketHandler.cpp:48-54).
NoNullPacket ==
  /\ \A i \in Threads : handler[i].pc \in {"process", "seq", "recycle"} => handler[i].packet # Null
  /\ \A j \in DOMAIN m_recvPacketPool : m_recvPacketPool[j] # Null

\* In a server with one thread: a packet with a right header uses its sequence
\* number up if it is 0 or greater than that of the last packet that did.
Advances(p, seqNum) == p.head /\ (p.seqNum = 0 \/ p.seqNum > seqNum)

\* Per packet of the stream, the sequence number used up last.
LastSeqNum(s) ==
  LET last[k \in 0..Len(stream[s])] ==
        IF k = 0 THEN 0
        ELSE IF Advances(stream[s][k], last[k - 1]) THEN stream[s][k].seqNum
        ELSE last[k - 1]
  IN  last

\* Such a packet passes if its tail is right, too.
Verdicts(s) ==
  {k \in 1..Len(stream[s]) :
     stream[s][k].tail /\ Advances(stream[s][k], LastSeqNum(s)[k - 1])}

\* However the workers and handler threads interleave, Process accepts the
\* packets a single thread reading the stream in order would accept
\* (LpPacketHandler.cpp:58-126).
VerdictsAsSequential ==
  \A s \in Sessions :
    {passed[s][j] : j \in DOMAIN passed[s]} =
      {(k - 1) * PacketSize + 1 : k \in {n \in Verdicts(s) : n <= Len(handled[s])}}
-----------------------------------------------------------------------------
(* Why no block is lost or shared.                                         *)

Holding(i) == handler[i].pc \in {"process", "seq", "recycle"}

\* The thread of a session: its worker, its queue and its handler thread.
ThreadOf(s) == s % m_ioThreadCount

\* A worker has a block while it fills it, a handler from Pop to Recycle, and
\* only its queue's blocks and sessions get to it.
InPlace ==
  /\ \A i \in Threads : push[i].pc = "put" <=> push[i].packet # Null
  /\ \A i \in Threads : push[i].pc = "put" => push[i].recvSize >= PacketSize
  /\ \A i \in Threads : Holding(i) <=> handler[i].packet # Null
  /\ \A i \in Threads : push[i].pc # "idle" =>
       push[i].session \in Sessions /\ ThreadOf(push[i].session) = i
  /\ \A i \in Threads : Holding(i) =>
       handler[i].session \in Sessions /\ ThreadOf(handler[i].session) = i
  /\ \A i \in Threads : handler[i].pc = "pop" => m_packetQueue[i] # <<>>
  /\ \A x \in Queued : ThreadOf(Entry(x)[1]) = x[1]

\* What is queued or in a handler's hands has been filled.
Filled ==
  /\ \A x \in Queued : content[Entry(x)[2]][1] = Entry(x)[1]
  /\ \A i \in Threads : Holding(i) => content[handler[i].packet][1] = handler[i].session

\* OneOwner place by place: no block is in two, and each is in one.
Apart ==
  /\ \A j, k \in DOMAIN m_recvPacketPool : m_recvPacketPool[j] = m_recvPacketPool[k] => j = k
  /\ \A x, y \in Queued : Entry(x)[2] = Entry(y)[2] => x = y
  /\ \A i, j \in Threads : push[i].packet = push[j].packet => i = j \/ push[i].packet = Null
  /\ \A i, j \in Threads :
       handler[i].packet = handler[j].packet => i = j \/ handler[i].packet = Null
  /\ \A j \in DOMAIN m_recvPacketPool : /\ \A x \in Queued : Entry(x)[2] # m_recvPacketPool[j]
                                        /\ \A i \in Threads :
                                             /\ push[i].packet # m_recvPacketPool[j]
                                             /\ handler[i].packet # m_recvPacketPool[j]
  /\ \A i \in Threads : /\ \A x \in Queued : /\ Entry(x)[2] # push[i].packet
                                            /\ Entry(x)[2] # handler[i].packet
                        /\ \A j \in Threads :
                             push[i].packet = handler[j].packet => push[i].packet = Null

Owned ==
  \A b \in Blocks :
    \/ \E j \in DOMAIN m_recvPacketPool : m_recvPacketPool[j] = b
    \/ \E x \in Queued : Entry(x)[2] = b
    \/ \E i \in Threads : push[i].packet = b \/ handler[i].packet = b

PHInv == PHTypeOK /\ InPlace /\ Filled /\ Apart /\ Owned
=============================================================================
