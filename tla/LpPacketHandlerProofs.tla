------------------------ MODULE LpPacketHandlerProofs ------------------------
(***************************************************************************)
(* The packet handler for any number of threads and sessions, any pool and *)
(* any streams of packets: no step loses a block or gives it to two.       *)
(***************************************************************************)
EXTENDS LpPacketHandler, TLAPS, SequenceTheorems, FiniteSetTheorems

PushRecord == [pc : {"idle", "take", "put"}, session : Sessions \cup {NoSession},
               at : Nat, recvSize : Nat, recvCount : Nat, packet : Blocks \cup {Null}]
HandlerRecord == [pc : {"idle", "pop", "process", "seq", "recycle"},
                  session : Sessions \cup {NoSession},
                  packet : Blocks \cup {Null}, seq : 0..SeqMax]

-----------------------------------------------------------------------------
(* What each step does, part by part.                                      *)

LEMMA InitPushIs ==
  ASSUME NEW i
  PROVE  /\ InitPush(i) \in PushRecord
         /\ InitPush(i).pc = "idle" /\ InitPush(i).session = NoSession
         /\ InitPush(i).packet = Null
         /\ InitPush(i).recvSize = 0 /\ InitPush(i).recvCount = 0
BY DEF InitPush, PushRecord

LEMMA CardinalityTo ==
  ASSUME NEW n \in Nat PROVE IsFiniteSet(1..n) /\ Cardinality(1..n) = n
BY FS_Interval

LEMMA BlocksNumbered ==
  ASSUME PHTypeOK
  PROVE  /\ Cardinality(Blocks) \in Nat /\ Blocks = 1..Cardinality(Blocks)
         /\ \A b \in Blocks : b \in Nat /\ b # Null
<1>1. IsFiniteSet(Blocks) /\ Blocks = 1..Cardinality(Blocks)
  BY DEF PHTypeOK
<1>2. Cardinality(Blocks) \in Nat
  BY <1>1, FS_CardinalityType
<1>3. \A b \in 1..Cardinality(Blocks) : b \in Nat /\ b # Null
  BY <1>2 DEF Null
<1> QED BY <1>1, <1>2, <1>3

LEMMA PushPacketStep ==
  ASSUME PHTypeOK, NEW i \in Threads, NEW s \in Sessions, NEW at \in Nat, NEW size \in Nat,
         PushPacket(i, s, at, size), UNCHANGED Blocks
  PROVE  /\ push' \in [Threads -> PushRecord']
         /\ \A j \in Threads : j # i => push'[j] = push[j]
         /\ push'[i].pc = "take" /\ push'[i].session = s /\ push'[i].at = at
         /\ push'[i].recvSize = size /\ push'[i].recvCount = 0 /\ push'[i].packet = Null
<1> DEFINE r == [pc |-> "take", session |-> s, at |-> at,
                 recvSize |-> size, recvCount |-> 0, packet |-> Null]
<1>1. r \in PushRecord' /\ PushRecord' = PushRecord
  BY DEF PushRecord
<1>2. push \in [Threads -> PushRecord] /\ push' = [push EXCEPT ![i] = r]
  BY DEF PushPacket, PHTypeOK, PushRecord
<1> QED BY <1>1, <1>2

LEMMA PushReturnStep ==
  ASSUME PHTypeOK, NEW i \in Threads, PushReturn(i)
  PROVE  /\ push' \in [Threads -> PushRecord']
         /\ \A j \in Threads : j # i => push'[j] = push[j]
         /\ push'[i].pc = "idle" /\ push'[i].session = NoSession
         /\ push'[i].recvSize = 0 /\ push'[i].recvCount = push[i].recvCount
         /\ push'[i].packet = Null
<1> DEFINE r == [InitPush(i) EXCEPT !.recvCount = push[i].recvCount]
<1>1. push \in [Threads -> PushRecord] /\ push' = [push EXCEPT ![i] = r]
      /\ PushRecord' = PushRecord
  BY DEF PushReturn, PHTypeOK, PushRecord, Blocks
<1>2. push[i].recvCount \in Nat
  BY <1>1 DEF PushRecord
<1>3. /\ r.pc = "idle" /\ r.session = NoSession /\ r.recvSize = 0
      /\ r.recvCount = push[i].recvCount /\ r.packet = Null /\ r \in PushRecord
  BY <1>2 DEF InitPush, PushRecord
<1> HIDE DEF r
<1> QED BY <1>1, <1>3

LEMMA TakePacketStep ==
  ASSUME PHTypeOK, NEW i \in Threads, TakePacket(i)
  PROVE  \E block \in Blocks' :
    /\ push' \in [Threads -> PushRecord']
    /\ \A j \in Threads : j # i => push'[j] = push[j]
    /\ push'[i].pc = "put" /\ push'[i].packet = block
    /\ push'[i].session = push[i].session /\ push'[i].at = push[i].at
    /\ push'[i].recvSize = push[i].recvSize /\ push'[i].recvCount = push[i].recvCount
    /\ Blocks' = Blocks \cup {block} /\ block # Null
    /\ IsFiniteSet(Blocks') /\ Blocks' = 1..Cardinality(Blocks')
    /\ \A b \in Blocks : b # block => content'[b] = content[b]
    /\ content'[block] = Free
    /\ \/ m_recvPacketPool # <<>> /\ block = Head(m_recvPacketPool)
          /\ m_recvPacketPool' = Tail(m_recvPacketPool)
       \/ m_recvPacketPool = <<>> /\ m_recvPacketPool' = <<>> /\ block \notin Blocks
<1> DEFINE block == IF m_recvPacketPool = <<>> THEN Cardinality(DOMAIN content) + 1
                    ELSE Head(m_recvPacketPool)
<1> DEFINE r == [push[i] EXCEPT !.pc = "put", !.packet = block]
<1>1. /\ push' = [push EXCEPT ![i] = r]
      /\ m_recvPacketPool' = IF m_recvPacketPool = <<>> THEN <<>> ELSE Tail(m_recvPacketPool)
      /\ content' = [b \in DOMAIN content \cup {block} |-> IF b = block THEN Free ELSE content[b]]
  BY DEF TakePacket
<1>2. Blocks' = Blocks \cup {block}
  BY <1>1 DEF Blocks
<1>3. /\ block \in Nat /\ block # Null
      /\ IsFiniteSet(Blocks') /\ Blocks' = 1..Cardinality(Blocks')
      /\ m_recvPacketPool = <<>> => block \notin Blocks
      /\ m_recvPacketPool # <<>> => block \in Blocks
  <2>1. CASE m_recvPacketPool = <<>>
    <3>1. block = Cardinality(Blocks) + 1 /\ block \in Nat /\ block # Null
      BY <2>1, BlocksNumbered DEF Blocks, Null
    <3>2. block \notin Blocks /\ Blocks' = 1..block
      BY <1>2, <3>1, BlocksNumbered
    <3>3. IsFiniteSet(Blocks') /\ Cardinality(Blocks') = block
      <4> HIDE DEF block
      <4> QED BY <3>1, <3>2, CardinalityTo
    <3> QED BY <2>1, <3>1, <3>2, <3>3
  <2>2. CASE m_recvPacketPool # <<>>
    <3>1. block \in Blocks
      BY <2>2 DEF PHTypeOK
    <3>2. Blocks' = Blocks
      BY <1>2, <3>1
    <3> QED BY <2>2, <3>1, <3>2, BlocksNumbered DEF PHTypeOK
  <2> QED BY <2>1, <2>2
<1> HIDE DEF block
<1>4. push \in [Threads -> PushRecord]
  BY DEF PHTypeOK, PushRecord
<1>5. /\ r \in PushRecord' /\ \A p \in PushRecord : p \in PushRecord'
      /\ r.pc = "put" /\ r.packet = block /\ r.session = push[i].session
      /\ r.at = push[i].at /\ r.recvSize = push[i].recvSize /\ r.recvCount = push[i].recvCount
  <2>1. push[i] \in PushRecord
    BY <1>4
  <2>2. PushRecord' = [pc : {"idle", "take", "put"}, session : Sessions \cup {NoSession},
               at : Nat, recvSize : Nat, recvCount : Nat, packet : Blocks' \cup {Null}]
    BY DEF PushRecord
  <2>3. \A p \in PushRecord : p \in PushRecord'
    BY <1>2, <2>2 DEF PushRecord
  <2>4. block \in Blocks'
    BY <1>2
  <2> QED BY <2>1, <2>2, <2>3, <2>4 DEF PushRecord
<1> HIDE DEF r
<1>6. /\ push' \in [Threads -> PushRecord'] /\ push'[i] = r
      /\ \A j \in Threads : j # i => push'[j] = push[j]
  BY <1>1, <1>4, <1>5
<1> QED
  <2>1. block \in Blocks' /\ content'[block] = Free
        /\ \A b \in Blocks : b # block => content'[b] = content[b]
    BY <1>1, <1>2 DEF Blocks
  <2>2. \/ m_recvPacketPool # <<>> /\ block = Head(m_recvPacketPool)
           /\ m_recvPacketPool' = Tail(m_recvPacketPool)
        \/ m_recvPacketPool = <<>> /\ m_recvPacketPool' = <<>> /\ block \notin Blocks
    BY <1>1, <1>3 DEF block
  <2> QED BY <1>2, <1>3, <1>5, <1>6, <2>1, <2>2

LEMMA PutPacketStep ==
  ASSUME PHTypeOK, InPlace, NEW i \in Threads, PutPacket(i)
  PROVE  /\ push' \in [Threads -> PushRecord'] /\ Blocks' = Blocks
         /\ \A j \in Threads : j # i => push'[j] = push[j]
         /\ push'[i].pc = "take" /\ push'[i].packet = Null
         /\ push'[i].session = push[i].session /\ push'[i].at = push[i].at
         /\ push'[i].recvSize = push[i].recvSize - PacketSize
         /\ push'[i].recvCount = push[i].recvCount + 1
         /\ push[i].pc = "put" /\ push[i].packet \in Blocks /\ push[i].session \in Sessions
         /\ \A b \in Blocks : b # push[i].packet => content'[b] = content[b]
         /\ content'[push[i].packet] =
              <<push[i].session, push[i].at + PacketSize * push[i].recvCount>>
         /\ push[i].at + PacketSize * push[i].recvCount \in Nat
         /\ m_packetQueue' = [m_packetQueue EXCEPT ![i] =
              Append(m_packetQueue[i], <<push[i].session, push[i].packet>>)]
<1> DEFINE p == push[i]
<1> DEFINE r == [p EXCEPT !.pc = "take", !.packet = Null,
                          !.recvSize = p.recvSize - PacketSize, !.recvCount = p.recvCount + 1]
<1>1. p \in PushRecord /\ push \in [Threads -> PushRecord]
  BY DEF PHTypeOK, PushRecord
<1>2. /\ p.pc = "put" /\ p.packet \in Blocks /\ p.session \in Sessions
      /\ ThreadOf(p.session) = i /\ p.recvSize >= PacketSize
  <2>1. p.pc = "put" /\ p.packet # Null /\ p.packet \in Blocks \cup {Null}
    BY <1>1 DEF PutPacket, InPlace, PushRecord
  <2> QED BY <2>1 DEF InPlace
<1>3. /\ push' = [push EXCEPT ![i] = r]
      /\ content' = [content EXCEPT ![p.packet] =
                       <<p.session, p.at + PacketSize * p.recvCount>>]
      /\ m_packetQueue' = [m_packetQueue EXCEPT ![ThreadOf(p.session)] =
                             Append(@, <<p.session, p.packet>>)]
  BY <1>1 DEF PutPacket, FirstByte, QueueOf, ThreadOf
<1>4. Blocks' = Blocks /\ PushRecord' = PushRecord
  BY <1>3 DEF Blocks, PushRecord
<1>5. p.recvSize - PacketSize \in Nat /\ p.recvCount + 1 \in Nat
      /\ p.at + PacketSize * p.recvCount \in Nat
  <2>1. p.recvSize \in Nat /\ p.recvCount \in Nat /\ p.at \in Nat /\ p.recvSize >= PacketSize
    BY <1>1, <1>2 DEF PushRecord
  <2>2. PacketSize \in Nat
    BY PacketHandlerAssumption
  <2> HIDE DEF p
  <2>3. PacketSize * p.recvCount \in Nat
    BY <2>1, <2>2
  <2> QED BY <2>1, <2>2, <2>3
<1>6. /\ r \in PushRecord
      /\ r.pc = "take" /\ r.packet = Null /\ r.session = p.session /\ r.at = p.at
      /\ r.recvSize = p.recvSize - PacketSize /\ r.recvCount = p.recvCount + 1
  <2> HIDE DEF p
  <2> QED BY <1>1, <1>5 DEF PushRecord
<1>7. \A b \in Blocks : b # p.packet => content'[b] = content[b]
  BY <1>3 DEF Blocks
<1>8. content'[p.packet] = <<p.session, p.at + PacketSize * p.recvCount>>
  <2> HIDE DEF p
  <2> QED BY <1>2, <1>3 DEF Blocks
<1> HIDE DEF r
<1> QED BY <1>1, <1>2, <1>3, <1>4, <1>5, <1>6, <1>7, <1>8

LEMMA CheckQueueStep ==
  ASSUME PHTypeOK, NEW i \in Threads, CheckQueue(i)
  PROVE  /\ handler' \in [Threads -> HandlerRecord'] /\ HandlerRecord' = HandlerRecord
         /\ \A j \in Threads : j # i => handler'[j] = handler[j]
         /\ handler[i].pc = "idle" /\ m_packetQueue[i] # <<>>
         /\ handler'[i].pc = "pop" /\ handler'[i].session = handler[i].session
         /\ handler'[i].packet = handler[i].packet
<1> DEFINE r == [handler[i] EXCEPT !.pc = "pop"]
<1>1. handler[i] \in HandlerRecord /\ handler \in [Threads -> HandlerRecord]
  BY DEF PHTypeOK, HandlerRecord
<1>2. handler' = [handler EXCEPT ![i] = r]
  BY DEF CheckQueue
<1>3. /\ r \in HandlerRecord /\ r.pc = "pop" /\ r.session = handler[i].session
      /\ r.packet = handler[i].packet
  BY <1>1 DEF HandlerRecord
<1>4. HandlerRecord' = HandlerRecord
  BY DEF CheckQueue, HandlerRecord, Blocks
<1> HIDE DEF r
<1> QED BY <1>1, <1>2, <1>3, <1>4 DEF CheckQueue

LEMMA PopPacketStep ==
  ASSUME PHTypeOK, InPlace, NEW i \in Threads, PopPacket(i)
  PROVE  /\ handler' \in [Threads -> HandlerRecord'] /\ HandlerRecord' = HandlerRecord
         /\ \A j \in Threads : j # i => handler'[j] = handler[j]
         /\ handler[i].pc = "pop" /\ m_packetQueue[i] # <<>>
         /\ Head(m_packetQueue[i]) \in Sessions \X Blocks
         /\ handler'[i].pc = "process" /\ handler'[i].session = Head(m_packetQueue[i])[1]
         /\ handler'[i].packet = Head(m_packetQueue[i])[2]
         /\ m_packetQueue' = [m_packetQueue EXCEPT ![i] = Tail(m_packetQueue[i])]
<1> DEFINE pair == Head(m_packetQueue[i])
<1> DEFINE r == [handler[i] EXCEPT !.pc = "process", !.session = pair[1], !.packet = pair[2]]
<1>1. handler[i] \in HandlerRecord /\ handler \in [Threads -> HandlerRecord]
  BY DEF PHTypeOK, HandlerRecord
<1>2. m_packetQueue[i] # <<>> /\ handler[i].pc = "pop"
  BY DEF PopPacket, InPlace
<1>3. /\ handler' = [handler EXCEPT ![i] = r]
      /\ m_packetQueue' = [m_packetQueue EXCEPT ![i] = Tail(m_packetQueue[i])]
  BY <1>2 DEF PopPacket
<1>4. pair \in Sessions \X Blocks
  BY <1>2 DEF PHTypeOK
<1>5. /\ r \in HandlerRecord /\ r.pc = "process" /\ r.session = pair[1] /\ r.packet = pair[2]
  <2> HIDE DEF pair
  <2> QED BY <1>1, <1>4 DEF HandlerRecord
<1>6. HandlerRecord' = HandlerRecord
  BY DEF PopPacket, HandlerRecord, Blocks
<1> HIDE DEF r
<1> QED BY <1>1, <1>2, <1>3, <1>4, <1>5, <1>6

\* The packet is judged by its header, or its sequence number is looked up.
LEMMA ProcessHeaderStep ==
  ASSUME PHTypeOK, InPlace, NEW i \in Threads, ProcessHeader(i)
  PROVE  /\ handler' \in [Threads -> HandlerRecord'] /\ HandlerRecord' = HandlerRecord
         /\ \A j \in Threads : j # i => handler'[j] = handler[j]
         /\ handler[i].pc = "process" /\ handler[i].packet \in Blocks
         /\ handler[i].session \in Sessions
         /\ handler'[i].session = handler[i].session /\ handler'[i].packet = handler[i].packet
         /\ \/ handler'[i].pc = "seq" /\ UNCHANGED handled
            \/ /\ handler'[i].pc = "recycle"
               /\ handled' = [handled EXCEPT ![handler[i].session] =
                                Append(handled[handler[i].session], content[handler[i].packet][2])]
<1> DEFINE h == handler[i]
<1>1. h \in HandlerRecord /\ handler \in [Threads -> HandlerRecord]
  BY DEF PHTypeOK, HandlerRecord
<1>2. h.pc = "process" /\ h.packet # Null /\ h.packet \in Blocks /\ h.session \in Sessions
  <2>1. h.pc = "process" /\ h.packet \in Blocks \cup {Null}
    BY <1>1 DEF ProcessHeader, HandlerRecord
  <2> QED BY <2>1 DEF InPlace, Holding
<1>3. HandlerRecord' = HandlerRecord
  BY DEF ProcessHeader, HandlerRecord, Blocks
<1> DEFINE q == [h EXCEPT !.pc = "seq", !.seq = GetSequence(h.session)]
<1> DEFINE r == [h EXCEPT !.pc = "recycle"]
<1>4. \/ handler' = [handler EXCEPT ![i] = q] /\ UNCHANGED handled
      \/ /\ handler' = [handler EXCEPT ![i] = r]
         /\ handled' = [handled EXCEPT ![h.session] =
                          Append(handled[h.session], content[h.packet][2])]
  BY <1>2 DEF ProcessHeader
<1>5. GetSequence(h.session) \in 0..SeqMax
  BY PacketHandlerAssumption DEF PHTypeOK, GetSequence
<1>6. /\ q \in HandlerRecord /\ q.pc = "seq" /\ q.session = h.session /\ q.packet = h.packet
      /\ r \in HandlerRecord /\ r.pc = "recycle" /\ r.session = h.session /\ r.packet = h.packet
  <2> HIDE DEF h
  <2> QED BY <1>1, <1>5 DEF HandlerRecord
<1> HIDE DEF q, r
<1> QED BY <1>1, <1>2, <1>3, <1>4, <1>6

LEMMA ReadsType ==
  ASSUME PHTypeOK, NEW b \in Blocks, content[b][1] \in Sessions, NEW p \in Reads(b)
  PROVE  p.seqNum \in 0..SeqMax
<1>1. \A s \in Sessions : \A k \in DOMAIN stream[s] : stream[s][k] \in PacketType
  BY DEF PHTypeOK
<1>2. p \in PacketType
  <2>1. [seqNum : {0, 1}, head : BOOLEAN, tail : BOOLEAN] \subseteq PacketType
    BY PacketHandlerAssumption DEF PacketType
  <2> DEFINE s == content[b][1]
  <2> DEFINE k == (content[b][2] - 1) \div PacketSize + 1
  <2>2. CASE content[b][2] = (k - 1) * PacketSize + 1 /\ k \in DOMAIN stream[s]
    <3>1. p \in {stream[s][k]}
      BY <2>2 DEF Reads
    <3> HIDE DEF k, s
    <3> QED BY <1>1, <2>2, <3>1 DEF s
  <2>3. CASE ~(content[b][2] = (k - 1) * PacketSize + 1 /\ k \in DOMAIN stream[s])
    <3>1. p \in [seqNum : {0, 1}, head : BOOLEAN, tail : BOOLEAN]
      BY <2>3 DEF Reads
    <3> QED BY <2>1, <3>1
  <2> QED BY <2>2, <2>3
<1> QED BY <1>2 DEF PacketType

LEMMA ProcessSequenceStep ==
  ASSUME PHTypeOK, InPlace, Filled, NEW i \in Threads, ProcessSequence(i)
  PROVE  /\ handler' \in [Threads -> HandlerRecord'] /\ HandlerRecord' = HandlerRecord
         /\ \A j \in Threads : j # i => handler'[j] = handler[j]
         /\ handler[i].pc = "seq" /\ handler[i].packet \in Blocks
         /\ handler[i].session \in Sessions
         /\ handler'[i].session = handler[i].session /\ handler'[i].packet = handler[i].packet
         /\ handler'[i].pc = "recycle"
         /\ handled' = [handled EXCEPT ![handler[i].session] =
                          Append(handled[handler[i].session], content[handler[i].packet][2])]
         /\ DOMAIN m_sessionSequnceMap' = DOMAIN m_sessionSequnceMap
         /\ \A s \in DOMAIN m_sessionSequnceMap : m_sessionSequnceMap'[s] \in 0..SeqMax
         /\ passed' \in [Sessions -> Seq(Nat)]
<1> DEFINE h == handler[i]
<1>1. h \in HandlerRecord /\ handler \in [Threads -> HandlerRecord]
  BY DEF PHTypeOK, HandlerRecord
<1>2. h.pc = "seq" /\ h.packet # Null /\ h.packet \in Blocks /\ h.session \in Sessions
      /\ content[h.packet][1] \in Sessions /\ content[h.packet][2] \in Nat
  <2>1. h.pc = "seq" /\ h.packet \in Blocks \cup {Null}
    BY <1>1 DEF ProcessSequence, HandlerRecord
  <2>2. h.packet # Null /\ h.session \in Sessions /\ content[h.packet][1] = h.session
    BY <2>1 DEF InPlace, Filled, Holding
  <2>3. content[h.packet] \in (Sessions \cup {NoSession}) \X Nat
    BY <2>1, <2>2 DEF PHTypeOK
  <2> QED BY <2>1, <2>2, <2>3
<1>3. HandlerRecord' = HandlerRecord
  BY DEF ProcessSequence, HandlerRecord, Blocks
<1> DEFINE r == [h EXCEPT !.pc = "recycle"]
<1>4. /\ handler' = [handler EXCEPT ![i] = r]
      /\ handled' = [handled EXCEPT ![h.session] =
                       Append(handled[h.session], content[h.packet][2])]
  BY DEF ProcessSequence
<1>5. PICK p \in Reads(h.packet) :
        /\ m_sessionSequnceMap' =
             IF SeqOK(p, h.seq) /\ h.session \in DOMAIN m_sessionSequnceMap
             THEN [m_sessionSequnceMap EXCEPT ![h.session] = p.seqNum]
             ELSE m_sessionSequnceMap
        /\ passed' = IF SeqOK(p, h.seq) /\ p.tail
                     THEN [passed EXCEPT ![h.session] =
                             Append(passed[h.session], content[h.packet][2])]
                     ELSE passed
  BY DEF ProcessSequence
<1>6. p.seqNum \in 0..SeqMax
  BY <1>2, ReadsType
<1>7. /\ r \in HandlerRecord /\ r.pc = "recycle" /\ r.session = h.session /\ r.packet = h.packet
  <2> HIDE DEF h
  <2> QED BY <1>1 DEF HandlerRecord
<1>8. /\ DOMAIN m_sessionSequnceMap' = DOMAIN m_sessionSequnceMap
      /\ \A s \in DOMAIN m_sessionSequnceMap : m_sessionSequnceMap'[s] \in 0..SeqMax
  <2>1. \A s \in DOMAIN m_sessionSequnceMap : m_sessionSequnceMap[s] \in 0..SeqMax
    BY DEF PHTypeOK
  <2> HIDE DEF h
  <2> QED BY <1>5, <1>6, <2>1
<1>9. passed' \in [Sessions -> Seq(Nat)]
  <2>1. passed \in [Sessions -> Seq(Nat)]
    BY DEF PHTypeOK
  <2>2. Append(passed[h.session], content[h.packet][2]) \in Seq(Nat)
    <3>1. passed[h.session] \in Seq(Nat)
      BY <1>2, <2>1
    <3> QED BY <1>2, <3>1, AppendProperties
  <2> HIDE DEF h
  <2> QED BY <1>5, <2>1, <2>2
<1> HIDE DEF r
<1> QED BY <1>1, <1>2, <1>3, <1>4, <1>7, <1>8, <1>9

LEMMA RecycleStep ==
  ASSUME PHTypeOK, InPlace, NEW i \in Threads, Recycle(i)
  PROVE  /\ handler' \in [Threads -> HandlerRecord'] /\ Blocks' = Blocks
         /\ \A j \in Threads : j # i => handler'[j] = handler[j]
         /\ handler[i].pc = "recycle" /\ handler[i].packet \in Blocks
         /\ handler'[i].pc = "idle" /\ handler'[i].session = NoSession
         /\ handler'[i].packet = Null
         /\ m_recvPacketPool' = Append(m_recvPacketPool, handler[i].packet)
         /\ \A b \in Blocks : b # handler[i].packet => content'[b] = content[b]
         /\ content'[handler[i].packet] = Free
<1> DEFINE h == handler[i]
<1>1. h \in HandlerRecord /\ handler \in [Threads -> HandlerRecord]
  BY DEF PHTypeOK, HandlerRecord
<1>2. h.pc = "recycle" /\ h.packet \in Blocks
  <2>1. h.pc = "recycle" /\ h.packet \in Blocks \cup {Null}
    BY <1>1 DEF Recycle, HandlerRecord
  <2> QED BY <2>1 DEF InPlace, Holding
<1>3. /\ handler' = [handler EXCEPT ![i] = InitHandler(i)]
      /\ m_recvPacketPool' = Append(m_recvPacketPool, h.packet)
      /\ content' = [content EXCEPT ![h.packet] = Free]
  BY DEF Recycle
<1>4. Blocks' = Blocks /\ HandlerRecord' = HandlerRecord
  BY <1>3 DEF Blocks, HandlerRecord
<1>5. /\ InitHandler(i) \in HandlerRecord /\ InitHandler(i).pc = "idle"
      /\ InitHandler(i).session = NoSession /\ InitHandler(i).packet = Null
  BY PacketHandlerAssumption DEF InitHandler, HandlerRecord
<1>6. content'[h.packet] = Free /\ \A b \in Blocks : b # h.packet => content'[b] = content[b]
  <2> HIDE DEF h
  <2> QED BY <1>2, <1>3 DEF Blocks
<1> QED BY <1>1, <1>2, <1>3, <1>4, <1>5, <1>6

-----------------------------------------------------------------------------
(* The pool and the queues, entry by entry.                                *)

LEMMA QueuedIs ==
  ASSUME PHTypeOK
  PROVE  /\ \A i \in Threads : DOMAIN m_packetQueue[i] = 1..Len(m_packetQueue[i])
                               /\ Len(m_packetQueue[i]) \in Nat
         /\ \A i \in Threads : \A j \in 1..Len(m_packetQueue[i]) :
              <<i, j>> \in Queued /\ Entry(<<i, j>>) = m_packetQueue[i][j]
         /\ \A x \in Queued :
              /\ x = <<x[1], x[2]>> /\ x[1] \in Threads /\ x[2] \in 1..Len(m_packetQueue[x[1]])
              /\ Entry(x) \in Sessions \X Blocks
              /\ Entry(x)[1] \in Sessions /\ Entry(x)[2] \in Blocks
<1>1. \A i \in Threads : m_packetQueue[i] \in Seq(Sessions \X Blocks)
  BY DEF PHTypeOK
<1>2. \A i \in Threads : DOMAIN m_packetQueue[i] = 1..Len(m_packetQueue[i])
                         /\ Len(m_packetQueue[i]) \in Nat
  BY <1>1
<1>3. \A x \in Queued : x = <<x[1], x[2]>> /\ x[1] \in Threads
                        /\ x[2] \in 1..Len(m_packetQueue[x[1]])
  BY <1>2 DEF Queued
<1>4. \A i \in Threads : \A j \in 1..Len(m_packetQueue[i]) :
        <<i, j>> \in Queued /\ Entry(<<i, j>>) = m_packetQueue[i][j]
  BY <1>2 DEF Queued, Entry
<1>5. ASSUME NEW x \in Queued
      PROVE  Entry(x) \in Sessions \X Blocks /\ Entry(x)[1] \in Sessions /\ Entry(x)[2] \in Blocks
  <2>1. x[1] \in Threads /\ x[2] \in 1..Len(m_packetQueue[x[1]])
    BY <1>3
  <2>2. Entry(x) \in Sessions \X Blocks
    BY <1>1, <2>1 DEF Entry
  <2> QED BY <2>2
<1> QED BY <1>2, <1>3, <1>4, <1>5

LEMMA SameQueued ==
  ASSUME UNCHANGED m_packetQueue
  PROVE  Queued' = Queued /\ \A x : Entry(x)' = Entry(x)
BY DEF Queued, Entry

Before(x, y) == x[2] < y[2]

\* A new entry at the end of queue i.
LEMMA QueuedAppend ==
  ASSUME PHTypeOK, NEW i \in Threads, NEW e \in Sessions \X Blocks,
         m_packetQueue' = [m_packetQueue EXCEPT ![i] = Append(m_packetQueue[i], e)]
  PROVE  \E y : /\ y \notin Queued /\ Queued' = Queued \cup {y}
                /\ y[1] = i /\ Entry(y)' = e /\ \A x \in Queued : Entry(x)' = Entry(x)
                /\ \A x \in Queued : x[1] = i => Before(x, y)
                /\ m_packetQueue' \in [Threads -> Seq(Sessions \X Blocks)]
                /\ \A j \in Threads : m_packetQueue[j] # <<>> => m_packetQueue'[j] # <<>>
<1> DEFINE q == m_packetQueue[i]
<1> DEFINE r == Append(q, e)
<1> DEFINE n == Len(q) + 1
<1>0. PICK y : y = <<i, n>>
  OBVIOUS
<1>1. q \in Seq(Sessions \X Blocks) /\ m_packetQueue \in [Threads -> Seq(Sessions \X Blocks)]
  BY DEF PHTypeOK
<1>2. /\ Len(q) \in Nat /\ r \in Seq(Sessions \X Blocks) /\ Len(r) = n /\ r[n] = e
      /\ \A j \in 1..Len(q) : r[j] = q[j]
      /\ DOMAIN r = 1..n /\ DOMAIN q = 1..Len(q)
  BY <1>1
<1>3. r # <<>>
  BY <1>2
<1> HIDE DEF r
<1>4. /\ m_packetQueue' \in [Threads -> Seq(Sessions \X Blocks)] /\ m_packetQueue'[i] = r
      /\ \A j \in Threads : j # i => m_packetQueue'[j] = m_packetQueue[j]
  BY <1>1, <1>2 DEF r
<1>5. /\ Queued = UNION {{j} \X DOMAIN m_packetQueue[j] : j \in Threads}
      /\ Queued' = UNION {{j} \X DOMAIN m_packetQueue'[j] : j \in Threads}
  BY DEF Queued
<1>6. y \notin Queued
  BY <1>0, <1>2, <1>5
<1>7. Queued' = Queued \cup {y}
  <2>1. \A x \in Queued' : x \in Queued \cup {y}
    BY <1>0, <1>2, <1>4, <1>5
  <2>2. \A x \in Queued : x \in Queued'
    BY <1>2, <1>4, <1>5
  <2>3. y \in Queued'
    BY <1>0, <1>2, <1>4, <1>5
  <2> QED BY <2>1, <2>2, <2>3
<1>8. Entry(y)' = e
  BY <1>0, <1>2, <1>4 DEF Entry
<1>9. ASSUME NEW x \in Queued
      PROVE  Entry(x)' = Entry(x) /\ (x[1] = i => Before(x, y))
  <2>1. x[1] \in Threads /\ x[2] \in 1..Len(m_packetQueue[x[1]])
    BY QueuedIs
  <2> QED BY <1>0, <1>2, <1>4, <2>1 DEF Entry, Before
<1>10. y[1] = i
  BY <1>0
<1> QED BY <1>3, <1>4, <1>6, <1>7, <1>8, <1>9, <1>10

\* The entry of the old queues that entry x of the new ones was, when the
\* first of queue i has been taken.
Shift(i, x) == IF x[1] = i THEN <<i, x[2] + 1>> ELSE x

LEMMA QueuedTail ==
  ASSUME PHTypeOK, NEW i \in Threads, m_packetQueue[i] # <<>>,
         m_packetQueue' = [m_packetQueue EXCEPT ![i] = Tail(m_packetQueue[i])]
  PROVE  /\ <<i, 1>> \in Queued /\ Entry(<<i, 1>>) = Head(m_packetQueue[i])
         /\ \A x \in Queued' : /\ Shift(i, x) \in Queued /\ Shift(i, x) # <<i, 1>>
                               /\ Shift(i, x)[1] = x[1] /\ Entry(x)' = Entry(Shift(i, x))
         /\ \A x, y \in Queued' : Shift(i, x) = Shift(i, y) => x = y
         /\ \A x, y \in Queued' : x[1] = y[1] /\ x[2] < y[2] => Shift(i, x)[2] < Shift(i, y)[2]
         /\ \A y \in Queued : y # <<i, 1>> => \E x \in Queued' : Shift(i, x) = y
         /\ \A y \in Queued : y # <<i, 1>> /\ y[1] = i => y[2] > 1
         /\ m_packetQueue' \in [Threads -> Seq(Sessions \X Blocks)]
         /\ \A j \in Threads : j # i => m_packetQueue'[j] = m_packetQueue[j]
<1> DEFINE q == m_packetQueue[i]
<1> DEFINE r == Tail(q)
<1>1. q \in Seq(Sessions \X Blocks) /\ m_packetQueue \in [Threads -> Seq(Sessions \X Blocks)]
  BY DEF PHTypeOK
<1>2. /\ Len(q) \in Nat /\ Len(q) >= 1 /\ r \in Seq(Sessions \X Blocks) /\ Len(r) = Len(q) - 1
      /\ \A j \in 1..Len(r) : r[j] = q[j + 1]
      /\ Head(q) = q[1] /\ DOMAIN r = 1..Len(r) /\ DOMAIN q = 1..Len(q)
  BY <1>1
<1> HIDE DEF r
<1>3. /\ m_packetQueue' \in [Threads -> Seq(Sessions \X Blocks)] /\ m_packetQueue'[i] = r
      /\ \A j \in Threads : j # i => m_packetQueue'[j] = m_packetQueue[j]
  BY <1>1, <1>2 DEF r
<1>4. \A x \in Queued' : /\ x = <<x[1], x[2]>> /\ x[1] \in Threads
                         /\ x[2] \in DOMAIN m_packetQueue'[x[1]]
  BY DEF Queued
<1>5. \A j \in Threads : \A k \in DOMAIN m_packetQueue'[j] : <<j, k>> \in Queued'
  BY DEF Queued
<1>6. \A x \in Queued : /\ x = <<x[1], x[2]>> /\ x[1] \in Threads
                        /\ x[2] \in 1..Len(m_packetQueue[x[1]])
  BY QueuedIs
<1>7. \A j \in Threads : DOMAIN m_packetQueue[j] = 1..Len(m_packetQueue[j])
                         /\ Len(m_packetQueue[j]) \in Nat
  BY QueuedIs
<1>8. <<i, 1>> \in Queued /\ Entry(<<i, 1>>) = Head(q)
  BY <1>2, QueuedIs
<1>9. ASSUME NEW x \in Queued'
      PROVE  /\ Shift(i, x) \in Queued /\ Shift(i, x) # <<i, 1>>
             /\ Shift(i, x)[1] = x[1] /\ Entry(x)' = Entry(Shift(i, x))
  <2>1. /\ x = <<x[1], x[2]>> /\ x[1] \in Threads /\ x[2] \in DOMAIN m_packetQueue'[x[1]]
    BY <1>4
  <2>2. CASE x[1] = i
    <3>1. x[2] \in 1..Len(r)
      BY <1>2, <1>3, <2>1, <2>2
    <3>2. x[2] \in Nat /\ x[2] + 1 \in 1..Len(q) /\ x[2] + 1 # 1
      BY <1>2, <3>1
    <3>3. Shift(i, x) = <<i, x[2] + 1>>
      BY <2>2 DEF Shift
    <3>4. <<i, x[2] + 1>> \in Queued /\ Entry(<<i, x[2] + 1>>) = q[x[2] + 1]
      BY <3>2, QueuedIs
    <3>5. Entry(x)' = r[x[2]]
      BY <1>3, <2>2 DEF Entry
    <3> QED BY <1>2, <2>2, <3>1, <3>2, <3>3, <3>4, <3>5
  <2>3. CASE x[1] # i
    <3>1. Shift(i, x) = x /\ m_packetQueue'[x[1]] = m_packetQueue[x[1]]
      BY <1>3, <2>1, <2>3 DEF Shift
    <3>2. x[2] \in 1..Len(m_packetQueue[x[1]])
      BY <1>7, <2>1, <3>1
    <3>3. <<x[1], x[2]>> \in Queued
      BY <2>1, <3>2, QueuedIs
    <3>4. x \in Queued /\ Entry(x)' = Entry(x)
      BY <2>1, <3>1, <3>3 DEF Entry
    <3> QED BY <1>6, <2>3, <3>1, <3>4
  <2> QED BY <2>2, <2>3
<1>10. \A x \in Queued' : x[2] \in Nat
  BY <1>2, <1>3, <1>4, <1>7
<1>11. \A x, y \in Queued' : Shift(i, x) = Shift(i, y) => x = y
  BY <1>4, <1>9, <1>10 DEF Shift
<1>12. \A x, y \in Queued' : x[1] = y[1] /\ x[2] < y[2] => Shift(i, x)[2] < Shift(i, y)[2]
  BY <1>10 DEF Shift
<1>13. ASSUME NEW y \in Queued, y # <<i, 1>>
       PROVE  /\ \E x \in Queued' : Shift(i, x) = y
              /\ y[1] = i => y[2] > 1
  <2>1. y = <<y[1], y[2]>> /\ y[1] \in Threads /\ y[2] \in 1..Len(m_packetQueue[y[1]])
    BY <1>6
  <2>2. CASE y[1] = i
    <3>1. y[2] \in Nat /\ y[2] # 1 /\ y[2] - 1 \in 1..Len(r)
      BY <1>2, <1>13, <2>1, <2>2
    <3>2. <<i, y[2] - 1>> \in Queued'
      BY <1>2, <1>3, <1>5, <3>1
    <3>3. Shift(i, <<i, y[2] - 1>>) = y
      BY <2>1, <2>2, <3>1 DEF Shift
    <3> QED BY <2>1, <3>1, <3>2, <3>3
  <2>3. CASE y[1] # i
    <3>1. y[2] \in DOMAIN m_packetQueue'[y[1]]
      BY <1>3, <1>7, <2>1, <2>3
    <3>2. y \in Queued'
      BY <1>5, <2>1, <3>1
    <3> QED BY <2>3, <3>2 DEF Shift
  <2> QED BY <2>2, <2>3
<1> QED BY <1>3, <1>8, <1>9, <1>11, <1>12, <1>13

Pooled == DOMAIN m_recvPacketPool

LEMMA PoolAppend ==
  ASSUME PHTypeOK, NEW b \in Blocks, m_recvPacketPool' = Append(m_recvPacketPool, b)
  PROVE  \E k : /\ k \notin Pooled /\ Pooled' = Pooled \cup {k}
                /\ m_recvPacketPool'[k] = b
                /\ \A j \in Pooled : m_recvPacketPool'[j] = m_recvPacketPool[j]
                /\ m_recvPacketPool' \in Seq(Blocks)
<1>1. m_recvPacketPool \in Seq(Blocks)
  BY DEF PHTypeOK
<1>2. /\ Pooled = 1..Len(m_recvPacketPool) /\ Len(m_recvPacketPool) \in Nat
      /\ Pooled' = 1..(Len(m_recvPacketPool) + 1)
      /\ m_recvPacketPool'[Len(m_recvPacketPool) + 1] = b
      /\ \A j \in 1..Len(m_recvPacketPool) : m_recvPacketPool'[j] = m_recvPacketPool[j]
      /\ m_recvPacketPool' \in Seq(Blocks)
  BY <1>1 DEF Pooled
<1>3. Pooled' = Pooled \cup {Len(m_recvPacketPool) + 1} /\ Len(m_recvPacketPool) + 1 \notin Pooled
  BY <1>2
<1> QED BY <1>2, <1>3

LEMMA PoolTail ==
  ASSUME PHTypeOK, m_recvPacketPool # <<>>, m_recvPacketPool' = Tail(m_recvPacketPool)
  PROVE  /\ 1 \in Pooled /\ Head(m_recvPacketPool) = m_recvPacketPool[1]
         /\ \A j \in Pooled' : /\ j + 1 \in Pooled /\ j + 1 # 1
                               /\ m_recvPacketPool'[j] = m_recvPacketPool[j + 1]
         /\ \A j, k \in Pooled' : j + 1 = k + 1 => j = k
         /\ \A k \in Pooled : k # 1 => \E j \in Pooled' : j + 1 = k
         /\ m_recvPacketPool' \in Seq(Blocks)
<1>1. m_recvPacketPool \in Seq(Blocks)
  BY DEF PHTypeOK
<1>2. /\ Pooled = 1..Len(m_recvPacketPool) /\ Len(m_recvPacketPool) \in Nat
      /\ Len(m_recvPacketPool) >= 1 /\ Head(m_recvPacketPool) = m_recvPacketPool[1]
      /\ Pooled' = 1..(Len(m_recvPacketPool) - 1)
      /\ \A j \in 1..(Len(m_recvPacketPool) - 1) : m_recvPacketPool'[j] = m_recvPacketPool[j + 1]
      /\ m_recvPacketPool' \in Seq(Blocks)
  BY <1>1 DEF Pooled
<1>3. \A k \in Pooled : k # 1 => k - 1 \in Pooled' /\ (k - 1) + 1 = k
  BY <1>2
<1> QED BY <1>2, <1>3

-----------------------------------------------------------------------------
(* No step breaks PHInv.                                                   *)

\* A step that moves no block.
LEMMA SameBlocks ==
  ASSUME Apart, Owned, UNCHANGED <<m_recvPacketPool, m_packetQueue, Blocks>>,
         \A i \in Threads : /\ push'[i].packet = push[i].packet
                            /\ handler'[i].packet = handler[i].packet
  PROVE  Apart' /\ Owned'
<1>1. Queued' = Queued /\ \A x : Entry(x)' = Entry(x)
  BY SameQueued
<1>2. Apart'
  BY <1>1 DEF Apart
<1>3. Owned'
  BY <1>1 DEF Owned
<1> QED BY <1>2, <1>3

LEMMA PushPacketInv ==
  ASSUME PHInv, NEW s \in Sessions, NEW at \in Nat, NEW size \in Nat,
         ThreadOf(s) \in Threads, PushPacket(ThreadOf(s), s, at, size),
         UNCHANGED <<queues, m_sessionSequnceMap, content, handler, stream, history>>
  PROVE  PHInv'
<1> DEFINE i == ThreadOf(s)
<1>u. UNCHANGED <<m_recvPacketPool, m_packetQueue, m_sessionSequnceMap, content, handler,
                  stream, handled, passed>>
  BY DEF queues, history
<1>i. PHTypeOK /\ InPlace /\ Filled /\ Apart /\ Owned
  BY DEF PHInv
<1>b. Blocks' = Blocks
  BY <1>u DEF Blocks
<1>1. /\ push' \in [Threads -> PushRecord'] /\ i \in Threads
      /\ \A j \in Threads : j # i => push'[j] = push[j]
      /\ push'[i].pc = "take" /\ push'[i].session = s /\ push'[i].packet = Null
  BY <1>i, <1>b, PushPacketStep
<1>2. push[i].pc = "idle" /\ push[i].packet = Null
  BY <1>i, <1>1 DEF PushPacket, InPlace
<1>3. Queued' = Queued /\ \A x : Entry(x)' = Entry(x)
  BY <1>u, SameQueued
<1>4. PHTypeOK'
  BY <1>i, <1>u, <1>b, <1>1 DEF PHTypeOK, PushRecord
<1>5. InPlace'
  BY <1>i, <1>u, <1>1, <1>3 DEF InPlace, Holding
<1>6. Filled'
  BY <1>i, <1>u, <1>3 DEF Filled, Holding
<1>7. Apart' /\ Owned'
  BY <1>i, <1>u, <1>b, <1>1, <1>2, SameBlocks
<1> QED BY <1>4, <1>5, <1>6, <1>7 DEF PHInv

\* The same for the end of PushPacket, and for a worker that forgets it.
LEMMA PushIdleInv ==
  ASSUME PHInv, NEW i \in Threads, push[i].pc # "put",
         push' \in [Threads -> PushRecord'], push'[i].pc = "idle", push'[i].packet = Null,
         \A j \in Threads : j # i => push'[j] = push[j],
         UNCHANGED <<queues, m_sessionSequnceMap, content, handler, stream, history>>
  PROVE  PHInv'
<1>u. UNCHANGED <<m_recvPacketPool, m_packetQueue, m_sessionSequnceMap, content, handler,
                  stream, handled, passed>>
  BY DEF queues, history
<1>i. PHTypeOK /\ InPlace /\ Filled /\ Apart /\ Owned
  BY DEF PHInv
<1>b. Blocks' = Blocks
  BY <1>u DEF Blocks
<1>2. push[i].packet = Null
  BY <1>i DEF InPlace
<1>3. Queued' = Queued /\ \A x : Entry(x)' = Entry(x)
  BY <1>u, SameQueued
<1>4. PHTypeOK'
  BY <1>i, <1>u, <1>b DEF PHTypeOK, PushRecord
<1>5. InPlace'
  BY <1>i, <1>u, <1>3 DEF InPlace, Holding
<1>6. Filled'
  BY <1>i, <1>u, <1>3 DEF Filled, Holding
<1>7. Apart' /\ Owned'
  BY <1>i, <1>u, <1>b, <1>2, SameBlocks
<1> QED BY <1>4, <1>5, <1>6, <1>7 DEF PHInv

LEMMA PushReturnInv ==
  ASSUME PHInv, NEW i \in Threads, PushReturn(i)
  PROVE  PHInv'
<1>1. PHTypeOK
  BY DEF PHInv
<1>2. push[i].pc # "put"
      /\ UNCHANGED <<queues, m_sessionSequnceMap, content, handler, stream, history>>
  BY DEF PushReturn
<1> QED BY <1>1, <1>2, PushReturnStep, PushIdleInv

\* The block leaves the pool, or is new, and is the worker's alone.
LEMMA TakePacketInv ==
  ASSUME PHInv, NEW i \in Threads, TakePacket(i)
  PROVE  PHInv'
<1>u. UNCHANGED <<m_packetQueue, m_sessionSequnceMap, handler, stream, handled, passed>>
  BY DEF TakePacket, history
<1>i. PHTypeOK /\ InPlace /\ Filled /\ Apart /\ Owned
  BY DEF PHInv
<1>0. push[i].pc = "take" /\ push[i].packet = Null /\ push[i].recvSize >= PacketSize
  BY <1>i DEF TakePacket, InPlace
<1>1. PICK block \in Blocks' :
        /\ push' \in [Threads -> PushRecord']
        /\ \A j \in Threads : j # i => push'[j] = push[j]
        /\ push'[i].pc = "put" /\ push'[i].packet = block
        /\ push'[i].session = push[i].session
        /\ push'[i].recvSize = push[i].recvSize
        /\ Blocks' = Blocks \cup {block} /\ block # Null
        /\ IsFiniteSet(Blocks') /\ Blocks' = 1..Cardinality(Blocks')
        /\ \A b \in Blocks : b # block => content'[b] = content[b]
        /\ content'[block] = Free
        /\ \/ m_recvPacketPool # <<>> /\ block = Head(m_recvPacketPool)
              /\ m_recvPacketPool' = Tail(m_recvPacketPool)
           \/ m_recvPacketPool = <<>> /\ m_recvPacketPool' = <<>> /\ block \notin Blocks
  BY <1>i, TakePacketStep
<1>2. Queued' = Queued /\ \A x : Entry(x)' = Entry(x)
  BY <1>u, SameQueued
<1>3. \A x \in Queued : Entry(x)[2] \in Blocks /\ Entry(x)[1] \in Sessions
  BY <1>i, QueuedIs
<1>4. \A j \in Threads : /\ push[j].packet \in Blocks \cup {Null}
                         /\ handler[j].packet \in Blocks \cup {Null}
  BY <1>i DEF PHTypeOK
<1>5. Null \notin Blocks
  BY <1>i, BlocksNumbered
\* Nobody else has the block.
<1>6. /\ \A x \in Queued : Entry(x)[2] # block
      /\ \A j \in Threads : push[j].packet # block /\ handler[j].packet # block
  <2>1. CASE block \notin Blocks
    BY <1>1, <1>3, <1>4, <2>1
  <2>2. CASE block \in Blocks
    <3>1. 1 \in Pooled /\ m_recvPacketPool[1] = block
      BY <1>i, <1>1, <2>2, PoolTail
    <3> QED BY <1>i, <3>1 DEF Apart, Pooled
  <2> QED BY <2>1, <2>2
\* The pool is what it was, but for the block.
<1>7. /\ m_recvPacketPool' \in Seq(Blocks')
      /\ \A j \in Pooled' : /\ m_recvPacketPool'[j] \in Blocks /\ m_recvPacketPool'[j] # block
                            /\ \E k \in Pooled : m_recvPacketPool'[j] = m_recvPacketPool[k]
      /\ \A j, k \in Pooled' : m_recvPacketPool'[j] = m_recvPacketPool'[k] => j = k
      /\ \A k \in Pooled : m_recvPacketPool[k] # block =>
           \E j \in Pooled' : m_recvPacketPool'[j] = m_recvPacketPool[k]
  <2>0. m_recvPacketPool \in Seq(Blocks)
    BY <1>i DEF PHTypeOK
  <2>1. CASE m_recvPacketPool = <<>>
    <3>1. m_recvPacketPool' = <<>>
      BY <1>1, <2>1
    <3>2. Pooled = {} /\ Pooled' = {}
      BY <2>1, <3>1 DEF Pooled
    <3> QED BY <3>1, <3>2
  <2>2. CASE m_recvPacketPool # <<>>
    <3>1. /\ 1 \in Pooled /\ block = m_recvPacketPool[1]
          /\ \A j \in Pooled' : /\ j + 1 \in Pooled /\ j + 1 # 1
                                /\ m_recvPacketPool'[j] = m_recvPacketPool[j + 1]
          /\ \A j, k \in Pooled' : j + 1 = k + 1 => j = k
          /\ \A k \in Pooled : k # 1 => \E j \in Pooled' : j + 1 = k
          /\ m_recvPacketPool' \in Seq(Blocks)
      BY <1>i, <1>1, <2>2, PoolTail
    <3>2. \A j, k \in Pooled : m_recvPacketPool[j] = m_recvPacketPool[k] => j = k
      BY <1>i DEF Apart, Pooled
    <3>3. \A j \in Pooled : m_recvPacketPool[j] \in Blocks
      BY <2>0 DEF Pooled
    <3>4. Blocks' = Blocks
      BY <1>1, <3>1, <3>3
    <3> QED BY <3>1, <3>2, <3>3, <3>4
  <2> QED BY <2>1, <2>2
<1>8. PHTypeOK'
  <2>1. m_packetQueue' \in [Threads -> Seq(Sessions \X Blocks')]
    <3>1. Blocks \subseteq Blocks'
      BY <1>1
    <3>2. \A j \in Threads : m_packetQueue[j] \in Seq(Sessions \X Blocks')
      <4>1. Sessions \X Blocks \subseteq Sessions \X Blocks'
        BY <3>1
      <4>2. \A j \in Threads : m_packetQueue[j] \in Seq(Sessions \X Blocks)
        BY <1>i DEF PHTypeOK
      <4> HIDE DEF Blocks
      <4> QED BY <4>1, <4>2
    <3> QED BY <1>i, <1>u, <3>2 DEF PHTypeOK
  <2>2. \A b \in Blocks' : content'[b] \in (Sessions \cup {NoSession}) \X Nat
    <3>1. Free \in (Sessions \cup {NoSession}) \X Nat
      BY DEF Free
    <3>2. \A b \in Blocks : content[b] \in (Sessions \cup {NoSession}) \X Nat
      BY <1>i DEF PHTypeOK
    <3> QED BY <1>1, <3>1, <3>2
  <2>3. handler' \in [Threads -> HandlerRecord']
    <3>1. handler \in [Threads -> HandlerRecord]
      BY <1>i DEF PHTypeOK, HandlerRecord
    <3>2. \A h \in HandlerRecord : h \in HandlerRecord'
      BY <1>1 DEF HandlerRecord
    <3> QED BY <1>u, <3>1, <3>2
  <2> QED BY <1>i, <1>u, <1>1, <1>7, <2>1, <2>2, <2>3 DEF PHTypeOK, PushRecord, HandlerRecord
<1>9. InPlace'
  BY <1>i, <1>u, <1>0, <1>1, <1>2 DEF InPlace, Holding
<1>10. Filled'
  <2>1. \A j \in Threads : Holding(j) => handler[j].packet \in Blocks
    BY <1>i, <1>4 DEF InPlace
  <2>2. \A j \in Threads : Holding(j)' = Holding(j)
    BY <1>u DEF Holding
  <2> QED BY <1>i, <1>u, <1>1, <1>2, <1>3, <1>6, <2>1, <2>2 DEF Filled
<1>11. Apart'
  <2>1. \A j, k \in Threads : push'[j].packet = push'[k].packet => j = k \/ push'[j].packet = Null
    BY <1>i, <1>1, <1>6 DEF Apart
  <2>2. \A j \in Pooled' : /\ \A x \in Queued : Entry(x)[2] # m_recvPacketPool'[j]
                           /\ \A k \in Threads : /\ push[k].packet # m_recvPacketPool'[j]
                                                 /\ handler[k].packet # m_recvPacketPool'[j]
    BY <1>i, <1>7 DEF Apart, Pooled
  <2>3. \A j \in Pooled' : \A k \in Threads : push'[k].packet # m_recvPacketPool'[j]
    BY <1>1, <1>7, <2>2
  <2>4. \A k \in Threads : /\ \A x \in Queued : /\ Entry(x)[2] # push'[k].packet
                                               /\ Entry(x)[2] # handler[k].packet
                           /\ \A j \in Threads :
                                push'[k].packet = handler[j].packet => push'[k].packet = Null
    BY <1>i, <1>1, <1>6 DEF Apart
  <2> QED BY <1>i, <1>u, <1>2, <1>7, <2>1, <2>2, <2>3, <2>4 DEF Apart, Pooled
<1>12. Owned'
  <2> SUFFICES ASSUME NEW b \in Blocks'
               PROVE  \/ \E j \in Pooled' : m_recvPacketPool'[j] = b
                      \/ \E x \in Queued : Entry(x)[2] = b
                      \/ \E j \in Threads : push'[j].packet = b \/ handler[j].packet = b
    BY <1>u, <1>2 DEF Owned, Pooled
  <2>1. CASE b = block
    BY <1>1, <2>1
  <2>2. CASE b # block
    <3>1. b \in Blocks
      BY <1>1, <2>2
    <3>2. \/ \E j \in Pooled : m_recvPacketPool[j] = b
          \/ \E x \in Queued : Entry(x)[2] = b
          \/ \E j \in Threads : push[j].packet = b \/ handler[j].packet = b
      BY <1>i, <3>1 DEF Owned, Pooled
    <3> QED BY <1>0, <1>1, <1>5, <1>7, <2>2, <3>1, <3>2
  <2> QED BY <2>1, <2>2
<1> QED BY <1>8, <1>9, <1>10, <1>11, <1>12 DEF PHInv

\* The block goes from the worker to the end of its session's queue.
LEMMA PutPacketInv ==
  ASSUME PHInv, NEW i \in Threads, PutPacket(i)
  PROVE  PHInv'
<1>u. UNCHANGED <<m_recvPacketPool, m_sessionSequnceMap, handler, stream, handled, passed>>
  BY DEF PutPacket, history
<1>i. PHTypeOK /\ InPlace /\ Filled /\ Apart /\ Owned
  BY DEF PHInv
<1> DEFINE block == push[i].packet
<1> DEFINE s == push[i].session
<1> DEFINE e == <<s, block>>
<1>1. /\ push' \in [Threads -> PushRecord'] /\ Blocks' = Blocks
      /\ \A j \in Threads : j # i => push'[j] = push[j]
      /\ push'[i].pc = "take" /\ push'[i].packet = Null /\ push'[i].session = s
      /\ push[i].pc = "put" /\ block \in Blocks /\ s \in Sessions
      /\ \A b \in Blocks : b # block => content'[b] = content[b]
      /\ content'[block] = <<s, push[i].at + PacketSize * push[i].recvCount>>
      /\ push[i].at + PacketSize * push[i].recvCount \in Nat
      /\ m_packetQueue' = [m_packetQueue EXCEPT ![i] = Append(m_packetQueue[i], e)]
  BY <1>i, PutPacketStep
<1>2. ThreadOf(s) = i /\ e \in Sessions \X Blocks /\ e[1] = s /\ e[2] = block
  BY <1>i, <1>1 DEF InPlace
<1>3. PICK y : /\ y \notin Queued /\ Queued' = Queued \cup {y}
               /\ y[1] = i /\ Entry(y)' = e /\ \A x \in Queued : Entry(x)' = Entry(x)
               /\ m_packetQueue' \in [Threads -> Seq(Sessions \X Blocks)]
               /\ \A j \in Threads : m_packetQueue[j] # <<>> => m_packetQueue'[j] # <<>>
  <2>1. PICK d : d = e
    OBVIOUS
  <2>2. d \in Sessions \X Blocks
        /\ m_packetQueue' = [m_packetQueue EXCEPT ![i] = Append(m_packetQueue[i], d)]
    BY <1>1, <1>2, <2>1
  <2> HIDE DEF e
  <2> QED BY <1>i, <2>1, <2>2, QueuedAppend
<1>4. content'[block] \in (Sessions \cup {NoSession}) \X Nat /\ content'[block][1] = s
  BY <1>1
<1> HIDE DEF e, block, s
<1>5. block # Null /\ \A j \in Threads : j # i => push[j].packet # block
  BY <1>i, <1>1, BlocksNumbered DEF Apart, block
<1>6. /\ \A x \in Queued : Entry(x)[2] # block
      /\ \A j \in Threads : handler[j].packet # block
      /\ \A j \in Pooled : m_recvPacketPool[j] # block
  BY <1>i, <1>5 DEF Apart, Pooled, block
<1>7. PHTypeOK'
  <2>1. \A b \in Blocks' : content'[b] \in (Sessions \cup {NoSession}) \X Nat
    BY <1>i, <1>1, <1>4 DEF PHTypeOK
  <2>2. handler' \in [Threads -> HandlerRecord']
    BY <1>i, <1>u, <1>1 DEF PHTypeOK, HandlerRecord
  <2>3. m_packetQueue' \in [Threads -> Seq(Sessions \X Blocks')]
    BY <1>1, <1>3
  <2>4. m_recvPacketPool' \in Seq(Blocks')
    BY <1>i, <1>u, <1>1 DEF PHTypeOK
  <2> QED BY <1>i, <1>u, <1>1, <2>1, <2>2, <2>3, <2>4 DEF PHTypeOK, PushRecord, HandlerRecord
<1>8. InPlace'
  <2>1. \A x \in Queued' : ThreadOf(Entry(x)'[1]) = x[1]
    BY <1>i, <1>2, <1>3 DEF InPlace
  <2>2. \A j \in Threads : handler[j].pc = "pop" => m_packetQueue'[j] # <<>>
    BY <1>i, <1>3 DEF InPlace
  <2>3. \A j \in Threads : push'[j].pc # "idle" =>
          push'[j].session \in Sessions /\ ThreadOf(push'[j].session) = j
    BY <1>i, <1>1, <1>2 DEF InPlace
  <2>4. \A j \in Threads : /\ push'[j].pc = "put" <=> push'[j].packet # Null
                           /\ push'[j].pc = "put" => push'[j].recvSize >= PacketSize
    BY <1>i, <1>1 DEF InPlace
  <2> QED BY <1>i, <1>u, <2>1, <2>2, <2>3, <2>4 DEF InPlace, Holding, ThreadOf
<1>9. Filled'
  <2>1. \A x \in Queued' : content'[Entry(x)'[2]][1] = Entry(x)'[1]
    <3>1. content'[Entry(y)'[2]][1] = Entry(y)'[1]
      BY <1>2, <1>3, <1>4
    <3>2. \A x \in Queued : content'[Entry(x)[2]][1] = Entry(x)[1]
      <4>1. \A x \in Queued : Entry(x)[2] \in Blocks
        BY <1>i, QueuedIs
      <4> QED BY <1>i, <1>1, <1>6, <4>1 DEF Filled
    <3> QED BY <1>3, <3>1, <3>2
  <2>2. \A j \in Threads : Holding(j) => content'[handler[j].packet][1] = handler[j].session
    <3>1. \A j \in Threads : Holding(j) => handler[j].packet \in Blocks
      BY <1>i DEF InPlace, PHTypeOK
    <3> QED BY <1>i, <1>1, <1>6, <3>1 DEF Filled
  <2>3. \A j \in Threads : Holding(j)' = Holding(j)
    BY <1>u DEF Holding
  <2> QED BY <1>u, <2>1, <2>2, <2>3 DEF Filled
<1>10. Apart'
  <2>1. \A x, z \in Queued' : Entry(x)'[2] = Entry(z)'[2] => x = z
    BY <1>i, <1>2, <1>3, <1>6 DEF Apart
  <2>2. \A j, k \in Threads : push'[j].packet = push'[k].packet => j = k \/ push'[j].packet = Null
    BY <1>i, <1>1 DEF Apart
  <2>3. \A j \in Pooled : /\ \A x \in Queued' : Entry(x)'[2] # m_recvPacketPool[j]
                          /\ \A k \in Threads : /\ push'[k].packet # m_recvPacketPool[j]
                                                /\ handler[k].packet # m_recvPacketPool[j]
    <3>1. \A j \in Pooled : m_recvPacketPool[j] # Null
      <4>1. \A j \in Pooled : m_recvPacketPool[j] \in Blocks
        BY <1>i DEF PHTypeOK, Pooled
      <4> QED BY <1>i, <4>1, BlocksNumbered
    <3>2. \A j \in Pooled : \A x \in Queued : Entry(x)[2] # m_recvPacketPool[j]
      BY <1>i DEF Apart, Pooled
    <3>3. \A j \in Pooled : \A x \in Queued' : Entry(x)'[2] # m_recvPacketPool[j]
      BY <1>2, <1>3, <1>6, <3>2
    <3>4. \A j \in Pooled : \A k \in Threads : /\ push[k].packet # m_recvPacketPool[j]
                                               /\ handler[k].packet # m_recvPacketPool[j]
      BY <1>i DEF Apart, Pooled
    <3> QED BY <1>1, <3>1, <3>3, <3>4
  <2>4. \A k \in Threads : /\ \A x \in Queued' : /\ Entry(x)'[2] # push'[k].packet
                                                /\ Entry(x)'[2] # handler[k].packet
                           /\ \A j \in Threads :
                                push'[k].packet = handler[j].packet => push'[k].packet = Null
    <3>1. \A x \in Queued : Entry(x)[2] # Null
      BY <1>i, QueuedIs, BlocksNumbered
    <3>2. \A k \in Threads : /\ \A x \in Queued : /\ Entry(x)[2] # push[k].packet
                                                 /\ Entry(x)[2] # handler[k].packet
                             /\ \A j \in Threads :
                                  push[k].packet = handler[j].packet => push[k].packet = Null
      BY <1>i DEF Apart
    <3>3. \A k \in Threads : /\ push'[k].packet # block /\ handler[k].packet # block
                             /\ push'[k].packet = push[k].packet \/ push'[k].packet = Null
      BY <1>1, <1>5, <1>6
    <3> QED BY <1>2, <1>3, <3>1, <3>2, <3>3
  <2> QED BY <1>i, <1>u, <2>1, <2>2, <2>3, <2>4 DEF Apart, Pooled
<1>11. Owned'
  <2> SUFFICES ASSUME NEW b \in Blocks
               PROVE  \/ \E j \in Pooled : m_recvPacketPool[j] = b
                      \/ \E x \in Queued' : Entry(x)'[2] = b
                      \/ \E j \in Threads : push'[j].packet = b \/ handler[j].packet = b
    BY <1>u, <1>1 DEF Owned, Pooled
  <2>1. CASE b = block
    BY <1>2, <1>3, <2>1
  <2>2. CASE b # block
    <3>1. \/ \E j \in Pooled : m_recvPacketPool[j] = b
          \/ \E x \in Queued : Entry(x)[2] = b
          \/ \E j \in Threads : push[j].packet = b \/ handler[j].packet = b
      BY <1>i DEF Owned, Pooled
    <3>2. \A j \in Threads : push[j].packet = b => j # i
      BY <2>2 DEF block
    <3> QED BY <1>1, <1>3, <3>1, <3>2
  <2> QED BY <2>1, <2>2
<1> QED BY <1>7, <1>8, <1>9, <1>10, <1>11 DEF PHInv

\* A handler's step that keeps its packet, or its having none.
LEMMA HandlerKeepsInv ==
  ASSUME PHInv, NEW i \in Threads,
         handler' \in [Threads -> HandlerRecord'], Holding(i)' = Holding(i),
         \A j \in Threads : j # i => handler'[j] = handler[j],
         handler'[i].packet = handler[i].packet, handler'[i].session = handler[i].session,
         handler'[i].pc = "pop" => m_packetQueue[i] # <<>>,
         UNCHANGED <<queues, content, push, stream>>,
         DOMAIN m_sessionSequnceMap' \subseteq Sessions,
         \A s \in DOMAIN m_sessionSequnceMap' : m_sessionSequnceMap'[s] \in 0..SeqMax,
         handled' \in [Sessions -> Seq(Nat)], passed' \in [Sessions -> Seq(Nat)]
  PROVE  PHInv'
<1>u. UNCHANGED <<m_recvPacketPool, m_packetQueue, content, push, stream>>
  BY DEF queues
<1>i. PHTypeOK /\ InPlace /\ Filled /\ Apart /\ Owned
  BY DEF PHInv
<1>b. Blocks' = Blocks
  BY <1>u DEF Blocks
<1>1. \A j \in Threads : /\ handler'[j].packet = handler[j].packet
                         /\ handler'[j].session = handler[j].session
                         /\ Holding(j)' = Holding(j)
  BY DEF Holding
<1>2. Queued' = Queued /\ \A x : Entry(x)' = Entry(x)
  BY <1>u, SameQueued
<1>3. PHTypeOK'
  BY <1>i, <1>u, <1>b DEF PHTypeOK, HandlerRecord
<1>4. InPlace'
  BY <1>i, <1>u, <1>1, <1>2 DEF InPlace
<1>5. Filled'
  BY <1>i, <1>u, <1>1, <1>2 DEF Filled
<1>6. Apart' /\ Owned'
  BY <1>i, <1>u, <1>b, <1>1, SameBlocks
<1> QED BY <1>3, <1>4, <1>5, <1>6 DEF PHInv

LEMMA CheckQueueInv ==
  ASSUME PHInv, NEW i \in Threads, CheckQueue(i)
  PROVE  PHInv'
<1>u. UNCHANGED <<queues, m_sessionSequnceMap, content, push, stream, handled, passed>>
  BY DEF CheckQueue, history
<1>i. PHTypeOK
  BY DEF PHInv
<1>1. /\ handler' \in [Threads -> HandlerRecord']
      /\ \A j \in Threads : j # i => handler'[j] = handler[j]
      /\ handler[i].pc = "idle" /\ m_packetQueue[i] # <<>> /\ handler'[i].pc = "pop"
      /\ handler'[i].session = handler[i].session /\ handler'[i].packet = handler[i].packet
  BY <1>i, CheckQueueStep
<1>2. Holding(i)' = Holding(i)
  BY <1>1 DEF Holding
<1>3. /\ DOMAIN m_sessionSequnceMap' \subseteq Sessions
      /\ \A s \in DOMAIN m_sessionSequnceMap' : m_sessionSequnceMap'[s] \in 0..SeqMax
      /\ handled' \in [Sessions -> Seq(Nat)] /\ passed' \in [Sessions -> Seq(Nat)]
  BY <1>i, <1>u DEF PHTypeOK
<1> QED BY <1>u, <1>1, <1>2, <1>3, HandlerKeepsInv

\* What Process appends to handled, and to passed.
LEMMA HandledType ==
  ASSUME PHTypeOK, NEW s \in Sessions, NEW b \in Blocks,
         handled' = [handled EXCEPT ![s] = Append(handled[s], content[b][2])]
  PROVE  /\ handled' \in [Sessions -> Seq(Nat)]
         /\ \A t \in Sessions : t # s => handled'[t] = handled[t]
         /\ handled'[s] = Append(handled[s], content[b][2]) /\ content[b][2] \in Nat
<1>1. handled \in [Sessions -> Seq(Nat)] /\ content[b] \in (Sessions \cup {NoSession}) \X Nat
  BY DEF PHTypeOK
<1>2. content[b][2] \in Nat /\ handled[s] \in Seq(Nat)
  BY <1>1
<1>3. Append(handled[s], content[b][2]) \in Seq(Nat)
  BY <1>2, AppendProperties
<1> QED BY <1>1, <1>2, <1>3

LEMMA ProcessHeaderInv ==
  ASSUME PHInv, NEW i \in Threads, ProcessHeader(i)
  PROVE  PHInv'
<1>u. UNCHANGED <<queues, m_sessionSequnceMap, content, push, stream, passed>>
  BY DEF ProcessHeader
<1>i. PHTypeOK /\ InPlace
  BY DEF PHInv
<1>1. /\ handler' \in [Threads -> HandlerRecord']
      /\ \A j \in Threads : j # i => handler'[j] = handler[j]
      /\ handler[i].pc = "process" /\ handler'[i].pc \in {"seq", "recycle"}
      /\ handler[i].packet \in Blocks /\ handler[i].session \in Sessions
      /\ handler'[i].session = handler[i].session /\ handler'[i].packet = handler[i].packet
      /\ \/ UNCHANGED handled
         \/ handled' = [handled EXCEPT ![handler[i].session] =
                          Append(handled[handler[i].session], content[handler[i].packet][2])]
  BY <1>i, ProcessHeaderStep
<1>2. Holding(i)' = Holding(i)
  BY <1>1 DEF Holding
<1>3. handled' \in [Sessions -> Seq(Nat)]
  <2>1. CASE UNCHANGED handled
    BY <1>i, <2>1 DEF PHTypeOK
  <2>2. CASE handled' = [handled EXCEPT ![handler[i].session] =
                           Append(handled[handler[i].session], content[handler[i].packet][2])]
    BY <1>i, <1>1, <2>2, HandledType
  <2> QED BY <1>1, <2>1, <2>2
<1>4. /\ DOMAIN m_sessionSequnceMap' \subseteq Sessions
      /\ \A s \in DOMAIN m_sessionSequnceMap' : m_sessionSequnceMap'[s] \in 0..SeqMax
      /\ passed' \in [Sessions -> Seq(Nat)]
  BY <1>i, <1>u DEF PHTypeOK
<1> QED BY <1>u, <1>1, <1>2, <1>3, <1>4, HandlerKeepsInv

LEMMA ProcessSequenceInv ==
  ASSUME PHInv, NEW i \in Threads, ProcessSequence(i)
  PROVE  PHInv'
<1>u. UNCHANGED <<queues, content, push, stream>>
  BY DEF ProcessSequence
<1>i. PHTypeOK /\ InPlace /\ Filled
  BY DEF PHInv
<1>1. /\ handler' \in [Threads -> HandlerRecord']
      /\ \A j \in Threads : j # i => handler'[j] = handler[j]
      /\ handler[i].pc = "seq" /\ handler'[i].pc = "recycle"
      /\ handler[i].packet \in Blocks /\ handler[i].session \in Sessions
      /\ handler'[i].session = handler[i].session /\ handler'[i].packet = handler[i].packet
      /\ handled' = [handled EXCEPT ![handler[i].session] =
                       Append(handled[handler[i].session], content[handler[i].packet][2])]
      /\ DOMAIN m_sessionSequnceMap' = DOMAIN m_sessionSequnceMap
      /\ \A s \in DOMAIN m_sessionSequnceMap : m_sessionSequnceMap'[s] \in 0..SeqMax
      /\ passed' \in [Sessions -> Seq(Nat)]
  BY <1>i, ProcessSequenceStep
<1>2. Holding(i)' = Holding(i)
  BY <1>1 DEF Holding
<1>3. handled' \in [Sessions -> Seq(Nat)]
  BY <1>i, <1>1, HandledType
<1>4. /\ DOMAIN m_sessionSequnceMap' \subseteq Sessions
      /\ \A s \in DOMAIN m_sessionSequnceMap' : m_sessionSequnceMap'[s] \in 0..SeqMax
  BY <1>i, <1>1 DEF PHTypeOK
<1> QED BY <1>u, <1>1, <1>2, <1>3, <1>4, HandlerKeepsInv

LEMMA ResetSequenceInv ==
  ASSUME PHInv, NEW s \in Sessions, ResetSequence(s),
         UNCHANGED <<queues, content, push, handler, stream, history>>
  PROVE  PHInv'
<1>u. UNCHANGED <<m_recvPacketPool, m_packetQueue, content, push, handler, stream,
                  handled, passed>>
  BY DEF queues, history
<1>i. PHTypeOK /\ InPlace /\ Filled /\ Apart /\ Owned
  BY DEF PHInv
<1>b. Blocks' = Blocks
  BY <1>u DEF Blocks
<1>1. /\ DOMAIN m_sessionSequnceMap' \subseteq Sessions
      /\ \A t \in DOMAIN m_sessionSequnceMap' : m_sessionSequnceMap'[t] \in 0..SeqMax
  BY <1>i, PacketHandlerAssumption DEF ResetSequence, PHTypeOK
<1>2. Queued' = Queued /\ \A x : Entry(x)' = Entry(x)
  BY <1>u, SameQueued
<1>3. PHTypeOK'
  BY <1>i, <1>u, <1>b, <1>1 DEF PHTypeOK
<1>4. InPlace' /\ Filled'
  BY <1>i, <1>u, <1>2 DEF InPlace, Filled, Holding
<1>5. Apart' /\ Owned'
  BY <1>i, <1>u, <1>b, SameBlocks
<1> QED BY <1>3, <1>4, <1>5 DEF PHInv

LEMMA SamePHInv ==
  ASSUME PHInv, UNCHANGED phVars
  PROVE  PHInv'
<1>u. UNCHANGED <<m_recvPacketPool, m_packetQueue, m_sessionSequnceMap, content, push, handler,
                  stream, handled, passed>>
  BY DEF phVars, queues, history
<1>i. PHTypeOK /\ InPlace /\ Filled /\ Apart /\ Owned
  BY DEF PHInv
<1>b. Blocks' = Blocks
  BY <1>u DEF Blocks
<1>2. Queued' = Queued /\ \A x : Entry(x)' = Entry(x)
  BY <1>u, SameQueued
<1>3. PHTypeOK'
  BY <1>i, <1>u, <1>b DEF PHTypeOK
<1>4. InPlace' /\ Filled'
  BY <1>i, <1>u, <1>2 DEF InPlace, Filled, Holding
<1>5. Apart' /\ Owned'
  BY <1>i, <1>u, <1>b, SameBlocks
<1> QED BY <1>3, <1>4, <1>5 DEF PHInv

\* The first block of the queue goes into the handler's hands.
LEMMA PopPacketInv ==
  ASSUME PHInv, NEW i \in Threads, PopPacket(i)
  PROVE  PHInv'
<1>u. UNCHANGED <<m_recvPacketPool, m_sessionSequnceMap, content, push, stream, handled, passed>>
  BY DEF PopPacket, history
<1>i. PHTypeOK /\ InPlace /\ Filled /\ Apart /\ Owned
  BY DEF PHInv
<1>b. Blocks' = Blocks
  BY <1>u DEF Blocks
<1> DEFINE pair == Head(m_packetQueue[i])
<1> DEFINE block == pair[2]
<1> DEFINE y == <<i, 1>>
<1>1. /\ handler' \in [Threads -> HandlerRecord']
      /\ \A j \in Threads : j # i => handler'[j] = handler[j]
      /\ handler[i].pc = "pop" /\ m_packetQueue[i] # <<>>
      /\ pair \in Sessions \X Blocks
      /\ handler'[i].pc = "process" /\ handler'[i].session = pair[1] /\ handler'[i].packet = block
      /\ m_packetQueue' = [m_packetQueue EXCEPT ![i] = Tail(m_packetQueue[i])]
  BY <1>i, PopPacketStep
<1>2. /\ y \in Queued /\ Entry(y) = pair /\ y[1] = i
      /\ \A x \in Queued' : /\ Shift(i, x) \in Queued /\ Shift(i, x) # y
                            /\ Shift(i, x)[1] = x[1] /\ Entry(x)' = Entry(Shift(i, x))
      /\ \A x, z \in Queued' : Shift(i, x) = Shift(i, z) => x = z
      /\ \A x \in Queued : x # y => \E z \in Queued' : Shift(i, z) = x
      /\ m_packetQueue' \in [Threads -> Seq(Sessions \X Blocks)]
      /\ \A j \in Threads : j # i => m_packetQueue'[j] = m_packetQueue[j]
  BY <1>i, <1>1, QueuedTail
<1>3. block \in Blocks /\ pair[1] \in Sessions
  BY <1>1
<1> HIDE DEF y, pair
\* Only the queue had it.
<1>4. /\ block # Null /\ block = Entry(y)[2]
      /\ \A x \in Queued : x # y => Entry(x)[2] # block
      /\ \A j \in Threads : push[j].packet # block /\ handler[j].packet # block
      /\ \A j \in Pooled : m_recvPacketPool[j] # block
  BY <1>i, <1>2, <1>3, BlocksNumbered DEF Apart, Pooled
<1>5. \A j \in Threads : /\ j # i => handler'[j].packet = handler[j].packet
                         /\ handler[i].packet = Null /\ ~Holding(i)
  BY <1>i, <1>1 DEF InPlace, Holding
<1> HIDE DEF block
<1>6. PHTypeOK'
  <2>1. m_packetQueue' \in [Threads -> Seq(Sessions \X Blocks')]
    BY <1>2, <1>b
  <2> QED BY <1>i, <1>u, <1>b, <1>1, <2>1 DEF PHTypeOK, HandlerRecord
<1>7. InPlace'
  <2>1. \A x \in Queued' : ThreadOf(Entry(x)'[1]) = x[1]
    BY <1>i, <1>2 DEF InPlace
  <2>2. \A j \in Threads : handler'[j].pc = "pop" => m_packetQueue'[j] # <<>>
    BY <1>i, <1>1, <1>2 DEF InPlace
  <2>3. ThreadOf(pair[1]) = i
    BY <1>i, <1>2 DEF InPlace
  <2>4. \A j \in Threads : Holding(j)' =>
          handler'[j].session \in Sessions /\ ThreadOf(handler'[j].session) = j
    BY <1>i, <1>1, <1>3, <2>3 DEF InPlace, Holding
  <2>5. \A j \in Threads : Holding(j)' <=> handler'[j].packet # Null
    BY <1>i, <1>1, <1>4 DEF InPlace, Holding
  <2> QED BY <1>i, <1>u, <2>1, <2>2, <2>4, <2>5 DEF InPlace, ThreadOf
<1>8. Filled'
  <2>1. \A x \in Queued' : content[Entry(x)'[2]][1] = Entry(x)'[1]
    BY <1>i, <1>2 DEF Filled
  <2>2. content[block][1] = pair[1]
    BY <1>i, <1>2, <1>4 DEF Filled
  <2>3. \A j \in Threads : Holding(j)' => content[handler'[j].packet][1] = handler'[j].session
    BY <1>i, <1>1, <2>2 DEF Filled, Holding
  <2> QED BY <1>u, <2>1, <2>3 DEF Filled
<1>9. \A x \in Queued' : Entry(x)'[2] # block /\ \E z \in Queued : Entry(x)'[2] = Entry(z)[2]
  BY <1>2, <1>4
<1>10. Apart'
  <2>1. \A x, z \in Queued' : Entry(x)'[2] = Entry(z)'[2] => x = z
    BY <1>i, <1>2 DEF Apart
  <2>2. \A j, k \in Threads :
          handler'[j].packet = handler'[k].packet => j = k \/ handler'[j].packet = Null
    BY <1>i, <1>1, <1>4 DEF Apart
  <2>3. \A j \in Pooled : /\ \A x \in Queued' : Entry(x)'[2] # m_recvPacketPool[j]
                          /\ \A k \in Threads : /\ push[k].packet # m_recvPacketPool[j]
                                                /\ handler'[k].packet # m_recvPacketPool[j]
    BY <1>i, <1>1, <1>4, <1>9 DEF Apart, Pooled
  <2>4. \A k \in Threads : /\ \A x \in Queued' : /\ Entry(x)'[2] # push[k].packet
                                                /\ Entry(x)'[2] # handler'[k].packet
                           /\ \A j \in Threads :
                                push[k].packet = handler'[j].packet => push[k].packet = Null
    BY <1>i, <1>1, <1>4, <1>9 DEF Apart
  <2> QED BY <1>i, <1>u, <2>1, <2>2, <2>3, <2>4 DEF Apart, Pooled
<1>11. Owned'
  <2> SUFFICES ASSUME NEW b \in Blocks
               PROVE  \/ \E j \in Pooled : m_recvPacketPool[j] = b
                      \/ \E x \in Queued' : Entry(x)'[2] = b
                      \/ \E j \in Threads : push[j].packet = b \/ handler'[j].packet = b
    BY <1>u, <1>b DEF Owned, Pooled
  <2>1. CASE b = block
    BY <1>1, <2>1
  <2>2. CASE b # block
    <3>1. \/ \E j \in Pooled : m_recvPacketPool[j] = b
          \/ \E x \in Queued : Entry(x)[2] = b
          \/ \E j \in Threads : push[j].packet = b \/ handler[j].packet = b
      BY <1>i DEF Owned, Pooled
    <3>2. \A j \in Threads : handler[j].packet = b => j # i
      BY <1>i, <1>5, BlocksNumbered
    <3>3. \A x \in Queued : Entry(x)[2] = b => \E z \in Queued' : Entry(z)'[2] = b
      BY <1>2, <1>4, <2>2
    <3> QED BY <1>1, <3>1, <3>2, <3>3
  <2> QED BY <2>1, <2>2
<1> QED BY <1>6, <1>7, <1>8, <1>10, <1>11 DEF PHInv

\* The block goes back to the pool.
LEMMA RecycleInv ==
  ASSUME PHInv, NEW i \in Threads, Recycle(i)
  PROVE  PHInv'
<1>u. UNCHANGED <<m_packetQueue, m_sessionSequnceMap, push, stream, handled, passed>>
  BY DEF Recycle, history
<1>i. PHTypeOK /\ InPlace /\ Filled /\ Apart /\ Owned
  BY DEF PHInv
<1> DEFINE block == handler[i].packet
<1>1. /\ handler' \in [Threads -> HandlerRecord'] /\ Blocks' = Blocks
      /\ \A j \in Threads : j # i => handler'[j] = handler[j]
      /\ handler[i].pc = "recycle" /\ block \in Blocks
      /\ handler'[i].pc = "idle" /\ handler'[i].packet = Null
      /\ m_recvPacketPool' = Append(m_recvPacketPool, block)
      /\ \A b \in Blocks : b # block => content'[b] = content[b]
      /\ content'[block] = Free
  BY <1>i, RecycleStep
<1>2. PICK y : /\ y \notin Pooled /\ Pooled' = Pooled \cup {y}
               /\ m_recvPacketPool'[y] = block
               /\ \A j \in Pooled : m_recvPacketPool'[j] = m_recvPacketPool[j]
               /\ m_recvPacketPool' \in Seq(Blocks)
  <2>1. PICK d : d = block
    OBVIOUS
  <2> HIDE DEF block
  <2> QED BY <1>i, <1>1, <2>1, PoolAppend
<1>3. Queued' = Queued /\ \A x : Entry(x)' = Entry(x)
  BY <1>u, SameQueued
<1>4. /\ block # Null
      /\ \A x \in Queued : Entry(x)[2] # block
      /\ \A j \in Threads : push[j].packet # block /\ (j # i => handler[j].packet # block)
      /\ \A j \in Pooled : m_recvPacketPool[j] # block
  BY <1>i, <1>1, BlocksNumbered DEF Apart, Pooled
<1>5. \A j \in Threads : j # i => Holding(j)' = Holding(j)
  BY <1>1 DEF Holding
<1>6. ~Holding(i)'
  BY <1>1 DEF Holding
<1> HIDE DEF block
<1>7. PHTypeOK'
  <2>1. m_recvPacketPool' \in Seq(Blocks')
    BY <1>1, <1>2
  <2>2. \A b \in Blocks' : content'[b] \in (Sessions \cup {NoSession}) \X Nat
    <3>1. Free \in (Sessions \cup {NoSession}) \X Nat
      BY DEF Free
    <3>2. \A b \in Blocks : content[b] \in (Sessions \cup {NoSession}) \X Nat
      BY <1>i DEF PHTypeOK
    <3> QED BY <1>1, <3>1, <3>2
  <2> QED BY <1>i, <1>u, <1>1, <2>1, <2>2 DEF PHTypeOK, HandlerRecord
<1>8. InPlace'
  <2>1. \A j \in Threads : Holding(j)' <=> handler'[j].packet # Null
    BY <1>i, <1>1, <1>5, <1>6 DEF InPlace
  <2>2. \A j \in Threads : Holding(j)' =>
          handler'[j].session \in Sessions /\ ThreadOf(handler'[j].session) = j
    BY <1>i, <1>1, <1>5, <1>6 DEF InPlace
  <2>3. \A j \in Threads : handler'[j].pc = "pop" => m_packetQueue[j] # <<>>
    BY <1>i, <1>1 DEF InPlace
  <2> QED BY <1>i, <1>u, <1>3, <2>1, <2>2, <2>3 DEF InPlace, ThreadOf
<1>9. Filled'
  <2>1. \A x \in Queued : content'[Entry(x)[2]] = content[Entry(x)[2]]
    BY <1>i, <1>1, <1>4, QueuedIs
  <2>2. \A j \in Threads : Holding(j)' => content'[handler'[j].packet][1] = handler'[j].session
    <3>1. \A j \in Threads : Holding(j) => handler[j].packet \in Blocks
      BY <1>i DEF InPlace, PHTypeOK
    <3> QED BY <1>i, <1>1, <1>4, <1>5, <1>6, <3>1 DEF Filled
  <2> QED BY <1>i, <1>3, <2>1, <2>2 DEF Filled
<1>10. Apart'
  <2>1. \A j, k \in Pooled' : m_recvPacketPool'[j] = m_recvPacketPool'[k] => j = k
    BY <1>i, <1>2, <1>4 DEF Apart, Pooled
  <2>2. \A j, k \in Threads :
          handler'[j].packet = handler'[k].packet => j = k \/ handler'[j].packet = Null
    BY <1>i, <1>1 DEF Apart
  <2>3. \A j \in Pooled' : /\ \A x \in Queued : Entry(x)[2] # m_recvPacketPool'[j]
                           /\ \A k \in Threads : /\ push[k].packet # m_recvPacketPool'[j]
                                                 /\ handler'[k].packet # m_recvPacketPool'[j]
    <3>1. \A j \in Pooled : m_recvPacketPool[j] # Null
      <4>1. \A j \in Pooled : m_recvPacketPool[j] \in Blocks
        BY <1>i DEF PHTypeOK, Pooled
      <4> QED BY <1>i, <4>1, BlocksNumbered
    <3>2. \A j \in Pooled : /\ \A x \in Queued : Entry(x)[2] # m_recvPacketPool[j]
                            /\ \A k \in Threads : /\ push[k].packet # m_recvPacketPool[j]
                                                  /\ handler[k].packet # m_recvPacketPool[j]
      BY <1>i DEF Apart, Pooled
    <3>3. \A k \in Threads : handler'[k].packet # block
                             /\ (handler'[k].packet = handler[k].packet \/ handler'[k].packet = Null)
      BY <1>1, <1>4
    <3>4. \A j \in Pooled : \A k \in Threads : handler'[k].packet # m_recvPacketPool[j]
      BY <3>1, <3>2, <3>3
    <3>5. \A j \in Pooled' : \/ m_recvPacketPool'[j] = block
                             \/ j \in Pooled /\ m_recvPacketPool'[j] = m_recvPacketPool[j]
      BY <1>2
    <3> QED BY <1>4, <3>2, <3>3, <3>4, <3>5
  <2>4. \A k \in Threads : /\ \A x \in Queued : /\ Entry(x)[2] # push[k].packet
                                               /\ Entry(x)[2] # handler'[k].packet
                           /\ \A j \in Threads :
                                push[k].packet = handler'[j].packet => push[k].packet = Null
    <3>1. \A x \in Queued : Entry(x)[2] # Null
      BY <1>i, QueuedIs, BlocksNumbered
    <3> QED BY <1>i, <1>1, <3>1 DEF Apart
  <2> QED BY <1>i, <1>u, <1>3, <2>1, <2>2, <2>3, <2>4 DEF Apart, Pooled
<1>11. Owned'
  <2> SUFFICES ASSUME NEW b \in Blocks
               PROVE  \/ \E j \in Pooled' : m_recvPacketPool'[j] = b
                      \/ \E x \in Queued : Entry(x)[2] = b
                      \/ \E j \in Threads : push[j].packet = b \/ handler'[j].packet = b
    BY <1>u, <1>1, <1>3 DEF Owned, Pooled
  <2>1. CASE b = block
    BY <1>2, <2>1
  <2>2. CASE b # block
    <3>1. \/ \E j \in Pooled : m_recvPacketPool[j] = b
          \/ \E x \in Queued : Entry(x)[2] = b
          \/ \E j \in Threads : push[j].packet = b \/ handler[j].packet = b
      BY <1>i DEF Owned, Pooled
    <3>2. \A j \in Threads : handler[j].packet = b => j # i
      BY <2>2 DEF block
    <3> QED BY <1>1, <1>2, <3>1, <3>2
  <2> QED BY <2>1, <2>2
<1> QED BY <1>7, <1>8, <1>9, <1>10, <1>11 DEF PHInv

-----------------------------------------------------------------------------
\* Queues, pool, pushes and handlers before anything has happened.
LEMMA PHInitInv ==
  ASSUME PHInit
  PROVE  PHInv
<1> USE PacketHandlerAssumption
<1>1. /\ m_recvPacketPool = [b \in 1..PoolSize |-> b] /\ m_packetQueue = [i \in Threads |-> <<>>]
      /\ m_sessionSequnceMap = [s \in {} |-> 0] /\ content = [b \in 1..PoolSize |-> Free]
      /\ push = [i \in Threads |-> InitPush(i)] /\ handler = [i \in Threads |-> InitHandler(i)]
      /\ stream \in [Sessions -> UNION {Streams[s] : s \in Sessions}]
      /\ handled = [s \in Sessions |-> <<>>] /\ passed = [s \in Sessions |-> <<>>]
  BY DEF PHInit
<1>2. Blocks = 1..PoolSize /\ IsFiniteSet(Blocks) /\ Cardinality(Blocks) = PoolSize
      /\ Null \notin Blocks
  <2>1. Blocks = 1..PoolSize
    BY <1>1 DEF Blocks
  <2> QED BY <2>1, CardinalityTo DEF Null
<1>3. m_recvPacketPool \in Seq(Blocks) /\ DOMAIN m_recvPacketPool = Blocks
      /\ \A b \in Blocks : m_recvPacketPool[b] = b
  BY <1>1, <1>2
<1>4. Queued = {}
  BY <1>1 DEF Queued
<1>5. \A i \in Threads : /\ push[i].pc = "idle" /\ push[i].packet = Null
                         /\ handler[i].pc = "idle" /\ handler[i].packet = Null
  BY <1>1 DEF InitPush, InitHandler
<1>6. PHTypeOK
  <2>1. push \in [Threads -> PushRecord]
    BY <1>1, InitPushIs
  <2>2. handler \in [Threads -> HandlerRecord]
    BY <1>1 DEF InitHandler, HandlerRecord
  <2>3. stream \in [Sessions -> Seq(PacketType)]
    BY <1>1
  <2>4. \A b \in Blocks : content[b] \in (Sessions \cup {NoSession}) \X Nat
    BY <1>1, <1>2 DEF Free
  <2>5. m_packetQueue \in [Threads -> Seq(Sessions \X Blocks)]
    BY <1>1
  <2>6. handled \in [Sessions -> Seq(Nat)] /\ passed \in [Sessions -> Seq(Nat)]
    BY <1>1
  <2>7. DOMAIN m_sessionSequnceMap = {}
    BY <1>1
  <2> QED BY <1>2, <1>3, <2>1, <2>2, <2>3, <2>4, <2>5, <2>6, <2>7 DEF PHTypeOK, PushRecord, HandlerRecord
<1>7. InPlace /\ Filled
  BY <1>4, <1>5 DEF InPlace, Filled, Holding
<1>8. Apart
  BY <1>2, <1>3, <1>4, <1>5 DEF Apart
<1>9. Owned
  BY <1>3 DEF Owned
<1> QED BY <1>6, <1>7, <1>8, <1>9 DEF PHInv

-----------------------------------------------------------------------------
(* What it means.                                                          *)

LEMMA CardinalityOne ==
  ASSUME NEW S, NEW x \in S, \A y \in S : y = x
  PROVE  Cardinality(S) = 1
<1>1. S = {x}
  OBVIOUS
<1> QED BY <1>1, FS_Singleton

LEMMA CardinalityNone ==
  ASSUME NEW S, \A y \in S : FALSE
  PROVE  Cardinality(S) = 0
<1>1. S = {}
  OBVIOUS
<1> QED BY <1>1, FS_EmptySet

LEMMA PHInvOneOwner ==
  ASSUME PHInv
  PROVE  OneOwner
<1>i. PHTypeOK /\ InPlace /\ Apart /\ Owned
  BY DEF PHInv
<1> SUFFICES ASSUME NEW b \in Blocks PROVE TimesIn(b) = 1
  BY DEF OneOwner
<1> DEFINE P == {j \in DOMAIN m_recvPacketPool : m_recvPacketPool[j] = b}
<1> DEFINE Q == {x \in Queued : Entry(x)[2] = b}
<1> DEFINE W == {i \in Threads : push[i].packet = b}
<1> DEFINE H == {i \in Threads : handler[i].packet = b}
<1>1. TimesIn(b) = Cardinality(P) + Cardinality(Q) + (Cardinality(W) + Cardinality(H))
  BY DEF TimesIn
<1>2. b # Null
  BY <1>i, BlocksNumbered
<1>3. /\ \A j, k \in P : j = k
      /\ \A x, y \in Q : x = y
      /\ \A i, j \in W : i = j
      /\ \A i, j \in H : i = j
  BY <1>i, <1>2 DEF Apart
<1>4. /\ \A j \in P : /\ \A x \in Q : FALSE
                      /\ \A i \in W : FALSE
                      /\ \A i \in H : FALSE
      /\ \A x \in Q : /\ \A i \in W : FALSE
                      /\ \A i \in H : FALSE
      /\ \A i \in W : \A j \in H : FALSE
  BY <1>i, <1>2 DEF Apart
<1>5. \/ \E j \in P : TRUE
      \/ \E x \in Q : TRUE
      \/ \E i \in W : TRUE
      \/ \E i \in H : TRUE
  BY <1>i DEF Owned
<1> HIDE DEF P, Q, W, H
<1>6. CASE \E j \in P : TRUE
  <2>1. Cardinality(P) = 1
    BY <1>3, <1>6, CardinalityOne
  <2>2. Cardinality(Q) = 0 /\ Cardinality(W) = 0 /\ Cardinality(H) = 0
    BY <1>4, <1>6, CardinalityNone
  <2> QED BY <1>1, <2>1, <2>2
<1>7. CASE \E x \in Q : TRUE
  <2>1. Cardinality(Q) = 1
    BY <1>3, <1>7, CardinalityOne
  <2>2. Cardinality(P) = 0 /\ Cardinality(W) = 0 /\ Cardinality(H) = 0
    BY <1>4, <1>7, CardinalityNone
  <2> QED BY <1>1, <2>1, <2>2
<1>8. CASE \E i \in W : TRUE
  <2>1. Cardinality(W) = 1
    BY <1>3, <1>8, CardinalityOne
  <2>2. Cardinality(P) = 0 /\ Cardinality(Q) = 0 /\ Cardinality(H) = 0
    BY <1>4, <1>8, CardinalityNone
  <2> QED BY <1>1, <2>1, <2>2
<1>9. CASE \E i \in H : TRUE
  <2>1. Cardinality(H) = 1
    BY <1>3, <1>9, CardinalityOne
  <2>2. Cardinality(P) = 0 /\ Cardinality(Q) = 0 /\ Cardinality(W) = 0
    BY <1>4, <1>9, CardinalityNone
  <2> QED BY <1>1, <2>1, <2>2
<1> QED BY <1>5, <1>6, <1>7, <1>8, <1>9

LEMMA PHInvNoNullPacket ==
  ASSUME PHInv
  PROVE  NoNullPacket
<1>i. PHTypeOK /\ InPlace
  BY DEF PHInv
<1>1. \A j \in DOMAIN m_recvPacketPool : m_recvPacketPool[j] \in Blocks
  BY <1>i DEF PHTypeOK
<1>2. \A j \in DOMAIN m_recvPacketPool : m_recvPacketPool[j] # Null
  BY <1>i, <1>1, BlocksNumbered
<1> QED BY <1>i, <1>2 DEF NoNullPacket, InPlace, Holding
=============================================================================
