-------------------------- MODULE LpVerdictProofs --------------------------
(***************************************************************************)
(* The verdicts of Process, with whole packets in every segment: the       *)
(* handler threads judge each session's packets as a single thread would   *)
(* that reads its stream in order.                                         *)
(***************************************************************************)
EXTENDS LpReceiveProofs

-----------------------------------------------------------------------------
(* The last sequence number is defined along the whole stream.             *)

\* Induction for a set of numbers: the numbers up to one that is missing
\* would go down by one into fewer places.
LEMMA NumbersFromZero ==
  ASSUME NEW P \in SUBSET Nat, 0 \in P, \A n \in P : n + 1 \in P
  PROVE  P = Nat
<1> SUFFICES ASSUME NEW q \in Nat, q \notin P
             PROVE  FALSE
  OBVIOUS
<1> DEFINE S == (0..q) \ P
           T == S \ {q}
           f == [x \in S |-> x - 1]
<1>1. q \in S
  OBVIOUS
<1>2. f \in [S -> T]
  <2>1. ASSUME NEW x \in S
        PROVE  x - 1 \in T
    <3>1. x \in Nat /\ x # 0 /\ x <= q /\ x \notin P
      OBVIOUS
    <3>2. x - 1 \in Nat /\ (x - 1) + 1 = x
      BY <3>1
    <3>3. x - 1 \notin P
      BY <3>1, <3>2
    <3> QED BY <3>1, <3>2, <3>3
  <2> QED BY <2>1
<1>3. IsFiniteSet(S) /\ Cardinality(S) \in Nat
  <2>1. IsFiniteSet(0..q)
    BY FS_Interval
  <2> QED BY <2>1, FS_Subset, FS_CardinalityType
<1>4. IsFiniteSet(T) /\ Cardinality(T) = Cardinality(S) - 1
  BY <1>1, <1>3, FS_RemoveElement
<1> HIDE DEF S, T, f
<1>5. Cardinality(T) < Cardinality(S)
  BY <1>3, <1>4
<1>6. PICK x, y \in S : x # y /\ f[x] = f[y]
  BY <1>2, <1>3, <1>4, <1>5, FS_PigeonHole
<1> QED BY <1>6 DEF f, S

\* The definition of LastSeqNum has a solution, so that it is one.
After(p, seqNum) == IF Advances(p, seqNum) THEN p.seqNum ELSE seqNum
LEMMA LastSeqNumIs ==
  ASSUME PHTypeOK, NEW s \in Sessions
  PROVE  /\ LastSeqNum(s)[0] = 0
         /\ \A k \in 1..Len(stream[s]) :
              LastSeqNum(s)[k] = After(stream[s][k], LastSeqNum(s)[k - 1])
<1> DEFINE L == Len(stream[s])
           Runs(n, g) == /\ DOMAIN g = 0..n /\ g[0] = 0
                         /\ \A k \in 1..n : k <= L => g[k] = After(stream[s][k], g[k - 1])
           P == {n \in Nat : \E g : Runs(n, g)}
<1>0. L \in Nat
  BY DEF PHTypeOK
<1> HIDE DEF L
<1>1. 0 \in P
  <2> DEFINE g == [k \in 0..0 |-> 0]
  <2>1. DOMAIN g = 0..0 /\ g[0] = 0
    OBVIOUS
  <2> HIDE DEF g
  <2>2. Runs(0, g)
    BY <2>1
  <2> QED BY <2>2
<1>2. ASSUME NEW n \in P
      PROVE  n + 1 \in P
  <2>1. n \in Nat
    OBVIOUS
  <2>2. PICK g : Runs(n, g)
    OBVIOUS
  <2> DEFINE e == [k \in 0..(n + 1) |-> IF k <= n THEN g[k] ELSE After(stream[s][k], g[n])]
  <2>3. DOMAIN e = 0..(n + 1) /\ (\A k \in 0..n : e[k] = g[k])
        /\ e[n + 1] = After(stream[s][n + 1], g[n])
    BY <2>1
  <2> HIDE DEF e
  <2>4. ASSUME NEW k \in 1..(n + 1), k <= L
        PROVE  e[k] = After(stream[s][k], e[k - 1])
    <3>1. CASE k <= n
      BY <2>1, <2>2, <2>3, <2>4, <3>1
    <3>2. CASE k = n + 1
      BY <2>1, <2>3, <3>2
    <3> QED BY <2>1, <3>1, <3>2
  <2>5. Runs(n + 1, e)
    BY <2>1, <2>2, <2>3, <2>4
  <2> QED BY <2>1, <2>5
<1> HIDE DEF P
<1>3. L \in P
  <2>1. P \in SUBSET Nat
    BY DEF P
  <2> QED BY <1>0, <1>1, <1>2, <2>1, NumbersFromZero
<1>4. PICK g : Runs(L, g)
  BY <1>3 DEF P
<1> DEFINE F(g1) == [k \in 0..L |-> IF k = 0 THEN 0
                                   ELSE IF Advances(stream[s][k], g1[k - 1]) THEN stream[s][k].seqNum
                                   ELSE g1[k - 1]]
<1> DEFINE h == [k \in 0..L |-> g[k]]
<1>5. h = F(h)
  <2>1. DOMAIN h = 0..L /\ (\A k \in 0..L : h[k] = g[k]) /\ DOMAIN F(h) = 0..L
    OBVIOUS
  <2>2. ASSUME NEW k \in 0..L
        PROVE  h[k] = F(h)[k]
    <3>1. k # 0 => k - 1 \in 0..L /\ k \in 1..L
      BY <1>0
    <3>2. k # 0 => g[k] = After(stream[s][k], g[k - 1])
      BY <1>0, <1>4, <3>1
    <3> QED BY <1>4, <2>1, <3>1, <3>2 DEF After
  <2> QED BY <2>1, <2>2
<1>6. LastSeqNum(s) = F(LastSeqNum(s))
  <2>1. \E g1 : g1 = F(g1)
    BY <1>5
  <2>2. LastSeqNum(s) = CHOOSE g1 : g1 = F(g1)
    BY DEF LastSeqNum, L
  <2> QED BY <2>1, <2>2
<1>7. ASSUME NEW k \in 0..L
      PROVE  LastSeqNum(s)[k] = IF k = 0 THEN 0
                                ELSE After(stream[s][k], LastSeqNum(s)[k - 1])
  <2>1. F(LastSeqNum(s))[k] = IF k = 0 THEN 0
                              ELSE After(stream[s][k], LastSeqNum(s)[k - 1])
    BY DEF After
  <2> HIDE DEF F
  <2> QED BY <1>6, <2>1
<1>8. 0 \in 0..L /\ \A k \in 1..L : k \in 0..L /\ k # 0
  BY <1>0
<1> QED BY <1>7, <1>8 DEF L

-----------------------------------------------------------------------------
(* The packets that pass, one packet handled after the other.              *)

\* Those of the first n packets of a session that pass, by their first byte.
Passing(s, n) == {(k - 1) * PacketSize + 1 : k \in {m \in Verdicts(s) : m <= n}}
PassedBy(s) == {passed[s][j] : j \in DOMAIN passed[s]}

LEMMA VerdictsAre ==
  VerdictsAsSequential <=> \A s \in Sessions : PassedBy(s) = Passing(s, Len(handled[s]))
BY DEF VerdictsAsSequential, PassedBy, Passing

LEMMA PassingNext ==
  ASSUME PHTypeOK, NEW s \in Sessions, NEW n \in Nat, n + 1 \in 1..Len(stream[s])
  PROVE  LET p == stream[s][n + 1]
             last == LastSeqNum(s)[n]
         IN  /\ LastSeqNum(s)[n + 1] = After(p, last)
             /\ Passing(s, n + 1) =
                  IF p.tail /\ Advances(p, last) THEN Passing(s, n) \cup {Bytes(n) + 1}
                  ELSE Passing(s, n)
<1> DEFINE p == stream[s][n + 1]
           last == LastSeqNum(s)[n]
<1>1. (n + 1) - 1 = n
  OBVIOUS
<1>2. LastSeqNum(s)[n + 1] = After(p, last)
  BY <1>1, LastSeqNumIs
<1>3. n + 1 \in Verdicts(s) <=> p.tail /\ Advances(p, last)
  BY <1>1 DEF Verdicts
<1>4. Verdicts(s) \subseteq Int
  BY DEF Verdicts
<1>5. {m \in Verdicts(s) : m <= n + 1} =
        {m \in Verdicts(s) : m <= n} \cup (IF n + 1 \in Verdicts(s) THEN {n + 1} ELSE {})
  <2>1. \A m \in Int : m <= n + 1 <=> m <= n \/ m = n + 1
    OBVIOUS
  <2> QED BY <1>4, <2>1
<1> DEFINE byte(k) == (k - 1) * PacketSize + 1
<1>6. byte(n + 1) = Bytes(n) + 1
  BY <1>1 DEF Bytes
<1>7. Passing(s, n + 1) = {byte(k) : k \in {m \in Verdicts(s) : m <= n + 1}}
      /\ Passing(s, n) = {byte(k) : k \in {m \in Verdicts(s) : m <= n}}
  BY DEF Passing
<1> HIDE DEF byte, p, last
<1>8. Passing(s, n + 1) = IF n + 1 \in Verdicts(s) THEN Passing(s, n) \cup {byte(n + 1)}
                          ELSE Passing(s, n)
  BY <1>5, <1>7
<1> QED BY <1>2, <1>3, <1>6, <1>8 DEF p, last

\* What a handler has in hand is the next packet of its session's stream, and
\* its session is in the map.
LEMMA NextPacket ==
  ASSUME PHInv, ServedInv, Counts, Aligned, InOrder, Judged, NEW s \in Sessions, InHand(s) = 1
  PROVE  LET n == Len(handled[s])
             b == handler[ThreadOf(s)].packet
         IN  /\ n \in Nat /\ n + 1 \in 1..Len(stream[s])
             /\ Start(b) = Bytes(n) + 1 /\ Reads(b) = {stream[s][n + 1]}
             /\ s \in DOMAIN m_sessionSequnceMap /\ m_sessionSequnceMap[s] = LastSeqNum(s)[n]
<1>i. PHTypeOK /\ InPlace /\ Filled
  BY DEF PHInv
<1> DEFINE n == Len(handled[s])
           b == handler[ThreadOf(s)].packet
<1>1. n \in Nat /\ Gone(s) = n + 1
  BY FlowTypes DEF Gone
<1>2. PICK k \in Nat : k = n
  BY <1>1
<1>3. PICK L \in Nat : L = Len(stream[s])
  BY <1>i DEF PHTypeOK
<1>4. stored[s] <= Bytes(L) /\ Bytes(k + 1) <= stored[s] /\ stored[s] \in Nat
  BY <1>1, <1>2, <1>3, GoneHasArrived DEF Judged, JudgedOf
<1>5. k + 1 \in 1..L
  <2>1. ~(Bytes(L) < Bytes(k + 1)) /\ Bytes(L) \in Nat /\ Bytes(k + 1) \in Nat
    <3>1. k + 1 \in Nat
      OBVIOUS
    <3>2. Bytes(L) \in Nat /\ Bytes(k + 1) \in Nat
      BY <3>1, BytesAre
    <3> QED BY <1>4, <3>2
  <2>2. ~(L < k + 1)
    BY <2>1, BytesApart
  <2> QED BY <2>2
<1>6. Start(b) = Bytes(k) + 1
  BY <1>2, InOrderOfIs DEF InOrder, HandStart
<1>7. content[b][1] = s
  <2>1. ThreadOf(s) \in Threads
    BY ThreadOfSession
  <2>2. Holding(ThreadOf(s)) /\ handler[ThreadOf(s)].session = s
    BY DEF InHand, Holding
  <2> QED BY <1>i, <2>1, <2>2 DEF Filled
<1>8. (content[b][2] - 1) \div PacketSize = k
  <2>1. content[b][2] - 1 = PacketSize * k /\ PacketSize \in Nat /\ PacketSize > 0
    BY <1>6, BytesAre DEF Start
  <2>2. (PacketSize * k) \div PacketSize = k
    BY <2>1
  <2> QED BY <2>1, <2>2
<1>9. Reads(b) = {stream[s][k + 1]}
  <2>1. content[b][2] = ((k + 1) - 1) * PacketSize + 1
    BY <1>6 DEF Start, Bytes
  <2>2. k + 1 \in DOMAIN stream[s]
    <3>1. DOMAIN stream[s] = 1..Len(stream[s])
      BY <1>i DEF PHTypeOK
    <3> QED BY <1>3, <1>5, <3>1
  <2> HIDE DEF b
  <2> QED BY <1>7, <1>8, <2>1, <2>2 DEF Reads
<1>10. conn[s] # "waiting"
  <2>1. Bytes(k) \in Nat /\ Bytes(k + 1) = Bytes(k) + PacketSize /\ PacketSize \in Nat /\ PacketSize > 0
    BY BytesAre
  <2>2. stored[s] # 0
    BY <1>4, <2>1
  <2> QED BY <2>2 DEF Judged, JudgedOf
<1> QED BY <1>2, <1>3, <1>5, <1>6, <1>9, <1>10 DEF Judged, JudgedOf

\* A step that ends no Process, and starts none in the middle.
LEMMA JudgedSame ==
  ASSUME Judged, UNCHANGED <<stream, handled, passed>>,
         \A i \in Threads : handler'[i].pc = "seq" => handler'[i] = handler[i],
         \A s \in Sessions :
           /\ stored'[s] <= Bytes(Len(stream[s]))
           /\ conn'[s] = "waiting" => stored'[s] = 0
           /\ conn'[s] # "waiting" => /\ s \in DOMAIN m_sessionSequnceMap'
                                      /\ \/ conn[s] # "waiting" /\ m_sessionSequnceMap'[s] = m_sessionSequnceMap[s]
                                         \/ m_sessionSequnceMap'[s] = LastSeqNum(s)[Len(handled[s])]
  PROVE  Judged'
<1>1. \A s \in Sessions : LastSeqNum(s)' = LastSeqNum(s)
  BY DEF LastSeqNum
<1>2. VerdictsAsSequential'
  <2>1. \A s \in Sessions : Verdicts(s)' = Verdicts(s)
    BY <1>1 DEF Verdicts
  <2>2. \A s \in Sessions : PassedBy(s)' = PassedBy(s)
                            /\ Passing(s, Len(handled[s]))' = Passing(s, Len(handled[s]))
    BY <2>1 DEF PassedBy, Passing
  <2>3. \A s \in Sessions : PassedBy(s) = Passing(s, Len(handled[s]))
    BY VerdictsAre DEF Judged
  <2>4. \A s \in Sessions : PassedBy(s)' = Passing(s, Len(handled[s]))'
    BY <2>2, <2>3
  <2> QED BY <2>4 DEF VerdictsAsSequential, PassedBy, Passing
<1>3. ASSUME NEW s \in Sessions
      PROVE  JudgedOf(s)'
  <2>1. ThreadOf(s) \in Threads /\ ThreadOf(s)' = ThreadOf(s)
    BY ThreadOfSession DEF ThreadOf
  <2>2. JudgedOf(s)
    BY DEF Judged
  <2>3. Bytes(Len(stream[s]))' = Bytes(Len(stream[s]))
    BY DEF Bytes
  <2>4. IF conn'[s] = "waiting" THEN stored'[s] = 0
        ELSE s \in DOMAIN m_sessionSequnceMap' /\ m_sessionSequnceMap'[s] = LastSeqNum(s)[Len(handled[s])]
    BY <2>2 DEF JudgedOf
  <2> QED BY <1>1, <2>1, <2>2, <2>3, <2>4 DEF JudgedOf
<1> QED BY <1>2, <1>3 DEF Judged

\* The end of Process for a packet of session s.
LEMMA JudgedNext ==
  ASSUME PHInv, ServedInv, Counts, Aligned, InOrder, Judged, NEW s \in Sessions, InHand(s) = 1,
         UNCHANGED <<stream, stored, conn>>,
         handled' = [handled EXCEPT ![s] = Append(handled[s], Start(handler[ThreadOf(s)].packet))],
         handler'[ThreadOf(s)].pc # "seq",
         \A i \in Threads : i # ThreadOf(s) => handler'[i] = handler[i],
         DOMAIN m_sessionSequnceMap' = DOMAIN m_sessionSequnceMap,
         \A t \in Sessions : t # s => /\ passed'[t] = passed[t]
                                      /\ m_sessionSequnceMap'[t] = m_sessionSequnceMap[t],
         LET p == stream[s][Len(handled[s]) + 1]
             last == LastSeqNum(s)[Len(handled[s])]
         IN  /\ m_sessionSequnceMap'[s] = After(p, last)
             /\ PassedBy(s)' = IF p.tail /\ Advances(p, last)
                               THEN PassedBy(s) \cup {Start(handler[ThreadOf(s)].packet)}
                               ELSE PassedBy(s)
  PROVE  Judged'
<1>i. PHTypeOK
  BY DEF PHInv
<1>1. PICK n \in Nat : n = Len(handled[s]) /\ n + 1 \in 1..Len(stream[s])
                       /\ Start(handler[ThreadOf(s)].packet) = Bytes(n) + 1
  BY NextPacket
<1>2. Len(handled'[s]) = n + 1 /\ \A t \in Sessions : t # s => handled'[t] = handled[t]
  BY <1>i, <1>1 DEF PHTypeOK
<1>3. \A t \in Sessions : LastSeqNum(t)' = LastSeqNum(t)
  BY DEF LastSeqNum
<1>4. \A t \in Sessions : Verdicts(t)' = Verdicts(t)
  BY <1>3 DEF Verdicts
<1>5. ASSUME NEW t \in Sessions
      PROVE  PassedBy(t)' = Passing(t, Len(handled[t]))'
  <2>1. PassedBy(t) = Passing(t, Len(handled[t]))
    BY VerdictsAre DEF Judged
  <2>2. Passing(t, Len(handled[t]))' = Passing(t, Len(handled'[t]))
    BY <1>4 DEF Passing
  <2>3. CASE t = s
    <3>1. PassedBy(s)' = Passing(s, n + 1)
      BY <1>i, <1>1, <2>1, <2>3, PassingNext
    <3> QED BY <1>2, <2>2, <2>3, <3>1
  <2>4. CASE t # s
    BY <1>2, <2>1, <2>2, <2>4 DEF PassedBy
  <2> QED BY <2>3, <2>4
<1>6. VerdictsAsSequential'
  BY <1>5 DEF VerdictsAsSequential, PassedBy, Passing
<1>7. ASSUME NEW t \in Sessions
      PROVE  JudgedOf(t)'
  <2>1. ThreadOf(t) \in Threads /\ ThreadOf(t)' = ThreadOf(t)
    BY ThreadOfSession DEF ThreadOf
  <2>2. JudgedOf(t)
    BY DEF Judged
  <2>3. Bytes(Len(stream[t]))' = Bytes(Len(stream[t]))
    BY DEF Bytes
  <2>4. CASE t = s
    <3>1. m_sessionSequnceMap'[s] = LastSeqNum(s)[n + 1] /\ s \in DOMAIN m_sessionSequnceMap
      BY <1>i, <1>1, PassingNext, NextPacket
    <3> QED BY <1>2, <1>3, <2>1, <2>2, <2>3, <2>4, <3>1 DEF JudgedOf
  <2>5. CASE t # s
    <3>1. handler'[ThreadOf(t)].pc = "seq" => handler'[ThreadOf(t)] = handler[ThreadOf(t)]
      BY <2>1
    <3> QED BY <1>2, <1>3, <2>1, <2>2, <2>3, <2>5, <3>1 DEF JudgedOf
  <2> QED BY <2>4, <2>5
<1> QED BY <1>6, <1>7 DEF Judged

-----------------------------------------------------------------------------
(* The steps.                                                              *)

\* Size and type: GetSequence finds the sequence number of the packets before.
LEMMA ProcessHeaderJudged ==
  ASSUME PHInv, ServedInv, Counts, Aligned, InOrder, Judged, NEW i \in Threads,
         ProcessHeader(i), UNCHANGED <<stored, conn>>
  PROVE  Judged'
<1>i. PHTypeOK /\ InPlace
  BY DEF PHInv
<1>u. UNCHANGED <<stream, passed, m_sessionSequnceMap>>
  BY DEF ProcessHeader
<1> DEFINE b == handler[i].packet
<1>1. PICK s \in Sessions :
        /\ s = handler[i].session /\ handler[i].pc = "process" /\ b \in Blocks
        /\ \A j \in Threads : j # i => handler'[j] = handler[j]
        /\ handler'[i].session = s /\ i = ThreadOf(s)
  BY <1>i, ProcessHeaderStep DEF InPlace, Holding
<1> DEFINE n == Len(handled[s])
           p == stream[s][n + 1]
<1>2. InHand(s) = 1
  BY <1>1 DEF InHand
<1>3. /\ n \in Nat /\ n + 1 \in 1..Len(stream[s]) /\ Start(b) = Bytes(n) + 1
      /\ Reads(b) = {p} /\ s \in DOMAIN m_sessionSequnceMap
      /\ m_sessionSequnceMap[s] = LastSeqNum(s)[n]
  BY <1>1, <1>2, NextPacket
<1>4. b # Null
  BY <1>i, <1>1 DEF InPlace, Holding
<1>5. IF p.head
      THEN /\ handler' = [handler EXCEPT ![i].pc = "seq", ![i].seq = GetSequence(s)]
           /\ UNCHANGED handled
      ELSE /\ handler' = [handler EXCEPT ![i].pc = "recycle"]
           /\ handled' = [handled EXCEPT ![s] = Append(@, Start(b))]
  <2> HIDE DEF p
  <2> QED BY <1>1, <1>3, <1>4 DEF ProcessHeader, Start
<1>6. CASE p.head
  <2>1. /\ handler'[i].pc = "seq" /\ handler'[i].seq = LastSeqNum(s)[n]
    <3>1. GetSequence(s) = LastSeqNum(s)[n]
      BY <1>3 DEF GetSequence
    <3>2. handler[i] \in HandlerRecord /\ DOMAIN handler = Threads
      BY <1>i DEF PHTypeOK, HandlerRecord
    <3> HIDE DEF p, n
    <3> QED BY <1>5, <1>6, <3>1, <3>2 DEF HandlerRecord
  <2>2. ASSUME NEW t \in Sessions
        PROVE  JudgedOf(t)'
    <3>1. LastSeqNum(t)' = LastSeqNum(t) /\ Bytes(Len(stream[t]))' = Bytes(Len(stream[t]))
          /\ ThreadOf(t)' = ThreadOf(t) /\ ThreadOf(t) \in Threads
      BY <1>u, ThreadOfSession DEF LastSeqNum, Bytes, ThreadOf
    <3>2. JudgedOf(t) /\ UNCHANGED handled
      BY <1>5, <1>6 DEF Judged
    <3>3. CASE ThreadOf(t) = i /\ s = t
      BY <1>1, <1>6, <1>u, <2>1, <3>1, <3>2, <3>3 DEF JudgedOf
    <3>4. CASE ThreadOf(t) = i /\ s # t
      BY <1>1, <1>u, <3>1, <3>2, <3>4 DEF JudgedOf
    <3>5. CASE ThreadOf(t) # i
      <4>1. handler'[ThreadOf(t)] = handler[ThreadOf(t)]
        BY <1>1, <3>1, <3>5
      <4> QED BY <1>u, <3>1, <3>2, <4>1 DEF JudgedOf
    <3> QED BY <3>3, <3>4, <3>5
  <2>3. VerdictsAsSequential'
    <3>1. \A t \in Sessions : LastSeqNum(t)' = LastSeqNum(t)
      BY <1>u DEF LastSeqNum
    <3>2. \A t \in Sessions : PassedBy(t)' = PassedBy(t)
                              /\ Passing(t, Len(handled[t]))' = Passing(t, Len(handled[t]))
      BY <1>u, <1>5, <1>6, <3>1 DEF PassedBy, Passing, Verdicts
    <3>3. \A t \in Sessions : PassedBy(t)' = Passing(t, Len(handled[t]))'
      BY <3>2, VerdictsAre DEF Judged
    <3> QED BY <3>3 DEF VerdictsAsSequential, PassedBy, Passing
  <2> QED BY <2>2, <2>3 DEF Judged
<1>7. CASE ~p.head
  <2>1. handler'[i].pc = "recycle" /\ handled' = [handled EXCEPT ![s] = Append(handled[s], Start(b))]
    <3>1. handler[i] \in HandlerRecord /\ DOMAIN handler = Threads
      BY <1>i DEF PHTypeOK, HandlerRecord
    <3> HIDE DEF p
    <3> QED BY <1>5, <1>7, <3>1 DEF HandlerRecord
  <2>2. ~Advances(p, LastSeqNum(s)[n]) /\ After(p, LastSeqNum(s)[n]) = LastSeqNum(s)[n]
    BY <1>7 DEF After, Advances
  <2>3. PassedBy(s)' = PassedBy(s)
    BY <1>u DEF PassedBy
  <2>4. /\ handler'[ThreadOf(s)].pc # "seq"
        /\ \A j \in Threads : j # ThreadOf(s) => handler'[j] = handler[j]
        /\ handled' = [handled EXCEPT ![s] = Append(handled[s], Start(handler[ThreadOf(s)].packet))]
    BY <1>1, <2>1
  <2>5. m_sessionSequnceMap'[s] = After(p, LastSeqNum(s)[n])
    BY <1>u, <1>3, <2>2
  <2> QED BY <1>u, <1>2, <2>2, <2>3, <2>4, <2>5, JudgedNext
<1> QED BY <1>6, <1>7

\* From the sequence check on: what GetSequence returned is still so.
LEMMA ProcessSequenceJudged ==
  ASSUME PHInv, ServedInv, Counts, Aligned, InOrder, Judged, NEW i \in Threads,
         ProcessSequence(i), UNCHANGED <<stored, conn>>
  PROVE  Judged'
<1>i. PHTypeOK /\ InPlace
  BY DEF PHInv
<1>u. UNCHANGED stream
  BY DEF ProcessSequence
<1>1. PICK s \in Sessions :
        /\ s = handler[i].session /\ handler[i].pc = "seq" /\ i = ThreadOf(s)
        /\ handler[i] \in HandlerRecord /\ DOMAIN handler = Threads
  <2>1. handler[i].pc = "seq"
    BY DEF ProcessSequence
  <2> QED BY <1>i, <2>1 DEF InPlace, Holding, PHTypeOK, HandlerRecord
<1> DEFINE b == handler[i].packet
           n == Len(handled[s])
           p == stream[s][n + 1]
           last == LastSeqNum(s)[n]
<1>2. InHand(s) = 1
  BY <1>1 DEF InHand
<1>3. /\ n \in Nat /\ n + 1 \in 1..Len(stream[s]) /\ Start(b) = Bytes(n) + 1
      /\ Reads(b) = {p} /\ s \in DOMAIN m_sessionSequnceMap /\ m_sessionSequnceMap[s] = last
  BY <1>1, <1>2, NextPacket
<1>4. p.head /\ handler[i].seq = last
  BY <1>1 DEF Judged, JudgedOf
<1>5. SeqOK(p, last) <=> Advances(p, last)
  BY <1>4 DEF SeqOK, Advances
<1> HIDE DEF p, last, n
<1>6. /\ m_sessionSequnceMap' =
           IF SeqOK(p, last) THEN [m_sessionSequnceMap EXCEPT ![s] = p.seqNum]
           ELSE m_sessionSequnceMap
      /\ passed' = IF SeqOK(p, last) /\ p.tail
                   THEN [passed EXCEPT ![s] = Append(@, Start(b))] ELSE passed
      /\ handled' = [handled EXCEPT ![s] = Append(@, Start(b))]
      /\ handler' = [handler EXCEPT ![i].pc = "recycle"]
  BY <1>1, <1>3, <1>4 DEF ProcessSequence, Start
<1>7. handler'[i].pc = "recycle" /\ \A j \in Threads : j # i => handler'[j] = handler[j]
  BY <1>1, <1>6 DEF HandlerRecord
<1>8. /\ DOMAIN m_sessionSequnceMap' = DOMAIN m_sessionSequnceMap
      /\ m_sessionSequnceMap'[s] = After(p, last)
      /\ \A t \in Sessions : t # s => m_sessionSequnceMap'[t] = m_sessionSequnceMap[t]
  BY <1>3, <1>5, <1>6 DEF After
<1>9. /\ PassedBy(s)' = IF p.tail /\ Advances(p, last) THEN PassedBy(s) \cup {Start(b)}
                        ELSE PassedBy(s)
      /\ \A t \in Sessions : t # s => passed'[t] = passed[t]
  <2>1. passed \in [Sessions -> Seq(Nat)]
    BY <1>i DEF PHTypeOK
  <2>2. CASE SeqOK(p, last) /\ p.tail
    <3>1. passed'[s] = Append(passed[s], Start(b)) /\ \A t \in Sessions : t # s => passed'[t] = passed[t]
      BY <1>1, <1>6, <2>1, <2>2
    <3>2. PICK e \in Seq(Nat) : e = passed[s]
      BY <1>1, <2>1
    <3>3. PICK m \in Nat : m = Len(e)
      BY <3>2
    <3>4. Start(b) \in Nat
      <4>1. n \in Nat /\ Start(b) = Bytes(n) + 1
        BY <1>3
      <4>2. Bytes(n) \in Nat
        BY <4>1, BytesAre
      <4> QED BY <4>1, <4>2
    <3> DEFINE d == Append(e, Start(b))
    <3>5. DOMAIN e = 1..m /\ DOMAIN d = 1..(m + 1) /\ d[m + 1] = Start(b)
          /\ \A j \in 1..m : d[j] = e[j]
      BY <3>2, <3>3, <3>4
    <3>6. 1..(m + 1) = (1..m) \cup {m + 1}
      OBVIOUS
    <3>7. {d[j] : j \in DOMAIN d} = {e[j] : j \in DOMAIN e} \cup {Start(b)}
      <4> HIDE DEF d
      <4>1. {d[j] : j \in DOMAIN d} = {d[j] : j \in 1..m} \cup {d[m + 1]}
        BY <3>5, <3>6
      <4> QED BY <3>5, <4>1
    <3>8. passed'[s] = d /\ passed[s] = e
      BY <3>1, <3>2
    <3> HIDE DEF d
    <3>9. PassedBy(s)' = {d[j] : j \in DOMAIN d} /\ PassedBy(s) = {e[j] : j \in DOMAIN e}
      BY <3>8 DEF PassedBy
    <3> QED BY <1>5, <2>2, <3>1, <3>7, <3>9
  <2>3. CASE ~(SeqOK(p, last) /\ p.tail)
    BY <1>5, <1>6, <2>3 DEF PassedBy
  <2> QED BY <2>2, <2>3
<1>10. /\ handled' = [handled EXCEPT ![s] = Append(handled[s], Start(handler[ThreadOf(s)].packet))]
       /\ handler'[ThreadOf(s)].pc # "seq"
       /\ \A j \in Threads : j # ThreadOf(s) => handler'[j] = handler[j]
       /\ PassedBy(s)' = IF p.tail /\ Advances(p, last)
                         THEN PassedBy(s) \cup {Start(handler[ThreadOf(s)].packet)} ELSE PassedBy(s)
  BY <1>1, <1>6, <1>7, <1>9
<1> QED BY <1>u, <1>2, <1>8, <1>9, <1>10, JudgedNext DEF p, last, n

\* Connections and bytes: a session is registered before a byte arrives.
LEMMA ConnJudged ==
  ASSUME PathInv, WholePackets, Judged, NEW s \in Sessions,
         Accept(s) \/ OnRead(s) \/ PushTask(s) \/ ReadError(s)
  PROVE  Judged'
<1>i. PHInv /\ ServedInv /\ Counts /\ Aligned /\ InOrder
  BY DEF PathInv, ServedInv
<1>u. UNCHANGED <<stream, handled, passed, handler>>
  BY DEF Accept, OnRead, PushTask, ReadError, phVars, history
<1>1. /\ stored \in [Sessions -> Nat]
      /\ conn \in [Sessions -> {"waiting", "reading", "task", "closed"}]
  BY <1>i DEF ServedInv, ReceiveTypeOK
<1>2. \A t \in Sessions : JudgedOf(t)
  BY DEF Judged
<1>3. \A t \in Sessions : t # s => stored'[t] = stored[t] /\ conn'[t] = conn[t]
  BY <1>1 DEF Accept, OnRead, PushTask, ReadError, ring
<1>4. conn'[s] # "waiting"
  BY <1>1 DEF Accept, OnRead, PushTask, ReadError
<1>5. stored'[s] <= Bytes(Len(stream[s]))
  <2>1. CASE OnRead(s)
    <3>1. PICK d \in 1..(Len(stream[s]) * PacketSize - stored[s]) :
            stored' = [stored EXCEPT ![s] = @ + d]
      BY <2>1 DEF OnRead
    <3>2. Len(stream[s]) \in Nat /\ stored[s] \in Nat
      BY <1>i, <1>1 DEF PHInv, PHTypeOK
    <3>3. Bytes(Len(stream[s])) \in Nat /\ Bytes(Len(stream[s])) = Len(stream[s]) * PacketSize
      BY <3>2, BytesAre DEF Bytes
    <3> QED BY <1>1, <3>1, <3>2, <3>3
  <2>2. CASE ~OnRead(s)
    <3>1. UNCHANGED stored
      BY <2>2 DEF Accept, PushTask, ReadError, ring
    <3> QED BY <1>2, <3>1 DEF JudgedOf
  <2> QED BY <2>1, <2>2
<1>6. CASE Accept(s)
  <2>1. conn[s] = "waiting" /\ stored[s] = 0
    BY <1>2, <1>6 DEF Accept, JudgedOf
  <2>2. Len(handled[s]) = 0
    <3>1. Gone(s) \in Nat /\ Len(handled[s]) \in Nat /\ InHand(s) \in {0, 1}
      BY <1>i, FlowTypes
    <3>2. Bytes(Gone(s)) <= 0 /\ Gone(s) <= Bytes(Gone(s)) /\ Bytes(Gone(s)) \in Nat
      BY <1>i, <2>1, <3>1, GoneHasArrived, BytesAre
    <3>3. Gone(s) = 0
      BY <3>1, <3>2
    <3> QED BY <3>1, <3>3 DEF Gone
  <2>3. LastSeqNum(s)[0] = 0
    BY <1>i, LastSeqNumIs DEF PHInv
  <2>4. /\ DOMAIN m_sessionSequnceMap' = DOMAIN m_sessionSequnceMap \cup {s}
        /\ m_sessionSequnceMap'[s] = 0
        /\ \A t \in DOMAIN m_sessionSequnceMap : t # s => m_sessionSequnceMap'[t] = m_sessionSequnceMap[t]
    BY <1>6 DEF Accept, ResetSequence
  <2>5. \A t \in Sessions : conn[t] # "waiting" => t \in DOMAIN m_sessionSequnceMap
    BY <1>2 DEF JudgedOf
  <2>6. ASSUME NEW t \in Sessions
        PROVE  /\ stored'[t] <= Bytes(Len(stream[t]))
               /\ conn'[t] = "waiting" => stored'[t] = 0
               /\ conn'[t] # "waiting" =>
                    /\ t \in DOMAIN m_sessionSequnceMap'
                    /\ \/ conn[t] # "waiting" /\ m_sessionSequnceMap'[t] = m_sessionSequnceMap[t]
                       \/ m_sessionSequnceMap'[t] = LastSeqNum(t)[Len(handled[t])]
    <3>1. CASE t = s
      BY <1>4, <1>5, <2>2, <2>3, <2>4, <3>1
    <3>2. CASE t # s
      BY <1>2, <1>3, <2>4, <2>5, <3>2 DEF JudgedOf
    <3> QED BY <3>1, <3>2
  <2> QED BY <1>u, <2>6, JudgedSame
<1>7. CASE ~Accept(s)
  <2>1. conn[s] # "waiting" /\ UNCHANGED m_sessionSequnceMap
    BY <1>7 DEF OnRead, PushTask, ReadError, phVars
  <2>2. ASSUME NEW t \in Sessions
        PROVE  /\ stored'[t] <= Bytes(Len(stream[t]))
               /\ conn'[t] = "waiting" => stored'[t] = 0
               /\ conn'[t] # "waiting" =>
                    /\ t \in DOMAIN m_sessionSequnceMap'
                    /\ \/ conn[t] # "waiting" /\ m_sessionSequnceMap'[t] = m_sessionSequnceMap[t]
                       \/ m_sessionSequnceMap'[t] = LastSeqNum(t)[Len(handled[t])]
    BY <1>2, <1>3, <1>4, <1>5, <2>1 DEF JudgedOf
  <2> QED BY <1>u, <2>2, JudgedSame
<1> QED BY <1>6, <1>7

\* The steps of the workers, and those of a handler outside of Process.
LEMMA OthersJudged ==
  ASSUME Judged, UNCHANGED <<stream, handled, passed, stored, conn, m_sessionSequnceMap>>,
         \A i \in Threads : handler'[i].pc = "seq" => handler'[i] = handler[i]
  PROVE  Judged'
<1>1. ASSUME NEW s \in Sessions
      PROVE  /\ stored'[s] <= Bytes(Len(stream[s]))
             /\ conn'[s] = "waiting" => stored'[s] = 0
             /\ conn'[s] # "waiting" => /\ s \in DOMAIN m_sessionSequnceMap'
                                        /\ conn[s] # "waiting" /\ m_sessionSequnceMap'[s] = m_sessionSequnceMap[s]
  BY DEF Judged, JudgedOf
<1> QED BY <1>1, JudgedSame

LEMMA HandlerJudged ==
  ASSUME PathInv, WholePackets, Judged, NEW i \in Threads, ProcessHandler(i)
  PROVE  Judged'
<1>i. PHInv /\ ServedInv /\ Counts /\ Aligned /\ InOrder /\ PHTypeOK /\ InPlace
  BY DEF PathInv, ServedInv, PHInv
<1>u. UNCHANGED <<stored, conn>>
  BY DEF ProcessHandler, ring
<1>1. CASE ProcessHeader(i)
  BY <1>i, <1>u, <1>1, ProcessHeaderJudged
<1>2. CASE ProcessSequence(i)
  BY <1>i, <1>u, <1>2, ProcessSequenceJudged
<1>3. CASE CheckQueue(i) \/ PopPacket(i) \/ Recycle(i)
  <2>1. UNCHANGED <<stream, handled, passed, m_sessionSequnceMap>>
    BY <1>3 DEF CheckQueue, PopPacket, Recycle, history
  <2>2. handler'[i].pc # "seq" /\ \A j \in Threads : j # i => handler'[j] = handler[j]
    <3>1. handler \in [Threads -> HandlerRecord]
      BY <1>i DEF PHTypeOK, HandlerRecord
    <3> QED BY <1>3, <3>1 DEF CheckQueue, PopPacket, Recycle, InitHandler, HandlerRecord
  <2> QED BY <1>u, <2>1, <2>2, OthersJudged
<1> QED BY <1>1, <1>2, <1>3 DEF ProcessHandler, Update

LEMMA JudgedStep ==
  ASSUME PathInv, WholePackets, Judged, [Next]_vars
  PROVE  Judged'
<1>1. CASE \E s \in Sessions : Accept(s) \/ OnRead(s) \/ PushTask(s) \/ ReadError(s)
  BY <1>1, ConnJudged
<1>2. CASE \E i \in Threads : ProcessHandler(i)
  BY <1>2, HandlerJudged
<1>3. CASE \E i \in Threads : Process(i)
  <2>1. UNCHANGED <<stream, handled, passed, handler, stored, conn, m_sessionSequnceMap>>
    BY <1>3 DEF Process, TakeTask, GetUseSize, Pop, InPushPacket, Pushing, TakePacket, PutPacket,
                PushReturn, ReadRecvCount, AddRecvCount, phVars, history, ring
  <2> QED BY <2>1, OthersJudged
<1>4. CASE UNCHANGED vars
  <2>1. UNCHANGED <<stream, handled, passed, handler, stored, conn, m_sessionSequnceMap>>
    BY <1>4 DEF vars, phVars, history, ring
  <2> QED BY <2>1, OthersJudged
<1> QED BY <1>1, <1>2, <1>3, <1>4 DEF Next

LEMMA InitJudged ==
  ASSUME Init
  PROVE  Judged
<1>1. \A s \in Sessions : /\ stored[s] = 0 /\ conn[s] = "waiting" /\ handled[s] = <<>>
                          /\ passed[s] = <<>> /\ Len(stream[s]) \in Nat
  <2>1. PHTypeOK
    BY InitPathInv DEF PathInv, PHInv
  <2> QED BY <2>1 DEF Init, PHInit, PHTypeOK
<1>2. ASSUME NEW s \in Sessions
      PROVE  JudgedOf(s)
  <2>1. Bytes(Len(stream[s])) \in Nat
    BY <1>1, BytesAre
  <2>2. handler[ThreadOf(s)].pc # "seq"
    BY ThreadOfSession DEF Init, PHInit, InitHandler
  <2> QED BY <1>1, <2>1, <2>2 DEF JudgedOf
<1>3. ASSUME NEW s \in Sessions
      PROVE  PassedBy(s) = Passing(s, Len(handled[s]))
  <2>1. PassedBy(s) = {}
    BY <1>1 DEF PassedBy
  <2>2. Len(handled[s]) = 0 /\ \A m \in Verdicts(s) : ~(m <= 0)
    BY <1>1 DEF Verdicts
  <2> QED BY <2>1, <2>2 DEF Passing
<1> QED BY <1>2, <1>3, VerdictsAre DEF Judged

-----------------------------------------------------------------------------
\* The receive path keeps its blocks, queues, workers and counts in step and,
\* with whole packets, the bytes, the order and the verdicts of every session
\* (LpNetManager.cpp, LpSession.cpp:56-108, LpPacketHandler.cpp).
THEOREM ReceiveInvariant == Spec => []IInv
<1>1. Init => IInv
  BY InitPathInv, InitJudged DEF IInv
<1>2. IInv /\ [Next]_vars => IInv'
  BY PathInvNext, JudgedStep DEF IInv
<1> QED BY <1>1, <1>2, PTL DEF Spec

\* When segments are whole packets, Process accepts what a single thread that
\* reads each session's stream in order would accept, although GetSequence and
\* SetSequence are two steps (LpPacketHandler.cpp:58-126).
THEOREM VerdictsAreSequential == ASSUME WholePackets PROVE Spec => []VerdictsAsSequential
<1>1. IInv => VerdictsAsSequential
  BY DEF IInv, Judged
<1> QED BY <1>1, ReceiveInvariant, PTL
=============================================================================
