--------------------------- MODULE LpBufferProofs ---------------------------
(***************************************************************************)
(* The ring buffer for every ring size, growth limit, chunk size and       *)
(* interleaving: the cursors never leave the ring, the bytes come out in   *)
(* order, each once, and none waits for a task that never comes.           *)
(***************************************************************************)
EXTENDS LpBuffer, TLAPS

LEMMA InitIInv == Init => IInv
<1> SUFFICES ASSUME Init PROVE IInv
  OBVIOUS
<1> USE BufferAssumption DEF Init
<1>1. TypeOK /\ CursorsInRange
  BY DEF TypeOK, CursorsInRange, Junk
<1>2. FifoUnlessFullExpand
  BY DEF FifoUnlessFullExpand, Content, HandedOver
<1>3. PopAsSized /\ NoStrandedBytes /\ (ReadLoop => ChunkFits)
  BY DEF PopAsSized, NoStrandedBytes, ChunkFits
<1> QED BY <1>1, <1>2, <1>3 DEF IInv

\* A step that leaves the ring alone.
LEMMA QuietStep ==
  ASSUME IInv, UNCHANGED <<ring, received, taken, fullExpand>>
  PROVE  /\ m_useSize' <= m_maxSize' /\ m_lCur' <= m_maxSize' /\ m_rCur' <= m_maxSize'
         /\ ~fullExpand' => Content'
BY DEF IInv, CursorsInRange, FifoUnlessFullExpand, Content, ring, Wrap

LEMMA ReadIInv == ASSUME IInv, Read PROVE IInv'
<1> USE BufferAssumption DEF IInv, Read, ring, ioVars, netVars
<1>1. TypeOK' /\ (ReadLoop => ChunkFits')
  BY DEF TypeOK, CursorsInRange, ChunkFits, Available
<1>2. CursorsInRange' /\ FifoUnlessFullExpand'
  BY QuietStep DEF CursorsInRange, FifoUnlessFullExpand, HandedOver
<1>3. PopAsSized' /\ NoStrandedBytes'
  BY DEF PopAsSized, NoStrandedBytes
<1> QED BY <1>1, <1>2, <1>3

LEMMA ReadSomeIInv == ASSUME IInv, ReadSome PROVE IInv'
<1> USE BufferAssumption DEF IInv, ReadSome, ring, ioVars, netVars
<1>1. PICK n \in 0..RecvBufferSize : Chunk(n) /\ ioSize' = n
  OBVIOUS
<1>2. TypeOK' /\ (ReadLoop => ChunkFits')
  BY <1>1 DEF TypeOK, CursorsInRange, ChunkFits, Available, Chunk
<1>3. CursorsInRange' /\ FifoUnlessFullExpand'
  BY QuietStep DEF CursorsInRange, FifoUnlessFullExpand, HandedOver
<1>4. PopAsSized' /\ NoStrandedBytes'
  BY DEF PopAsSized, NoStrandedBytes
<1> QED BY <1>2, <1>3, <1>4

LEMMA ReadErrorIInv == ASSUME IInv, ReadError PROVE IInv'
<1> USE DEF IInv, ReadError, ring, ioVars, netVars
<1>1. TypeOK' /\ (ReadLoop => ChunkFits')
  BY DEF TypeOK, ChunkFits
<1>2. CursorsInRange' /\ FifoUnlessFullExpand'
  BY QuietStep DEF CursorsInRange, FifoUnlessFullExpand, HandedOver
<1>3. PopAsSized' /\ NoStrandedBytes'
  BY DEF PopAsSized, NoStrandedBytes
<1> QED BY <1>1, <1>2, <1>3

LEMMA PushEnterIInv == ASSUME IInv, PushEnter PROVE IInv'
<1> USE DEF IInv, PushEnter, ring, ioVars, netVars
<1>1. TypeOK' /\ (ReadLoop => ChunkFits')
  BY DEF TypeOK, ChunkFits, Available
<1>2. CursorsInRange' /\ FifoUnlessFullExpand' /\ (io' \in {"expand", "copy"} => ioSize' > 0)
  BY QuietStep DEF TypeOK, CursorsInRange, FifoUnlessFullExpand, HandedOver, Available
<1>3. PopAsSized' /\ NoStrandedBytes'
  BY DEF PopAsSized, NoStrandedBytes
<1> QED BY <1>1, <1>2, <1>3

\* A successful Expand keeps the content of a ring that is not full with
\* both cursors at one index.
LEMMA ExpandContent ==
  ASSUME IInv, Expand, ~fullExpand', UNCHANGED <<received, taken>>
  PROVE  Content'
<1> USE DEF Expand
<1>1. /\ m_maxSize \in Nat \ {0} /\ m_useSize \in Nat /\ m_lCur \in Nat /\ m_rCur \in Nat
      /\ m_buffer \in [0..(m_maxSize - 1) -> Nat] /\ taken \in Nat /\ received \in Nat
      /\ m_useSize <= m_maxSize /\ m_lCur <= m_maxSize /\ m_rCur <= m_maxSize
      /\ Content /\ (m_lCur = m_rCur => m_useSize = 0)
  <2>1. ~fullExpand /\ ~(m_lCur = m_rCur /\ m_useSize > 0)
    BY Zenon
  <2> QED BY <2>1 DEF IInv, TypeOK, CursorsInRange, FifoUnlessFullExpand
<1>2. m_rCur' = m_lCur' + m_useSize'
  BY <1>1 DEF Content
<1>3. ASSUME NEW k \in 0..(m_useSize' - 1)
      PROVE  m_buffer'[Wrap(m_lCur + k)'] = taken' + k + 1
  <2>1. m_buffer[Wrap(m_lCur + k)] = taken + k + 1 /\ k \in 0..(m_useSize - 1)
    BY <1>3, <1>1 DEF Content
  <2>2. Wrap(m_lCur + k)' = m_lCur + k /\ m_lCur + k \in 0..(2 * m_maxSize - 1)
    BY <1>1, <2>1 DEF Wrap
  <2>3. CASE m_lCur + k < m_maxSize
    BY <1>1, <2>1, <2>2, <2>3 DEF Wrap
  <2>4. CASE m_lCur + k >= m_maxSize
    <3>1. m_lCur > m_rCur /\ m_lCur + k - m_maxSize < m_rCur
      BY <1>1, <2>1, <2>4 DEF Content
    <3> QED BY <1>1, <2>1, <2>2, <2>4, <3>1 DEF Wrap
  <2> QED BY <1>1, <2>1, <2>3, <2>4
<1>4. received' = taken' + m_useSize'
  BY <1>1 DEF Content
<1> QED BY <1>2, <1>3, <1>4 DEF Content, Wrap

LEMMA TryExpandIInv == ASSUME IInv, TryExpand PROVE IInv'
<1> USE BufferAssumption DEF TryExpand
<1>1. CASE ExpandFails
  <2> USE <1>1 DEF IInv, ExpandFails, ring, ioVars, netVars
  <2>1. TypeOK' /\ (ReadLoop => ChunkFits')
    BY DEF TypeOK, ChunkFits, Available
  <2>2. CursorsInRange' /\ FifoUnlessFullExpand' /\ (io' \in {"expand", "copy"} => ioSize' > 0)
    BY QuietStep DEF TypeOK, CursorsInRange, FifoUnlessFullExpand, HandedOver, Available
  <2>3. PopAsSized' /\ NoStrandedBytes'
    BY DEF PopAsSized, NoStrandedBytes
  <2> QED BY <2>1, <2>2, <2>3
<1>2. CASE Expand
  <2> USE <1>2
  <2>1. TypeOK' /\ CursorsInRange' /\ (io' \in {"expand", "copy"} => ioSize' > 0)
    BY DEF IInv, TypeOK, CursorsInRange, Expand, Available, netVars, Junk
  <2>2. FifoUnlessFullExpand'
    BY ExpandContent DEF IInv, FifoUnlessFullExpand, HandedOver, Expand, netVars
  <2>3. ASSUME ReadLoop PROVE ChunkFits'
    <3>1. ~fullExpand /\ Content /\ ioSize > 0 /\ ioSize <= Available
      BY <2>3 DEF IInv, ChunkFits, FifoUnlessFullExpand
    <3>2. ~(m_lCur = m_rCur /\ m_useSize > 0)
      BY <3>1 DEF IInv, TypeOK, CursorsInRange, Content, Available
    <3>3. ~fullExpand'
      BY <3>1, <3>2, Zenon DEF Expand
    <3>4. ioSize' <= Available'
      BY <3>1 DEF IInv, TypeOK, CursorsInRange, Expand, Available
    <3> QED BY <3>3, <3>4 DEF ChunkFits
  <2>4. PopAsSized' /\ NoStrandedBytes'
    BY DEF IInv, PopAsSized, NoStrandedBytes, Expand, netVars
  <2> QED BY <2>1, <2>2, <2>3, <2>4 DEF IInv
<1> QED BY <1>1, <1>2

\* The bytes of a chunk that fits go behind the stored ones and overwrite
\* none of them.
LEMMA PushCopyContent ==
  ASSUME IInv, PushCopy, ~fullExpand
  PROVE  Content'
<1> USE DEF PushCopy
<1>1. /\ m_maxSize \in Nat \ {0} /\ m_useSize \in Nat /\ m_lCur \in Nat /\ m_rCur \in Nat
      /\ m_buffer \in [0..(m_maxSize - 1) -> Nat] /\ taken \in Nat /\ received \in Nat
      /\ m_useSize <= m_maxSize /\ m_lCur <= m_maxSize /\ m_rCur <= m_maxSize
      /\ ioSize \in Nat /\ ioSize > 0 /\ ioSize <= m_maxSize - m_useSize
      /\ Content
  BY DEF IInv, TypeOK, CursorsInRange, FifoUnlessFullExpand, Available
<1>2. received' = taken' + m_useSize'
  BY <1>1 DEF Content
<1>3. \/ m_rCur' = m_lCur' + m_useSize'
      \/ m_rCur' + m_maxSize' = m_lCur' + m_useSize'
  BY <1>1 DEF Content, Advance
<1>4. ASSUME NEW k \in 0..(m_useSize' - 1)
      PROVE  m_buffer'[Wrap(m_lCur + k)'] = taken' + k + 1
  <2> DEFINE p == Wrap(m_lCur + k)
  <2>1. k \in Nat /\ k < m_useSize + ioSize /\ Wrap(m_lCur + k)' = p
    BY <1>1 DEF Wrap
  <2>2. p \in 0..(m_maxSize - 1)
    BY <1>1, <2>1 DEF Wrap
  <2>3. m_buffer'[p] = Stored(p)
    BY <2>2
  <2>4. CASE k < m_useSize
    <3>1. m_buffer[p] = taken + k + 1
      BY <1>1, <2>1, <2>4 DEF Content
    <3>2. Stored(p) = m_buffer[p]
      BY <1>1, <2>1, <2>4 DEF Stored, Wrap, Content
    <3> QED BY <2>1, <2>3, <3>1, <3>2
  <2>5. CASE k >= m_useSize
    <3>1. Stored(p) = received + (k - m_useSize + 1)
      <4>1. \/ m_rCur = m_lCur + m_useSize
            \/ m_rCur + m_maxSize = m_lCur + m_useSize
        BY <1>1 DEF Content
      <4> HIDE DEF PushCopy
      <4>2. CASE p >= m_rCur
        <5>1. p - m_rCur + 1 = k - m_useSize + 1 /\ k - m_useSize + 1 <= ioSize
          BY <1>1, <2>1, <2>5, <4>1, <4>2 DEF Wrap
        <5> QED BY <4>2, <5>1 DEF Stored
      <4>3. CASE ~(p >= m_rCur)
        <5>1. /\ p + (m_maxSize - m_rCur) + 1 = k - m_useSize + 1
              /\ k - m_useSize + 1 <= ioSize
          BY <1>1, <2>1, <2>5, <4>1, <4>3 DEF Wrap
        <5> QED BY <4>3, <5>1 DEF Stored
      <4> QED BY <4>2, <4>3
    <3> QED BY <1>1, <2>1, <2>3, <3>1 DEF Content
  <2> QED BY <1>1, <2>1, <2>4, <2>5
<1> QED BY <1>2, <1>3, <1>4 DEF Content, Wrap

LEMMA PushCopyIInv == ASSUME IInv, PushCopy PROVE IInv'
<1> USE DEF PushCopy
<1>1. TypeOK' /\ CursorsInRange'
  <2>1. \A p \in 0..(m_maxSize - 1) : Stored(p) \in Nat
    BY DEF IInv, TypeOK, CursorsInRange, Stored
  <2>2. m_buffer' \in [0..(m_maxSize' - 1) -> Nat]
    BY <2>1
  <2>3. CursorsInRange' /\ m_useSize' \in Nat /\ m_rCur' \in Nat /\ received' \in Nat
    BY DEF IInv, TypeOK, CursorsInRange, Available, Advance, netVars
  <2> QED BY <2>2, <2>3 DEF IInv, TypeOK, netVars
<1>2. FifoUnlessFullExpand'
  BY PushCopyContent DEF IInv, FifoUnlessFullExpand, HandedOver, netVars
<1>3. PopAsSized' /\ NoStrandedBytes' /\ (ReadLoop => ChunkFits')
  BY DEF IInv, TypeOK, PopAsSized, NoStrandedBytes, ChunkFits, netVars
<1> QED BY <1>1, <1>2, <1>3 DEF IInv

LEMMA PushTaskIInv == ASSUME IInv, PushTask PROVE IInv'
<1> USE DEF IInv, PushTask, ring, ioVars, netVars
<1>1. TypeOK' /\ (ReadLoop => ChunkFits')
  BY DEF TypeOK, ChunkFits
<1>2. CursorsInRange' /\ FifoUnlessFullExpand'
  BY QuietStep DEF CursorsInRange, FifoUnlessFullExpand, HandedOver
<1>3. PopAsSized' /\ NoStrandedBytes'
  BY DEF TypeOK, PopAsSized, NoStrandedBytes
<1> QED BY <1>1, <1>2, <1>3

LEMMA TakeTaskIInv == ASSUME IInv, TakeTask PROVE IInv'
<1> USE DEF IInv, TakeTask, ring, ioVars, netVars
<1>1. TypeOK' /\ (ReadLoop => ChunkFits')
  BY DEF TypeOK, ChunkFits, Available
<1>2. CursorsInRange' /\ FifoUnlessFullExpand'
  BY QuietStep DEF CursorsInRange, FifoUnlessFullExpand, HandedOver, Available
<1>3. PopAsSized' /\ NoStrandedBytes'
  BY DEF PopAsSized, NoStrandedBytes
<1> QED BY <1>1, <1>2, <1>3

LEMMA GetUseSizeIInv == ASSUME IInv, GetUseSize PROVE IInv'
<1> USE DEF IInv, GetUseSize, ring, ioVars, netVars
<1>1. TypeOK' /\ (ReadLoop => ChunkFits')
  BY DEF TypeOK, ChunkFits, Available
<1>2. CursorsInRange' /\ FifoUnlessFullExpand'
  BY QuietStep DEF CursorsInRange, FifoUnlessFullExpand, HandedOver, Available
<1>3. PopAsSized' /\ NoStrandedBytes'
  BY DEF TypeOK, PopAsSized, NoStrandedBytes
<1> QED BY <1>1, <1>2, <1>3

LEMMA PopDataIInv == ASSUME IInv, PopData PROVE IInv'
<1> USE BufferAssumption DEF IInv, PopData, ring, ioVars
<1>1. TypeOK' /\ (ReadLoop => ChunkFits')
  BY DEF TypeOK, ChunkFits, Available
<1>2. CursorsInRange' /\ FifoUnlessFullExpand'
  BY QuietStep DEF TypeOK, CursorsInRange, FifoUnlessFullExpand, HandedOver, Available
<1>3. PopAsSized' /\ NoStrandedBytes'
  BY DEF PopAsSized, NoStrandedBytes
<1> QED BY <1>1, <1>2, <1>3

\* Pop moves the read cursor over the bytes it hands over, and what remains
\* is the rest of the stream.
LEMMA PopContent ==
  ASSUME IInv, Pop, ~PopRefused, ~fullExpand
  PROVE  Content' /\ HandedOver'
<1> USE DEF Pop
<1>1. /\ m_maxSize \in Nat \ {0} /\ m_useSize \in Nat /\ m_lCur \in Nat /\ m_rCur \in Nat
      /\ taken \in Nat /\ received \in Nat
      /\ m_useSize <= m_maxSize /\ m_lCur <= m_maxSize /\ m_rCur <= m_maxSize
      /\ netSize \in Nat /\ netSize > 0 /\ netSize <= m_useSize
      /\ Content
  BY DEF IInv, TypeOK, CursorsInRange, FifoUnlessFullExpand, PopRefused
<1>2. /\ m_lCur' = Advance(m_lCur, netSize) /\ m_useSize' = m_useSize - netSize
      /\ taken' = taken + netSize
      /\ UNCHANGED <<m_buffer, m_maxSize, m_rCur, netSize, received>>
      /\ m_recvData' = [i \in 1..netSize |-> m_buffer[Wrap(m_lCur + i - 1)]]
  OBVIOUS
<1>3. \/ m_rCur' = m_lCur' + m_useSize'
      \/ m_rCur' + m_maxSize' = m_lCur' + m_useSize'
  BY <1>1, <1>2 DEF Content, Advance
<1>4. ASSUME NEW k \in 0..(m_useSize' - 1)
      PROVE  m_buffer'[Wrap(m_lCur + k)'] = taken' + k + 1
  <2>1. Wrap(m_lCur + k)' = Wrap(m_lCur + (netSize + k))
    BY <1>1, <1>2 DEF Wrap, Advance
  <2>2. netSize + k \in 0..(m_useSize - 1)
    BY <1>1, <1>2
  <2>3. m_buffer[Wrap(m_lCur + (netSize + k))] = taken + (netSize + k) + 1
    BY <1>1, <2>2 DEF Content
  <2> QED BY <1>1, <1>2, <2>1, <2>3
<1>5. Content'
  BY <1>1, <1>2, <1>3, <1>4 DEF Content, Wrap
<1>6. ASSUME NEW i \in 1..netSize
      PROVE  m_buffer[Wrap(m_lCur + i - 1)] = (taken' - netSize) + i
  <2>1. i - 1 \in 0..(m_useSize - 1) /\ m_lCur + i - 1 = m_lCur + (i - 1)
    BY <1>1
  <2>2. m_buffer[Wrap(m_lCur + (i - 1))] = taken + (i - 1) + 1
    BY <1>1, <2>1 DEF Content
  <2> QED BY <1>1, <1>2, <2>1, <2>2
<1>7. HandedOver'
  BY <1>2, <1>6 DEF HandedOver
<1> QED BY <1>5, <1>7

LEMMA PopIInv == ASSUME IInv, Pop PROVE IInv'
<1> USE DEF Pop
<1>1. CASE PopRefused
  <2> USE <1>1 DEF IInv, ring, ioVars, netVars
  <2>0. UNCHANGED <<ring, m_recvData, taken>> /\ netSize = 0
    BY DEF TypeOK, CursorsInRange, PopAsSized, PopRefused
  <2>1. TypeOK' /\ (ReadLoop => ChunkFits')
    BY <2>0 DEF TypeOK, ChunkFits, Available
  <2>2. CursorsInRange' /\ FifoUnlessFullExpand'
    BY <2>0, QuietStep DEF CursorsInRange, FifoUnlessFullExpand, HandedOver, Available
  <2>3. PopAsSized' /\ NoStrandedBytes'
    BY <2>0 DEF PopAsSized, NoStrandedBytes
  <2> QED BY <2>0, <2>1, <2>2, <2>3
<1>2. CASE ~PopRefused
  <2>1. /\ m_lCur' = Advance(m_lCur, netSize) /\ m_useSize' = m_useSize - netSize
        /\ taken' = taken + netSize /\ netSize <= m_useSize /\ netSize \in Nat
        /\ UNCHANGED <<m_buffer, m_maxSize, m_rCur, netSize, received, ioVars, tasks, fullExpand>>
    BY <1>2 DEF IInv, TypeOK, PopAsSized, PopRefused
  <2>2. TypeOK' /\ CursorsInRange' /\ (ReadLoop => ChunkFits')
    BY <2>1 DEF IInv, TypeOK, CursorsInRange, ChunkFits, Available, Advance, ioVars
  <2>3. FifoUnlessFullExpand'
    BY <1>2, <2>1, PopContent DEF FifoUnlessFullExpand
  <2>4. PopAsSized' /\ NoStrandedBytes'
    BY <2>1 DEF IInv, TypeOK, PopAsSized, NoStrandedBytes, ioVars
  <2> QED BY <2>1, <2>2, <2>3, <2>4 DEF IInv, ioVars
<1> QED BY <1>1, <1>2

LEMMA DeliverIInv == ASSUME IInv, Deliver PROVE IInv'
<1> USE DEF IInv, Deliver, ring, ioVars, netVars
<1>1. TypeOK' /\ (ReadLoop => ChunkFits')
  BY DEF TypeOK, ChunkFits, Available
<1>2. CursorsInRange' /\ FifoUnlessFullExpand'
  BY QuietStep DEF CursorsInRange, FifoUnlessFullExpand, HandedOver, Available
<1>3. PopAsSized' /\ NoStrandedBytes'
  BY DEF PopAsSized, NoStrandedBytes
<1> QED BY <1>1, <1>2, <1>3

LEMMA StutterIInv == ASSUME IInv, UNCHANGED vars PROVE IInv'
BY DEF IInv, vars, ring, ioVars, netVars, TypeOK, CursorsInRange, Available,
       FifoUnlessFullExpand, Content, Wrap, HandedOver, PopAsSized,
       NoStrandedBytes, ChunkFits

LEMMA NextIInv == IInv /\ [Next]_vars => IInv'
BY ReadIInv, ReadSomeIInv, ReadErrorIInv, PushEnterIInv, TryExpandIInv,
   PushCopyIInv, PushTaskIInv, TakeTaskIInv, GetUseSizeIInv, PopDataIInv,
   PopIInv, DeliverIInv, StutterIInv
   DEF Next, OnRead, Push, Worker

\* The inductive invariant holds in every reachable state, whoever calls Push
\* and however large the ring and the chunks are.
THEOREM BufferInvariant == Spec => []IInv
BY InitIInv, NextIInv, PTL DEF Spec

\* No memcpy of Push, Pop or Expand leaves the allocation
\* (LpBuffer.cpp:46-59, 74-87, 105-109).
THEOREM BufferCursors == Spec => []CursorsInRange
<1>1. IInv => CursorsInRange
  BY DEF IInv
<1> QED BY <1>1, BufferInvariant, PTL

\* Bytes come out in order, each once, under any caller of Push, unless an
\* Expand met a full ring with both cursors at one index (LpBuffer.cpp:105).
THEOREM BufferFifo == Spec => []FifoUnlessFullExpand
<1>1. IInv => FifoUnlessFullExpand
  BY DEF IInv
<1> QED BY <1>1, BufferInvariant, PTL

\* GetUseSize and Pop are two critical sections and still agree
\* (LpSession.cpp:97-103).
THEOREM BufferPopAsSized == Spec => []PopAsSized
<1>1. IInv => PopAsSized
  BY DEF IInv
<1> QED BY <1>1, BufferInvariant, PTL

\* No byte is left in the ring without a task to fetch it
\* (LpSession.cpp:87-88).
THEOREM BufferNoStrandedBytes == Spec => []NoStrandedBytes
<1>1. IInv => NoStrandedBytes
  BY DEF IInv
<1> QED BY <1>1, BufferInvariant, PTL

\* With the read loop of LpSession as its caller, LpBuffer implements
\* ByteFifo: PushCopy accepts, an accepted Pop takes, every other step
\* stutters.
THEOREM BufferIsFifo == ASSUME ReadLoop PROVE Spec => ImplementsFifo
<1>1. Init => Fifo!Init
  BY DEF Init, Fifo!Init, Junk
<1>2. IInv /\ [Next]_vars => [Fifo!Next]_(Fifo!vars)
  <2> SUFFICES ASSUME IInv, [Next]_vars
               PROVE  Fifo!Next \/ UNCHANGED <<received, taken, m_recvData>>
    BY DEF Fifo!vars
  <2>1. ASSUME PushCopy PROVE Fifo!Accept
    BY <2>1 DEF PushCopy, IInv, TypeOK, Fifo!Accept, netVars
  <2>2. ASSUME Pop PROVE Fifo!Take \/ UNCHANGED <<received, taken, m_recvData>>
    <3>1. CASE PopRefused
      BY <2>2, <3>1 DEF Pop
    <3>2. CASE ~PopRefused
      <4>1. ~fullExpand /\ IInv'
        BY ReadLoop, <2>2, PopIInv DEF IInv, ChunkFits
      <4>2. /\ taken' = taken + netSize /\ UNCHANGED <<received, netSize>>
            /\ net' = "deliver" /\ fullExpand' = fullExpand
        BY <2>2, <3>2 DEF Pop
      <4>3. netSize \in 1..(received - taken) /\ taken \in Nat
        BY <4>1, <3>2 DEF IInv, TypeOK, FifoUnlessFullExpand, Content, PopRefused
      <4>4. m_recvData' = [i \in 1..netSize |-> (taken' - netSize) + i]
        BY <2>2, <3>2, <4>1, <4>2, <4>3, PopContent DEF HandedOver
      <4>5. m_recvData' = [i \in 1..netSize |-> taken + i]
        BY <4>2, <4>3, <4>4
      <4> QED BY <4>2, <4>3, <4>5 DEF Fifo!Take
    <3> QED BY <3>1, <3>2
  <2>3. ASSUME TryExpand PROVE UNCHANGED <<received, taken, m_recvData>>
    BY <2>3 DEF TryExpand, netVars
  <2> QED
    BY <2>1, <2>2, <2>3
       DEF Next, OnRead, Push, Worker, Fifo!Next, vars, netVars,
           Read, ReadSome, ReadError, PushEnter, PushTask, TakeTask, GetUseSize,
           PopData, Deliver
<1> QED BY <1>1, <1>2, BufferInvariant, PTL DEF Spec, ImplementsFifo, Fifo!Spec
=============================================================================
