------------------------------ MODULE LpBuffer ------------------------------
(***************************************************************************)
(* LpUtility/LpBuffer, the growing ring buffer between the asio thread     *)
(* that runs a session's read loop and the LpNetManager worker that serves *)
(* the session:                                                            *)
(*                                                                         *)
(*   io   LpSession::Read / OnRead   GetAvailableSize ... Push, NetTask    *)
(*   net  LpSession::ProcessReceive  GetUseSize ... Pop                    *)
(*                                                                         *)
(* Each critical section of m_spinLock is one step, except Push, whose     *)
(* Expand loop is one step per attempt: the other thread is locked out     *)
(* while io is inside (Locked), which is what Mutex promises.              *)
(*                                                                         *)
(* Bytes are numbered 1, 2, 3, ... in the order Push stores them.          *)
(***************************************************************************)
EXTENDS Integers

CONSTANTS
  InitSize,        \* LpBuffer(_size)
  ExpandCount,     \* m_expandCount: attempts of one Push to grow
  AllocLimit,      \* largest m_maxSize realloc can give; stands for memory,
                   \* and for the int that expandSize is computed in
  RecvBufferSize,  \* size of m_recvBuffer: no chunk is larger
  ReadLoop,        \* TRUE: chunks fit in what GetAvailableSize returned, as
                   \* in LpSession::Read; FALSE: any caller of Push
  MaxBytes,        \* bound: bytes stored in a behaviour
  MaxTasks         \* bound: queued tasks beyond which nothing is received

ASSUME BufferAssumption ==
  /\ InitSize \in Nat \ {0}
  /\ ExpandCount \in Nat \ {0}
  /\ AllocLimit \in Nat
  /\ RecvBufferSize \in Nat \ {0}
  /\ ReadLoop \in BOOLEAN
  /\ MaxBytes \in Nat
  /\ MaxTasks \in Nat

VARIABLES
  m_buffer, m_maxSize, m_useSize, m_lCur, m_rCur,   \* the object
  io,           \* where the read loop is
  ioSize,       \* readSize while reading, then the size handed to Push
  tries,        \* i, in Push
  net,          \* where the worker is
  netSize,      \* size, in ProcessReceive
  m_recvData,   \* the bytes the last Pop copied out
  m_ioBufferSize, \* the size of that block
  tasks,        \* Receive tasks of this session waiting for the worker
  received,     \* history: bytes stored by Push
  taken,        \* history: bytes removed by Pop
  fullExpand    \* history: the ring was expanded while full and wrapped

ring   == <<m_buffer, m_maxSize, m_useSize, m_lCur, m_rCur>>
ioVars == <<io, ioSize, tries>>
netVars == <<net, netSize, m_recvData, m_ioBufferSize>>
vars == <<ring, ioVars, netVars, tasks, received, taken, fullExpand>>

Junk == 0       \* a byte that is not part of the stream

Init ==
  /\ m_buffer = [k \in 0..(InitSize - 1) |-> Junk]
  /\ m_maxSize = InitSize
  /\ m_useSize = 0 /\ m_lCur = 0 /\ m_rCur = 0
  /\ io = "read" /\ ioSize = 0 /\ tries = 0
  /\ net = "idle" /\ netSize = 0 /\ m_recvData = [i \in 1..0 |-> Junk]
  /\ m_ioBufferSize = InitSize
  /\ tasks = 0 /\ received = 0 /\ taken = 0 /\ fullExpand = FALSE

Available == m_maxSize - m_useSize

\* io is inside Push and holds m_spinLock.
Locked == io \in {"expand", "copy"}

\* The index reached from cursor position p, at most one turn ahead.
Wrap(p) == IF p < m_maxSize THEN p ELSE p - m_maxSize

\* How a cursor moves over n bytes: it may come to rest at m_maxSize.
Advance(cur, n) ==
  IF n <= m_maxSize - cur THEN cur + n ELSE n - (m_maxSize - cur)

-----------------------------------------------------------------------------
(* The read loop.                                                          *)

\* LpSession::Read: how much async_read_some may deliver.
Read ==
  /\ io = "read"
  /\ ioSize' = IF Available > RecvBufferSize THEN RecvBufferSize ELSE Available
  /\ io' = "reading"
  /\ UNCHANGED <<ring, tries, netVars, tasks, received, taken, fullExpand>>

\* The read completes with 1 to readSize bytes in m_recvBuffer; with a buffer
\* of size 0 it completes at once with 0 bytes.
Chunk(n) ==
  IF ReadLoop
  THEN n \in 0..ioSize /\ (n = 0 <=> ioSize = 0)
  ELSE n \in 1..RecvBufferSize

ReadSome ==
  /\ io = "reading"
  /\ tasks <= MaxTasks
  /\ \E n \in 0..RecvBufferSize :
       /\ Chunk(n)
       /\ received + n <= MaxBytes
       /\ ioSize' = n
  /\ io' = "push"
  /\ UNCHANGED <<ring, tries, netVars, tasks, received, taken, fullExpand>>

\* OnRead with an error: the socket is closed and the loop ends.
ReadError ==
  /\ io = "reading"
  /\ io' = "closed"
  /\ UNCHANGED <<ring, ioSize, tries, netVars, tasks, received, taken, fullExpand>>

-----------------------------------------------------------------------------
(* LpBuffer::Push                                                          *)

PushEnter ==
  /\ io = "push"
  /\ \/ ioSize <= 0 /\ io' = "task"
     \/ ioSize > 0 /\ ioSize >= Available /\ io' = "expand"
     \/ ioSize > 0 /\ ioSize < Available /\ io' = "copy"
  /\ tries' = 0
  /\ UNCHANGED <<ring, ioSize, netVars, tasks, received, taken, fullExpand>>

\* Variant: the wrapped front part is left where it was.
ExpandInPlace ==
  /\ 2 * m_maxSize <= AllocLimit
  /\ m_buffer' = [k \in 0..(2 * m_maxSize - 1) |->
                    IF k < m_maxSize THEN m_buffer[k] ELSE Junk]
  /\ m_maxSize' = 2 * m_maxSize
  /\ fullExpand' = (fullExpand \/ (m_lCur = m_rCur /\ m_useSize > 0))
  /\ UNCHANGED <<m_rCur, m_useSize, m_lCur>>

\* Variant: the front part moves, the write cursor is set one byte short.
ExpandCursorShort ==
  /\ 2 * m_maxSize <= AllocLimit
  /\ m_buffer' = [k \in 0..(2 * m_maxSize - 1) |->
                    IF k < m_maxSize THEN m_buffer[k]
                    ELSE IF m_lCur > m_rCur /\ k - m_maxSize < m_rCur
                         THEN m_buffer[k - m_maxSize] ELSE Junk]
  /\ m_rCur' = IF m_lCur > m_rCur THEN m_lCur + m_useSize - 1 ELSE m_rCur
  /\ m_maxSize' = 2 * m_maxSize
  /\ fullExpand' = (fullExpand \/ (m_lCur = m_rCur /\ m_useSize > 0))
  /\ UNCHANGED <<m_useSize, m_lCur>>

\* LpBuffer::Expand, realloc succeeding: twice the size, and when the data
\* wraps (m_lCur > m_rCur) its front part is copied behind the old end.
Expand ==
  /\ 2 * m_maxSize <= AllocLimit
  /\ m_buffer' = [k \in 0..(2 * m_maxSize - 1) |->
                    IF k < m_maxSize THEN m_buffer[k]
                    ELSE IF m_lCur > m_rCur /\ k - m_maxSize < m_rCur
                         THEN m_buffer[k - m_maxSize] ELSE Junk]
  /\ m_rCur' = IF m_lCur > m_rCur THEN m_lCur + m_useSize ELSE m_rCur
  /\ m_maxSize' = 2 * m_maxSize
  /\ fullExpand' = (fullExpand \/ (m_lCur = m_rCur /\ m_useSize > 0))
  /\ UNCHANGED <<m_useSize, m_lCur>>

\* realloc returns nullptr, which it may do at any size.
ExpandFails == UNCHANGED <<ring, fullExpand>>

\* One turn of the loop of Push.  It ends when the chunk fits, or after
\* ExpandCount attempts, and then a chunk that still does not fit is dropped.
TryExpand ==
  /\ io = "expand"
  /\ Expand \/ ExpandFails
  /\ tries' = tries + 1
  /\ io' = IF ioSize <= m_maxSize' - m_useSize THEN "copy"
           ELSE IF tries' >= ExpandCount THEN "task" ELSE "expand"
  /\ UNCHANGED <<ioSize, netVars, tasks, received, taken>>

\* The bytes of the chunk go behind the write cursor, around the end of the
\* ring if need be.
Stored(p) ==
  LET i == IF p >= m_rCur THEN p - m_rCur + 1 ELSE p + (m_maxSize - m_rCur) + 1
  IN  IF i <= ioSize THEN received + i ELSE m_buffer[p]

\* Variant: the write cursor is never taken back to the front.
PushCopyNoWrap ==
  /\ io = "copy"
  /\ m_buffer' = [p \in 0..(m_maxSize - 1) |-> Stored(p)]
  /\ m_rCur' = m_rCur + ioSize
  /\ m_useSize' = m_useSize + ioSize
  /\ received' = received + ioSize
  /\ io' = "task"
  /\ UNCHANGED <<m_maxSize, m_lCur, ioSize, tries, netVars, tasks, taken, fullExpand>>

PushCopy ==
  /\ io = "copy"
  /\ m_buffer' = [p \in 0..(m_maxSize - 1) |-> Stored(p)]
  /\ m_rCur' = Advance(m_rCur, ioSize)
  /\ m_useSize' = m_useSize + ioSize
  /\ received' = received + ioSize
  /\ io' = "task"
  /\ UNCHANGED <<m_maxSize, m_lCur, ioSize, tries, netVars, tasks, taken, fullExpand>>

\* Variant: the worker is woken only if it is idle.
PushTaskIfIdle ==
  /\ io = "task"
  /\ tasks' = IF net = "idle" THEN tasks + 1 ELSE tasks
  /\ io' = "read"
  /\ UNCHANGED <<ring, ioSize, tries, netVars, received, taken, fullExpand>>

\* The end of OnRead: a Receive task for the worker, then Read again.
PushTask ==
  /\ io = "task"
  /\ tasks' = tasks + 1
  /\ io' = "read"
  /\ UNCHANGED <<ring, ioSize, tries, netVars, received, taken, fullExpand>>

-----------------------------------------------------------------------------
(* The worker.                                                             *)

TakeTask ==
  /\ net = "idle" /\ tasks > 0
  /\ tasks' = tasks - 1
  /\ net' = "size"
  /\ UNCHANGED <<ring, ioVars, netSize, m_recvData, m_ioBufferSize, received, taken, fullExpand>>

\* Variant: GetBufferMaxSize in place of GetUseSize.
GetMaxSize ==
  /\ net = "size" /\ ~Locked
  /\ netSize' = m_maxSize
  /\ net' = "data"
  /\ UNCHANGED <<ring, ioVars, m_recvData, m_ioBufferSize, tasks, received, taken, fullExpand>>

\* The size ProcessReceive will ask for.
GetUseSize ==
  /\ net = "size" /\ ~Locked
  /\ netSize' = m_useSize
  /\ net' = "data"
  /\ UNCHANGED <<ring, ioVars, m_recvData, m_ioBufferSize, tasks, received, taken, fullExpand>>

\* Variant: the block is taken for large enough once and for all.
PopDataNoRealloc ==
  /\ net = "data" /\ net' = "pop"
  /\ UNCHANGED <<ring, ioVars, netSize, m_recvData, m_ioBufferSize, tasks, received, taken,
                 fullExpand>>

\* LpSession::PopData makes the block as large as what is to be popped, or
\* returns nullptr.  Then Pop does nothing, and PushPacket, which only logs
\* the nullptr, copies packets from it: the program dies.
PopData ==
  /\ net = "data"
  /\ \/ /\ netSize <= m_ioBufferSize
        /\ net' = "pop" /\ UNCHANGED m_ioBufferSize
     \/ /\ netSize > m_ioBufferSize /\ netSize <= AllocLimit
        /\ net' = "pop" /\ m_ioBufferSize' = netSize
     \/ /\ netSize > m_ioBufferSize
        /\ net' = "dead" /\ UNCHANGED m_ioBufferSize
  /\ UNCHANGED <<ring, ioVars, netSize, m_recvData, tasks, received, taken, fullExpand>>

PopRefused == netSize <= 0 \/ netSize > m_maxSize \/ netSize > m_useSize

\* LpBuffer::Pop.  A refused Pop leaves m_recvData as it was.
Pop ==
  /\ net = "pop" /\ ~Locked
  /\ \/ /\ PopRefused
        /\ UNCHANGED <<ring, m_recvData, taken>>
     \/ /\ ~PopRefused
        /\ m_recvData' = [i \in 1..netSize |-> m_buffer[Wrap(m_lCur + i - 1)]]
        /\ m_lCur' = Advance(m_lCur, netSize)
        /\ m_useSize' = m_useSize - netSize
        /\ taken' = taken + netSize
        /\ UNCHANGED <<m_buffer, m_maxSize, m_rCur>>
  /\ net' = "deliver"
  /\ UNCHANGED <<ioVars, netSize, m_ioBufferSize, tasks, received, fullExpand>>

\* m_recvData and size go to LpPacketHandler::PushPacket.
Deliver ==
  /\ net = "deliver"
  /\ net' = "idle"
  /\ UNCHANGED <<ring, ioVars, netSize, m_recvData, m_ioBufferSize, tasks, received, taken,
                 fullExpand>>

-----------------------------------------------------------------------------
Push == PushEnter \/ TryExpand \/ PushCopy
Alive == net # "dead"
OnRead == Alive /\ (Push \/ PushTask)
Worker == TakeTask \/ GetUseSize \/ PopData \/ Pop \/ Deliver

Next ==
  \/ Alive /\ (Read \/ ReadSome \/ ReadError)
  \/ OnRead
  \/ Worker

(***************************************************************************)
(* A handler that has started runs to its end, and the worker polls its    *)
(* queue forever.  The peer may stop sending at any time.                  *)
(***************************************************************************)
Spec == Init /\ [][Next]_vars /\ WF_vars(OnRead) /\ WF_vars(Worker)

-----------------------------------------------------------------------------
TypeOK ==
  /\ m_maxSize \in Nat \ {0}
  /\ m_buffer \in [0..(m_maxSize - 1) -> Nat]
  /\ m_useSize \in Nat /\ m_lCur \in Nat /\ m_rCur \in Nat
  /\ io \in {"read", "reading", "push", "expand", "copy", "task", "closed"}
  /\ ioSize \in Nat /\ tries \in Nat
  /\ net \in {"idle", "size", "data", "pop", "deliver", "dead"}
  /\ netSize \in Nat /\ m_ioBufferSize \in Nat
  /\ tasks \in Nat /\ received \in Nat /\ taken \in Nat
  /\ fullExpand \in BOOLEAN

\* No caller of Push, whatever the chunk sizes, makes a memcpy run over the
\* end of the allocation: the cursors stay in 0..m_maxSize, a chunk about to
\* be copied fits, and so does the front part that Expand moves behind the
\* old end (LpBuffer.cpp:32-61, 74-89, 105-109).  Nor does Pop run over the
\* end of m_recvData, though the ring has grown since that was allocated
\* (LpSession.cpp:97-103, 174-184).
CursorsInRange ==
  /\ m_useSize <= m_maxSize
  /\ m_lCur <= m_maxSize /\ m_rCur <= m_maxSize
  /\ io = "copy" => ioSize <= Available
  /\ net = "pop" => netSize <= m_ioBufferSize

\* The ring holds exactly the bytes stored and not yet removed, oldest first,
\* between the two cursors.
Content ==
  /\ received = taken + m_useSize
  /\ \/ m_rCur = m_lCur + m_useSize
     \/ m_rCur + m_maxSize = m_lCur + m_useSize
  /\ \A k \in 0..(m_useSize - 1) : m_buffer[Wrap(m_lCur + k)] = taken + k + 1

\* What Pop has copied out is the next part of the stream.
HandedOver ==
  net = "deliver" /\ netSize > 0 =>
    m_recvData = [i \in 1..netSize |-> (taken - netSize) + i]

\* Under any caller, the bytes in the ring and those given to PushPacket are
\* the next ones of the stream, unless an Expand has met a ring that was full
\* with both cursors at one index: its test m_lCur > m_rCur then takes the
\* ring for one that does not wrap (LpBuffer.cpp:105).
FifoUnlessFullExpand == ~fullExpand => Content /\ HandedOver

\* Pop is never refused for want of bytes: between GetUseSize and Pop nobody
\* else removes any (LpSession.cpp:97-103, two critical sections).
PopAsSized == net \in {"data", "pop"} => netSize <= m_useSize

\* When no task is queued, none about to be, and the worker has not still to
\* read the size, the ring holds only what the worker is about to pop: no
\* byte waits for a task that never comes (LpSession.cpp:87-90, 97-103).
NoStrandedBytes ==
  io # "task" /\ tasks = 0 /\ net \notin {"size", "dead"} =>
    m_useSize = (IF net \in {"data", "pop"} THEN netSize ELSE 0)

\* The caller of Push in LpSession: a chunk fits in what GetAvailableSize
\* returned, which can only have grown since, so Expand meets no full ring.
ChunkFits ==
  /\ ~fullExpand
  /\ io \in {"reading", "push", "expand", "copy"} => ioSize <= Available

\* What the invariants above need to be inductive.
IInv ==
  /\ TypeOK
  /\ CursorsInRange
  /\ FifoUnlessFullExpand
  /\ PopAsSized
  /\ NoStrandedBytes
  /\ io \in {"expand", "copy"} => ioSize > 0
  /\ ReadLoop => ChunkFits

\* In the read loop the buffer is a fifo: through every wrap, Expand and
\* failed realloc the worker gets the bytes of the stream in order, each once.
Fifo == INSTANCE ByteFifo WITH accepted <- received, handed <- m_recvData
ImplementsFifo == Fifo!Spec

\* Every byte stored is eventually removed by the worker, unless there was no
\* memory for m_recvData (LpSession.cpp:96-108, 174-189).
EverythingTaken == \A n \in 1..MaxBytes : (received >= n) ~> (taken >= n \/ ~Alive)
=============================================================================
