--------------------------- MODULE LpReceiveProofs ---------------------------
(***************************************************************************)
(* The receive path for any number of threads and sessions and any streams *)
(* of packets.                                                             *)
(***************************************************************************)
EXTENDS LpReceive, LpPacketHandlerProofs, FunctionTheorems

WorkerRecord == [pc : {"poll", "size", "pop", "push", "count"},
                 session : Sessions \cup {NoSession}, size : Nat, count : Nat]

LEMMA ThreadOfSession ==
  ASSUME NEW s \in Sessions
  PROVE  ThreadOf(s) \in Threads /\ s \in Nat /\ s # NoSession
<1>1. s \in Nat /\ m_ioThreadCount \in Nat \ {0}
  BY PacketHandlerAssumption
<1> QED BY <1>1 DEF ThreadOf, Threads, NoSession

LEMMA InitWorkerIs ==
  ASSUME NEW i
  PROVE  /\ InitWorker(i) \in WorkerRecord
         /\ InitWorker(i).pc = "poll" /\ InitWorker(i).session = NoSession
BY DEF InitWorker, WorkerRecord

-----------------------------------------------------------------------------
(* What each step does, part by part.                                      *)

LEMMA TasksIs ==
  ASSUME ReceiveTypeOK, NEW i \in Threads
  PROVE  /\ m_netTaskQueue[i] \in Seq(Sessions)
         /\ \A j \in DOMAIN m_netTaskQueue[i] : m_netTaskQueue[i][j] \in Sessions
         /\ worker[i] \in WorkerRecord
         /\ worker[i].pc \in {"poll", "size", "pop", "push", "count"}
         /\ worker[i].session \in Sessions \cup {NoSession}
         /\ worker[i].size \in Nat /\ worker[i].count \in Nat
<1>1. m_netTaskQueue[i] \in Seq(Sessions) /\ worker[i] \in WorkerRecord
  BY DEF ReceiveTypeOK, WorkerRecord
<1> QED BY <1>1 DEF WorkerRecord

\* A task joins the queue of its session's worker.
LEMMA PushTaskStep ==
  ASSUME ReceiveTypeOK, NEW s \in Sessions, PushTask(s)
  PROVE  /\ m_netTaskQueue' \in [Threads -> Seq(Sessions)]
         /\ \A i \in Threads : \A j \in DOMAIN m_netTaskQueue'[i] :
              \/ m_netTaskQueue'[i][j] = s /\ ThreadOf(s) = i
              \/ j \in DOMAIN m_netTaskQueue[i] /\ m_netTaskQueue'[i][j] = m_netTaskQueue[i][j]
         /\ \A i \in Threads : \A j \in DOMAIN m_netTaskQueue[i] :
              j \in DOMAIN m_netTaskQueue'[i] /\ m_netTaskQueue'[i][j] = m_netTaskQueue[i][j]
         /\ \E j \in DOMAIN m_netTaskQueue'[ThreadOf(s)] : m_netTaskQueue'[ThreadOf(s)][j] = s
<1> DEFINE i == ThreadOf(s)
<1> DEFINE q == m_netTaskQueue[i]
<1> DEFINE r == Append(q, s)
<1>1. m_netTaskQueue' = [m_netTaskQueue EXCEPT ![i] = r]
  BY DEF PushTask, TaskQueues, ThreadOf
<1>2. i \in Threads
  BY ThreadOfSession
<1>3. m_netTaskQueue \in [Threads -> Seq(Sessions)] /\ q \in Seq(Sessions)
  BY <1>2 DEF ReceiveTypeOK
<1>4. /\ r \in Seq(Sessions) /\ DOMAIN q = 1..Len(q) /\ Len(q) \in Nat
      /\ DOMAIN r = 1..(Len(q) + 1) /\ r[Len(q) + 1] = s
      /\ \A j \in 1..Len(q) : r[j] = q[j]
  <2> HIDE DEF q
  <2> QED BY <1>3
<1> HIDE DEF r
<1>5. /\ m_netTaskQueue' \in [Threads -> Seq(Sessions)] /\ m_netTaskQueue'[i] = r
      /\ \A k \in Threads : k # i => m_netTaskQueue'[k] = m_netTaskQueue[k]
  BY <1>1, <1>2, <1>3, <1>4
<1> DEFINE n == Len(q)
<1>6. n \in Nat /\ DOMAIN q = 1..n /\ DOMAIN r = 1..(n + 1)
      /\ r[n + 1] = s /\ \A j \in 1..n : r[j] = q[j]
  BY <1>4
<1> HIDE DEF n
<1>7. /\ \A j \in DOMAIN q : j \in DOMAIN r /\ r[j] = q[j]
      /\ \A j \in DOMAIN r : r[j] = s \/ (j \in DOMAIN q /\ r[j] = q[j])
      /\ n + 1 \in DOMAIN r
  BY <1>6
<1>8. \A k \in Threads : \A j \in DOMAIN m_netTaskQueue[k] :
        j \in DOMAIN m_netTaskQueue'[k] /\ m_netTaskQueue'[k][j] = m_netTaskQueue[k][j]
  BY <1>5, <1>7
<1>9. \A k \in Threads : \A j \in DOMAIN m_netTaskQueue'[k] :
        \/ m_netTaskQueue'[k][j] = s /\ ThreadOf(s) = k
        \/ j \in DOMAIN m_netTaskQueue[k] /\ m_netTaskQueue'[k][j] = m_netTaskQueue[k][j]
  BY <1>5, <1>7
<1> QED BY <1>2, <1>5, <1>6, <1>7, <1>8, <1>9

LEMMA TakeTaskStep ==
  ASSUME ReceiveTypeOK, NEW i \in Threads, TakeTask(i)
  PROVE  \E s \in Sessions :
    /\ worker' \in [Threads -> WorkerRecord]
    /\ \A j \in Threads : j # i => worker'[j] = worker[j]
    /\ worker[i].pc = "poll" /\ worker'[i].pc = "size" /\ worker'[i].session = s
    /\ m_netTaskQueue' \in [Threads -> Seq(Sessions)]
    /\ 1 \in DOMAIN m_netTaskQueue[i] /\ m_netTaskQueue[i][1] = s
    /\ \A k \in Threads : k # i => m_netTaskQueue'[k] = m_netTaskQueue[k]
    /\ \A j \in DOMAIN m_netTaskQueue'[i] :
         j + 1 \in DOMAIN m_netTaskQueue[i] /\ m_netTaskQueue'[i][j] = m_netTaskQueue[i][j + 1]
    /\ \A t \in Sessions : t # s => \A j \in DOMAIN m_netTaskQueue[i] :
         m_netTaskQueue[i][j] = t => \E k \in DOMAIN m_netTaskQueue'[i] : m_netTaskQueue'[i][k] = t
<1> DEFINE q == m_netTaskQueue[i]
<1> DEFINE r == [worker[i] EXCEPT !.pc = "size", !.session = Head(q)]
<1>1. q # <<>> /\ worker[i].pc = "poll"
      /\ worker' = [worker EXCEPT ![i] = r]
      /\ m_netTaskQueue' = [m_netTaskQueue EXCEPT ![i] = Tail(q)]
  BY DEF TakeTask
<1>2. q \in Seq(Sessions) /\ m_netTaskQueue \in [Threads -> Seq(Sessions)]
  BY DEF ReceiveTypeOK
<1>3. worker[i] \in WorkerRecord /\ worker \in [Threads -> WorkerRecord]
  BY DEF ReceiveTypeOK, WorkerRecord
<1> DEFINE n == Len(q)
<1> DEFINE tl == Tail(q)
<1>4. /\ n \in Nat /\ n >= 1 /\ DOMAIN q = 1..n /\ Head(q) = q[1] /\ q[1] \in Sessions
      /\ tl \in Seq(Sessions) /\ DOMAIN tl = 1..(n - 1)
      /\ \A j \in 1..(n - 1) : tl[j] = q[j + 1]
  BY <1>1, <1>2
<1>5. /\ r \in WorkerRecord /\ r.pc = "size" /\ r.session = q[1]
  <2> HIDE DEF q
  <2> QED BY <1>3, <1>4 DEF WorkerRecord
<1> HIDE DEF r
<1>6. /\ worker' \in [Threads -> WorkerRecord] /\ worker'[i] = r
      /\ \A j \in Threads : j # i => worker'[j] = worker[j]
  BY <1>1, <1>3, <1>5
<1> HIDE DEF tl
<1>7. /\ m_netTaskQueue' \in [Threads -> Seq(Sessions)] /\ m_netTaskQueue'[i] = tl
      /\ \A k \in Threads : k # i => m_netTaskQueue'[k] = m_netTaskQueue[k]
  BY <1>1, <1>2, <1>4 DEF tl
<1>8. \A t \in Sessions : t # q[1] => \A j \in DOMAIN q : q[j] = t => \E k \in DOMAIN tl : tl[k] = t
  <2> SUFFICES ASSUME NEW t \in Sessions, t # q[1], NEW j \in DOMAIN q, q[j] = t
               PROVE  j - 1 \in 1..(n - 1) /\ tl[j - 1] = t
    BY <1>4
  <2>1. j \in Nat /\ j # 1 /\ j \in 1..n
    BY <1>4
  <2>2. j - 1 \in 1..(n - 1) /\ (j - 1) + 1 = j
    BY <1>4, <2>1
  <2> QED BY <1>4, <2>2
<1>9. \A j \in DOMAIN tl : j + 1 \in DOMAIN q /\ tl[j] = q[j + 1]
  BY <1>4
<1> QED BY <1>1, <1>4, <1>5, <1>6, <1>7, <1>8, <1>9

LEMMA GetUseSizeStep ==
  ASSUME ReceiveTypeOK, NEW i \in Threads, NEW s \in Sessions, worker[i].session = s,
         popped[s] <= stored[s], GetUseSize(i)
  PROVE  /\ worker' \in [Threads -> WorkerRecord]
         /\ \A j \in Threads : j # i => worker'[j] = worker[j]
         /\ worker[i].pc = "size" /\ worker'[i].pc = "pop" /\ worker'[i].session = s
         /\ worker'[i].size = stored[s] - popped[s]
<1> DEFINE n == stored[s] - popped[s]
<1> DEFINE r == [worker[i] EXCEPT !.pc = "pop", !.size = n]
<1>1. worker' = [worker EXCEPT ![i] = r] /\ worker[i].pc = "size"
  BY DEF GetUseSize
<1>2. worker[i] \in WorkerRecord /\ worker \in [Threads -> WorkerRecord]
  BY DEF ReceiveTypeOK, WorkerRecord
<1>3. n \in Nat
  BY DEF ReceiveTypeOK
<1> HIDE DEF n
<1>4. r \in WorkerRecord /\ r.pc = "pop" /\ r.session = s /\ r.size = n
  BY <1>2, <1>3 DEF WorkerRecord
<1> HIDE DEF r
<1> QED BY <1>1, <1>2, <1>4 DEF n

LEMMA PopStep ==
  ASSUME ReceiveTypeOK, NEW i \in Threads, NEW s \in Sessions, worker[i].session = s,
         worker[i].size <= stored[s] - popped[s], Pop(i)
  PROVE  /\ worker' \in [Threads -> WorkerRecord]
         /\ \A j \in Threads : j # i => worker'[j] = worker[j]
         /\ worker[i].pc = "pop" /\ worker'[i].pc = "push" /\ worker'[i].session = s
         /\ popped' \in [Sessions -> Nat] /\ popped'[s] = popped[s] + worker[i].size
         /\ \A t \in Sessions : t # s => popped'[t] = popped[t]
         /\ PushPacket(i, s, popped[s] + 1, worker[i].size)
         /\ popped[s] + 1 \in Nat /\ worker[i].size \in Nat /\ popped'[s] <= stored[s]
<1> DEFINE r == [worker[i] EXCEPT !.pc = "push"]
<1>1. worker' = [worker EXCEPT ![i] = r] /\ worker[i].pc = "pop"
      /\ popped' = [popped EXCEPT ![s] = popped[s] + worker[i].size]
      /\ PushPacket(i, s, popped[s] + 1, worker[i].size)
  BY DEF Pop
<1>2. worker[i] \in WorkerRecord /\ worker \in [Threads -> WorkerRecord]
  BY DEF ReceiveTypeOK, WorkerRecord
<1>3. /\ popped \in [Sessions -> Nat] /\ popped[s] \in Nat /\ stored[s] \in Nat
      /\ worker[i].size \in Nat
  BY <1>2 DEF ReceiveTypeOK, WorkerRecord
<1>4. r \in WorkerRecord /\ r.pc = "push" /\ r.session = s
  BY <1>2 DEF WorkerRecord
<1> HIDE DEF r
<1>5. worker' \in [Threads -> WorkerRecord] /\ worker'[i] = r
      /\ \A j \in Threads : j # i => worker'[j] = worker[j]
  BY <1>1, <1>2, <1>4
<1> DEFINE n == worker[i].size
<1>6. n \in Nat /\ popped' = [popped EXCEPT ![s] = popped[s] + n] /\ n <= stored[s] - popped[s]
  BY <1>1, <1>3
<1> HIDE DEF n
<1>7. /\ popped' \in [Sessions -> Nat] /\ popped'[s] = popped[s] + n
      /\ \A t \in Sessions : t # s => popped'[t] = popped[t]
      /\ popped[s] + 1 \in Nat /\ popped'[s] <= stored[s]
  BY <1>3, <1>6
<1> QED BY <1>1, <1>3, <1>4, <1>5, <1>7 DEF n

LEMMA ReadRecvCountStep ==
  ASSUME PHTypeOK, ReceiveTypeOK, NEW i \in Threads, NEW s \in Sessions, worker[i].session = s,
         ReadRecvCount(i)
  PROVE  /\ worker' \in [Threads -> WorkerRecord]
         /\ \A j \in Threads : j # i => worker'[j] = worker[j]
         /\ worker[i].pc = "push" /\ push[i].pc = "idle"
         /\ push' = [push EXCEPT ![i] = InitPush(i)]
         /\ push' \in [Threads -> PushRecord']
         /\ \A j \in Threads : j # i => push'[j] = push[j]
         /\ push'[i] = InitPush(i)
         /\ \/ /\ worker'[i].pc = "poll" /\ worker'[i].session = NoSession
               /\ push[i].recvCount = 0
            \/ /\ worker'[i].pc = "count" /\ worker'[i].session = s
               /\ worker'[i].size = push[i].recvCount /\ worker'[i].count = RecvCount(s)
<1>1. worker \in [Threads -> WorkerRecord] /\ push \in [Threads -> PushRecord]
  BY DEF ReceiveTypeOK, WorkerRecord, PHTypeOK, PushRecord
<1>2. PushRecord' = PushRecord
  BY DEF ReadRecvCount, PushRecord, Blocks
<1>3. push[i].recvCount \in Nat /\ RecvCount(s) \in Nat
  BY <1>1 DEF PushRecord, RecvCount, ReceiveTypeOK
<1> DEFINE c == [pc |-> "count", session |-> s, size |-> push[i].recvCount, count |-> RecvCount(s)]
<1>4. c \in WorkerRecord /\ c.pc = "count" /\ c.session = s /\ c.size = push[i].recvCount
      /\ c.count = RecvCount(s)
  BY <1>3 DEF WorkerRecord
<1>5. /\ worker[i].pc = "push" /\ push[i].pc = "idle"
      /\ push' = [push EXCEPT ![i] = InitPush(i)]
      /\ \/ push[i].recvCount = 0 /\ worker' = [worker EXCEPT ![i] = InitWorker(i)]
         \/ worker' = [worker EXCEPT ![i] = c]
  BY DEF ReadRecvCount
<1> HIDE DEF c
<1>6. /\ push' \in [Threads -> PushRecord'] /\ push'[i] = InitPush(i)
      /\ \A j \in Threads : j # i => push'[j] = push[j]
  BY <1>1, <1>2, <1>5, InitPushIs
<1>7. CASE push[i].recvCount = 0 /\ worker' = [worker EXCEPT ![i] = InitWorker(i)]
  <2>1. /\ worker' \in [Threads -> WorkerRecord] /\ worker'[i] = InitWorker(i)
        /\ \A j \in Threads : j # i => worker'[j] = worker[j]
    BY <1>1, <1>7, InitWorkerIs
  <2> QED BY <1>5, <1>6, <1>7, <2>1, InitWorkerIs
<1>8. CASE worker' = [worker EXCEPT ![i] = c]
  <2>1. /\ worker' \in [Threads -> WorkerRecord] /\ worker'[i] = c
        /\ \A j \in Threads : j # i => worker'[j] = worker[j]
    BY <1>1, <1>4, <1>8
  <2> QED BY <1>4, <1>5, <1>6, <2>1
<1> QED BY <1>5, <1>7, <1>8

LEMMA AddRecvCountStep ==
  ASSUME ReceiveTypeOK, NEW i \in Threads, NEW s \in Sessions, worker[i].session = s,
         worker[i].count = RecvCount(s), AddRecvCount(i)
  PROVE  /\ worker' \in [Threads -> WorkerRecord]
         /\ \A j \in Threads : j # i => worker'[j] = worker[j]
         /\ worker[i].pc = "count" /\ worker'[i].pc = "poll" /\ worker'[i].session = NoSession
         /\ DOMAIN m_sessionRecvCountMap' \subseteq Sessions
         /\ \A t \in DOMAIN m_sessionRecvCountMap' : m_sessionRecvCountMap'[t] \in Nat
         /\ RecvCount(s) \in Nat /\ worker[i].size \in Nat
         /\ RecvCount(s)' = RecvCount(s) + worker[i].size
         /\ \A t \in Sessions : t # s => RecvCount(t)' = RecvCount(t)
         /\ m_totalCount' \in Nat /\ m_totalCount' = m_totalCount + worker[i].size
<1> DEFINE n == worker[i].size
<1> DEFINE c == worker[i].count
<1>1. /\ worker[i].pc = "count" /\ worker' = [worker EXCEPT ![i] = InitWorker(i)]
      /\ m_sessionRecvCountMap' =
           [t \in DOMAIN m_sessionRecvCountMap \cup {s} |->
              IF t = s THEN c + n ELSE m_sessionRecvCountMap[t]]
      /\ m_totalCount' = m_totalCount + n
  BY DEF AddRecvCount
<1>2. n \in Nat /\ c \in Nat /\ c = RecvCount(s)
  BY TasksIs
<1>3. worker \in [Threads -> WorkerRecord]
  BY DEF ReceiveTypeOK, WorkerRecord
<1> HIDE DEF n, c
<1>4. /\ DOMAIN m_sessionRecvCountMap \subseteq Sessions
      /\ \A t \in DOMAIN m_sessionRecvCountMap : m_sessionRecvCountMap[t] \in Nat
      /\ m_totalCount \in Nat
  BY DEF ReceiveTypeOK
<1>5. /\ DOMAIN m_sessionRecvCountMap' = DOMAIN m_sessionRecvCountMap \cup {s}
      /\ m_sessionRecvCountMap'[s] = c + n
      /\ \A t \in DOMAIN m_sessionRecvCountMap : t # s =>
           m_sessionRecvCountMap'[t] = m_sessionRecvCountMap[t]
  BY <1>1
<1>6. /\ RecvCount(s)' = c + n
      /\ \A t \in Sessions : t # s => RecvCount(t)' = RecvCount(t)
  BY <1>5 DEF RecvCount
<1>7. \A t \in DOMAIN m_sessionRecvCountMap' : m_sessionRecvCountMap'[t] \in Nat
  BY <1>2, <1>4, <1>5
<1>8. m_totalCount' \in Nat
  BY <1>1, <1>2, <1>4
<1>9. /\ worker' \in [Threads -> WorkerRecord] /\ worker'[i] = InitWorker(i)
      /\ \A j \in Threads : j # i => worker'[j] = worker[j]
  BY <1>1, <1>3, InitWorkerIs
<1>10. DOMAIN m_sessionRecvCountMap' \subseteq Sessions
  BY <1>4, <1>5
<1> QED BY <1>1, <1>2, <1>6, <1>7, <1>8, <1>9, <1>10, InitWorkerIs DEF n

-----------------------------------------------------------------------------
(* One worker per session, and no byte left behind.                        *)

ServedInv == ReceiveTypeOK /\ OneThread /\ Fetched

\* What the steps of a session leave alone.
LEMMA WorkersOf ==
  ASSUME PHTypeOK, InPlace, ReceiveTypeOK, OneThread, NEW i \in Threads
  PROVE  /\ worker[i].session \in Sessions <=> worker[i].pc # "poll"
         /\ \A s \in Sessions : worker[i].session = s => i = ThreadOf(s)
         /\ push[i].pc # "idle" => worker[i].pc = "push"
         /\ worker[i].pc # "push" => /\ push[i].pc = "idle" /\ push[i].packet = Null
                                     /\ push[i].recvCount = 0 /\ push[i].recvSize = 0
<1>1. NoSession \notin Sessions
  BY ThreadOfSession
<1>2. worker[i].session \in Sessions \cup {NoSession}
  BY TasksIs
<1> QED BY <1>1, <1>2, InitPushIs DEF OneThread

\* A step of the packet handler that leaves PushPacket where it is.
LEMMA OthersServed ==
  ASSUME ServedInv, UNCHANGED <<stored, popped, m_netTaskQueue, worker, counts>>,
         conn' \in [Sessions -> {"waiting", "reading", "task", "closed"}],
         \A s \in Sessions : conn'[s] = "task" <=> conn[s] = "task",
         \A i \in Threads : push'[i] = push[i]
  PROVE  ServedInv'
<1>u. UNCHANGED <<m_sessionRecvCountMap, m_totalCount>>
  BY DEF counts
<1>i. ReceiveTypeOK /\ OneThread /\ Fetched
  BY DEF ServedInv
<1>1. ReceiveTypeOK'
  BY <1>i, <1>u DEF ReceiveTypeOK
<1>2. OneThread'
  BY <1>i DEF OneThread, InitPush, Null
<1>3. Fetched'
  <2> SUFFICES ASSUME NEW s \in Sessions
               PROVE  HasTask(s)' = HasTask(s)
    BY <1>i DEF Fetched
  <2> QED BY DEF HasTask
<1> QED BY <1>1, <1>2, <1>3 DEF ServedInv

LEMMA OnReadServed ==
  ASSUME PHInv, ServedInv, NEW s \in Sessions, OnRead(s)
  PROVE  ServedInv'
<1>u. UNCHANGED <<popped, m_netTaskQueue, worker, m_sessionRecvCountMap, m_totalCount, push>>
  BY DEF OnRead, phVars, counts
<1>i. ReceiveTypeOK /\ OneThread /\ Fetched
  BY DEF ServedInv
<1>1. PICK n \in 1..(Len(stream[s]) * PacketSize - stored[s]) :
        stored' = [stored EXCEPT ![s] = @ + n]
  BY DEF OnRead
<1>2. conn' = [conn EXCEPT ![s] = "task"]
  BY DEF OnRead
<1>3. /\ stored' \in [Sessions -> Nat] /\ stored'[s] >= stored[s]
      /\ \A t \in Sessions : t # s => stored'[t] = stored[t]
  <2>1. stored \in [Sessions -> Nat] /\ stored[s] \in Nat
    BY <1>i DEF ReceiveTypeOK
  <2>2. n \in Nat
    <3>1. Len(stream[s]) \in Nat
      BY DEF PHInv, PHTypeOK
    <3>2. Len(stream[s]) * PacketSize \in Int
      BY <3>1, PacketHandlerAssumption
    <3> QED BY <1>1, <2>1, <3>2
  <2> QED BY <1>1, <2>1, <2>2
<1>4. /\ conn' \in [Sessions -> {"waiting", "reading", "task", "closed"}]
      /\ conn'[s] = "task" /\ \A t \in Sessions : t # s => conn'[t] = conn[t]
  BY <1>i, <1>2 DEF ReceiveTypeOK
<1>5. ReceiveTypeOK'
  BY <1>i, <1>u, <1>3, <1>4 DEF ReceiveTypeOK
<1>6. OneThread'
  BY <1>i, <1>u DEF OneThread, InitPush, Null
<1>7. Fetched'
  <2>1. \A t \in Sessions : ~HasTask(t)' => t # s /\ ~HasTask(t)
    BY <1>u, <1>4 DEF HasTask
  <2> SUFFICES ASSUME NEW t \in Sessions
               PROVE  LET w == worker[ThreadOf(t)]
                      IN  /\ popped[t] <= stored'[t]
                          /\ w.session = t /\ w.pc = "pop" => w.size <= stored'[t] - popped[t]
                          /\ ~HasTask(t)' => stored'[t] = stored[t] /\ ~HasTask(t)
    BY <1>i, <1>u DEF Fetched
  <2>2. popped[t] \in Nat /\ stored[t] \in Nat /\ stored'[t] \in Nat /\ stored'[t] >= stored[t]
    <3>1. popped[t] \in Nat /\ stored[t] \in Nat /\ stored'[t] \in Nat
      BY <1>i, <1>3 DEF ReceiveTypeOK
    <3>2. t = s \/ stored'[t] = stored[t]
      BY <1>3
    <3> QED BY <1>3, <3>1, <3>2
  <2>3. worker[ThreadOf(t)].size \in Nat
    BY <1>i, ThreadOfSession, TasksIs
  <2> QED BY <1>i, <1>3, <2>1, <2>2, <2>3 DEF Fetched
<1> QED BY <1>5, <1>6, <1>7 DEF ServedInv

LEMMA PushTaskServed ==
  ASSUME ServedInv, NEW s \in Sessions, PushTask(s)
  PROVE  ServedInv'
<1>u. UNCHANGED <<stored, popped, worker, m_sessionRecvCountMap, m_totalCount, push>>
  BY DEF PushTask, phVars, ring, counts
<1>i. ReceiveTypeOK /\ OneThread /\ Fetched
  BY DEF ServedInv
<1>1. conn' = [conn EXCEPT ![s] = "reading"]
  BY DEF PushTask
<1>2. /\ conn' \in [Sessions -> {"waiting", "reading", "task", "closed"}]
      /\ \A t \in Sessions : t # s => conn'[t] = conn[t]
  BY <1>i, <1>1 DEF ReceiveTypeOK
<1>3. /\ m_netTaskQueue' \in [Threads -> Seq(Sessions)]
      /\ \A i \in Threads : \A j \in DOMAIN m_netTaskQueue'[i] :
           \/ m_netTaskQueue'[i][j] = s /\ ThreadOf(s) = i
           \/ j \in DOMAIN m_netTaskQueue[i] /\ m_netTaskQueue'[i][j] = m_netTaskQueue[i][j]
      /\ \A i \in Threads : \A j \in DOMAIN m_netTaskQueue[i] :
           j \in DOMAIN m_netTaskQueue'[i] /\ m_netTaskQueue'[i][j] = m_netTaskQueue[i][j]
      /\ \E j \in DOMAIN m_netTaskQueue'[ThreadOf(s)] : m_netTaskQueue'[ThreadOf(s)][j] = s
  BY <1>i, PushTaskStep
<1>4. ReceiveTypeOK'
  BY <1>i, <1>u, <1>2, <1>3 DEF ReceiveTypeOK
<1>5. OneThread'
  BY <1>i, <1>u, <1>3 DEF OneThread, InitPush, Null, ThreadOf
<1>6. Fetched'
  <2> SUFFICES ASSUME NEW t \in Sessions, HasTask(t)
               PROVE  HasTask(t)'
    BY <1>i, <1>u DEF Fetched
  <2>1. CASE t = s
    <3>1. ThreadOf(s) \in Threads
      BY ThreadOfSession
    <3> QED BY <1>3, <2>1, <3>1 DEF HasTask
  <2>2. CASE t # s
    BY <1>2, <1>3, <2>2 DEF HasTask
  <2> QED BY <2>1, <2>2
<1> QED BY <1>4, <1>5, <1>6 DEF ServedInv

LEMMA TakeTaskServed ==
  ASSUME ServedInv, NEW i \in Threads, TakeTask(i)
  PROVE  ServedInv'
<1>u. UNCHANGED <<conn, stored, popped, m_sessionRecvCountMap, m_totalCount, push>>
  BY DEF TakeTask, phVars, ring, counts
<1>i. ReceiveTypeOK /\ OneThread /\ Fetched
  BY DEF ServedInv
<1>1. PICK s \in Sessions :
        /\ worker' \in [Threads -> WorkerRecord]
        /\ \A j \in Threads : j # i => worker'[j] = worker[j]
        /\ worker[i].pc = "poll" /\ worker'[i].pc = "size" /\ worker'[i].session = s
        /\ m_netTaskQueue' \in [Threads -> Seq(Sessions)]
        /\ 1 \in DOMAIN m_netTaskQueue[i] /\ m_netTaskQueue[i][1] = s
        /\ \A k \in Threads : k # i => m_netTaskQueue'[k] = m_netTaskQueue[k]
        /\ \A j \in DOMAIN m_netTaskQueue'[i] :
             j + 1 \in DOMAIN m_netTaskQueue[i] /\ m_netTaskQueue'[i][j] = m_netTaskQueue[i][j + 1]
        /\ \A t \in Sessions : t # s => \A j \in DOMAIN m_netTaskQueue[i] :
             m_netTaskQueue[i][j] = t => \E k \in DOMAIN m_netTaskQueue'[i] : m_netTaskQueue'[i][k] = t
  BY <1>i, TakeTaskStep
<1>2. ThreadOf(s) = i /\ s # NoSession /\ NoSession \notin Sessions
  BY <1>i, <1>1, ThreadOfSession DEF OneThread
<1>3. ReceiveTypeOK'
  BY <1>i, <1>u, <1>1 DEF ReceiveTypeOK, WorkerRecord
<1>4. OneThread'
  <2>1. \A k \in Threads : \A j \in DOMAIN m_netTaskQueue'[k] : ThreadOf(m_netTaskQueue'[k][j]) = k
    BY <1>i, <1>1 DEF OneThread
  <2>2. ASSUME NEW k \in Threads
        PROVE  /\ worker'[k].pc = "poll" <=> worker'[k].session = NoSession
               /\ worker'[k].pc # "poll" => ThreadOf(worker'[k].session) = k
               /\ worker'[k].pc # "push" => push[k] = InitPush(k)
               /\ push[k].pc # "idle" => push[k].session = worker'[k].session
    <3>1. CASE k = i
      <4>1. push[i] = InitPush(i) /\ push[i].pc = "idle"
        BY <1>i, <1>1, InitPushIs DEF OneThread
      <4> QED BY <1>1, <1>2, <3>1, <4>1
    <3>2. CASE k # i
      BY <1>i, <1>1, <3>2 DEF OneThread
    <3> QED BY <3>1, <3>2
  <2> QED BY <1>u, <2>1, <2>2 DEF OneThread, InitPush, ThreadOf, Null
<1>5. Fetched'
  <2> SUFFICES ASSUME NEW t \in Sessions
               PROVE  /\ worker'[ThreadOf(t)].session = t /\ worker'[ThreadOf(t)].pc = "pop" =>
                           worker'[ThreadOf(t)].size <= stored[t] - popped[t]
                      /\ ~HasTask(t)' =>
                           IF worker'[ThreadOf(t)].session # t
                              \/ worker'[ThreadOf(t)].pc \notin {"size", "pop"}
                           THEN popped[t] = stored[t]
                           ELSE worker'[ThreadOf(t)].pc = "pop" =>
                                  worker'[ThreadOf(t)].size = stored[t] - popped[t]
    BY <1>i, <1>u DEF Fetched
  <2>1. CASE t = s
    BY <1>1, <1>2, <2>1
  <2>2. CASE t # s
    <3>1. ~HasTask(t)' => ~HasTask(t)
      BY <1>u, <1>1, <2>2 DEF HasTask
    <3>2. CASE ThreadOf(t) = i
      <4>1. worker[i].session # t /\ worker'[i].session # t
        BY <1>i, <1>1, <1>2, <2>2 DEF OneThread
      <4> QED BY <1>i, <3>1, <3>2, <4>1 DEF Fetched
    <3>3. CASE ThreadOf(t) # i
      <4>1. worker'[ThreadOf(t)] = worker[ThreadOf(t)]
        BY <1>1, <3>3, ThreadOfSession
      <4> QED BY <1>i, <3>1, <4>1 DEF Fetched
    <3> QED BY <3>2, <3>3
  <2> QED BY <2>1, <2>2
<1> QED BY <1>3, <1>4, <1>5 DEF ServedInv

\* A step of worker i on session s that leaves the tasks alone.
LEMMA WorkerServed ==
  ASSUME ServedInv, NEW i \in Threads, NEW s \in Sessions, worker[i].session = s,
         UNCHANGED <<conn, stored, m_netTaskQueue>>,
         worker' \in [Threads -> WorkerRecord],
         \A j \in Threads : j # i => worker'[j] = worker[j] /\ push'[j] = push[j],
         popped' \in [Sessions -> Nat], \A t \in Sessions : t # s => popped'[t] = popped[t],
         DOMAIN m_sessionRecvCountMap' \subseteq Sessions,
         \A t \in DOMAIN m_sessionRecvCountMap' : m_sessionRecvCountMap'[t] \in Nat,
         m_totalCount' \in Nat,
         \/ worker'[i].pc = "poll" /\ worker'[i].session = NoSession
         \/ worker'[i].pc \in {"pop", "push", "count"} /\ worker'[i].session = s,
         worker'[i].pc # "push" => push'[i] = InitPush(i),
         push'[i].pc # "idle" => push'[i].session = worker'[i].session,
         popped'[s] <= stored[s],
         worker'[i].pc = "pop" => worker'[i].size = stored[s] - popped'[s],
         worker'[i].pc # "pop" /\ ~HasTask(s) => popped'[s] = stored[s]
  PROVE  ServedInv'
<1>i. ReceiveTypeOK /\ OneThread /\ Fetched
  BY DEF ServedInv
<1>1. s # NoSession /\ ThreadOf(s) = i
  BY <1>i, ThreadOfSession DEF OneThread
<1>2. ReceiveTypeOK'
  BY <1>i DEF ReceiveTypeOK, WorkerRecord
<1>3. OneThread'
  <2>1. \A k \in Threads : \A j \in DOMAIN m_netTaskQueue'[k] : ThreadOf(m_netTaskQueue'[k][j]) = k
    BY <1>i DEF OneThread
  <2>2. ASSUME NEW k \in Threads
        PROVE  /\ worker'[k].pc = "poll" <=> worker'[k].session = NoSession
               /\ worker'[k].pc # "poll" => ThreadOf(worker'[k].session) = k
               /\ worker'[k].pc # "push" => push'[k] = InitPush(k)
               /\ push'[k].pc # "idle" => push'[k].session = worker'[k].session
    <3>1. CASE k = i
      BY <1>1, <3>1
    <3>2. CASE k # i
      BY <1>i, <3>2 DEF OneThread
    <3> QED BY <3>1, <3>2
  <2> QED BY <2>1, <2>2 DEF OneThread, InitPush, ThreadOf, Null
<1>4. Fetched'
  <2> SUFFICES ASSUME NEW t \in Sessions
               PROVE  LET w == worker'[ThreadOf(t)]
                      IN  /\ popped'[t] <= stored[t]
                          /\ w.session = t /\ w.pc = "pop" => w.size <= stored[t] - popped'[t]
                          /\ ~HasTask(t)' => IF w.session # t \/ w.pc \notin {"size", "pop"}
                                             THEN popped'[t] = stored[t]
                                             ELSE w.pc = "pop" => w.size = stored[t] - popped'[t]
    BY <1>i DEF Fetched
  <2>0. HasTask(t)' = HasTask(t)
    BY DEF HasTask
  <2>1. CASE t = s
    <3>1. stored[s] \in Nat /\ popped'[s] \in Nat
      BY <1>i DEF ReceiveTypeOK
    <3> QED BY <1>1, <2>0, <2>1, <3>1
  <2>2. CASE t # s
    <3>1. popped'[t] = popped[t] /\ t # NoSession
      BY <2>2, ThreadOfSession
    <3>2. CASE ThreadOf(t) = i
      <4>1. worker'[i].session # t
        BY <2>2, <3>1
      <4> QED BY <1>i, <2>0, <2>2, <3>1, <3>2, <4>1 DEF Fetched
    <3>3. CASE ThreadOf(t) # i
      <4>1. worker'[ThreadOf(t)] = worker[ThreadOf(t)]
        BY <3>3, ThreadOfSession
      <4> QED BY <1>i, <2>0, <3>1, <4>1 DEF Fetched
    <3> QED BY <3>2, <3>3
  <2> QED BY <2>1, <2>2
<1> QED BY <1>2, <1>3, <1>4 DEF ServedInv

\* What Fetched says of the session worker i is serving.
LEMMA ServingIs ==
  ASSUME PHInv, ServedInv, NEW i \in Threads, worker[i].pc # "poll"
  PROVE  /\ worker[i].session \in Sessions /\ ThreadOf(worker[i].session) = i
         /\ popped \in [Sessions -> Nat]
         /\ popped[worker[i].session] \in Nat /\ stored[worker[i].session] \in Nat
         /\ popped[worker[i].session] <= stored[worker[i].session]
         /\ worker[i].pc = "pop" =>
              worker[i].size <= stored[worker[i].session] - popped[worker[i].session]
         /\ worker[i].pc = "pop" /\ ~HasTask(worker[i].session) =>
              worker[i].size = stored[worker[i].session] - popped[worker[i].session]
         /\ worker[i].pc \in {"push", "count"} /\ ~HasTask(worker[i].session) =>
              popped[worker[i].session] = stored[worker[i].session]
<1>i. PHTypeOK /\ InPlace /\ ReceiveTypeOK /\ OneThread /\ Fetched
  BY DEF PHInv, ServedInv
<1>1. worker[i].session \in Sessions /\ ThreadOf(worker[i].session) = i
  BY <1>i, WorkersOf
<1>2. popped \in [Sessions -> Nat] /\ stored \in [Sessions -> Nat]
  BY <1>i DEF ReceiveTypeOK
<1> QED BY <1>i, <1>1, <1>2 DEF Fetched

LEMMA CountsType ==
  ASSUME ServedInv, UNCHANGED counts
  PROVE  /\ DOMAIN m_sessionRecvCountMap' \subseteq Sessions
         /\ \A t \in DOMAIN m_sessionRecvCountMap' : m_sessionRecvCountMap'[t] \in Nat
         /\ m_totalCount' \in Nat
BY DEF counts, ServedInv, ReceiveTypeOK

LEMMA GetUseSizeServed ==
  ASSUME PHInv, ServedInv, NEW i \in Threads, GetUseSize(i)
  PROVE  ServedInv'
<1>u. UNCHANGED <<conn, stored, popped, m_netTaskQueue, counts, push>>
  BY DEF GetUseSize, phVars, ring
<1>i. ReceiveTypeOK /\ OneThread
  BY DEF ServedInv
<1>0. worker[i].pc = "size"
  BY DEF GetUseSize
<1>1. PICK s \in Sessions : worker[i].session = s /\ popped[s] <= stored[s]
  BY <1>0, ServingIs
<1>2. /\ worker' \in [Threads -> WorkerRecord]
      /\ \A j \in Threads : j # i => worker'[j] = worker[j]
      /\ worker'[i].pc = "pop" /\ worker'[i].session = s
      /\ worker'[i].size = stored[s] - popped[s]
  BY <1>i, <1>1, GetUseSizeStep
<1>3. push[i] = InitPush(i) /\ push[i].pc = "idle"
  BY <1>i, <1>0, InitPushIs DEF OneThread
<1>4. popped \in [Sessions -> Nat]
  BY <1>0, ServingIs
<1> QED BY <1>u, <1>1, <1>2, <1>3, <1>4, CountsType, WorkerServed

LEMMA PopServed ==
  ASSUME PHInv, ServedInv, NEW i \in Threads, Pop(i)
  PROVE  ServedInv'
<1>u. UNCHANGED <<conn, stored, m_netTaskQueue, counts, content>>
  BY DEF Pop
<1>i. ReceiveTypeOK /\ OneThread /\ PHTypeOK
  BY DEF ServedInv, PHInv
<1>0. worker[i].pc = "pop"
  BY DEF Pop
<1>1. PICK s \in Sessions : /\ worker[i].session = s
                            /\ worker[i].size <= stored[s] - popped[s]
                            /\ ~HasTask(s) => worker[i].size = stored[s] - popped[s]
                            /\ popped[s] \in Nat /\ stored[s] \in Nat
  BY <1>0, ServingIs
<1>2. /\ worker' \in [Threads -> WorkerRecord]
      /\ \A j \in Threads : j # i => worker'[j] = worker[j]
      /\ worker'[i].pc = "push" /\ worker'[i].session = s
      /\ popped' \in [Sessions -> Nat] /\ popped'[s] = popped[s] + worker[i].size
      /\ \A t \in Sessions : t # s => popped'[t] = popped[t]
      /\ PushPacket(i, s, popped[s] + 1, worker[i].size)
      /\ popped[s] + 1 \in Nat /\ worker[i].size \in Nat /\ popped'[s] <= stored[s]
  BY <1>i, <1>1, PopStep
<1>3. UNCHANGED Blocks
  BY <1>u DEF Blocks
<1>4. /\ \A j \in Threads : j # i => push'[j] = push[j]
      /\ push'[i].session = s
  BY <1>i, <1>2, <1>3, PushPacketStep
<1>5. ~HasTask(s) => popped'[s] = stored[s]
  BY <1>1, <1>2
<1> QED BY <1>u, <1>1, <1>2, <1>4, <1>5, CountsType, WorkerServed

\* A step of PushPacket.
LEMMA PushingServed ==
  ASSUME PHInv, ServedInv, NEW i \in Threads, InPushPacket(i)
  PROVE  ServedInv'
<1>u. UNCHANGED <<conn, stored, popped, m_netTaskQueue, worker, counts>>
  BY DEF InPushPacket, ring
<1>i. ReceiveTypeOK /\ OneThread /\ PHTypeOK /\ InPlace
  BY DEF ServedInv, PHInv
<1>0. push[i].pc # "idle" /\ worker[i].pc = "push"
  <2>1. push[i].pc # "idle"
    BY DEF InPushPacket, Pushing, TakePacket, PutPacket, PushReturn
  <2> QED BY <1>i, <2>1, WorkersOf
<1>1. PICK s \in Sessions : /\ worker[i].session = s /\ popped[s] <= stored[s]
                            /\ ~HasTask(s) => popped[s] = stored[s]
  BY <1>0, ServingIs
<1>2. push[i].session = s
  BY <1>i, <1>0, <1>1 DEF OneThread
<1>3. /\ \A j \in Threads : j # i => push'[j] = push[j]
      /\ push'[i].pc # "idle" => push'[i].session = s
  <2>1. CASE TakePacket(i)
    BY <1>i, <1>2, <2>1, TakePacketStep
  <2>2. CASE PutPacket(i)
    BY <1>i, <1>2, <2>2, PutPacketStep
  <2>3. CASE PushReturn(i)
    BY <1>i, <2>3, PushReturnStep
  <2> QED BY <2>1, <2>2, <2>3 DEF InPushPacket, Pushing
<1>4. popped \in [Sessions -> Nat] /\ worker \in [Threads -> WorkerRecord]
  BY <1>i DEF ReceiveTypeOK, WorkerRecord
<1> QED BY <1>u, <1>0, <1>1, <1>3, <1>4, CountsType, WorkerServed

LEMMA ReadRecvCountServed ==
  ASSUME PHInv, ServedInv, NEW i \in Threads, ReadRecvCount(i)
  PROVE  ServedInv'
<1>u. UNCHANGED <<conn, stored, popped, m_netTaskQueue, counts>>
  BY DEF ReadRecvCount, ring
<1>i. ReceiveTypeOK /\ OneThread /\ PHTypeOK
  BY DEF ServedInv, PHInv
<1>0. worker[i].pc = "push"
  BY DEF ReadRecvCount
<1>1. PICK s \in Sessions : /\ worker[i].session = s /\ popped[s] <= stored[s]
                            /\ ~HasTask(s) => popped[s] = stored[s]
  BY <1>0, ServingIs
<1>2. /\ worker' \in [Threads -> WorkerRecord]
      /\ \A j \in Threads : j # i => worker'[j] = worker[j] /\ push'[j] = push[j]
      /\ push'[i] = InitPush(i)
      /\ \/ worker'[i].pc = "poll" /\ worker'[i].session = NoSession
         \/ worker'[i].pc = "count" /\ worker'[i].session = s
  BY <1>i, <1>1, ReadRecvCountStep
<1>3. push'[i].pc = "idle"
  BY <1>2, InitPushIs
<1>4. popped \in [Sessions -> Nat]
  BY <1>0, ServingIs
<1> QED BY <1>u, <1>1, <1>2, <1>3, <1>4, CountsType, WorkerServed

LEMMA AddRecvCountServed ==
  ASSUME PHInv, ServedInv, NEW i \in Threads, AddRecvCount(i),
         worker[i].count = RecvCount(worker[i].session)
  PROVE  ServedInv'
<1>u. UNCHANGED <<conn, stored, popped, m_netTaskQueue, push>>
  BY DEF AddRecvCount, ring, phVars
<1>i. ReceiveTypeOK /\ OneThread
  BY DEF ServedInv
<1>0. worker[i].pc = "count"
  BY DEF AddRecvCount
<1>1. PICK s \in Sessions : /\ worker[i].session = s /\ popped[s] <= stored[s]
                            /\ ~HasTask(s) => popped[s] = stored[s]
  BY <1>0, ServingIs
<1>2. /\ worker' \in [Threads -> WorkerRecord]
      /\ \A j \in Threads : j # i => worker'[j] = worker[j]
      /\ worker'[i].pc = "poll" /\ worker'[i].session = NoSession
      /\ DOMAIN m_sessionRecvCountMap' \subseteq Sessions
      /\ \A t \in DOMAIN m_sessionRecvCountMap' : m_sessionRecvCountMap'[t] \in Nat
      /\ m_totalCount' \in Nat
  BY <1>i, <1>1, AddRecvCountStep
<1>3. push[i] = InitPush(i) /\ push[i].pc = "idle"
  BY <1>i, <1>0, InitPushIs DEF OneThread
<1>4. popped \in [Sessions -> Nat]
  BY <1>0, ServingIs
<1> QED BY <1>u, <1>1, <1>2, <1>3, <1>4, WorkerServed

-----------------------------------------------------------------------------
(* The packet handler under these callers.                                 *)

LEMMA PHInvNext ==
  ASSUME PHInv, ServedInv, [Next]_vars
  PROVE  PHInv'
<1>i. PHTypeOK /\ InPlace /\ ReceiveTypeOK /\ OneThread
  BY DEF PHInv, ServedInv
<1>1. ASSUME NEW s \in Sessions, Accept(s) PROVE PHInv'
  BY <1>1, ResetSequenceInv DEF Accept
<1>2. ASSUME NEW s \in Sessions, OnRead(s) \/ PushTask(s) \/ ReadError(s) PROVE PHInv'
  BY <1>2, SamePHInv DEF OnRead, PushTask, ReadError
<1>3. ASSUME NEW i \in Threads, TakeTask(i) \/ GetUseSize(i) \/ AddRecvCount(i) PROVE PHInv'
  BY <1>3, SamePHInv DEF TakeTask, GetUseSize, AddRecvCount
<1>4. ASSUME NEW i \in Threads, Pop(i) PROVE PHInv'
  <2>0. worker[i].pc = "pop"
    BY <1>4 DEF Pop
  <2>1. PICK s \in Sessions : /\ worker[i].session = s /\ ThreadOf(s) = i
                              /\ worker[i].size <= stored[s] - popped[s]
    BY <2>0, ServingIs
  <2>2. /\ PushPacket(i, s, popped[s] + 1, worker[i].size)
        /\ popped[s] + 1 \in Nat /\ worker[i].size \in Nat
    BY <1>i, <1>4, <2>1, PopStep
  <2>3. UNCHANGED <<queues, m_sessionSequnceMap, content, handler, stream, history>>
    BY <1>4 DEF Pop
  <2> QED BY <2>1, <2>2, <2>3, PushPacketInv
<1>5. ASSUME NEW i \in Threads, InPushPacket(i) PROVE PHInv'
  BY <1>5, TakePacketInv, PutPacketInv, PushReturnInv DEF InPushPacket, Pushing
<1>6. ASSUME NEW i \in Threads, ReadRecvCount(i) PROVE PHInv'
  <2>0. worker[i].pc = "push"
    BY <1>6 DEF ReadRecvCount
  <2>1. PICK s \in Sessions : worker[i].session = s
    BY <2>0, ServingIs
  <2>2. /\ push[i].pc = "idle" /\ push' \in [Threads -> PushRecord']
        /\ \A j \in Threads : j # i => push'[j] = push[j]
        /\ push'[i] = InitPush(i)
    BY <1>i, <1>6, <2>1, ReadRecvCountStep
  <2>3. UNCHANGED <<queues, m_sessionSequnceMap, content, handler, stream, history>>
    BY <1>6 DEF ReadRecvCount
  <2>4. push'[i].pc = "idle" /\ push'[i].packet = Null
    BY <2>2, InitPushIs
  <2> QED BY <2>2, <2>3, <2>4, PushIdleInv
<1>7. ASSUME NEW i \in Threads, ProcessHandler(i) PROVE PHInv'
  BY <1>7, CheckQueueInv, PopPacketInv, ProcessHeaderInv, ProcessSequenceInv, RecycleInv
     DEF ProcessHandler, Update
<1>8. CASE UNCHANGED vars
  BY <1>8, SamePHInv DEF vars
<1> QED BY <1>1, <1>2, <1>3, <1>4, <1>5, <1>6, <1>7, <1>8 DEF Next, Process

-----------------------------------------------------------------------------
(* The flow of a session's packets: Put into the queue, Gone out of it.    *)

BatchAt(i) ==
  CASE worker[i].pc = "push" -> push[i].recvCount
    [] worker[i].pc = "count" -> worker[i].size
    [] OTHER -> 0

LEMMA BatchIs ==
  ASSUME NEW s
  PROVE  Batch(s) = IF worker[ThreadOf(s)].session # s THEN 0 ELSE BatchAt(ThreadOf(s))
BY DEF Batch, BatchAt

LEMMA FlowTypes ==
  ASSUME PHInv, ServedInv, NEW s \in Sessions
  PROVE  /\ RecvCount(s) \in Nat /\ Batch(s) \in Nat /\ Put(s) \in Nat
         /\ InHand(s) \in {0, 1} /\ Len(handled[s]) \in Nat /\ Gone(s) \in Nat
         /\ IsFiniteSet(QueuedOf(s)) /\ Cardinality(QueuedOf(s)) \in Nat
         /\ \A x \in QueuedOf(s) : x \in Queued /\ x[1] = ThreadOf(s)
<1>i. PHTypeOK /\ InPlace /\ ReceiveTypeOK
  BY DEF PHInv, ServedInv
<1> DEFINE i == ThreadOf(s)
<1>0. i \in Threads
  BY ThreadOfSession
<1>1. RecvCount(s) \in Nat
  BY <1>i DEF RecvCount, ReceiveTypeOK
<1>2. Batch(s) \in Nat
  <2>1. worker[i].size \in Nat
    BY <1>i, <1>0, TasksIs
  <2>2. push[i].recvCount \in Nat
    BY <1>i, <1>0 DEF PHTypeOK
  <2> QED BY <2>1, <2>2 DEF Batch
<1>3. InHand(s) \in {0, 1}
  BY DEF InHand
<1>4. Len(handled[s]) \in Nat
  BY <1>i DEF PHTypeOK
<1>5. \A x \in QueuedOf(s) : x \in Queued /\ x[1] = i
  BY <1>i DEF QueuedOf, InPlace
<1>6. IsFiniteSet(QueuedOf(s)) /\ Cardinality(QueuedOf(s)) \in Nat
  <2> DEFINE n == Len(m_packetQueue[i])
  <2>1. n \in Nat
    BY <1>i, <1>0, QueuedIs
  <2>2. QueuedOf(s) \subseteq {i} \X (1..n)
    <3> SUFFICES ASSUME NEW x \in QueuedOf(s) PROVE x \in {i} \X (1..n)
      OBVIOUS
    <3>1. x = <<x[1], x[2]>> /\ x[1] = i /\ x[2] \in 1..Len(m_packetQueue[x[1]])
      BY <1>i, <1>5, QueuedIs
    <3> QED BY <3>1
  <2> HIDE DEF n, i
  <2>3. IsFiniteSet({i} \X (1..n))
    BY <2>1, CardinalityTo, FS_Singleton, FS_Product
  <2> QED BY <2>2, <2>3, FS_Subset, FS_CardinalityType
<1> QED BY <1>1, <1>2, <1>3, <1>4, <1>5, <1>6 DEF Put, Gone

\* The session whose worker takes the step has its batch, or had and has none.
LEMMA SameBatch ==
  ASSUME NEW i \in Threads,
         \A j \in Threads : j # i => worker'[j] = worker[j] /\ push'[j] = push[j],
         \/ worker'[i].session = worker[i].session /\ BatchAt(i)' = BatchAt(i)
         \/ BatchAt(i) = 0 /\ BatchAt(i)' = 0,
         NEW s \in Sessions
  PROVE  Batch(s)' = Batch(s)
<1>0. ThreadOf(s) \in Threads
  BY ThreadOfSession
<1>1. PICK j \in Threads : j = ThreadOf(s)
  BY <1>0
<1>2. /\ Batch(s) = IF worker[j].session # s THEN 0 ELSE BatchAt(j)
      /\ Batch(s)' = IF worker'[j].session # s THEN 0 ELSE BatchAt(j)'
  BY <1>1 DEF Batch, BatchAt, ThreadOf
<1>3. CASE j = i
  BY <1>2, <1>3
<1>4. CASE j # i
  BY <1>2, <1>4 DEF BatchAt
<1> QED BY <1>3, <1>4

\* The steps of the workers that queue nothing.
LEMMA WorkerFlow ==
  ASSUME PHInv, ServedInv, NEW i \in Threads, NEW s \in Sessions,
         \/ TakeTask(i) \/ GetUseSize(i) \/ Pop(i) \/ ReadRecvCount(i)
         \/ TakePacket(i) /\ UNCHANGED worker
         \/ PushReturn(i) /\ UNCHANGED worker
  PROVE  Batch(s)' = Batch(s)
<1>i. PHTypeOK /\ InPlace /\ ReceiveTypeOK /\ OneThread
  BY DEF PHInv, ServedInv
<1>1. CASE TakeTask(i)
  <2>1. /\ \A j \in Threads : j # i => worker'[j] = worker[j]
        /\ worker[i].pc = "poll" /\ worker'[i].pc = "size"
    BY <1>i, <1>1, TakeTaskStep
  <2>2. UNCHANGED push
    BY <1>1 DEF TakeTask, phVars
  <2>3. BatchAt(i) = 0 /\ BatchAt(i)' = 0
    BY <2>1 DEF BatchAt
  <2> QED BY <2>1, <2>2, <2>3, SameBatch
<1>2. CASE GetUseSize(i)
  <2>0. worker[i].pc = "size"
    BY <1>2 DEF GetUseSize
  <2>1. /\ \A j \in Threads : j # i => worker'[j] = worker[j]
        /\ worker'[i].pc = "pop"
    BY <1>i, <1>2, <2>0, ServingIs, GetUseSizeStep
  <2>2. UNCHANGED push
    BY <1>2 DEF GetUseSize, phVars
  <2>3. BatchAt(i) = 0 /\ BatchAt(i)' = 0
    BY <2>0, <2>1 DEF BatchAt
  <2> QED BY <2>1, <2>2, <2>3, SameBatch
<1>3. CASE Pop(i)
  <2>0. worker[i].pc = "pop"
    BY <1>3 DEF Pop
  <2>1. PICK t \in Sessions : worker[i].session = t /\ worker[i].size <= stored[t] - popped[t]
    BY <2>0, ServingIs
  <2>2. /\ \A j \in Threads : j # i => worker'[j] = worker[j]
        /\ worker'[i].pc = "push" /\ PushPacket(i, t, popped[t] + 1, worker[i].size)
        /\ popped[t] + 1 \in Nat /\ worker[i].size \in Nat
    BY <1>i, <1>3, <2>1, PopStep
  <2>3. UNCHANGED Blocks
    BY <1>3 DEF Pop, Blocks
  <2>4. push'[i].recvCount = 0 /\ \A j \in Threads : j # i => push'[j] = push[j]
    BY <1>i, <2>2, <2>3, PushPacketStep
  <2>5. BatchAt(i) = 0 /\ BatchAt(i)' = 0
    BY <2>0, <2>2, <2>4 DEF BatchAt
  <2> QED BY <2>2, <2>4, <2>5, SameBatch
<1>4. CASE ReadRecvCount(i)
  <2>0. worker[i].pc = "push"
    BY <1>4 DEF ReadRecvCount
  <2>1. PICK t \in Sessions : worker[i].session = t
    BY <2>0, ServingIs
  <2>2. /\ \A j \in Threads : j # i => worker'[j] = worker[j] /\ push'[j] = push[j]
        /\ \/ /\ worker'[i].pc = "poll" /\ worker'[i].session = NoSession
              /\ push[i].recvCount = 0
           \/ /\ worker'[i].pc = "count" /\ worker'[i].session = t
              /\ worker'[i].size = push[i].recvCount
    BY <1>i, <1>4, <2>1, ReadRecvCountStep
  <2>3. \/ worker'[i].session = worker[i].session /\ BatchAt(i)' = BatchAt(i)
        \/ BatchAt(i) = 0 /\ BatchAt(i)' = 0
    BY <2>0, <2>1, <2>2 DEF BatchAt
  <2> QED BY <2>2, <2>3, SameBatch
<1>5. CASE TakePacket(i) /\ UNCHANGED worker
  <2>1. /\ \A j \in Threads : j # i => push'[j] = push[j]
        /\ push'[i].recvCount = push[i].recvCount
    BY <1>i, <1>5, TakePacketStep
  <2>2. BatchAt(i)' = BatchAt(i)
    BY <1>5, <2>1 DEF BatchAt
  <2> QED BY <1>5, <2>1, <2>2, SameBatch
<1>6. CASE PushReturn(i) /\ UNCHANGED worker
  <2>1. /\ \A j \in Threads : j # i => push'[j] = push[j]
        /\ push'[i].recvCount = push[i].recvCount
    BY <1>i, <1>6, PushReturnStep
  <2>2. BatchAt(i)' = BatchAt(i)
    BY <1>6, <2>1 DEF BatchAt
  <2> QED BY <1>6, <2>1, <2>2, SameBatch
<1> QED BY <1>1, <1>2, <1>3, <1>4, <1>5, <1>6

LEMMA SameQueuedOf ==
  ASSUME UNCHANGED m_packetQueue, NEW s
  PROVE  QueuedOf(s)' = QueuedOf(s)
BY SameQueued DEF QueuedOf

\* PutPacket adds one entry to its session's.
LEMMA PutPacketFlow ==
  ASSUME PHInv, ServedInv, NEW i \in Threads, PutPacket(i), UNCHANGED worker
  PROVE  \E s \in Sessions, y \in Queued' :
           /\ i = ThreadOf(s) /\ worker[i].session = s /\ worker[i].pc = "push"
           /\ push[i].session = s /\ push[i].pc = "put"
           /\ Batch(s)' = Batch(s) + 1
           /\ \A t \in Sessions : t # s => Batch(t)' = Batch(t) /\ QueuedOf(t)' = QueuedOf(t)
           /\ QueuedOf(s)' = QueuedOf(s) \cup {y} /\ y \notin QueuedOf(s)
           /\ Entry(y)' = <<s, push[i].packet>>
           /\ \A x \in Queued : x \in Queued' /\ Entry(x)' = Entry(x)
           /\ \A x \in QueuedOf(s) : Before(x, y)
<1>i. PHTypeOK /\ InPlace /\ ReceiveTypeOK /\ OneThread
  BY DEF PHInv, ServedInv
<1>0. PICK s : s = push[i].session
  OBVIOUS
<1>e. PICK e : e = <<s, push[i].packet>>
  OBVIOUS
<1>1. /\ push[i].pc = "put" /\ push[i].packet \in Blocks /\ s \in Sessions
      /\ \A j \in Threads : j # i => push'[j] = push[j]
      /\ push'[i].recvCount = push[i].recvCount + 1
      /\ m_packetQueue' = [m_packetQueue EXCEPT ![i] = Append(m_packetQueue[i], e)]
  BY <1>i, <1>0, <1>e, PutPacketStep
<1>2. e \in Sessions \X Blocks /\ e[1] = s
  BY <1>1, <1>e
<1>3. PICK y : /\ y \notin Queued /\ Queued' = Queued \cup {y}
               /\ y[1] = i /\ Entry(y)' = e /\ \A x \in Queued : Entry(x)' = Entry(x)
               /\ \A x \in Queued : x[1] = i => Before(x, y)
  BY <1>i, <1>1, <1>2, QueuedAppend
<1>4. /\ i = ThreadOf(s) /\ worker[i].session = s /\ worker[i].pc = "push"
  BY <1>i, <1>0, <1>1, WorkersOf DEF InPlace, OneThread
<1>5. Batch(s)' = Batch(s) + 1
  BY <1>1, <1>4 DEF Batch, ThreadOf
<1>6. ASSUME NEW t \in Sessions, t # s
      PROVE  Batch(t)' = Batch(t) /\ QueuedOf(t)' = QueuedOf(t)
  <2>1. QueuedOf(t)' = QueuedOf(t)
    BY <1>2, <1>3, <1>6 DEF QueuedOf
  <2>2. CASE ThreadOf(t) = i
    <3>1. worker[ThreadOf(t)].session # t
      BY <1>4, <1>6, <2>2
    <3> QED BY <2>1, <3>1 DEF Batch, ThreadOf
  <2>3. CASE ThreadOf(t) # i
    <3>1. push'[ThreadOf(t)] = push[ThreadOf(t)]
      BY <1>1, <2>3, ThreadOfSession
    <3> QED BY <2>1, <3>1 DEF Batch, ThreadOf
  <2> QED BY <2>2, <2>3
<1>7. QueuedOf(s)' = QueuedOf(s) \cup {y} /\ y \notin QueuedOf(s)
  BY <1>2, <1>3 DEF QueuedOf
<1>8. \A x \in QueuedOf(s) : Before(x, y)
  BY <1>i, <1>3, <1>4 DEF QueuedOf, InPlace
<1> QED BY <1>0, <1>e, <1>1, <1>3, <1>4, <1>5, <1>6, <1>7, <1>8

\* PopPacket takes the first entry of its queue.
LEMMA PopPacketFlow ==
  ASSUME PHInv, ServedInv, NEW i \in Threads, PopPacket(i)
  PROVE  \E s \in Sessions, y \in Queued :
           /\ y = <<i, 1>> /\ y \in QueuedOf(s) /\ i = ThreadOf(s)
           /\ handler'[i].packet = Entry(y)[2]
           /\ InHand(s) = 0 /\ InHand(s)' = 1
           /\ \A t \in Sessions : t # s => InHand(t)' = InHand(t)
           /\ \A j \in Threads : j # i => handler'[j] = handler[j]
           /\ \A t \in Sessions : \A x \in QueuedOf(t)' :
                /\ Shift(i, x) \in QueuedOf(t) /\ Shift(i, x) # y
                /\ Entry(x)' = Entry(Shift(i, x))
           /\ \A t \in Sessions : \A x \in QueuedOf(t) :
                x # y => \E z \in QueuedOf(t)' : Shift(i, z) = x
           /\ \A x, z \in Queued' : Shift(i, x) = Shift(i, z) => x = z
           /\ \A x, z \in Queued' : x[1] = z[1] /\ x[2] < z[2] => Shift(i, x)[2] < Shift(i, z)[2]
           /\ \A x \in Queued : x # y /\ x[1] = i => x[2] > 1
<1>i. PHTypeOK /\ InPlace /\ ReceiveTypeOK /\ OneThread
  BY DEF PHInv, ServedInv
<1>1. PICK pair : pair = Head(m_packetQueue[i])
  OBVIOUS
<1>2. /\ \A j \in Threads : j # i => handler'[j] = handler[j]
      /\ handler[i].pc = "pop" /\ m_packetQueue[i] # <<>>
      /\ pair \in Sessions \X Blocks
      /\ handler'[i].pc = "process" /\ handler'[i].session = pair[1] /\ handler'[i].packet = pair[2]
      /\ m_packetQueue' = [m_packetQueue EXCEPT ![i] = Tail(m_packetQueue[i])]
  BY <1>i, <1>1, PopPacketStep
<1>3. PICK y : y = <<i, 1>>
  OBVIOUS
<1>4. /\ y \in Queued /\ Entry(y) = pair
      /\ \A x \in Queued' : /\ Shift(i, x) \in Queued /\ Shift(i, x) # y
                            /\ Entry(x)' = Entry(Shift(i, x))
      /\ \A x, z \in Queued' : Shift(i, x) = Shift(i, z) => x = z
      /\ \A x, z \in Queued' : x[1] = z[1] /\ x[2] < z[2] => Shift(i, x)[2] < Shift(i, z)[2]
      /\ \A x \in Queued : x # y => \E z \in Queued' : Shift(i, z) = x
      /\ \A x \in Queued : x # y /\ x[1] = i => x[2] > 1
  BY <1>i, <1>1, <1>2, <1>3, QueuedTail
<1>5. PICK s \in Sessions : s = pair[1]
  BY <1>2
<1>6. y \in QueuedOf(s) /\ i = ThreadOf(s)
  BY <1>i, <1>3, <1>4, <1>5 DEF QueuedOf, InPlace
<1>7. InHand(s) = 0 /\ InHand(s)' = 1
  BY <1>2, <1>5, <1>6 DEF InHand, ThreadOf
<1>8. ASSUME NEW t \in Sessions, t # s
      PROVE  InHand(t)' = InHand(t)
  <2>1. CASE ThreadOf(t) = i
    BY <1>2, <1>5, <1>8, <2>1 DEF InHand, ThreadOf
  <2>2. CASE ThreadOf(t) # i
    <3>1. handler'[ThreadOf(t)] = handler[ThreadOf(t)]
      BY <1>2, <2>2, ThreadOfSession
    <3> QED BY <3>1 DEF InHand, ThreadOf
  <2> QED BY <2>1, <2>2
<1>9. \A t \in Sessions : \A x \in QueuedOf(t)' :
        /\ Shift(i, x) \in QueuedOf(t) /\ Shift(i, x) # y /\ Entry(x)' = Entry(Shift(i, x))
  BY <1>4 DEF QueuedOf
<1>10. ASSUME NEW t \in Sessions, NEW x \in QueuedOf(t), x # y
       PROVE  \E z \in QueuedOf(t)' : Shift(i, z) = x
  <2>1. x \in Queued /\ Entry(x)[1] = t
    BY DEF QueuedOf
  <2>2. PICK z \in Queued' : Shift(i, z) = x
    BY <1>4, <1>10, <2>1
  <2>3. Entry(z)' = Entry(x)
    BY <1>4, <2>2
  <2> QED BY <2>1, <2>2, <2>3 DEF QueuedOf
<1> QED BY <1>2, <1>3, <1>4, <1>5, <1>6, <1>7, <1>8, <1>9, <1>10

\* Process keeps its packet, or has handled it.
LEMMA ProcessFlow ==
  ASSUME PHInv, ServedInv, NEW i \in Threads, ProcessHeader(i) \/ ProcessSequence(i)
  PROVE  \E s \in Sessions :
           /\ i = ThreadOf(s) /\ handler[i].session = s /\ handler[i].packet \in Blocks
           /\ InHand(s) = 1
           /\ \A t \in Sessions : t # s => InHand(t)' = InHand(t) /\ handled'[t] = handled[t]
           /\ \A j \in Threads : handler'[j].packet = handler[j].packet
           /\ handled' \in [Sessions -> Seq(Nat)]
           /\ \/ InHand(s)' = 1 /\ UNCHANGED handled
              \/ /\ InHand(s)' = 0
                 /\ handled'[s] = Append(handled[s], Start(handler[i].packet))
                 /\ handled' = [handled EXCEPT ![s] = Append(handled[s], Start(handler[i].packet))]
<1>i. PHTypeOK /\ InPlace /\ Filled
  BY DEF PHInv
<1>1. PICK s \in Sessions :
        /\ handler[i].session = s
        /\ \A j \in Threads : j # i => handler'[j] = handler[j]
        /\ handler[i].pc \in {"process", "seq"} /\ handler[i].packet \in Blocks
        /\ handler'[i].session = s /\ handler'[i].packet = handler[i].packet
        /\ \/ handler'[i].pc = "seq" /\ UNCHANGED handled
           \/ /\ handler'[i].pc = "recycle"
              /\ handled' = [handled EXCEPT ![s] =
                               Append(handled[s], content[handler[i].packet][2])]
  <2>1. CASE ProcessHeader(i)
    BY <1>i, <2>1, ProcessHeaderStep
  <2>2. CASE ProcessSequence(i)
    BY <1>i, <2>2, ProcessSequenceStep
  <2> QED BY <2>1, <2>2
<1>2. i = ThreadOf(s)
  BY <1>i, <1>1 DEF InPlace, Holding
<1>3. InHand(s) = 1 /\ InHand(s)' = (IF handler'[i].pc = "seq" THEN 1 ELSE 0)
  BY <1>1, <1>2 DEF InHand, ThreadOf
<1>4. ASSUME NEW t \in Sessions, t # s
      PROVE  InHand(t)' = InHand(t)
  <2>1. CASE ThreadOf(t) = i
    BY <1>1, <1>4, <2>1 DEF InHand, ThreadOf
  <2>2. CASE ThreadOf(t) # i
    <3>1. handler'[ThreadOf(t)] = handler[ThreadOf(t)]
      BY <1>1, <2>2, ThreadOfSession
    <3> QED BY <3>1 DEF InHand, ThreadOf
  <2> QED BY <2>1, <2>2
<1>5. CASE handler'[i].pc = "seq" /\ UNCHANGED handled
  <2>1. handled' \in [Sessions -> Seq(Nat)]
    BY <1>i, <1>5 DEF PHTypeOK
  <2> QED BY <1>1, <1>2, <1>3, <1>4, <1>5, <2>1
<1>6. CASE /\ handler'[i].pc = "recycle"
           /\ handled' = [handled EXCEPT ![s] =
                            Append(handled[s], content[handler[i].packet][2])]
  <2>1. /\ handled' \in [Sessions -> Seq(Nat)]
        /\ \A t \in Sessions : t # s => handled'[t] = handled[t]
        /\ handled'[s] = Append(handled[s], content[handler[i].packet][2])
    BY <1>i, <1>1, <1>6, HandledType
  <2> QED BY <1>1, <1>2, <1>3, <1>4, <1>6, <2>1 DEF Start
<1> QED BY <1>1, <1>5, <1>6

\* A look at the queue, and a block given back.
LEMMA IdleFlow ==
  ASSUME PHInv, NEW i \in Threads, CheckQueue(i) \/ Recycle(i), NEW s \in Sessions
  PROVE  InHand(s) = InHand(s)'
<1>i. PHTypeOK /\ InPlace
  BY DEF PHInv
<1>1. /\ \A j \in Threads : j # i => handler'[j] = handler[j]
      /\ handler[i].pc \notin {"process", "seq"} /\ handler'[i].pc \notin {"process", "seq"}
  BY <1>i, CheckQueueStep, RecycleStep
<1>2. CASE ThreadOf(s) = i
  BY <1>1, <1>2 DEF InHand, ThreadOf
<1>3. CASE ThreadOf(s) # i
  <2>1. handler'[ThreadOf(s)] = handler[ThreadOf(s)]
    BY <1>1, <1>3, ThreadOfSession
  <2> QED BY <2>1 DEF InHand, ThreadOf
<1> QED BY <1>2, <1>3

-----------------------------------------------------------------------------
(* Nothing is lost in a queue, and nothing is counted twice.               *)

LEMMA SameRecvCount ==
  ASSUME UNCHANGED m_sessionRecvCountMap
  PROVE  (\A s : RecvCount(s)' = RecvCount(s)) /\ UNCHANGED Counted
<1>1. \A s : RecvCount(s)' = RecvCount(s)
  BY DEF RecvCount
<1> QED BY <1>1 DEF Counted

\* A step that puts as many packets into a session's queue as it takes out.
LEMMA CountsKept ==
  ASSUME Counts, UNCHANGED counts,
         \A s \in Sessions : Put(s)' = Gone(s)' + Cardinality(QueuedOf(s)'),
         \A i \in Threads : worker'[i].pc = "count" =>
           worker'[i].count = RecvCount(worker'[i].session)
  PROVE  Counts'
<1>1. (\A s : RecvCount(s)' = RecvCount(s)) /\ UNCHANGED <<Counted, m_totalCount>>
  BY SameRecvCount DEF counts
<1>2. \A i \in Threads : worker'[i].pc = "count" =>
        worker'[i].count = RecvCount(worker[i].session)'
  BY <1>1 DEF RecvCount, counts
<1> QED BY <1>1, <1>2 DEF Counts

LEMMA CountsSame ==
  ASSUME Counts, UNCHANGED <<counts, m_packetQueue>>,
         \A s \in Sessions : Batch(s)' = Batch(s) /\ Gone(s)' = Gone(s),
         \A i \in Threads : worker'[i].pc = "count" =>
           worker'[i].count = RecvCount(worker'[i].session)
  PROVE  Counts'
<1>1. \A s : RecvCount(s)' = RecvCount(s)
  BY SameRecvCount DEF counts
<1>2. \A s \in Sessions : QueuedOf(s)' = QueuedOf(s) /\ Put(s)' = Put(s)
  BY <1>1, SameQueuedOf DEF Put
<1>3. \A s \in Sessions : Put(s)' = Gone(s)' + Cardinality(QueuedOf(s)')
  BY <1>2 DEF Counts
<1> QED BY <1>3, CountsKept

LEMMA SameGone ==
  ASSUME UNCHANGED <<handler, handled>>, NEW s
  PROVE  Gone(s)' = Gone(s) /\ InHand(s)' = InHand(s)
BY DEF Gone, InHand, ThreadOf

LEMMA WorkerCounts ==
  ASSUME PHInv, ServedInv, Counts, NEW i \in Threads,
         \/ TakeTask(i) \/ GetUseSize(i) \/ Pop(i) \/ ReadRecvCount(i)
         \/ InPushPacket(i) /\ ~PutPacket(i)
  PROVE  Counts'
<1>i. PHTypeOK /\ InPlace /\ ReceiveTypeOK /\ OneThread
  BY DEF PHInv, ServedInv
<1>1. UNCHANGED <<counts, m_packetQueue, handler, handled>>
  BY DEF TakeTask, GetUseSize, Pop, ReadRecvCount, InPushPacket, Pushing, TakePacket, PushReturn,
         phVars, queues, history
<1>2. \/ TakeTask(i) \/ GetUseSize(i) \/ Pop(i) \/ ReadRecvCount(i)
      \/ TakePacket(i) /\ UNCHANGED worker
      \/ PushReturn(i) /\ UNCHANGED worker
  BY DEF InPushPacket, Pushing
<1>3. \A s \in Sessions : Batch(s)' = Batch(s)
  BY <1>2, WorkerFlow
<1>4. \A s \in Sessions : Gone(s)' = Gone(s)
  BY <1>1, SameGone
<1>5. /\ \A j \in Threads : j # i => worker'[j] = worker[j]
      /\ worker'[i].pc = "count" => \/ worker'[i] = worker[i]
                                    \/ worker'[i].count = RecvCount(worker'[i].session)
  <2>1. CASE TakeTask(i)
    BY <1>i, <2>1, TakeTaskStep
  <2>2. CASE GetUseSize(i)
    <3>1. worker[i].pc = "size"
      BY <2>2 DEF GetUseSize
    <3> QED BY <1>i, <2>2, <3>1, ServingIs, GetUseSizeStep
  <2>3. CASE Pop(i)
    <3>1. worker[i].pc = "pop"
      BY <2>3 DEF Pop
    <3> QED BY <1>i, <2>3, <3>1, ServingIs, PopStep
  <2>4. CASE ReadRecvCount(i)
    <3>1. worker[i].pc = "push"
      BY <2>4 DEF ReadRecvCount
    <3>2. PICK s \in Sessions : worker[i].session = s
      BY <3>1, ServingIs
    <3> QED BY <1>i, <2>4, <3>2, ReadRecvCountStep
  <2> QED BY <1>2, <2>1, <2>2, <2>3, <2>4
<1>6. \A j \in Threads : worker'[j].pc = "count" =>
        worker'[j].count = RecvCount(worker'[j].session)
  BY <1>5 DEF Counts
<1> QED BY <1>1, <1>3, <1>4, <1>6, CountsSame

LEMMA PutPacketCounts ==
  ASSUME PHInv, ServedInv, Counts, NEW i \in Threads, PutPacket(i), UNCHANGED <<worker, counts>>
  PROVE  Counts'
<1>1. PICK s \in Sessions, y \in Queued' :
        /\ Batch(s)' = Batch(s) + 1
        /\ \A t \in Sessions : t # s => Batch(t)' = Batch(t) /\ QueuedOf(t)' = QueuedOf(t)
        /\ QueuedOf(s)' = QueuedOf(s) \cup {y} /\ y \notin QueuedOf(s)
  BY PutPacketFlow
<1>2. \A t \in Sessions : Gone(t)' = Gone(t)
  BY SameGone DEF PutPacket, history
<1>3. \A t : RecvCount(t)' = RecvCount(t)
  BY SameRecvCount DEF counts
<1>4. Cardinality(QueuedOf(s)') = Cardinality(QueuedOf(s)) + 1
  <2>1. IsFiniteSet(QueuedOf(s))
    BY FlowTypes
  <2> QED BY <1>1, <2>1, FS_AddElement
<1>5. ASSUME NEW t \in Sessions
      PROVE  Put(t)' = Gone(t)' + Cardinality(QueuedOf(t)')
  <2>1. Put(t) = Gone(t) + Cardinality(QueuedOf(t))
    BY DEF Counts
  <2>2. /\ RecvCount(t) \in Nat /\ Batch(t) \in Nat /\ Gone(t) \in Nat
        /\ Cardinality(QueuedOf(t)) \in Nat
    BY FlowTypes
  <2>3. CASE t = s
    <3>1. Put(t)' = RecvCount(t) + (Batch(t) + 1)
      BY <1>1, <1>3, <2>3 DEF Put
    <3> QED BY <1>2, <1>4, <2>1, <2>2, <2>3, <3>1 DEF Put
  <2>4. CASE t # s
    BY <1>1, <1>2, <1>3, <2>1, <2>4 DEF Put
  <2> QED BY <2>3, <2>4
<1>6. \A j \in Threads : worker'[j].pc = "count" =>
        worker'[j].count = RecvCount(worker'[j].session)
  BY DEF Counts
<1> QED BY <1>5, <1>6, CountsKept

LEMMA PopPacketCounts ==
  ASSUME PHInv, ServedInv, Counts, NEW i \in Threads, PopPacket(i), UNCHANGED <<worker, counts>>
  PROVE  Counts'
<1>1. PICK s \in Sessions, y \in Queued :
        /\ y \in QueuedOf(s)
        /\ InHand(s) = 0 /\ InHand(s)' = 1
        /\ \A t \in Sessions : t # s => InHand(t)' = InHand(t)
        /\ \A t \in Sessions : \A x \in QueuedOf(t)' :
             /\ Shift(i, x) \in QueuedOf(t) /\ Shift(i, x) # y
        /\ \A t \in Sessions : \A x \in QueuedOf(t) :
             x # y => \E z \in QueuedOf(t)' : Shift(i, z) = x
        /\ \A x, z \in Queued' : Shift(i, x) = Shift(i, z) => x = z
  BY PopPacketFlow
<1>2. UNCHANGED <<handled, push>>
  BY DEF PopPacket, history
<1>3. \A t \in Sessions : Put(t)' = Put(t)
  <2>1. \A t : RecvCount(t)' = RecvCount(t)
    BY SameRecvCount DEF counts
  <2> QED BY <1>2, <2>1 DEF Put, Batch, ThreadOf
<1>4. ASSUME NEW t \in Sessions
      PROVE  Cardinality(QueuedOf(t)') = Cardinality(QueuedOf(t) \ {y})
  <2> DEFINE S == QueuedOf(t)'
  <2> DEFINE T == QueuedOf(t) \ {y}
  <2> DEFINE f == [x \in S |-> Shift(i, x)]
  <2>1. \A x, z \in S : Shift(i, x) = Shift(i, z) => x = z
    BY <1>1 DEF QueuedOf
  <2>2. f \in Bijection(S, T)
    <3>1. \A x \in S : f[x] \in T
      BY <1>1
    <3>2. \A x, z \in S : f[x] = f[z] => x = z
      BY <2>1
    <3>3. \A x \in T : \E z \in S : f[z] = x
      BY <1>1
    <3> HIDE DEF T, S
    <3>4. f \in [S -> T]
      BY <3>1
    <3> HIDE DEF f
    <3> QED BY <3>2, <3>3, <3>4 DEF Bijection, Injection, Surjection, IsInjective
  <2>3. IsFiniteSet(T)
    BY FlowTypes, FS_RemoveElement
  <2> HIDE DEF S, T, f
  <2>4. ExistsBijection(S, T)
    BY <2>2 DEF ExistsBijection
  <2>5. ExistsBijection(T, S)
    BY <2>4, Fun_ExistsBijSymmetric
  <2>6. Cardinality(T) = Cardinality(S)
    BY <2>3, <2>5, FS_Bijection
  <2> QED BY <2>6 DEF S, T
<1>5. ASSUME NEW t \in Sessions
      PROVE  Put(t)' = Gone(t)' + Cardinality(QueuedOf(t)')
  <2>1. Put(t) = Gone(t) + Cardinality(QueuedOf(t))
    BY DEF Counts
  <2>2. /\ Gone(t) \in Nat /\ Cardinality(QueuedOf(t)) \in Nat /\ Len(handled[t]) \in Nat
        /\ IsFiniteSet(QueuedOf(t)) /\ InHand(t) \in {0, 1}
    BY FlowTypes
  <2>3. CASE t = s
    <3>1. Cardinality(QueuedOf(t) \ {y}) = Cardinality(QueuedOf(t)) - 1
      BY <1>1, <2>2, <2>3, FS_RemoveElement
    <3>2. Gone(t)' = Gone(t) + 1
      BY <1>1, <1>2, <2>2, <2>3 DEF Gone
    <3>3. Cardinality(QueuedOf(t)') = Cardinality(QueuedOf(t)) - 1
      BY <1>4, <3>1
    <3> QED BY <1>3, <2>1, <2>2, <3>2, <3>3
  <2>4. CASE t # s
    <3>1. QueuedOf(t) \ {y} = QueuedOf(t)
      BY <1>1, <2>4 DEF QueuedOf
    <3>2. Gone(t)' = Gone(t)
      BY <1>1, <1>2, <2>4 DEF Gone
    <3> QED BY <1>3, <1>4, <2>1, <3>1, <3>2
  <2> QED BY <2>3, <2>4
<1>6. \A j \in Threads : worker'[j].pc = "count" =>
        worker'[j].count = RecvCount(worker'[j].session)
  BY DEF Counts
<1> QED BY <1>5, <1>6, CountsKept

\* Process and the ends of Update leave the counts as they are.
LEMMA HandlerCounts ==
  ASSUME PHInv, ServedInv, Counts, NEW i \in Threads, UNCHANGED <<worker, counts>>,
         \/ CheckQueue(i) \/ Recycle(i)
         \/ ProcessHeader(i) \/ ProcessSequence(i)
  PROVE  Counts'
<1>1. UNCHANGED <<m_packetQueue, push>>
  BY DEF CheckQueue, Recycle, ProcessHeader, ProcessSequence, queues
<1>2. \A s \in Sessions : Batch(s)' = Batch(s)
  BY <1>1 DEF Batch, ThreadOf
<1>3. ASSUME NEW s \in Sessions
      PROVE  Gone(s)' = Gone(s)
  <2>1. CASE CheckQueue(i) \/ Recycle(i)
    <3>1. InHand(s)' = InHand(s)
      BY <2>1, IdleFlow
    <3>2. UNCHANGED handled
      BY <2>1 DEF CheckQueue, Recycle, history
    <3> QED BY <3>1, <3>2 DEF Gone
  <2>2. CASE ProcessHeader(i) \/ ProcessSequence(i)
    <3>1. PICK t \in Sessions :
            /\ InHand(t) = 1
            /\ \A r \in Sessions : r # t => InHand(r)' = InHand(r) /\ handled'[r] = handled[r]
            /\ \/ InHand(t)' = 1 /\ UNCHANGED handled
               \/ /\ InHand(t)' = 0
                  /\ handled'[t] = Append(handled[t], Start(handler[i].packet))
      BY <2>2, ProcessFlow
    <3>2. CASE s # t
      BY <3>1, <3>2 DEF Gone
    <3>3. CASE s = t /\ InHand(t)' = 1 /\ UNCHANGED handled
      BY <3>1, <3>3 DEF Gone
    <3>4. CASE s = t /\ InHand(t)' = 0 /\ handled'[t] = Append(handled[t], Start(handler[i].packet))
      <4>1. handled[t] \in Seq(Nat) /\ Len(handled[t]) \in Nat
        BY DEF PHInv, PHTypeOK
      <4>2. Len(handled'[t]) = Len(handled[t]) + 1
        BY <3>4, <4>1
      <4> QED BY <3>1, <3>4, <4>1, <4>2 DEF Gone
    <3> QED BY <3>1, <3>2, <3>3, <3>4
  <2> QED BY <2>1, <2>2
<1>4. \A j \in Threads : worker'[j].pc = "count" =>
        worker'[j].count = RecvCount(worker'[j].session)
  BY DEF Counts
<1> QED BY <1>1, <1>2, <1>3, <1>4, CountsSame

\* The packets one session has been counted for.
LEMMA CountedOf ==
  ASSUME NEW s, NEW a \in Nat, NEW b \in Nat, a <= b
  PROVE  /\ IsFiniteSet({s} \X (a + 1..b))
         /\ Cardinality({s} \X (a + 1..b)) = b - a
<1>1. IsFiniteSet(a + 1..b) /\ Cardinality(a + 1..b) = b - a
  <2>1. PICK c : c = a + 1
    OBVIOUS
  <2>2. c \in Int /\ b \in Int
    BY <2>1
  <2>3. IsFiniteSet(c..b) /\ Cardinality(c..b) = IF c > b THEN 0 ELSE b - c + 1
    BY <2>2, FS_Interval
  <2> QED BY <2>1, <2>3
<1>2. IsFiniteSet({s}) /\ Cardinality({s}) = 1
  BY FS_Singleton
<1>3. /\ IsFiniteSet({s} \X (a + 1..b))
      /\ Cardinality({s} \X (a + 1..b)) = Cardinality({s}) * Cardinality(a + 1..b)
  BY <1>1, <1>2, FS_Product
<1> QED BY <1>1, <1>2, <1>3

LEMMA AddRecvCountPut ==
  ASSUME PHInv, ServedInv, Counts, NEW i \in Threads, AddRecvCount(i)
  PROVE  \A t \in Sessions : Put(t)' = Put(t)
<1>i. PHTypeOK /\ InPlace /\ ReceiveTypeOK /\ OneThread
  BY DEF PHInv, ServedInv
<1>u. UNCHANGED <<push, handler, handled, m_packetQueue>>
  BY DEF AddRecvCount, phVars, queues, history
<1>0. worker[i].pc = "count"
  BY DEF AddRecvCount
<1>1. PICK s \in Sessions : /\ worker[i].session = s /\ ThreadOf(s) = i
                            /\ worker[i].count = RecvCount(s)
  BY <1>0, ServingIs DEF Counts
<1>2. PICK n \in Nat : n = worker[i].size
  BY <1>i, TasksIs
<1>3. /\ \A j \in Threads : j # i => worker'[j] = worker[j]
      /\ worker'[i].pc = "poll" /\ worker'[i].session = NoSession
      /\ RecvCount(s) \in Nat /\ RecvCount(s)' = RecvCount(s) + n
      /\ \A t \in Sessions : t # s => RecvCount(t)' = RecvCount(t)
      /\ m_totalCount' = m_totalCount + n
  BY <1>i, <1>1, <1>2, AddRecvCountStep
<1>4. ASSUME NEW t \in Sessions
      PROVE  Put(t)' = Put(t)
  <2>1. CASE t = s
    <3>1. Batch(s) = n
      BY <1>0, <1>1, <1>2 DEF Batch
    <3>2. Batch(s)' = 0
      BY <1>1, <1>3, ThreadOfSession DEF Batch, ThreadOf
    <3> QED BY <1>3, <2>1, <3>1, <3>2 DEF Put
  <2>2. CASE t # s
    <3>1. Batch(t)' = Batch(t)
      <4>1. CASE ThreadOf(t) = i
        <5>1. worker[i].session # t /\ worker'[i].session # t
          BY <1>1, <1>3, <2>2, ThreadOfSession
        <5> QED BY <4>1, <5>1 DEF Batch, ThreadOf
      <4>2. CASE ThreadOf(t) # i
        <5>1. worker'[ThreadOf(t)] = worker[ThreadOf(t)]
          BY <1>3, <4>2, ThreadOfSession
        <5> QED BY <1>u, <5>1 DEF Batch, ThreadOf
      <4> QED BY <4>1, <4>2
    <3> QED BY <1>3, <2>2, <3>1 DEF Put
  <2> QED BY <2>1, <2>2
<1> QED BY <1>4

LEMMA AddRecvCountCounts ==
  ASSUME PHInv, ServedInv, Counts, NEW i \in Threads, AddRecvCount(i)
  PROVE  Counts'
<1>i. PHTypeOK /\ InPlace /\ ReceiveTypeOK /\ OneThread
  BY DEF PHInv, ServedInv
<1>u. UNCHANGED <<push, handler, handled, m_packetQueue>>
  BY DEF AddRecvCount, phVars, queues, history
<1>0. worker[i].pc = "count"
  BY DEF AddRecvCount
<1>1. PICK s \in Sessions : /\ worker[i].session = s /\ ThreadOf(s) = i
                            /\ worker[i].count = RecvCount(s)
  BY <1>0, ServingIs DEF Counts
<1>2. PICK n \in Nat : n = worker[i].size
  BY <1>i, TasksIs
<1>3. /\ \A j \in Threads : j # i => worker'[j] = worker[j]
      /\ worker'[i].pc = "poll" /\ worker'[i].session = NoSession
      /\ RecvCount(s) \in Nat /\ RecvCount(s)' = RecvCount(s) + n
      /\ \A t \in Sessions : t # s => RecvCount(t)' = RecvCount(t)
      /\ m_totalCount' = m_totalCount + n
  BY <1>i, <1>1, <1>2, AddRecvCountStep
<1>4. \A t \in Sessions : Put(t)' = Put(t)
  BY AddRecvCountPut
<1>5. \A t \in Sessions : Put(t)' = Gone(t)' + Cardinality(QueuedOf(t)')
  BY <1>u, <1>4, SameGone, SameQueuedOf DEF Counts
<1>6. ASSUME NEW j \in Threads, worker'[j].pc = "count"
      PROVE  \A t \in Sessions : t = worker'[j].session => worker'[j].count = RecvCount(t)'
  <2>1. j # i /\ worker'[j] = worker[j]
    BY <1>3, <1>6
  <2>2. worker[j].session # s /\ worker[j].session \in Sessions
    BY <1>1, <1>6, <2>1, ServingIs
  <2>3. worker[j].count = RecvCount(worker[j].session)
    BY <1>6, <2>1 DEF Counts
  <2>4. PICK t \in Sessions : t = worker[j].session
    BY <2>2
  <2>5. RecvCount(t)' = RecvCount(t)
    BY <1>3, <2>2, <2>4
  <2> QED BY <2>1, <2>3, <2>4, <2>5
<1>7. IsFiniteSet(Counted') /\ m_totalCount' = Cardinality(Counted')
  <2> DEFINE N == {s} \X (RecvCount(s) + 1..RecvCount(s) + n)
  <2> DEFINE C(t) == {t} \X (1..RecvCount(t))
  <2> DEFINE D(t) == {t} \X (1..RecvCount(t)')
  <2>1. Counted = UNION {C(t) : t \in Sessions} /\ Counted' = UNION {D(t) : t \in Sessions}
    BY DEF Counted
  <2>2. D(s) = C(s) \cup N /\ C(s) \cap N = {}
    BY <1>3
  <2>3. \A t \in Sessions : t # s => D(t) = C(t) /\ C(t) \cap N = {}
    BY <1>3
  <2>4. IsFiniteSet(N) /\ Cardinality(N) = n
    <3>1. PICK a \in Nat, b \in Nat : a = RecvCount(s) /\ b = RecvCount(s) + n
      BY <1>3
    <3>2. a <= b /\ b - a = n
      BY <3>1
    <3>3. N = {s} \X (a + 1..b)
      BY <3>1
    <3> HIDE DEF N
    <3> QED BY <3>2, <3>3, CountedOf
  <2> HIDE DEF N, C, D
  <2>5. Counted' = Counted \cup N /\ Counted \cap N = {}
    BY <2>1, <2>2, <2>3
  <2>6. IsFiniteSet(Counted) /\ m_totalCount = Cardinality(Counted)
    BY DEF Counts
  <2>7. /\ IsFiniteSet(Counted \cup N)
        /\ Cardinality(Counted \cup N) = Cardinality(Counted) + Cardinality(N) - Cardinality(Counted \cap N)
    BY <2>4, <2>6, FS_Union
  <2>8. Cardinality(Counted \cap N) = 0 /\ Cardinality(Counted) \in Nat
    BY <2>5, <2>6, FS_EmptySet, FS_CardinalityType
  <2>9. IsFiniteSet(Counted')
    BY <2>5, <2>7
  <2>10. Cardinality(Counted') = Cardinality(Counted) + n
    BY <2>4, <2>5, <2>7, <2>8
  <2> QED BY <1>3, <2>6, <2>9, <2>10
<1>8. \A j \in Threads : worker'[j].pc = "count" => worker'[j].session \in Sessions
  <2> SUFFICES ASSUME NEW j \in Threads, worker'[j].pc = "count"
               PROVE  worker'[j].session \in Sessions
    OBVIOUS
  <2>1. worker'[j] = worker[j]
    BY <1>3
  <2> QED BY <2>1, ServingIs
<1>9. (\A j \in Threads : worker[j].pc = "count" => worker[j].count = RecvCount(worker[j].session))'
  <2> SUFFICES ASSUME NEW j \in Threads, worker'[j].pc = "count"
               PROVE  (worker[j].count = RecvCount(worker[j].session))'
    OBVIOUS
  <2>1. PICK t \in Sessions : t = worker'[j].session
    BY <1>8
  <2>2. worker'[j].count = RecvCount(t)'
    BY <1>6, <2>1
  <2> QED BY <2>1, <2>2 DEF RecvCount
<1> QED BY <1>5, <1>7, <1>9 DEF Counts

-----------------------------------------------------------------------------
(* With whole packets every packet begins where one of the peer's does.    *)

LEMMA BytesAre ==
  ASSUME NEW m \in Nat
  PROVE  /\ Bytes(m) \in Nat /\ Bytes(0) = 0 /\ Bytes(m + 1) = Bytes(m) + PacketSize
         /\ PacketSize \in Nat /\ PacketSize > 0 /\ m <= Bytes(m)
         /\ Bytes(m) = PacketSize * m
<1>1. PacketSize \in Nat /\ PacketSize > 0
  BY PacketHandlerAssumption
<1>2. m * PacketSize \in Nat /\ (m + 1) * PacketSize = m * PacketSize + PacketSize
      /\ 0 * PacketSize = 0 /\ m * PacketSize = PacketSize * m
  BY <1>1
<1>3. m <= m * PacketSize
  <2>1. PICK d \in Nat : PacketSize = d + 1
    <3>1. PacketSize - 1 \in Nat /\ PacketSize = (PacketSize - 1) + 1
      BY <1>1
    <3> QED BY <3>1
  <2>2. m * (d + 1) = m * d + m /\ m * d \in Nat
    BY <2>1
  <2> QED BY <2>1, <2>2
<1> QED BY <1>1, <1>2, <1>3 DEF Bytes

LEMMA BytesGrow ==
  ASSUME NEW k \in Nat, NEW m \in Nat, k < m
  PROVE  Bytes(k) + PacketSize <= Bytes(m)
<1>1. PICK d \in Nat : m = (k + 1) + d
  <2>1. m - (k + 1) \in Nat /\ m = (k + 1) + (m - (k + 1))
    OBVIOUS
  <2> QED BY <2>1
<1>2. PacketSize \in Nat
  BY PacketHandlerAssumption
<1>3. /\ m * PacketSize = (k + 1) * PacketSize + d * PacketSize
      /\ d * PacketSize \in Nat /\ (k + 1) * PacketSize = k * PacketSize + PacketSize
      /\ k * PacketSize \in Nat
  BY <1>1, <1>2
<1> QED BY <1>2, <1>3 DEF Bytes

LEMMA BytesApart ==
  ASSUME NEW k \in Nat, NEW m \in Nat
  PROVE  /\ Bytes(k) < Bytes(m) <=> k < m
         /\ Bytes(k) = Bytes(m) <=> k = m
<1>1. Bytes(k) \in Nat /\ Bytes(m) \in Nat /\ PacketSize \in Nat /\ PacketSize > 0
  BY BytesAre
<1>2. k < m => Bytes(k) + PacketSize <= Bytes(m)
  BY BytesGrow
<1>3. m < k => Bytes(m) + PacketSize <= Bytes(k)
  BY BytesGrow
<1> QED BY <1>1, <1>2, <1>3

LEMMA WholeIs ==
  ASSUME NEW n
  PROVE  Whole(n) <=> \E m \in Nat : n = Bytes(m)
<1>1. ASSUME NEW m \in Nat, n = Bytes(m)
      PROVE  m \in 0..n
  BY <1>1, BytesAre
<1>2. ASSUME NEW m \in 0..n, n = Bytes(m)
      PROVE  m \in Nat
  BY <1>2
<1> QED BY <1>1, <1>2 DEF Whole

LEMMA WholeSums ==
  ASSUME NEW a, NEW b, Whole(a), Whole(b)
  PROVE  /\ a \in Nat /\ b \in Nat /\ Whole(a + b)
         /\ b <= a => Whole(a - b)
<1>1. PICK k \in Nat, m \in Nat : a = Bytes(k) /\ b = Bytes(m)
  BY WholeIs
<1>2. a \in Nat /\ b \in Nat
  BY <1>1, BytesAre
<1>3. PacketSize \in Nat
  BY PacketHandlerAssumption
<1>4. k + m \in Nat /\ a + b = Bytes(k + m)
  BY <1>1, <1>3 DEF Bytes
<1>5. ASSUME b <= a PROVE k - m \in Nat /\ a - b = Bytes(k - m)
  <2>1. k >= m
    BY <1>1, <1>2, <1>5, BytesApart
  <2> QED BY <1>1, <1>3, <2>1 DEF Bytes
<1> QED BY <1>2, <1>4, <1>5, WholeIs

LEMMA WholePacket ==
  /\ Whole(0) /\ Whole(PacketSize)
  /\ \A n : Whole(n) /\ n < PacketSize => n = 0
  /\ \A n \in Nat : n % PacketSize = 0 => Whole(n)
<1>1. PacketSize \in Nat /\ PacketSize > 0
  BY PacketHandlerAssumption
<1>2. Bytes(0) = 0 /\ Bytes(1) = PacketSize
  BY <1>1 DEF Bytes
<1>3. ASSUME NEW n, Whole(n), n < PacketSize
      PROVE  n = 0
  <2>1. PICK m \in Nat : n = Bytes(m)
    BY <1>3, WholeIs
  <2>2. CASE m = 0
    BY <1>2, <2>1, <2>2
  <2>3. CASE m # 0
    <3>1. Bytes(0) + PacketSize <= Bytes(m)
      BY <2>3, BytesGrow
    <3> QED BY <1>1, <1>2, <1>3, <2>1, <3>1, BytesAre
  <2> QED BY <2>2, <2>3
<1>4. ASSUME NEW n \in Nat, n % PacketSize = 0
      PROVE  Whole(n)
  <2>1. n = PacketSize * (n \div PacketSize) + (n % PacketSize) /\ n \div PacketSize \in Nat
    BY <1>1
  <2>2. PICK m \in Nat : m = n \div PacketSize
    BY <2>1
  <2>3. n = PacketSize * m
    BY <1>1, <1>4, <2>1, <2>2
  <2>4. n = Bytes(m)
    BY <2>3, BytesAre
  <2> QED BY <2>4, WholeIs
<1> QED BY <1>2, <1>3, <1>4, WholeIs

\* A step that moves no byte.
LEMMA AlignedSame ==
  ASSUME Aligned, UNCHANGED <<stored, popped, push, worker>>,
         \A s \in Sessions : Put(s)' = Put(s)
  PROVE  Aligned'
<1>1. \A s \in Sessions : AlignedAt(s)' = AlignedAt(s)
  BY DEF AlignedAt, ThreadOf, Bytes, Whole
<1>2. \A i \in Threads : AlignedThread(i)' = AlignedThread(i)
  BY DEF AlignedThread, Bytes, Whole
<1> QED BY <1>1, <1>2 DEF Aligned

\* A step of worker i on session s.
LEMMA AlignedStep ==
  ASSUME Aligned, NEW i \in Threads, UNCHANGED stored,
         \A j \in Threads : j # i => worker'[j] = worker[j] /\ push'[j] = push[j],
         AlignedThread(i)',
         NEW s \in Sessions, ThreadOf(s) = i, AlignedAt(s)',
         \A t \in Sessions : t # s => Put(t)' = Put(t) /\ popped'[t] = popped[t],
         worker[i].session = s \/ push[i].pc = "idle",
         worker'[i].session = s \/ push'[i].pc = "idle"
  PROVE  Aligned'
<1>1. ASSUME NEW t \in Sessions
      PROVE  AlignedAt(t)'
  <2>1. CASE t = s
    BY <2>1
  <2>2. CASE t # s /\ ThreadOf(t) = i
    <3>1. ~(worker[i].session = t /\ push[i].pc # "idle")
          /\ ~(worker'[i].session = t /\ push'[i].pc # "idle")
      BY <2>2
    <3>2. AlignedAt(t)
      BY DEF Aligned
    <3> QED BY <2>2, <3>1, <3>2 DEF AlignedAt, ThreadOf, Bytes, Whole
  <2>3. CASE t # s /\ ThreadOf(t) # i
    <3>1. worker'[ThreadOf(t)] = worker[ThreadOf(t)] /\ push'[ThreadOf(t)] = push[ThreadOf(t)]
      BY <2>3, ThreadOfSession
    <3>2. AlignedAt(t)
      BY DEF Aligned
    <3> QED BY <2>3, <3>1, <3>2 DEF AlignedAt, ThreadOf, Bytes, Whole
  <2> QED BY <2>1, <2>2, <2>3
<1>2. ASSUME NEW j \in Threads
      PROVE  AlignedThread(j)'
  <2>1. CASE j = i
    BY <2>1
  <2>2. CASE j # i
    BY <2>2 DEF Aligned, AlignedThread, Bytes, Whole
  <2> QED BY <2>1, <2>2
<1> QED BY <1>1, <1>2 DEF Aligned

LEMMA OnReadAligned ==
  ASSUME WholePackets, Aligned, PHInv, ServedInv, NEW s \in Sessions, OnRead(s)
  PROVE  Aligned'
<1>u. UNCHANGED <<popped, push, worker, m_sessionRecvCountMap>>
  BY DEF OnRead, phVars, counts
<1>1. PICK n \in 1..(Len(stream[s]) * PacketSize - stored[s]) :
        /\ n % PacketSize = 0 /\ stored' = [stored EXCEPT ![s] = @ + n]
  BY DEF OnRead
<1>2. stored \in [Sessions -> Nat] /\ n \in Nat
  <2>1. stored \in [Sessions -> Nat] /\ stored[s] \in Nat
    BY DEF ServedInv, ReceiveTypeOK
  <2>2. Len(stream[s]) * PacketSize \in Int
    <3>1. Len(stream[s]) \in Nat
      BY DEF PHInv, PHTypeOK
    <3> QED BY <3>1, PacketHandlerAssumption
  <2> QED BY <1>1, <2>1, <2>2
<1>3. stored'[s] = stored[s] + n /\ \A t \in Sessions : t # s => stored'[t] = stored[t]
  BY <1>1, <1>2
<1>4. \A t \in Sessions : Whole(stored'[t])
  <2>1. Whole(n) /\ \A t \in Sessions : Whole(stored[t])
    BY <1>1, <1>2, WholePacket DEF Aligned, AlignedAt
  <2>2. Whole(stored[s] + n)
    BY <2>1, WholeSums
  <2> QED BY <1>3, <2>1, <2>2
<1>5. \A t \in Sessions : Put(t)' = Put(t)
  BY <1>u DEF Put, Batch, RecvCount, ThreadOf
<1>6. \A t \in Sessions : AlignedAt(t)'
  BY <1>u, <1>4, <1>5 DEF Aligned, AlignedAt, ThreadOf, Bytes, Whole
<1>7. \A i \in Threads : AlignedThread(i)'
  BY <1>u DEF Aligned, AlignedThread, Bytes, Whole
<1> QED BY <1>6, <1>7 DEF Aligned

LEMMA TakeTaskAligned ==
  ASSUME Aligned, PHInv, ServedInv, NEW i \in Threads, TakeTask(i)
  PROVE  Aligned'
<1>u. UNCHANGED <<stored, popped, push, m_sessionRecvCountMap>>
  BY DEF TakeTask, phVars, ring, counts
<1>i. PHTypeOK /\ InPlace /\ ReceiveTypeOK /\ OneThread
  BY DEF PHInv, ServedInv
<1>1. PICK s \in Sessions :
        /\ \A j \in Threads : j # i => worker'[j] = worker[j]
        /\ worker[i].pc = "poll" /\ worker'[i].pc = "size" /\ worker'[i].session = s
        /\ 1 \in DOMAIN m_netTaskQueue[i] /\ m_netTaskQueue[i][1] = s
  BY <1>i, TakeTaskStep
<1>2. ThreadOf(s) = i /\ push[i].pc = "idle" /\ worker[i].session # s
  BY <1>i, <1>1, WorkersOf, ThreadOfSession DEF OneThread
<1>3. \A t \in Sessions : Put(t)' = Put(t)
  <2>1. \A t \in Sessions : Batch(t)' = Batch(t)
    BY WorkerFlow
  <2> QED BY <1>u, <2>1, SameRecvCount DEF Put
<1>4. AlignedThread(i)'
  BY <1>u, <1>1 DEF Aligned, AlignedThread, Bytes, Whole
<1>5. AlignedAt(s)'
  <2>1. Whole(stored[s]) /\ popped[s] = Bytes(Put(s))
    BY <1>2 DEF Aligned, AlignedAt
  <2> QED BY <1>u, <1>2, <1>3, <2>1 DEF AlignedAt, ThreadOf, Bytes, Whole
<1> QED BY <1>u, <1>1, <1>2, <1>3, <1>4, <1>5, AlignedStep

LEMMA GetUseSizeAligned ==
  ASSUME Aligned, PHInv, ServedInv, NEW i \in Threads, GetUseSize(i)
  PROVE  Aligned'
<1>u. UNCHANGED <<stored, popped, push, m_sessionRecvCountMap>>
  BY DEF GetUseSize, phVars, ring, counts
<1>i. PHTypeOK /\ InPlace /\ ReceiveTypeOK /\ OneThread
  BY DEF PHInv, ServedInv
<1>0. worker[i].pc = "size"
  BY DEF GetUseSize
<1>1. PICK s \in Sessions : worker[i].session = s /\ ThreadOf(s) = i /\ popped[s] <= stored[s]
  BY <1>0, ServingIs
<1>2. /\ \A j \in Threads : j # i => worker'[j] = worker[j]
      /\ worker'[i].pc = "pop" /\ worker'[i].session = s
      /\ worker'[i].size = stored[s] - popped[s]
  BY <1>i, <1>1, GetUseSizeStep
<1>3. push[i].pc = "idle"
  BY <1>i, <1>0, WorkersOf
<1>4. \A t \in Sessions : Put(t)' = Put(t)
  <2>1. \A t \in Sessions : Batch(t)' = Batch(t)
    BY WorkerFlow
  <2> QED BY <1>u, <2>1, SameRecvCount DEF Put
<1>5. Whole(stored[s]) /\ popped[s] = Bytes(Put(s))
  BY <1>1, <1>3 DEF Aligned, AlignedAt
<1>6. AlignedThread(i)'
  <2>1. Put(s) \in Nat
    BY FlowTypes
  <2>2. Whole(stored[s] - popped[s])
    BY <1>1, <1>5, <2>1, WholeIs, WholeSums
  <2>3. Whole(worker'[i].size) /\ Whole(push'[i].recvSize)
    BY <1>u, <1>2, <2>2 DEF Aligned, AlignedThread
  <2> QED BY <2>3 DEF AlignedThread, Bytes, Whole
<1>7. AlignedAt(s)'
  BY <1>u, <1>1, <1>3, <1>4, <1>5 DEF AlignedAt, ThreadOf, Bytes, Whole
<1> QED BY <1>u, <1>1, <1>2, <1>3, <1>4, <1>6, <1>7, AlignedStep

LEMMA PopAligned ==
  ASSUME Aligned, PHInv, ServedInv, NEW i \in Threads, Pop(i)
  PROVE  Aligned'
<1>u. UNCHANGED <<stored, m_sessionRecvCountMap, content>>
  BY DEF Pop, counts
<1>i. PHTypeOK /\ InPlace /\ ReceiveTypeOK /\ OneThread
  BY DEF PHInv, ServedInv
<1>0. worker[i].pc = "pop"
  BY DEF Pop
<1>1. PICK s \in Sessions : /\ worker[i].session = s /\ ThreadOf(s) = i
                            /\ worker[i].size <= stored[s] - popped[s]
  BY <1>0, ServingIs
<1>2. /\ \A j \in Threads : j # i => worker'[j] = worker[j]
      /\ worker'[i].pc = "push" /\ worker'[i].session = s
      /\ popped'[s] = popped[s] + worker[i].size
      /\ \A t \in Sessions : t # s => popped'[t] = popped[t]
      /\ PushPacket(i, s, popped[s] + 1, worker[i].size)
      /\ popped[s] + 1 \in Nat /\ worker[i].size \in Nat
  BY <1>i, <1>1, PopStep
<1>3. /\ \A j \in Threads : j # i => push'[j] = push[j]
      /\ push'[i].pc = "take" /\ push'[i].session = s /\ push'[i].at = popped[s] + 1
      /\ push'[i].recvSize = worker[i].size /\ push'[i].recvCount = 0
  <2>1. UNCHANGED Blocks
    BY <1>u DEF Blocks
  <2> QED BY <1>i, <1>2, <2>1, PushPacketStep
<1>4. \A t \in Sessions : Put(t)' = Put(t)
  <2>1. \A t \in Sessions : Batch(t)' = Batch(t)
    BY WorkerFlow
  <2> QED BY <1>u, <2>1, SameRecvCount DEF Put
<1>5. push[i].pc = "idle"
  BY <1>i, <1>0, WorkersOf
<1>6. Whole(stored[s]) /\ popped[s] = Bytes(Put(s)) /\ Bytes(Put(s)) \in Nat /\ Whole(worker[i].size)
  BY <1>0, <1>1, <1>5, FlowTypes, BytesAre DEF Aligned, AlignedAt, AlignedThread
<1>7. AlignedThread(i)'
  <2>1. Whole(push'[i].recvSize) /\ worker'[i].pc # "pop"
    BY <1>2, <1>3, <1>6
  <2> QED BY <2>1 DEF AlignedThread, Bytes, Whole
<1>8. AlignedAt(s)'
  <2>1. Bytes(0) = 0
    BY BytesAre
  <2>2. /\ push'[i].at + Bytes(push'[i].recvCount) = Bytes(Put(s)) + 1
        /\ popped'[s] = Bytes(Put(s)) + push'[i].recvSize
    BY <1>2, <1>3, <1>6, <2>1
  <2> QED BY <1>u, <1>1, <1>2, <1>3, <1>4, <1>6, <2>2 DEF AlignedAt, ThreadOf, Bytes, Whole
<1> QED BY <1>u, <1>1, <1>2, <1>3, <1>4, <1>7, <1>8, AlignedStep

LEMMA TakePacketAligned ==
  ASSUME Aligned, PHInv, ServedInv, NEW i \in Threads, TakePacket(i),
         UNCHANGED <<stored, popped, worker, m_sessionRecvCountMap>>
  PROVE  Aligned'
<1>i. PHTypeOK /\ InPlace /\ ReceiveTypeOK /\ OneThread
  BY DEF PHInv, ServedInv
<1>1. /\ \A j \in Threads : j # i => push'[j] = push[j]
      /\ push[i].pc = "take" /\ push'[i].pc = "put" /\ push'[i].at = push[i].at
      /\ push'[i].recvSize = push[i].recvSize /\ push'[i].recvCount = push[i].recvCount
  BY <1>i, TakePacketStep DEF TakePacket
<1>2. worker[i].pc = "push"
  BY <1>i, <1>1, WorkersOf
<1>3. PICK s \in Sessions : worker[i].session = s /\ ThreadOf(s) = i
  BY <1>2, ServingIs
<1>4. \A t \in Sessions : Put(t)' = Put(t)
  <2>1. \A t \in Sessions : Batch(t)' = Batch(t)
    BY WorkerFlow
  <2> QED BY <2>1, SameRecvCount DEF Put
<1>5. AlignedThread(i)'
  BY <1>1 DEF Aligned, AlignedThread, Bytes, Whole
<1>6. AlignedAt(s)'
  <2>1. /\ Whole(stored[s])
        /\ push[i].at + Bytes(push[i].recvCount) = Bytes(Put(s)) + 1
        /\ popped[s] = Bytes(Put(s)) + push[i].recvSize
    BY <1>1, <1>3 DEF Aligned, AlignedAt
  <2> QED BY <1>1, <1>3, <1>4, <2>1 DEF AlignedAt, ThreadOf, Bytes, Whole
<1> QED BY <1>1, <1>3, <1>4, <1>5, <1>6, AlignedStep

LEMMA PutPacketAligned ==
  ASSUME Aligned, PHInv, ServedInv, NEW i \in Threads, PutPacket(i),
         UNCHANGED <<stored, popped, worker, m_sessionRecvCountMap>>
  PROVE  Aligned'
<1>i. PHTypeOK /\ InPlace /\ ReceiveTypeOK /\ OneThread
  BY DEF PHInv, ServedInv
<1>1. /\ \A j \in Threads : j # i => push'[j] = push[j]
      /\ push[i].pc = "put" /\ push'[i].pc = "take" /\ push'[i].at = push[i].at
      /\ push'[i].recvSize = push[i].recvSize - PacketSize
      /\ push'[i].recvCount = push[i].recvCount + 1
  BY <1>i, PutPacketStep
<1>2. PICK s \in Sessions, y \in Queued' :
        /\ i = ThreadOf(s) /\ worker[i].session = s /\ worker[i].pc = "push"
        /\ Batch(s)' = Batch(s) + 1
        /\ \A t \in Sessions : t # s => Batch(t)' = Batch(t)
  BY PutPacketFlow
<1>3. /\ Put(s)' = Put(s) + 1 /\ Put(s) \in Nat
      /\ \A t \in Sessions : t # s => Put(t)' = Put(t)
  BY <1>2, SameRecvCount, FlowTypes DEF Put
<1>4. push[i].recvSize >= PacketSize /\ Whole(push[i].recvSize) /\ push[i].recvSize \in Nat
      /\ push[i].recvCount \in Nat /\ push[i].at \in Nat
  BY <1>i, <1>1 DEF Aligned, AlignedThread, InPlace, PHTypeOK
<1>5. AlignedThread(i)'
  <2>1. Whole(push'[i].recvSize)
    BY <1>1, <1>4, WholePacket, WholeSums
  <2> QED BY <1>2, <2>1 DEF AlignedThread, Bytes, Whole
<1>6. AlignedAt(s)'
  <2>1. /\ Whole(stored[s])
        /\ push[i].at + Bytes(push[i].recvCount) = Bytes(Put(s)) + 1
        /\ popped[s] = Bytes(Put(s)) + push[i].recvSize
    BY <1>1, <1>2 DEF Aligned, AlignedAt
  <2>2. /\ Bytes(Put(s)) \in Nat /\ Bytes(Put(s) + 1) = Bytes(Put(s)) + PacketSize
        /\ Bytes(push[i].recvCount) \in Nat
        /\ Bytes(push[i].recvCount + 1) = Bytes(push[i].recvCount) + PacketSize
        /\ PacketSize \in Nat
    BY <1>3, <1>4, BytesAre
  <2>3. /\ push'[i].at + Bytes(push'[i].recvCount) = Bytes(Put(s) + 1) + 1
        /\ popped[s] = Bytes(Put(s) + 1) + push'[i].recvSize
    BY <1>1, <1>4, <2>1, <2>2
  <2> QED BY <1>1, <1>2, <1>3, <2>1, <2>3 DEF AlignedAt, ThreadOf, Bytes, Whole
<1> QED BY <1>1, <1>2, <1>3, <1>5, <1>6, AlignedStep

LEMMA PushReturnAligned ==
  ASSUME Aligned, PHInv, ServedInv, NEW i \in Threads, PushReturn(i),
         UNCHANGED <<stored, popped, worker, m_sessionRecvCountMap>>
  PROVE  Aligned'
<1>i. PHTypeOK /\ InPlace /\ ReceiveTypeOK /\ OneThread
  BY DEF PHInv, ServedInv
<1>1. /\ \A j \in Threads : j # i => push'[j] = push[j]
      /\ push'[i].pc = "idle" /\ push'[i].recvSize = 0
  BY <1>i, PushReturnStep
<1>0. push[i].pc = "take" /\ push[i].recvSize < PacketSize
  BY DEF PushReturn
<1>2. worker[i].pc = "push"
  BY <1>i, <1>0, WorkersOf
<1>3. PICK s \in Sessions : worker[i].session = s /\ ThreadOf(s) = i
  BY <1>2, ServingIs
<1>4. \A t \in Sessions : Put(t)' = Put(t)
  <2>1. \A t \in Sessions : Batch(t)' = Batch(t)
    BY WorkerFlow
  <2> QED BY <2>1, SameRecvCount DEF Put
<1>5. AlignedThread(i)'
  <2>1. Whole(push'[i].recvSize) /\ worker'[i].pc # "pop"
    BY <1>1, <1>2, WholePacket
  <2> QED BY <2>1 DEF AlignedThread, Bytes, Whole
<1>6. AlignedAt(s)'
  <2>1. /\ Whole(stored[s]) /\ popped[s] = Bytes(Put(s)) + push[i].recvSize
    BY <1>0, <1>3 DEF Aligned, AlignedAt
  <2>2. push[i].recvSize = 0
    BY <1>0, WholePacket DEF Aligned, AlignedThread
  <2>3. Bytes(Put(s)) \in Nat
    BY FlowTypes, BytesAre
  <2>4. popped[s] = Bytes(Put(s))
    BY <2>1, <2>2, <2>3
  <2> QED BY <1>1, <1>3, <1>4, <2>1, <2>4 DEF AlignedAt, ThreadOf, Bytes, Whole
<1> QED BY <1>1, <1>3, <1>4, <1>5, <1>6, AlignedStep

\* The two steps of the count.
LEMMA CountAligned ==
  ASSUME Aligned, PHInv, ServedInv, Counts, NEW i \in Threads, ReadRecvCount(i) \/ AddRecvCount(i)
  PROVE  Aligned'
<1>i. PHTypeOK /\ InPlace /\ ReceiveTypeOK /\ OneThread
  BY DEF PHInv, ServedInv
<1>u. UNCHANGED <<stored, popped>>
  BY DEF ReadRecvCount, AddRecvCount, ring
<1>0. worker[i].pc \in {"push", "count"}
  BY DEF ReadRecvCount, AddRecvCount
<1>1. PICK s \in Sessions : worker[i].session = s /\ ThreadOf(s) = i
  BY <1>0, ServingIs
<1>2. /\ \A j \in Threads : j # i => worker'[j] = worker[j] /\ push'[j] = push[j]
      /\ push[i].pc = "idle" /\ push'[i].pc = "idle"
      /\ push'[i].recvSize = 0 \/ push'[i].recvSize = push[i].recvSize
      /\ worker'[i].pc # "pop"
  <2>1. CASE ReadRecvCount(i)
    BY <1>i, <1>1, <2>1, ReadRecvCountStep, InitPushIs
  <2>2. CASE AddRecvCount(i)
    <3>1. worker[i].pc = "count" /\ UNCHANGED push
      BY <2>2 DEF AddRecvCount, phVars
    <3>2. worker[i].count = RecvCount(s)
      BY <1>1, <3>1 DEF Counts
    <3>3. /\ \A j \in Threads : j # i => worker'[j] = worker[j]
          /\ worker'[i].pc = "poll"
      BY <1>i, <1>1, <2>2, <3>2, AddRecvCountStep
    <3> QED BY <1>i, <3>1, <3>3, WorkersOf
  <2> QED BY <2>1, <2>2
<1>3. \A t \in Sessions : Put(t)' = Put(t)
  <2>1. CASE ReadRecvCount(i)
    <3>1. \A t \in Sessions : Batch(t)' = Batch(t)
      BY <2>1, WorkerFlow
    <3> QED BY <2>1, <3>1, SameRecvCount DEF Put, ReadRecvCount, counts
  <2>2. CASE AddRecvCount(i)
    BY <2>2, AddRecvCountPut
  <2> QED BY <2>1, <2>2
<1>4. AlignedThread(i)'
  <2>1. Whole(push'[i].recvSize)
    BY <1>2, WholePacket DEF Aligned, AlignedThread
  <2> QED BY <1>2, <2>1 DEF AlignedThread, Bytes, Whole
<1>5. AlignedAt(s)'
  <2>1. Whole(stored[s]) /\ popped[s] = Bytes(Put(s))
    BY <1>1, <1>2 DEF Aligned, AlignedAt
  <2> QED BY <1>u, <1>1, <1>2, <1>3, <2>1 DEF AlignedAt, ThreadOf, Bytes, Whole
<1> QED BY <1>u, <1>1, <1>2, <1>3, <1>4, <1>5, AlignedStep

-----------------------------------------------------------------------------
(* The order of a session's packets.                                       *)

EntryStart(x) == Start(Entry(x)[2])
HandStart(s) == Start(handler[ThreadOf(s)].packet)

LEMMA InOrderOfIs ==
  ASSUME NEW s
  PROVE  InOrderOf(s) <=>
    /\ \A j \in DOMAIN handled[s] : handled[s][j] = Bytes(j - 1) + 1
    /\ InHand(s) = 1 => HandStart(s) = Bytes(Len(handled[s])) + 1
    /\ \A x \in QueuedOf(s) : \E m \in Gone(s)..(Put(s) - 1) : EntryStart(x) = Bytes(m) + 1
    /\ \A m \in Gone(s)..(Put(s) - 1) : \E x \in QueuedOf(s) : EntryStart(x) = Bytes(m) + 1
    /\ \A x, y \in QueuedOf(s) : Before(x, y) => EntryStart(x) < EntryStart(y)
BY DEF InOrderOf, EntryStart, HandStart, Before

\* The packets of session s stay where they are.
LEMMA InOrderOfSame ==
  ASSUME NEW s \in Sessions, InOrderOf(s), QueuedOf(s)' = QueuedOf(s),
         \A x \in QueuedOf(s) : EntryStart(x)' = EntryStart(x),
         handled'[s] = handled[s], InHand(s)' = InHand(s), Put(s)' = Put(s),
         InHand(s) = 1 => HandStart(s)' = HandStart(s)
  PROVE  InOrderOf(s)'
<1>1. Gone(s)' = Gone(s)
  BY DEF Gone
<1>2. /\ \A j \in DOMAIN handled[s] : handled[s][j] = Bytes(j - 1) + 1
      /\ InHand(s) = 1 => HandStart(s) = Bytes(Len(handled[s])) + 1
      /\ \A x \in QueuedOf(s) : \E m \in Gone(s)..(Put(s) - 1) : EntryStart(x) = Bytes(m) + 1
      /\ \A m \in Gone(s)..(Put(s) - 1) : \E x \in QueuedOf(s) : EntryStart(x) = Bytes(m) + 1
      /\ \A x, y \in QueuedOf(s) : Before(x, y) => EntryStart(x) < EntryStart(y)
  BY InOrderOfIs
<1>3. \A j \in DOMAIN handled'[s] : handled'[s][j] = Bytes(j - 1) + 1
  BY <1>2
<1>4. InHand(s)' = 1 => HandStart(s)' = Bytes(Len(handled'[s])) + 1
  BY <1>2
<1>5. \A x \in QueuedOf(s)' : \E m \in Gone(s)'..(Put(s)' - 1) : EntryStart(x)' = Bytes(m) + 1
  BY <1>1, <1>2
<1>6. \A m \in Gone(s)'..(Put(s)' - 1) : \E x \in QueuedOf(s)' : EntryStart(x)' = Bytes(m) + 1
  BY <1>1, <1>2
<1>7. \A x, y \in QueuedOf(s)' : Before(x, y) => EntryStart(x)' < EntryStart(y)'
  BY <1>2
<1> QED BY <1>3, <1>4, <1>5, <1>6, <1>7 DEF InOrderOf, EntryStart, HandStart, Before, Bytes

\* A step that leaves the queues and what is queued or in hand alone.
LEMMA InOrderSame ==
  ASSUME InOrder, UNCHANGED <<m_packetQueue, handled>>,
         \A s \in Sessions : InHand(s)' = InHand(s) /\ Put(s)' = Put(s),
         \A s \in Sessions : InHand(s) = 1 => HandStart(s)' = HandStart(s),
         \A x \in Queued : EntryStart(x)' = EntryStart(x)
  PROVE  InOrder'
<1> SUFFICES ASSUME NEW s \in Sessions
             PROVE  InOrderOf(s)'
  BY DEF InOrder
<1>1. InOrderOf(s)
  BY DEF InOrder
<1>2. QueuedOf(s)' = QueuedOf(s)
  BY SameQueuedOf
<1>3. \A x \in QueuedOf(s) : EntryStart(x)' = EntryStart(x)
  BY DEF QueuedOf
<1>4. handled'[s] = handled[s] /\ InHand(s)' = InHand(s) /\ Put(s)' = Put(s)
  OBVIOUS
<1>5. InHand(s) = 1 => HandStart(s)' = HandStart(s)
  OBVIOUS
<1> QED BY <1>1, <1>2, <1>3, <1>4, <1>5, InOrderOfSame

\* The same when no block's content changes.
LEMMA InOrderUntouched ==
  ASSUME InOrder, UNCHANGED <<m_packetQueue, handled, handler, content>>,
         \A s \in Sessions : Put(s)' = Put(s)
  PROVE  InOrder'
<1>1. \A s \in Sessions : InHand(s)' = InHand(s) /\ HandStart(s)' = HandStart(s)
  BY DEF InHand, HandStart, ThreadOf, Start
<1>2. \A x \in Queued : EntryStart(x)' = EntryStart(x)
  BY DEF EntryStart, Entry, Start
<1> QED BY <1>1, <1>2, InOrderSame

\* A step that writes into one block, which is neither queued nor in hand.
LEMMA InOrderOtherBlock ==
  ASSUME InOrder, PHInv, UNCHANGED <<m_packetQueue, handled>>, NEW b,
         \A c \in Blocks : c # b => content'[c] = content[c],
         \A x \in Queued : Entry(x)[2] # b,
         \A s \in Sessions : Put(s)' = Put(s) /\ InHand(s)' = InHand(s),
         \A s \in Sessions : InHand(s) = 1 =>
           /\ handler'[ThreadOf(s)].packet = handler[ThreadOf(s)].packet
           /\ handler[ThreadOf(s)].packet # b
  PROVE  InOrder'
<1>1. ASSUME NEW s \in Sessions, InHand(s) = 1
      PROVE  HandStart(s)' = HandStart(s)
  <2>1. PICK j \in Threads : j = ThreadOf(s)
    BY ThreadOfSession
  <2>2. Holding(j)
    BY <1>1, <2>1 DEF InHand, Holding
  <2>3. handler[j].packet \in Blocks
    BY <2>2 DEF PHInv, PHTypeOK, InPlace
  <2>4. handler'[j].packet = handler[j].packet /\ handler[j].packet # b
    BY <1>1, <2>1
  <2>5. content'[handler'[j].packet] = content[handler[j].packet]
    BY <2>3, <2>4
  <2> QED BY <2>1, <2>5 DEF HandStart, ThreadOf, Start
<1>2. ASSUME NEW x \in Queued
      PROVE  EntryStart(x)' = EntryStart(x)
  <2>1. Entry(x)[2] \in Blocks /\ Entry(x)[2] # b
    BY QueuedIs DEF PHInv
  <2>2. Entry(x)' = Entry(x)
    BY SameQueued
  <2> QED BY <2>1, <2>2 DEF EntryStart, Start
<1> QED BY <1>1, <1>2, InOrderSame

\* What a new entry brings: the next packet of its session.
LEMMA PutPacketInOrder ==
  ASSUME Aligned, InOrder, Counts, PHInv, ServedInv, NEW i \in Threads, PutPacket(i),
         UNCHANGED <<worker, m_sessionRecvCountMap>>
  PROVE  InOrder'
<1>i. PHTypeOK /\ InPlace /\ Apart
  BY DEF PHInv
<1>u. UNCHANGED <<handler, handled>>
  BY DEF PutPacket, history
<1>1. PICK s \in Sessions, y \in Queued' :
        /\ i = ThreadOf(s) /\ worker[i].session = s /\ worker[i].pc = "push"
        /\ push[i].session = s /\ push[i].pc = "put"
        /\ Batch(s)' = Batch(s) + 1
        /\ \A t \in Sessions : t # s => Batch(t)' = Batch(t) /\ QueuedOf(t)' = QueuedOf(t)
        /\ QueuedOf(s)' = QueuedOf(s) \cup {y} /\ y \notin QueuedOf(s)
        /\ Entry(y)' = <<s, push[i].packet>>
        /\ \A x \in Queued : x \in Queued' /\ Entry(x)' = Entry(x)
        /\ \A x \in QueuedOf(s) : Before(x, y)
  BY PutPacketFlow
<1>2. PICK b \in Blocks : b = push[i].packet
  BY <1>i, PutPacketStep
<1>3. /\ \A c \in Blocks : c # b => content'[c] = content[c]
      /\ content'[b][2] = push[i].at + PacketSize * push[i].recvCount
      /\ push[i].at \in Nat /\ push[i].recvCount \in Nat
  <2>1. content'[b] = <<push[i].session, push[i].at + PacketSize * push[i].recvCount>>
    BY <1>i, <1>2, PutPacketStep
  <2>2. \A c \in Blocks : c # b => content'[c] = content[c]
    BY <1>i, <1>2, PutPacketStep
  <2>3. push[i].at \in Nat /\ push[i].recvCount \in Nat
    BY <1>i DEF PHTypeOK
  <2> QED BY <2>1, <2>2, <2>3
<1>4. /\ Put(s)' = Put(s) + 1 /\ Put(s) \in Nat /\ Gone(s) \in Nat
      /\ \A t \in Sessions : t # s => Put(t)' = Put(t)
  BY <1>1, SameRecvCount, FlowTypes DEF Put
<1>5. Gone(s) <= Put(s)
  <2>1. Put(s) = Gone(s) + Cardinality(QueuedOf(s)) /\ Cardinality(QueuedOf(s)) \in Nat
    BY FlowTypes DEF Counts
  <2> QED BY <1>4, <2>1
<1>6. \A x \in Queued : EntryStart(x)' = EntryStart(x)
  <2> SUFFICES ASSUME NEW x \in Queued PROVE EntryStart(x)' = EntryStart(x)
    OBVIOUS
  <2>1. Entry(x)[2] \in Blocks /\ Entry(x)[2] # b
    BY <1>i, <1>2, QueuedIs DEF Apart
  <2> QED BY <1>1, <1>3, <2>1 DEF EntryStart, Start
<1>7. EntryStart(y)' = Bytes(Put(s)) + 1
  <2>1. push[i].at + Bytes(push[i].recvCount) = Bytes(Put(s)) + 1
    BY <1>1 DEF Aligned, AlignedAt
  <2>2. Bytes(push[i].recvCount) = PacketSize * push[i].recvCount
    BY <1>3, BytesAre
  <2>3. EntryStart(y)' = content'[b][2]
    BY <1>1, <1>2 DEF EntryStart, Start
  <2> QED BY <1>3, <2>1, <2>2, <2>3
<1>8. \A t \in Sessions : /\ InHand(t)' = InHand(t) /\ Gone(t)' = Gone(t)
                          /\ InHand(t) = 1 => HandStart(t)' = HandStart(t)
  <2> SUFFICES ASSUME NEW t \in Sessions
               PROVE  /\ InHand(t)' = InHand(t) /\ Gone(t)' = Gone(t)
                      /\ InHand(t) = 1 => HandStart(t)' = HandStart(t)
    OBVIOUS
  <2>1. InHand(t)' = InHand(t) /\ Gone(t)' = Gone(t)
    BY <1>u, SameGone
  <2>2. ASSUME InHand(t) = 1
        PROVE  HandStart(t)' = HandStart(t)
    <3>1. PICK j \in Threads : j = ThreadOf(t)
      BY ThreadOfSession
    <3>2. Holding(j)
      BY <2>2, <3>1 DEF InHand, Holding
    <3>3. handler[j].packet \in Blocks
      BY <1>i, <3>2 DEF PHTypeOK, InPlace
    <3>4. handler[j].packet # b
      <4>1. b # Null
        BY <1>i, <1>2, BlocksNumbered
      <4> QED BY <1>i, <1>2, <4>1 DEF Apart
    <3>5. content'[handler'[j].packet] = content[handler[j].packet]
      BY <1>u, <1>3, <3>3, <3>4
    <3> QED BY <3>1, <3>5 DEF HandStart, ThreadOf, Start
  <2> QED BY <2>1, <2>2
<1>9. ASSUME NEW t \in Sessions, t # s
      PROVE  InOrderOf(t)'
  <2>1. InOrderOf(t)
    BY DEF InOrder
  <2>2. \A x \in QueuedOf(t) : EntryStart(x)' = EntryStart(x)
    BY <1>6 DEF QueuedOf
  <2>3. QueuedOf(t)' = QueuedOf(t) /\ Put(t)' = Put(t)
    BY <1>1, <1>4, <1>9
  <2>4. InHand(t)' = InHand(t) /\ (InHand(t) = 1 => HandStart(t)' = HandStart(t))
    BY <1>8
  <2>5. handled'[t] = handled[t]
    BY <1>u
  <2> QED BY <2>1, <2>2, <2>3, <2>4, <2>5, InOrderOfSame
<1>10. InOrderOf(s)'
  <2>1. /\ \A j \in DOMAIN handled[s] : handled[s][j] = Bytes(j - 1) + 1
        /\ InHand(s) = 1 => HandStart(s) = Bytes(Len(handled[s])) + 1
        /\ \A x \in QueuedOf(s) : \E m \in Gone(s)..(Put(s) - 1) : EntryStart(x) = Bytes(m) + 1
        /\ \A m \in Gone(s)..(Put(s) - 1) : \E x \in QueuedOf(s) : EntryStart(x) = Bytes(m) + 1
        /\ \A x, z \in QueuedOf(s) : Before(x, z) => EntryStart(x) < EntryStart(z)
    BY InOrderOfIs DEF InOrder
  <2>2. /\ \A x \in QueuedOf(s) : EntryStart(x)' = EntryStart(x)
        /\ Gone(s)' = Gone(s)
    BY <1>6, <1>8 DEF QueuedOf
  <2>3. \A j \in DOMAIN handled'[s] : handled'[s][j] = Bytes(j - 1) + 1
    BY <1>u, <2>1
  <2>4. InHand(s)' = 1 => HandStart(s)' = Bytes(Len(handled'[s])) + 1
    BY <1>u, <1>8, <2>1
  <2>5. Gone(s)'..(Put(s)' - 1) = (Gone(s)..(Put(s) - 1)) \cup {Put(s)}
    BY <1>4, <1>5, <2>2
  <2>6. \A x \in QueuedOf(s)' : \E m \in Gone(s)'..(Put(s)' - 1) : EntryStart(x)' = Bytes(m) + 1
    BY <1>1, <1>7, <2>1, <2>2, <2>5
  <2>7. \A m \in Gone(s)'..(Put(s)' - 1) : \E x \in QueuedOf(s)' : EntryStart(x)' = Bytes(m) + 1
    BY <1>1, <1>7, <2>1, <2>2, <2>5
  <2>8. \A x \in QueuedOf(s) : EntryStart(x) < Bytes(Put(s)) + 1
    <3> SUFFICES ASSUME NEW x \in QueuedOf(s) PROVE EntryStart(x) < Bytes(Put(s)) + 1
      OBVIOUS
    <3>1. PICK m \in Gone(s)..(Put(s) - 1) : EntryStart(x) = Bytes(m) + 1
      BY <2>1
    <3>2. m \in Nat /\ m < Put(s)
      BY <1>4, <3>1
    <3>3. Bytes(m) < Bytes(Put(s)) /\ Bytes(m) \in Nat /\ Bytes(Put(s)) \in Nat
      BY <1>4, <3>2, BytesApart, BytesAre
    <3> QED BY <3>1, <3>3
  <2>9. \A x, z \in QueuedOf(s)' : Before(x, z) => EntryStart(x)' < EntryStart(z)'
    <3> SUFFICES ASSUME NEW x \in QueuedOf(s)', NEW z \in QueuedOf(s)', Before(x, z)
                 PROVE  EntryStart(x)' < EntryStart(z)'
      OBVIOUS
    <3>1. CASE x # y /\ z # y
      BY <1>1, <2>1, <2>2, <3>1
    <3>2. CASE x # y /\ z = y
      BY <1>1, <1>7, <2>2, <2>8, <3>2
    <3>3. CASE x = y
      <4>1. y[2] \in Nat /\ z[2] \in Nat
        <5>1. x \in Queued' /\ z \in Queued'
          BY DEF QueuedOf
        <5>2. PHTypeOK'
          BY PutPacketInv DEF PHInv
        <5>3. ASSUME NEW w \in Queued'
              PROVE  w[2] \in Nat
          <6>1. PICK k \in Threads : w \in {k} \X DOMAIN m_packetQueue'[k]
            BY DEF Queued
          <6>2. m_packetQueue'[k] \in Seq(Sessions \X Blocks')
            BY <5>2, <6>1 DEF PHTypeOK
          <6>3. DOMAIN m_packetQueue'[k] = 1..Len(m_packetQueue'[k]) /\ Len(m_packetQueue'[k]) \in Nat
            BY <6>2
          <6> QED BY <6>1, <6>3
        <5> QED BY <3>3, <5>1, <5>3
      <4>2. z = y \/ Before(z, y)
        BY <1>1
      <4> QED BY <3>3, <4>1, <4>2 DEF Before
    <3> QED BY <3>1, <3>2, <3>3
  <2> QED BY <2>3, <2>4, <2>6, <2>7, <2>9 DEF InOrderOf, EntryStart, HandStart, Before, Bytes
<1> QED BY <1>9, <1>10 DEF InOrder

\* The first entry of a queue is the next packet of its session.
LEMMA FirstIsNext ==
  ASSUME InOrder, PHInv, ServedInv, NEW s \in Sessions, NEW y \in QueuedOf(s),
         \A x \in QueuedOf(s) : x # y => Before(y, x)
  PROVE  EntryStart(y) = Bytes(Gone(s)) + 1
<1>1. /\ \A x \in QueuedOf(s) : \E m \in Gone(s)..(Put(s) - 1) : EntryStart(x) = Bytes(m) + 1
      /\ \A m \in Gone(s)..(Put(s) - 1) : \E x \in QueuedOf(s) : EntryStart(x) = Bytes(m) + 1
      /\ \A x, z \in QueuedOf(s) : Before(x, z) => EntryStart(x) < EntryStart(z)
  BY InOrderOfIs DEF InOrder
<1>2. Gone(s) \in Nat /\ Put(s) \in Nat
  BY FlowTypes
<1>3. PICK m \in Gone(s)..(Put(s) - 1) : EntryStart(y) = Bytes(m) + 1
  BY <1>1
<1>4. m \in Nat /\ Gone(s) <= m
  BY <1>2
<1>5. PICK x \in QueuedOf(s) : EntryStart(x) = Bytes(Gone(s)) + 1
  <2>1. Gone(s) \in Gone(s)..(Put(s) - 1)
    BY <1>2, <1>4
  <2> QED BY <1>1, <2>1
<1>6. CASE x = y
  BY <1>5, <1>6
<1>7. CASE x # y
  <2>1. EntryStart(y) < EntryStart(x)
    BY <1>1, <1>7
  <2>2. Bytes(m) \in Nat /\ Bytes(Gone(s)) \in Nat
    BY <1>2, <1>4, BytesAre
  <2>3. Bytes(m) < Bytes(Gone(s))
    BY <1>3, <1>5, <2>1, <2>2
  <2>4. m < Gone(s)
    BY <1>2, <1>4, <2>3, BytesApart
  <2> QED BY <1>2, <1>4, <2>4
<1> QED BY <1>6, <1>7

LEMMA ShiftIs ==
  ASSUME NEW i, NEW x, NEW y, Shift(i, x)[1] = i, Shift(i, y)[1] = i
  PROVE  x[1] = y[1]
BY DEF Shift

\* The entries left are those that were there, up to the first.
LEMMA InOrderOfShift ==
  ASSUME NEW s \in Sessions, NEW i, NEW g \in Nat, InOrderOf(s),
         PHInv, ServedInv, UNCHANGED content, handled'[s] = handled[s],
         InHand(s)' = 1 => HandStart(s)' = Bytes(Len(handled'[s])) + 1,
         Put(s)' = Put(s), Gone(s)' = g, g >= Gone(s),
         \A x \in QueuedOf(s)' : /\ Shift(i, x) \in QueuedOf(s)
                                 /\ Entry(x)' = Entry(Shift(i, x))
                                 /\ EntryStart(Shift(i, x)) > Bytes(g),
         \A x \in QueuedOf(s) : EntryStart(x) > Bytes(g) => \E z \in QueuedOf(s)' : Shift(i, z) = x,
         \A x, z \in QueuedOf(s)' : Before(x, z) => Before(Shift(i, x), Shift(i, z))
  PROVE  InOrderOf(s)'
<1>1. /\ \A j \in DOMAIN handled[s] : handled[s][j] = Bytes(j - 1) + 1
      /\ \A x \in QueuedOf(s) : \E m \in Gone(s)..(Put(s) - 1) : EntryStart(x) = Bytes(m) + 1
      /\ \A m \in Gone(s)..(Put(s) - 1) : \E x \in QueuedOf(s) : EntryStart(x) = Bytes(m) + 1
      /\ \A x, y \in QueuedOf(s) : Before(x, y) => EntryStart(x) < EntryStart(y)
  BY InOrderOfIs
<1>2. Gone(s) \in Nat /\ Put(s) \in Nat
  BY FlowTypes
<1>3. \A x \in QueuedOf(s)' : EntryStart(x)' = EntryStart(Shift(i, x))
  BY DEF EntryStart, Start
<1>4. \A j \in DOMAIN handled'[s] : handled'[s][j] = Bytes(j - 1) + 1
  BY <1>1
<1>5. ASSUME NEW x \in QueuedOf(s)'
      PROVE  \E m \in Gone(s)'..(Put(s)' - 1) : EntryStart(x)' = Bytes(m) + 1
  <2>1. PICK m \in Gone(s)..(Put(s) - 1) : EntryStart(Shift(i, x)) = Bytes(m) + 1
    BY <1>1
  <2>2. m \in Nat /\ m <= Put(s) - 1 /\ Bytes(m) \in Nat /\ Bytes(g) \in Nat
    BY <1>2, <2>1, BytesAre
  <2>3. ~(Bytes(m) < Bytes(g))
    BY <2>1, <2>2
  <2>4. g <= m
    BY <2>2, <2>3, BytesApart
  <2>5. m \in Gone(s)'..(Put(s)' - 1)
    BY <1>2, <2>2, <2>4
  <2> QED BY <1>3, <2>1, <2>5
<1>6. ASSUME NEW m \in Gone(s)'..(Put(s)' - 1)
      PROVE  \E x \in QueuedOf(s)' : EntryStart(x)' = Bytes(m) + 1
  <2>1. m \in Nat /\ g <= m /\ m \in Gone(s)..(Put(s) - 1)
    BY <1>2
  <2>2. PICK x \in QueuedOf(s) : EntryStart(x) = Bytes(m) + 1
    BY <1>1, <2>1
  <2>3. Bytes(m) \in Nat /\ Bytes(g) \in Nat /\ ~(Bytes(m) < Bytes(g))
    BY <2>1, BytesAre, BytesApart
  <2>4. EntryStart(x) > Bytes(g)
    BY <2>2, <2>3
  <2>5. PICK z \in QueuedOf(s)' : Shift(i, z) = x
    BY <2>4
  <2> QED BY <1>3, <2>2, <2>5
<1>7. \A x, z \in QueuedOf(s)' : Before(x, z) => EntryStart(x)' < EntryStart(z)'
  BY <1>1, <1>3
<1> QED BY <1>4, <1>5, <1>6, <1>7 DEF InOrderOf, EntryStart, HandStart, Before, Bytes

LEMMA PopPacketInOrder ==
  ASSUME InOrder, PHInv, ServedInv, NEW i \in Threads, PopPacket(i),
         UNCHANGED <<worker, m_sessionRecvCountMap>>
  PROVE  InOrder'
<1>u. UNCHANGED <<content, handled, push>>
  BY DEF PopPacket, history
<1>1. PICK s \in Sessions, y \in Queued :
        /\ y = <<i, 1>> /\ y \in QueuedOf(s) /\ i = ThreadOf(s)
        /\ handler'[i].packet = Entry(y)[2]
        /\ InHand(s) = 0 /\ InHand(s)' = 1
        /\ \A t \in Sessions : t # s => InHand(t)' = InHand(t)
        /\ \A j \in Threads : j # i => handler'[j] = handler[j]
        /\ \A t \in Sessions : \A x \in QueuedOf(t)' :
             /\ Shift(i, x) \in QueuedOf(t) /\ Shift(i, x) # y
             /\ Entry(x)' = Entry(Shift(i, x))
        /\ \A t \in Sessions : \A x \in QueuedOf(t) :
             x # y => \E z \in QueuedOf(t)' : Shift(i, z) = x
        /\ \A x, z \in Queued' : x[1] = z[1] /\ x[2] < z[2] => Shift(i, x)[2] < Shift(i, z)[2]
        /\ \A x \in Queued : x # y /\ x[1] = i => x[2] > 1
  BY PopPacketFlow
<1>2. \A t \in Sessions : Put(t)' = Put(t)
  BY <1>u DEF Put, Batch, RecvCount, ThreadOf
<1>3. \A t \in Sessions : \A x, z \in QueuedOf(t)' : Before(x, z) => Before(Shift(i, x), Shift(i, z))
  <2> SUFFICES ASSUME NEW t \in Sessions, NEW x \in QueuedOf(t)', NEW z \in QueuedOf(t)', Before(x, z)
               PROVE  Before(Shift(i, x), Shift(i, z))
    OBVIOUS
  <2>1. Shift(i, x)[1] = ThreadOf(t) /\ Shift(i, z)[1] = ThreadOf(t)
    BY <1>1, FlowTypes
  <2>2. x[1] = z[1]
    BY <2>1 DEF Shift
  <2>3. x \in Queued' /\ z \in Queued'
    BY DEF QueuedOf
  <2> QED BY <1>1, <2>2, <2>3 DEF Before
<1>4. EntryStart(y) = Bytes(Gone(s)) + 1
  <2>1. \A x \in QueuedOf(s) : x # y => Before(y, x)
    BY <1>1, FlowTypes DEF Before
  <2> QED BY <1>1, <2>1, FirstIsNext
<1>5. /\ Gone(s) = Len(handled[s]) /\ Gone(s)' = Gone(s) + 1 /\ Gone(s) \in Nat
      /\ \A t \in Sessions : t # s => Gone(t)' = Gone(t)
  BY <1>u, <1>1, FlowTypes DEF Gone
<1>6. HandStart(s)' = Bytes(Len(handled'[s])) + 1
  BY <1>u, <1>1, <1>4, <1>5 DEF HandStart, EntryStart, Start, ThreadOf
<1>7. \A t \in Sessions : \A x \in QueuedOf(t) :
        \E m \in Gone(t)..(Put(t) - 1) : EntryStart(x) = Bytes(m) + 1
  BY InOrderOfIs DEF InOrder
<1>8. ASSUME NEW t \in Sessions, NEW x \in QueuedOf(t)
      PROVE  EntryStart(x) \in Nat /\ EntryStart(x) > Bytes(Gone(t)) /\ Bytes(Gone(t)) \in Nat
  <2>1. PICK m \in Gone(t)..(Put(t) - 1) : EntryStart(x) = Bytes(m) + 1
    BY <1>7
  <2>2. Gone(t) \in Nat /\ Put(t) \in Nat
    BY FlowTypes
  <2>3. m \in Nat /\ ~(m < Gone(t))
    BY <2>2
  <2>4. Bytes(m) \in Nat /\ Bytes(Gone(t)) \in Nat /\ ~(Bytes(m) < Bytes(Gone(t)))
    BY <2>2, <2>3, BytesAre, BytesApart
  <2> QED BY <2>1, <2>4
<1>9. ASSUME NEW t \in Sessions, t # s
      PROVE  InOrderOf(t)'
  <2>1. InOrderOf(t)
    BY DEF InOrder
  <2>2. y \notin QueuedOf(t)
    BY <1>1, <1>9 DEF QueuedOf
  <2>3. PICK g \in Nat : g = Gone(t)
    BY FlowTypes
  <2>4. InHand(t)' = 1 => HandStart(t)' = Bytes(Len(handled'[t])) + 1
    <3> SUFFICES ASSUME InHand(t)' = 1
                 PROVE  HandStart(t)' = Bytes(Len(handled'[t])) + 1
      OBVIOUS
    <3>1. InHand(t) = 1 /\ HandStart(t) = Bytes(Len(handled[t])) + 1
      BY <1>1, <1>9, <2>1, InOrderOfIs
    <3>2. handler'[ThreadOf(t)] = handler[ThreadOf(t)]
      <4>1. CASE ThreadOf(t) = i
        <5>1. handler'[i].session = t /\ handler'[i].session = s
          BY <1>1, <4>1 DEF InHand, ThreadOf
        <5> QED BY <1>9, <5>1
      <4>2. CASE ThreadOf(t) # i
        BY <1>1, <4>2, ThreadOfSession
      <4> QED BY <4>1, <4>2
    <3> QED BY <1>u, <3>1, <3>2 DEF HandStart, Start, ThreadOf
  <2>5. \A x \in QueuedOf(t)' : /\ Shift(i, x) \in QueuedOf(t)
                                /\ Entry(x)' = Entry(Shift(i, x))
                                /\ EntryStart(Shift(i, x)) > Bytes(g)
    BY <1>1, <1>8, <2>3
  <2>6. \A x \in QueuedOf(t) : EntryStart(x) > Bytes(g) => \E z \in QueuedOf(t)' : Shift(i, z) = x
    BY <1>1, <2>2
  <2>7. \A x, z \in QueuedOf(t)' : Before(x, z) => Before(Shift(i, x), Shift(i, z))
    BY <1>3
  <2>8. Put(t)' = Put(t) /\ Gone(t)' = g /\ g >= Gone(t) /\ handled'[t] = handled[t]
    BY <1>u, <1>2, <1>5, <1>9, <2>3
  <2> QED BY <1>u, <2>1, <2>4, <2>5, <2>6, <2>7, <2>8, InOrderOfShift
<1>10. InOrderOf(s)'
  <2>1. InOrderOf(s)
    BY DEF InOrder
  <2>2. PICK g \in Nat : g = Gone(s) + 1
    BY <1>5
  <2>3. Bytes(g) = Bytes(Gone(s)) + PacketSize /\ PacketSize \in Nat /\ PacketSize > 0
        /\ Bytes(Gone(s)) \in Nat
    BY <1>5, <2>2, BytesAre
  <2>4. ASSUME NEW x \in QueuedOf(s), x # y
        PROVE  EntryStart(x) > Bytes(g)
    <3>1. Before(y, x)
      BY <1>1, <2>4, FlowTypes DEF Before
    <3>2. EntryStart(y) < EntryStart(x)
      BY <1>1, <2>1, <3>1, InOrderOfIs
    <3>3. PICK m \in Gone(s)..(Put(s) - 1) : EntryStart(x) = Bytes(m) + 1
      BY <1>7
    <3>4. m \in Nat /\ Bytes(m) \in Nat
      <4>1. Put(s) \in Nat
        BY FlowTypes
      <4>2. m \in Nat
        BY <1>5, <4>1
      <4> QED BY <4>2, BytesAre
    <3>5. Bytes(Gone(s)) < Bytes(m)
      BY <1>4, <2>3, <3>2, <3>3, <3>4
    <3>6. Gone(s) < m
      BY <1>5, <3>4, <3>5, BytesApart
    <3>7. ~(Bytes(m) < Bytes(g))
      BY <1>5, <2>2, <3>4, <3>6, BytesApart
    <3>8. Bytes(g) \in Nat
      BY <2>2, BytesAre
    <3> QED BY <3>3, <3>4, <3>7, <3>8
  <2>5. \A x \in QueuedOf(s)' : /\ Shift(i, x) \in QueuedOf(s)
                                /\ Entry(x)' = Entry(Shift(i, x))
                                /\ EntryStart(Shift(i, x)) > Bytes(g)
    BY <1>1, <2>4
  <2>6. \A x \in QueuedOf(s) : EntryStart(x) > Bytes(g) => \E z \in QueuedOf(s)' : Shift(i, z) = x
    <3>1. ~(EntryStart(y) > Bytes(g))
      BY <1>4, <2>3
    <3> QED BY <1>1, <3>1
  <2>7. \A x, z \in QueuedOf(s)' : Before(x, z) => Before(Shift(i, x), Shift(i, z))
    BY <1>3
  <2>8. Put(s)' = Put(s) /\ Gone(s)' = g /\ g >= Gone(s) /\ handled'[s] = handled[s]
    BY <1>u, <1>2, <1>5, <2>2
  <2> QED BY <1>u, <1>6, <2>1, <2>5, <2>6, <2>7, <2>8, InOrderOfShift
<1> QED BY <1>9, <1>10 DEF InOrder

\* What is processed is the packet after those handled before.
LEMMA ProcessInOrder ==
  ASSUME InOrder, PHInv, ServedInv, NEW i \in Threads, ProcessHeader(i) \/ ProcessSequence(i),
         UNCHANGED <<worker, m_sessionRecvCountMap>>
  PROVE  InOrder'
<1>u. UNCHANGED <<m_packetQueue, content, push>>
  BY DEF ProcessHeader, ProcessSequence, queues
<1>1. PICK s \in Sessions :
        /\ i = ThreadOf(s) /\ handler[i].session = s /\ handler[i].packet \in Blocks
        /\ InHand(s) = 1
        /\ \A t \in Sessions : t # s => InHand(t)' = InHand(t) /\ handled'[t] = handled[t]
        /\ \A j \in Threads : handler'[j].packet = handler[j].packet
        /\ handled' \in [Sessions -> Seq(Nat)]
        /\ \/ InHand(s)' = 1 /\ UNCHANGED handled
           \/ /\ InHand(s)' = 0
              /\ handled'[s] = Append(handled[s], Start(handler[i].packet))
  BY ProcessFlow
<1>2. \A t \in Sessions : Put(t)' = Put(t)
  BY <1>u DEF Put, Batch, RecvCount, ThreadOf
<1>3. \A t \in Sessions : HandStart(t)' = HandStart(t)
  BY <1>u, <1>1, ThreadOfSession DEF HandStart, Start, ThreadOf
<1>4. \A t \in Sessions : QueuedOf(t)' = QueuedOf(t)
  BY <1>u, SameQueuedOf
<1>5. \A x : EntryStart(x)' = EntryStart(x)
  BY <1>u DEF EntryStart, Entry, Start
<1>6. ASSUME NEW t \in Sessions, t # s \/ (InHand(s)' = 1 /\ UNCHANGED handled)
      PROVE  InOrderOf(t)'
  <2>1. handled'[t] = handled[t] /\ InHand(t)' = InHand(t)
    BY <1>1, <1>6
  <2> QED BY <1>2, <1>3, <1>4, <1>5, <2>1, InOrderOfSame DEF InOrder
<1>7. ASSUME InHand(s)' = 0, handled'[s] = Append(handled[s], Start(handler[i].packet))
      PROVE  InOrderOf(s)'
  <2> DEFINE h == handled[s]
  <2>1. /\ \A j \in DOMAIN h : h[j] = Bytes(j - 1) + 1
        /\ HandStart(s) = Bytes(Len(h)) + 1
        /\ \A x \in QueuedOf(s) : \E m \in Gone(s)..(Put(s) - 1) : EntryStart(x) = Bytes(m) + 1
        /\ \A m \in Gone(s)..(Put(s) - 1) : \E x \in QueuedOf(s) : EntryStart(x) = Bytes(m) + 1
        /\ \A x, y \in QueuedOf(s) : Before(x, y) => EntryStart(x) < EntryStart(y)
    BY <1>1, InOrderOfIs DEF InOrder
  <2>2. handled'[s] = Append(h, HandStart(s)) /\ h \in Seq(Nat)
    <3>1. Start(handler[i].packet) = HandStart(s)
      BY <1>1 DEF HandStart
    <3>2. h \in Seq(Nat)
      BY DEF PHInv, PHTypeOK
    <3> QED BY <1>7, <3>1, <3>2
  <2>3. PICK a : a = HandStart(s)
    OBVIOUS
  <2>h. a \in Nat
    <3>1. Len(h) \in Nat
      BY <2>2
    <3>2. Bytes(Len(h)) \in Nat
      BY <3>1, BytesAre
    <3> QED BY <2>1, <2>3, <3>2
  <2> HIDE DEF h
  <2>4. /\ Len(handled'[s]) = Len(h) + 1 /\ Len(h) \in Nat
        /\ DOMAIN handled'[s] = 1..(Len(h) + 1) /\ DOMAIN h = 1..Len(h)
        /\ handled'[s][Len(h) + 1] = a
        /\ \A j \in 1..Len(h) : handled'[s][j] = h[j]
    BY <2>2, <2>3, <2>h
  <2>5. \A j \in DOMAIN handled'[s] : handled'[s][j] = Bytes(j - 1) + 1
    <3> SUFFICES ASSUME NEW j \in 1..(Len(h) + 1) PROVE handled'[s][j] = Bytes(j - 1) + 1
      BY <2>4
    <3>1. CASE j \in 1..Len(h)
      BY <2>1, <2>4, <3>1
    <3>2. CASE j = Len(h) + 1
      <4>1. j - 1 = Len(h)
        BY <2>4, <3>2
      <4> QED BY <2>1, <2>3, <2>4, <3>2, <4>1
    <3> QED BY <2>4, <3>1, <3>2
  <2>6. Gone(s)' = Gone(s)
    BY <1>1, <1>7, <2>4 DEF Gone, h
  <2>7. \A x \in QueuedOf(s)' : \E m \in Gone(s)'..(Put(s)' - 1) : EntryStart(x)' = Bytes(m) + 1
    BY <1>2, <1>4, <1>5, <2>1, <2>6
  <2>8. \A m \in Gone(s)'..(Put(s)' - 1) : \E x \in QueuedOf(s)' : EntryStart(x)' = Bytes(m) + 1
    BY <1>2, <1>4, <1>5, <2>1, <2>6
  <2>9. \A x, y \in QueuedOf(s)' : Before(x, y) => EntryStart(x)' < EntryStart(y)'
    BY <1>4, <1>5, <2>1
  <2>10. ~(InHand(s)' = 1)
    BY <1>7
  <2> QED BY <2>5, <2>7, <2>8, <2>9, <2>10 DEF InOrderOf, EntryStart, HandStart, Before, Bytes
<1> QED BY <1>1, <1>6, <1>7 DEF InOrder

\* The other steps of the workers and of the connections.
LEMMA WorkerInOrder ==
  ASSUME InOrder, PHInv, ServedInv, Counts, NEW i \in Threads,
         \/ TakeTask(i) \/ GetUseSize(i) \/ Pop(i) \/ ReadRecvCount(i)
         \/ InPushPacket(i) /\ PushReturn(i)
         \/ AddRecvCount(i)
  PROVE  InOrder'
<1>u. UNCHANGED <<m_packetQueue, handled, handler, content>>
  BY DEF TakeTask, GetUseSize, Pop, ReadRecvCount, AddRecvCount, PushReturn, phVars, queues, history
<1>1. ASSUME NEW s \in Sessions
      PROVE  Put(s)' = Put(s)
  <2>1. CASE AddRecvCount(i)
    BY <2>1, AddRecvCountPut
  <2>2. CASE ~AddRecvCount(i)
    <3>1. UNCHANGED m_sessionRecvCountMap
      BY <2>2 DEF TakeTask, GetUseSize, Pop, ReadRecvCount, InPushPacket, counts
    <3>2. Batch(s)' = Batch(s)
      BY <2>2, WorkerFlow DEF InPushPacket
    <3> QED BY <3>1, <3>2, SameRecvCount DEF Put
  <2> QED BY <2>1, <2>2
<1> QED BY <1>u, <1>1, InOrderUntouched

LEMMA TakePacketInOrder ==
  ASSUME InOrder, PHInv, ServedInv, NEW i \in Threads, TakePacket(i),
         UNCHANGED <<worker, m_sessionRecvCountMap>>
  PROVE  InOrder'
<1>i. PHTypeOK /\ InPlace /\ Apart
  BY DEF PHInv
<1>u. UNCHANGED <<m_packetQueue, handler, handled>>
  BY DEF TakePacket, history
<1>1. PICK b : /\ b # Null
               /\ \A c \in Blocks : c # b => content'[c] = content[c]
               /\ \/ m_recvPacketPool # <<>> /\ b = Head(m_recvPacketPool)
                  \/ b \notin Blocks
  BY <1>i, TakePacketStep
<1>2. b \in Blocks => \E j \in DOMAIN m_recvPacketPool : m_recvPacketPool[j] = b
  <2> SUFFICES ASSUME m_recvPacketPool # <<>>, b = Head(m_recvPacketPool)
               PROVE  \E j \in DOMAIN m_recvPacketPool : m_recvPacketPool[j] = b
    BY <1>1
  <2>1. m_recvPacketPool \in Seq(Blocks)
    BY <1>i DEF PHTypeOK
  <2>2. 1 \in DOMAIN m_recvPacketPool /\ m_recvPacketPool[1] = Head(m_recvPacketPool)
    BY <2>1
  <2> QED BY <2>2
<1>3. \A x \in Queued : Entry(x)[2] # b
  BY <1>i, <1>2, QueuedIs DEF Apart
<1>4. \A j \in Threads : handler[j].packet # b
  BY <1>i, <1>1, <1>2 DEF Apart, PHTypeOK
<1>5. \A s \in Sessions : Put(s)' = Put(s) /\ InHand(s)' = InHand(s)
  BY <1>u, WorkerFlow, SameRecvCount, SameGone DEF Put
<1>6. \A s \in Sessions : InHand(s) = 1 =>
        /\ handler'[ThreadOf(s)].packet = handler[ThreadOf(s)].packet
        /\ handler[ThreadOf(s)].packet # b
  BY <1>u, <1>4, ThreadOfSession
<1> QED BY <1>u, <1>1, <1>3, <1>5, <1>6, InOrderOtherBlock

LEMMA IdleInOrder ==
  ASSUME InOrder, PHInv, ServedInv, NEW i \in Threads, CheckQueue(i) \/ Recycle(i),
         UNCHANGED <<worker, m_sessionRecvCountMap>>
  PROVE  InOrder'
<1>i. PHTypeOK /\ InPlace /\ Apart
  BY DEF PHInv
<1>u. UNCHANGED <<m_packetQueue, push, handled>>
  BY DEF CheckQueue, Recycle, queues, history
<1>1. PICK b : b = handler[i].packet
  OBVIOUS
<1>2. \A j \in Threads : j # i => handler'[j] = handler[j]
  BY <1>i, CheckQueueStep, RecycleStep
<1>3. handler[i].pc \notin {"process", "seq"}
  BY <1>i, CheckQueueStep, RecycleStep
<1>4. \A c \in Blocks : c # b => content'[c] = content[c]
  BY <1>i, <1>1, RecycleStep DEF CheckQueue
<1>5. \A x \in Queued : Entry(x)[2] # b
  BY <1>i, <1>1 DEF Apart
<1>6. \A s \in Sessions : Put(s)' = Put(s)
  BY <1>u DEF Put, Batch, RecvCount, ThreadOf
<1>7. \A s \in Sessions : InHand(s)' = InHand(s)
  BY IdleFlow
<1>8. ASSUME NEW s \in Sessions, InHand(s) = 1
      PROVE  /\ handler'[ThreadOf(s)].packet = handler[ThreadOf(s)].packet
             /\ handler[ThreadOf(s)].packet # b
  <2>1. PICK j \in Threads : j = ThreadOf(s)
    BY ThreadOfSession
  <2>2. j # i /\ Holding(j)
    BY <1>3, <1>8, <2>1 DEF InHand, Holding
  <2>3. handler[j].packet # b
    BY <1>i, <1>1, <2>2 DEF Apart, InPlace
  <2> QED BY <1>2, <2>1, <2>2, <2>3
<1> QED BY <1>u, <1>4, <1>5, <1>6, <1>7, <1>8, InOrderOtherBlock

-----------------------------------------------------------------------------
(* The inductive invariant.                                                *)

LEMMA InitPathInv ==
  ASSUME Init
  PROVE  PathInv
<1>0. PHInv
  BY PHInitInv DEF Init
<1>1. /\ conn = [s \in Sessions |-> "waiting"]
      /\ stored = [s \in Sessions |-> 0] /\ popped = [s \in Sessions |-> 0]
      /\ m_netTaskQueue = [i \in Threads |-> <<>>]
      /\ worker = [i \in Threads |-> InitWorker(i)]
      /\ m_sessionRecvCountMap = [s \in {} |-> 0] /\ m_totalCount = 0
  BY DEF Init
<1>2. /\ m_packetQueue = [i \in Threads |-> <<>>] /\ push = [i \in Threads |-> InitPush(i)]
      /\ handler = [i \in Threads |-> InitHandler(i)] /\ handled = [s \in Sessions |-> <<>>]
  BY DEF Init, PHInit
<1>3. \A i \in Threads : /\ worker[i] \in WorkerRecord
                         /\ worker[i].pc = "poll" /\ worker[i].session = NoSession
                         /\ push[i] = InitPush(i) /\ push[i].pc = "idle" /\ push[i].recvSize = 0
  BY <1>1, <1>2, InitWorkerIs, InitPushIs
<1>4. \A s \in Sessions : worker[ThreadOf(s)].session # s
  BY <1>3, ThreadOfSession
<1>5. ReceiveTypeOK
  BY <1>1, <1>3 DEF ReceiveTypeOK, WorkerRecord
<1>6. OneThread
  BY <1>1, <1>3 DEF OneThread
<1>7. Fetched
  BY <1>1, <1>4 DEF Fetched
<1>8. \A s \in Sessions : RecvCount(s) = 0 /\ Put(s) = 0
  BY <1>1, <1>4 DEF Put, RecvCount, Batch
<1>9. \A s \in Sessions : InHand(s) = 0
  BY <1>2, ThreadOfSession DEF InHand, InitHandler
<1>10. \A s \in Sessions : QueuedOf(s) = {}
  BY <1>2 DEF QueuedOf, Queued
<1>11. Counts
  <2>1. \A s \in Sessions : Put(s) = Gone(s) + Cardinality(QueuedOf(s))
    <3> SUFFICES ASSUME NEW s \in Sessions PROVE Put(s) = Gone(s) + Cardinality(QueuedOf(s))
      OBVIOUS
    <3>1. Gone(s) = 0
      BY <1>2, <1>9 DEF Gone
    <3>2. Cardinality(QueuedOf(s)) = 0
      BY <1>10, FS_EmptySet
    <3> QED BY <1>8, <3>1, <3>2
  <2>2. Counted = {}
    BY <1>8 DEF Counted
  <2>3. IsFiniteSet(Counted) /\ m_totalCount = Cardinality(Counted)
    BY <1>1, <2>2, FS_EmptySet
  <2> QED BY <1>3, <2>1, <2>3 DEF Counts
<1>12. Aligned
  <2>1. Bytes(0) = 0 /\ Whole(0)
    BY BytesAre, WholePacket
  <2>2. \A s \in Sessions : AlignedAt(s)
    BY <1>1, <1>4, <1>8, <2>1 DEF AlignedAt
  <2>3. \A i \in Threads : AlignedThread(i)
    BY <1>3, <2>1 DEF AlignedThread
  <2> QED BY <2>2, <2>3 DEF Aligned
<1>13. InOrder
  <2> SUFFICES ASSUME NEW s \in Sessions PROVE InOrderOf(s)
    BY DEF InOrder
  <2>1. Gone(s) = 0 /\ handled[s] = <<>>
    BY <1>2, <1>9 DEF Gone
  <2>2. Gone(s)..(Put(s) - 1) = {}
    BY <1>8, <2>1
  <2> QED BY <1>9, <1>10, <2>1, <2>2 DEF InOrderOf
<1> QED BY <1>0, <1>5, <1>6, <1>7, <1>11, <1>12, <1>13 DEF PathInv

\* The steps that touch neither the packet handler nor the counts.
LEMMA ConnCounts ==
  ASSUME Counts, UNCHANGED <<m_packetQueue, push, handler, handled, worker, counts>>
  PROVE  Counts' /\ \A s \in Sessions : Put(s)' = Put(s)
<1>1. \A s \in Sessions : Batch(s)' = Batch(s) /\ Gone(s)' = Gone(s)
  BY SameGone DEF Batch, ThreadOf
<1>2. \A i \in Threads : worker'[i].pc = "count" =>
        worker'[i].count = RecvCount(worker'[i].session)
  BY DEF Counts
<1>3. \A s \in Sessions : Put(s)' = Put(s)
  BY <1>1, SameRecvCount DEF Put, counts
<1> QED BY <1>1, <1>2, <1>3, CountsSame

LEMMA ConnStep ==
  ASSUME PHInv, ServedInv, Counts, WholePackets => Aligned /\ InOrder, NEW s \in Sessions,
         Accept(s) \/ OnRead(s) \/ PushTask(s) \/ ReadError(s)
  PROVE  ServedInv' /\ Counts' /\ (WholePackets => Aligned' /\ InOrder')
<1>u. UNCHANGED <<m_packetQueue, push, handler, handled, content, worker, counts, popped>>
  BY DEF Accept, OnRead, PushTask, ReadError, phVars, queues, history, ring
<1>1. ServedInv'
  <2>1. CASE OnRead(s)
    BY <2>1, OnReadServed
  <2>2. CASE PushTask(s)
    BY <2>2, PushTaskServed
  <2>3. CASE Accept(s) \/ ReadError(s)
    <3>1. conn \in [Sessions -> {"waiting", "reading", "task", "closed"}]
      BY DEF ServedInv, ReceiveTypeOK
    <3>2. /\ UNCHANGED <<stored, popped, m_netTaskQueue, worker, counts, push>>
          /\ conn[s] # "task"
          /\ \E c \in {"reading", "closed"} : conn' = [conn EXCEPT ![s] = c]
      BY <2>3 DEF Accept, ReadError, phVars, ring
    <3>3. /\ conn' \in [Sessions -> {"waiting", "reading", "task", "closed"}]
          /\ \A t \in Sessions : conn'[t] = "task" <=> conn[t] = "task"
      BY <3>1, <3>2
    <3> QED BY <3>2, <3>3, OthersServed
  <2> QED BY <2>1, <2>2, <2>3
<1>2. Counts' /\ \A t \in Sessions : Put(t)' = Put(t)
  BY <1>u, ConnCounts
<1>3. ASSUME WholePackets
      PROVE  Aligned' /\ InOrder'
  <2>1. Aligned'
    <3>1. CASE OnRead(s)
      BY <1>3, <3>1, OnReadAligned
    <3>2. CASE ~OnRead(s)
      <4>1. UNCHANGED stored
        BY <3>2 DEF Accept, PushTask, ReadError, ring
      <4> QED BY <1>u, <1>2, <1>3, <4>1, AlignedSame
    <3> QED BY <3>1, <3>2
  <2>2. InOrder'
    BY <1>u, <1>2, <1>3, InOrderUntouched
  <2> QED BY <2>1, <2>2
<1> QED BY <1>1, <1>2, <1>3

LEMMA ProcessStep ==
  ASSUME PHInv, ServedInv, Counts, WholePackets => Aligned /\ InOrder, NEW i \in Threads,
         Process(i)
  PROVE  ServedInv' /\ Counts' /\ (WholePackets => Aligned' /\ InOrder')
<1>1. CASE TakeTask(i)
  BY <1>1, TakeTaskServed, WorkerCounts, TakeTaskAligned, WorkerInOrder
<1>2. CASE GetUseSize(i)
  BY <1>2, GetUseSizeServed, WorkerCounts, GetUseSizeAligned, WorkerInOrder
<1>3. CASE Pop(i)
  BY <1>3, PopServed, WorkerCounts, PopAligned, WorkerInOrder
<1>4. CASE ReadRecvCount(i)
  BY <1>4, ReadRecvCountServed, WorkerCounts, CountAligned, WorkerInOrder
<1>5. CASE AddRecvCount(i)
  <2>1. worker[i].count = RecvCount(worker[i].session)
    BY <1>5 DEF AddRecvCount, Counts
  <2> QED BY <1>5, <2>1, AddRecvCountServed, AddRecvCountCounts, CountAligned, WorkerInOrder
<1>6. CASE InPushPacket(i)
  <2>u. UNCHANGED <<stored, popped, worker, counts, m_sessionRecvCountMap>>
    BY <1>6 DEF InPushPacket, ring, counts
  <2>1. ServedInv'
    BY <1>6, PushingServed
  <2>2. CASE TakePacket(i)
    <3>1. ~PutPacket(i)
      BY <2>2 DEF TakePacket, PutPacket
    <3> QED BY <1>6, <2>u, <2>1, <2>2, <3>1, WorkerCounts, TakePacketAligned, TakePacketInOrder
  <2>3. CASE PutPacket(i)
    BY <2>u, <2>1, <2>3, PutPacketCounts, PutPacketAligned, PutPacketInOrder
  <2>4. CASE PushReturn(i)
    <3>1. ~PutPacket(i)
      BY <2>4 DEF PushReturn, PutPacket
    <3> QED BY <1>6, <2>u, <2>1, <2>4, <3>1, WorkerCounts, PushReturnAligned, WorkerInOrder
  <2> QED BY <1>6, <2>2, <2>3, <2>4 DEF InPushPacket, Pushing
<1> QED BY <1>1, <1>2, <1>3, <1>4, <1>5, <1>6 DEF Process

LEMMA HandlerStep ==
  ASSUME PHInv, ServedInv, Counts, WholePackets => Aligned /\ InOrder, NEW i \in Threads,
         ProcessHandler(i)
  PROVE  ServedInv' /\ Counts' /\ (WholePackets => Aligned' /\ InOrder')
<1>u. UNCHANGED <<conn, stored, popped, m_netTaskQueue, worker, counts, m_sessionRecvCountMap>>
  BY DEF ProcessHandler, ring, counts
<1>1. Update(i) /\ UNCHANGED push
  BY DEF ProcessHandler, Update, CheckQueue, PopPacket, ProcessHeader, ProcessSequence, Recycle
<1>2. ServedInv'
  <2>1. conn' \in [Sessions -> {"waiting", "reading", "task", "closed"}]
    BY <1>u DEF ServedInv, ReceiveTypeOK
  <2> QED BY <1>u, <1>1, <2>1, OthersServed
<1>3. Counts'
  BY <1>u, <1>1, PopPacketCounts, HandlerCounts DEF Update
<1>4. \A s \in Sessions : Put(s)' = Put(s)
  BY <1>u, <1>1 DEF Put, Batch, RecvCount, ThreadOf
<1>5. ASSUME WholePackets
      PROVE  Aligned' /\ InOrder'
  <2>1. Aligned'
    BY <1>u, <1>1, <1>4, <1>5, AlignedSame
  <2>2. InOrder'
    BY <1>u, <1>1, <1>5, PopPacketInOrder, ProcessInOrder, IdleInOrder DEF Update
  <2> QED BY <2>1, <2>2
<1> QED BY <1>2, <1>3, <1>5

LEMMA PathInvNext ==
  ASSUME PathInv, [Next]_vars
  PROVE  PathInv'
<1>i. PHInv /\ ServedInv /\ Counts /\ (WholePackets => Aligned /\ InOrder)
  BY DEF PathInv, ServedInv
<1>1. PHInv'
  BY <1>i, PHInvNext
<1>2. ServedInv' /\ Counts' /\ (WholePackets => Aligned' /\ InOrder')
  <2>1. CASE UNCHANGED vars
    <3>u. UNCHANGED <<m_packetQueue, push, handler, handled, content, worker, counts, stored,
                      popped, m_netTaskQueue, conn>>
      BY <2>1 DEF vars, phVars, queues, history, ring
    <3>1. ServedInv'
      <4>1. conn' \in [Sessions -> {"waiting", "reading", "task", "closed"}]
        BY <1>i, <3>u DEF ServedInv, ReceiveTypeOK
      <4> QED BY <1>i, <3>u, <4>1, OthersServed
    <3>2. Counts' /\ \A s \in Sessions : Put(s)' = Put(s)
      BY <1>i, <3>u, ConnCounts
    <3> QED BY <1>i, <3>u, <3>1, <3>2, AlignedSame, InOrderUntouched
  <2>2. CASE Next
    BY <1>i, <2>2, ConnStep, ProcessStep, HandlerStep DEF Next
  <2> QED BY <2>1, <2>2
<1> QED BY <1>1, <1>2 DEF PathInv, ServedInv

-----------------------------------------------------------------------------
(* What follows from it.                                                   *)

LEMMA ServedOnce ==
  ASSUME PHInv, ServedInv
  PROVE  OneWorkerPerSession
<1> SUFFICES ASSUME NEW i \in Threads, NEW j \in Threads, i # j
             PROVE  Serving(i) \cap Serving(j) = {}
  BY DEF OneWorkerPerSession
<1>1. \A k \in Threads : Serving(k) # {} => Serving(k) = {worker[k].session} /\ ThreadOf(worker[k].session) = k
  BY ServingIs DEF Serving
<1> QED BY <1>1

LEMMA NoneStranded ==
  ASSUME PHInv, ServedInv
  PROVE  NoStrandedBytes
<1> SUFFICES ASSUME NEW s \in Sessions, conn[s] # "task",
                    \A i \in Threads : /\ s \notin Serving(i)
                                       /\ \A j \in DOMAIN m_netTaskQueue[i] : m_netTaskQueue[i][j] # s
             PROVE  stored[s] = popped[s]
  BY DEF NoStrandedBytes
<1>1. ~HasTask(s)
  BY DEF HasTask
<1>2. PICK i \in Threads : i = ThreadOf(s)
  BY ThreadOfSession
<1>3. worker[i].pc = "poll" \/ worker[i].session # s
  BY DEF Serving
<1>4. ReceiveTypeOK /\ OneThread /\ Fetched
  BY DEF ServedInv
<1> QED BY <1>1, <1>2, <1>3, <1>4 DEF Fetched

\* What is in a handler's hands is one packet of its session, or none.
HandsOf(s) ==
  {x \in Threads \X {0} : handler[x[1]].pc \in {"process", "seq"} /\ handler[x[1]].session = s}

LEMMA CardinalityOfHands ==
  ASSUME PHInv, ServedInv, NEW s \in Sessions
  PROVE  IsFiniteSet(HandsOf(s)) /\ Cardinality(HandsOf(s)) = InHand(s)
<1>1. PICK i \in Threads : i = ThreadOf(s)
  BY ThreadOfSession
<1>2. ASSUME NEW x \in HandsOf(s)
      PROVE  x = <<i, 0>> /\ InHand(s) = 1
  <2>1. /\ x[1] \in Threads /\ x = <<x[1], 0>>
        /\ handler[x[1]].pc \in {"process", "seq"} /\ handler[x[1]].session = s
    BY DEF HandsOf
  <2>2. ThreadOf(handler[x[1]].session) = x[1]
    BY <2>1 DEF PHInv, InPlace, Holding
  <2> QED BY <1>1, <2>1, <2>2 DEF InHand
<1>3. CASE InHand(s) = 1
  <2>1. <<i, 0>> \in HandsOf(s)
    BY <1>1, <1>3 DEF InHand, HandsOf
  <2>2. HandsOf(s) = {<<i, 0>>}
    BY <1>2, <2>1
  <2> QED BY <1>3, <2>2, FS_Singleton
<1>4. CASE InHand(s) = 0
  <2>1. HandsOf(s) = {}
    BY <1>2, <1>4
  <2> QED BY <1>4, <2>1, FS_EmptySet
<1> QED BY <1>3, <1>4, FlowTypes

LEMMA CountsExact ==
  ASSUME PHInv, ServedInv, Counts
  PROVE  RecvCountsExact
<1>1. ASSUME NEW s \in Sessions, \A i \in Threads : s \notin Serving(i)
      PROVE  RecvCount(s) = Len(handled[s]) + Cardinality(InFlight(s))
  <2>1. Batch(s) = 0
    <3>1. PICK i \in Threads : i = ThreadOf(s)
      BY ThreadOfSession
    <3>2. worker[i].pc = "poll" \/ worker[i].session # s
      BY <1>1 DEF Serving
    <3> QED BY <3>1, <3>2 DEF Batch
  <2>2. InFlight(s) = QueuedOf(s) \cup HandsOf(s)
    BY DEF InFlight, QueuedOf, HandsOf
  <2>3. QueuedOf(s) \cap HandsOf(s) = {}
    <3> SUFFICES ASSUME NEW x \in QueuedOf(s), x \in HandsOf(s) PROVE FALSE
      OBVIOUS
    <3>1. x[2] \in 1..Len(m_packetQueue[x[1]]) /\ x[1] \in Threads
      BY QueuedIs DEF QueuedOf, PHInv
    <3>2. x[2] = 0
      BY DEF HandsOf
    <3> QED BY <3>1, <3>2
  <2>4. /\ IsFiniteSet(QueuedOf(s)) /\ Cardinality(QueuedOf(s)) \in Nat
        /\ IsFiniteSet(HandsOf(s)) /\ Cardinality(HandsOf(s)) = InHand(s)
    BY FlowTypes, CardinalityOfHands
  <2>5. Cardinality(InFlight(s)) = Cardinality(QueuedOf(s)) + InHand(s)
    <3>1. Cardinality(QueuedOf(s) \cup HandsOf(s)) =
            Cardinality(QueuedOf(s)) + Cardinality(HandsOf(s)) - Cardinality(QueuedOf(s) \cap HandsOf(s))
      BY <2>4, FS_Union
    <3>2. Cardinality(QueuedOf(s) \cap HandsOf(s)) = 0
      BY <2>3, FS_EmptySet
    <3>3. InHand(s) \in Nat
      BY FlowTypes
    <3> QED BY <2>2, <2>4, <3>1, <3>2, <3>3
  <2>6. /\ RecvCount(s) \in Nat /\ Len(handled[s]) \in Nat /\ InHand(s) \in Nat
        /\ RecvCount(s) + Batch(s) = (Len(handled[s]) + InHand(s)) + Cardinality(QueuedOf(s))
    BY FlowTypes DEF Counts, Put, Gone
  <2> QED BY <2>1, <2>4, <2>5, <2>6
<1>2. m_totalCount = Cardinality(UNION {{s} \X (1..RecvCount(s)) : s \in Sessions})
  BY DEF Counts, Counted
<1> QED BY <1>1, <1>2 DEF RecvCountsExact

\* The first bytes of the packets handled, in terms of the peer's packets.
LEMMA HandledAligned ==
  ASSUME PHInv, InOrder
  PROVE  PacketsAligned
<1> SUFFICES ASSUME NEW s \in Sessions, NEW j \in DOMAIN handled[s]
             PROVE  handled[s][j] = (j - 1) * PacketSize + 1
  BY DEF PacketsAligned
<1>1. handled[s][j] = Bytes(j - 1) + 1
  BY InOrderOfIs DEF InOrder
<1> QED BY <1>1 DEF Bytes

\* What is handled has arrived, also the packet in the handler's hands.
LEMMA GoneHasArrived ==
  ASSUME PHInv, ServedInv, Counts, Aligned, NEW s \in Sessions
  PROVE  Bytes(Gone(s)) <= stored[s] /\ Bytes(Gone(s)) \in Nat /\ stored[s] \in Nat
<1>1. Put(s) = Gone(s) + Cardinality(QueuedOf(s)) /\ Gone(s) \in Nat /\ Put(s) \in Nat
      /\ Cardinality(QueuedOf(s)) \in Nat
  BY FlowTypes DEF Counts
<1>2. Bytes(Gone(s)) \in Nat /\ Bytes(Put(s)) \in Nat /\ ~(Bytes(Put(s)) < Bytes(Gone(s)))
  BY <1>1, BytesAre, BytesApart
<1>3. stored[s] \in Nat /\ popped[s] \in Nat /\ popped[s] <= stored[s]
  BY DEF ServedInv, ReceiveTypeOK, Fetched
<1>4. Bytes(Put(s)) <= popped[s]
  <2>1. PICK i \in Threads : i = ThreadOf(s)
    BY ThreadOfSession
  <2>2. push[i].recvSize \in Nat
    BY DEF PHInv, PHTypeOK
  <2>3. popped[s] = Bytes(Put(s)) \/ popped[s] = Bytes(Put(s)) + push[i].recvSize
    BY <2>1 DEF Aligned, AlignedAt
  <2> QED BY <1>2, <2>2, <2>3
<1> QED BY <1>2, <1>3, <1>4

\* A step that stores bytes is Arrive, one that ends Process is Handle.
LEMMA ChannelStep ==
  ASSUME PathInv, WholePackets, [Next]_vars
  PROVE  [Channel!Next]_(Channel!vars)
<1>i. PHInv /\ ServedInv /\ Counts /\ Aligned /\ InOrder
  BY DEF PathInv, ServedInv
<1>1. ASSUME NEW s \in Sessions, OnRead(s)
      PROVE  Channel!Arrive(s)
  <2>1. PICK n \in 1..(Len(stream[s]) * PacketSize - stored[s]) :
          stored' = [stored EXCEPT ![s] = @ + n]
    BY <1>1 DEF OnRead
  <2>2. stored \in [Sessions -> Nat] /\ stored[s] \in Nat
    BY <1>i DEF ServedInv, ReceiveTypeOK
  <2>3. n \in Nat /\ n > 0
    <3>1. Len(stream[s]) * PacketSize \in Int
      <4>1. Len(stream[s]) \in Nat
        BY <1>i DEF PHInv, PHTypeOK
      <4> QED BY <4>1, PacketHandlerAssumption
    <3> QED BY <2>2, <3>1
  <2>4. stored'[s] = stored[s] + n /\ stored' = [stored EXCEPT ![s] = stored'[s]]
    BY <2>1, <2>2
  <2>5. UNCHANGED handled
    BY <1>1 DEF OnRead, phVars, history
  <2> QED BY <2>2, <2>3, <2>4, <2>5 DEF Channel!Arrive
<1>2. ASSUME NEW i \in Threads, ProcessHandler(i), ProcessHeader(i) \/ ProcessSequence(i)
      PROVE  UNCHANGED <<stored, handled>> \/ \E s \in Sessions : Channel!Handle(s)
  <2>1. PICK s \in Sessions :
          /\ i = ThreadOf(s) /\ handler[i].session = s /\ InHand(s) = 1
          /\ \/ InHand(s)' = 1 /\ UNCHANGED handled
             \/ /\ InHand(s)' = 0
                /\ handled' = [handled EXCEPT ![s] = Append(handled[s], Start(handler[i].packet))]
    BY <1>i, <1>2, ProcessFlow
  <2>2. UNCHANGED stored
    BY <1>2 DEF ProcessHandler, ring
  <2>3. ASSUME handled' = [handled EXCEPT ![s] = Append(handled[s], Start(handler[i].packet))]
        PROVE  Channel!Handle(s)
    <3>1. Start(handler[i].packet) = Bytes(Len(handled[s])) + 1
      BY <1>i, <2>1, InOrderOfIs DEF InOrder, HandStart
    <3>2. Bytes(Len(handled[s])) + PacketSize <= stored[s]
      <4>1. Gone(s) = Len(handled[s]) + 1 /\ Len(handled[s]) \in Nat
        BY <1>i, <2>1, FlowTypes DEF Gone
      <4>2. PICK n \in Nat : n = Len(handled[s])
        BY <4>1
      <4>3. Bytes(n + 1) = Bytes(n) + PacketSize
        BY BytesAre
      <4>4. Bytes(n + 1) <= stored[s]
        BY <1>i, <4>1, <4>2, GoneHasArrived
      <4> QED BY <4>2, <4>3, <4>4
    <3>3. handled' = [handled EXCEPT ![s] = Append(handled[s], Bytes(Len(handled[s])) + 1)]
      BY <2>3, <3>1
    <3> QED BY <2>2, <3>2, <3>3 DEF Channel!Handle, Bytes
  <2> QED BY <2>1, <2>2, <2>3
<1>3. ASSUME NEW s \in Sessions, Accept(s) \/ PushTask(s) \/ ReadError(s)
      PROVE  UNCHANGED <<stored, handled>>
  BY <1>3 DEF Accept, PushTask, ReadError, phVars, history, ring
<1>4. ASSUME NEW i \in Threads, Process(i)
      PROVE  UNCHANGED <<stored, handled>>
  BY <1>4 DEF Process, TakeTask, GetUseSize, Pop, InPushPacket, Pushing, TakePacket, PutPacket,
              PushReturn, ReadRecvCount, AddRecvCount, phVars, history, ring
<1>5. ASSUME NEW i \in Threads, ProcessHandler(i), CheckQueue(i) \/ PopPacket(i) \/ Recycle(i)
      PROVE  UNCHANGED <<stored, handled>>
  BY <1>5 DEF ProcessHandler, CheckQueue, PopPacket, Recycle, history, ring
<1>6. CASE UNCHANGED vars
  BY <1>6 DEF vars, phVars, history, ring, Channel!vars
<1>7. CASE \E s \in Sessions : OnRead(s)
  BY <1>1, <1>7 DEF Channel!Next
<1>8. CASE UNCHANGED <<stored, handled>>
  BY <1>8 DEF Channel!vars
<1>9. CASE \E s \in Sessions : Channel!Handle(s)
  BY <1>9 DEF Channel!Next
<1> QED BY <1>2, <1>3, <1>4, <1>5, <1>6, <1>7, <1>8, <1>9 DEF Next, ProcessHandler, Update

-----------------------------------------------------------------------------
\* Queues, blocks, workers, counts and cursors of the receive path stay in step.
THEOREM PathInvariant == Spec => []PathInv
<1>1. Init => PathInv
  BY InitPathInv
<1>2. PathInv /\ [Next]_vars => PathInv'
  BY PathInvNext
<1> QED BY <1>1, <1>2, PTL DEF Spec

\* The types of the packet handler's state.
THEOREM ReceiveTypes == Spec => []PHTypeOK
<1>1. PathInv => PHTypeOK
  BY DEF PathInv, PHInv
<1> QED BY <1>1, PathInvariant, PTL

\* Every packet block has one owner: the pool, a worker, a queue or a handler
\* thread (LpPacketHandler.cpp:50-54, 159-168).
THEOREM BlocksHaveOneOwner == Spec => []OneOwner
<1>1. PathInv => OneOwner
  BY PHInvOneOwner DEF PathInv
<1> QED BY <1>1, PathInvariant, PTL

\* Update never processes nullptr (LpPacketHandler.cpp:48-54).
THEOREM PacketsAreNotNull == Spec => []NoNullPacket
<1>1. PathInv => NoNullPacket
  BY PHInvNoNullPacket DEF PathInv
<1> QED BY <1>1, PathInvariant, PTL

\* No two workers serve one session at a time (LpSession.cpp:94).
THEOREM SessionsHaveOneWorker == Spec => []OneWorkerPerSession
<1>1. PathInv => OneWorkerPerSession
  BY ServedOnce DEF PathInv, ServedInv
<1> QED BY <1>1, PathInvariant, PTL

\* No byte waits for a task that never comes (LpSession.cpp:87-90).
THEOREM BytesAreServed == Spec => []NoStrandedBytes
<1>1. PathInv => NoStrandedBytes
  BY NoneStranded DEF PathInv, ServedInv
<1> QED BY <1>1, PathInvariant, PTL

\* The counts of the sessions and the total are those of the packets queued
\* (LpNetManager.cpp:52-56, 89-100).
THEOREM CountsAreExact == Spec => []RecvCountsExact
<1>1. PathInv => RecvCountsExact
  BY CountsExact DEF PathInv, ServedInv
<1> QED BY <1>1, PathInvariant, PTL

\* When segments are whole packets, no packet is cut where none of the peer's
\* begins.
THEOREM WholePacketsAligned == ASSUME WholePackets PROVE Spec => []PacketsAligned
<1>1. PathInv => PacketsAligned
  BY HandledAligned DEF PathInv
<1> QED BY <1>1, PathInvariant, PTL

\* When segments are whole packets, each session is a channel: its packets go
\* through Process in the order its peer sent them, each once.
THEOREM ReceivePathIsChannel == ASSUME WholePackets PROVE Spec => ImplementsChannel
<1>1. Init => Channel!Init
  BY DEF Init, PHInit, Channel!Init
<1>2. PathInv /\ [Next]_vars => [Channel!Next]_(Channel!vars)
  BY ChannelStep
<1> QED BY <1>1, <1>2, PathInvariant, PTL DEF Spec, ImplementsChannel, Channel!Spec
=============================================================================
