------------------------------ MODULE LpReceive ------------------------------
(***************************************************************************)
(* The receive path of the server, from the sockets to Process:            *)
(*                                                                         *)
(*   asio threads     LpSession::Read / OnRead, one read outstanding per   *)
(*                    session, whichever thread completes it               *)
(*   LpNetManager     worker i: Process(i), which serves netTaskQueue[i]   *)
(*   LpServer         handler thread i: ProcessHandler(i)                  *)
(*                                                                         *)
(* The ring buffer of a session is what ByteFifo says (LpBuffer implements *)
(* it under this read loop): bytes 1..stored have been pushed and bytes    *)
(* 1..popped taken out.  The packet handler is the module LpPacketHandler. *)
(***************************************************************************)
EXTENDS LpPacketHandler

CONSTANT
  WholePackets    \* TRUE: the segments of a connection arrive as they were
                  \* sent, one or more whole packets each; FALSE: TCP

ASSUME ReceiveAssumption == WholePackets \in BOOLEAN

VARIABLES
  conn,           \* per session: where its read loop is
  stored, popped, \* per session: its ring, as in ByteFifo
  m_netTaskQueue, \* per worker: sessions with a Receive task
  worker,         \* per worker: where it is in Process
  m_sessionRecvCountMap,   \* packets received, for the sessions it has
  m_totalCount

ring  == <<stored, popped>>
counts == <<m_sessionRecvCountMap, m_totalCount>>
vars == <<phVars, conn, ring, m_netTaskQueue, worker, counts>>

InitWorker(i) == [pc |-> "poll", session |-> NoSession, size |-> 0, count |-> 0]

Init ==
  /\ PHInit
  /\ conn = [s \in Sessions |-> "waiting"]
  /\ stored = [s \in Sessions |-> 0]
  /\ popped = [s \in Sessions |-> 0]
  /\ m_netTaskQueue = [i \in Threads |-> <<>>]
  /\ worker = [i \in Threads |-> InitWorker(i)]
  /\ m_sessionRecvCountMap = [s \in {} |-> 0]
  /\ m_totalCount = 0

-----------------------------------------------------------------------------
(* Peers and asio threads.                                                 *)

\* AsyncAccept registers the session's id, OnAccept starts the read loop.
Accept(s) ==
  /\ conn[s] = "waiting"
  /\ ResetSequence(s)
  /\ conn' = [conn EXCEPT ![s] = "reading"]
  /\ UNCHANGED <<queues, content, push, handler, stream, history,
                 ring, m_netTaskQueue, worker, counts>>

\* OnRead without an error, to the end of Push: some more of what the peer
\* has to send has arrived.
OnRead(s) ==
  /\ conn[s] = "reading"
  /\ \E n \in 1..(Len(stream[s]) * PacketSize - stored[s]) :
       /\ WholePackets => n % PacketSize = 0
       /\ stored' = [stored EXCEPT ![s] = @ + n]
  /\ conn' = [conn EXCEPT ![s] = "task"]
  /\ UNCHANGED <<phVars, popped, m_netTaskQueue, worker, counts>>

\* Variant: the task goes to the shortest queue.
TaskQueuesOfAll(s) ==
  {i \in Threads : \A j \in Threads : Len(m_netTaskQueue[i]) <= Len(m_netTaskQueue[j])}

\* m_threadIndex, set by SetSessionID.
TaskQueues(s) == {s % m_ioThreadCount}

\* Variant: no task when one is already queued or in work.
PushTaskOnce(s) ==
  /\ conn[s] = "task"
  /\ \E i \in TaskQueues(s) :
       m_netTaskQueue' = [m_netTaskQueue EXCEPT ![i] =
         IF worker[i].session = s \/ \E j \in DOMAIN @ : @[j] = s THEN @ ELSE Append(@, s)]
  /\ conn' = [conn EXCEPT ![s] = "reading"]
  /\ UNCHANGED <<phVars, ring, worker, counts>>

\* The end of OnRead: the task, then Read again.
PushTask(s) ==
  /\ conn[s] = "task"
  /\ \E i \in TaskQueues(s) :
       m_netTaskQueue' = [m_netTaskQueue EXCEPT ![i] = Append(@, s)]
  /\ conn' = [conn EXCEPT ![s] = "reading"]
  /\ UNCHANGED <<phVars, ring, worker, counts>>

\* OnRead with an error: the peer closed or the connection broke.  What was
\* stored before is still served.
ReadError(s) ==
  /\ conn[s] = "reading"
  /\ conn' = [conn EXCEPT ![s] = "closed"]
  /\ UNCHANGED <<phVars, ring, m_netTaskQueue, worker, counts>>

-----------------------------------------------------------------------------
(* LpNetManager::Process(i).                                               *)

TakeTask(i) ==
  /\ worker[i].pc = "poll" /\ m_netTaskQueue[i] # <<>>
  /\ worker' = [worker EXCEPT ![i].pc = "size",
                              ![i].session = Head(m_netTaskQueue[i])]
  /\ m_netTaskQueue' = [m_netTaskQueue EXCEPT ![i] = Tail(@)]
  /\ UNCHANGED <<phVars, conn, ring, counts>>

\* LpSession::ProcessReceive: GetUseSize and PopData.
GetUseSize(i) ==
  LET s == worker[i].session
  IN  /\ worker[i].pc = "size"
      /\ worker' = [worker EXCEPT ![i].pc = "pop", ![i].size = stored[s] - popped[s]]
      /\ UNCHANGED <<phVars, conn, ring, m_netTaskQueue, counts>>

\* Pop, which a size of 0 makes do nothing, then PushPacket starts.
Pop(i) ==
  LET s == worker[i].session
      n == worker[i].size
  IN  /\ worker[i].pc = "pop"
      /\ popped' = [popped EXCEPT ![s] = IF n <= stored[s] - @ THEN @ + n ELSE @]
      /\ PushPacket(i, s, popped[s] + 1, n)
      /\ worker' = [worker EXCEPT ![i].pc = "push"]
      /\ UNCHANGED <<queues, m_sessionSequnceMap, content, handler, stream, history,
                     conn, stored, m_netTaskQueue, counts>>

InPushPacket(i) ==
  /\ Pushing(i)
  /\ UNCHANGED <<conn, ring, m_netTaskQueue, worker, counts>>

RecvCount(s) ==
  IF s \in DOMAIN m_sessionRecvCountMap THEN m_sessionRecvCountMap[s] ELSE 0

\* PushPacket has returned.  AddSessionRecvCount reads the session's count ...
ReadRecvCount(i) ==
  /\ worker[i].pc = "push" /\ push[i].pc = "idle"
  /\ worker' = [worker EXCEPT ![i] =
       IF push[i].recvCount = 0 THEN InitWorker(i)
       ELSE [pc |-> "count", session |-> @.session, size |-> push[i].recvCount,
             count |-> RecvCount(@.session)]]
  /\ push' = [push EXCEPT ![i] = InitPush(i)]
  /\ UNCHANGED <<queues, m_sessionSequnceMap, content, handler, stream, history,
                 conn, ring, m_netTaskQueue, counts>>

\* ... and stores it increased; m_totalCount is atomic.
AddRecvCount(i) ==
  LET s == worker[i].session
      n == worker[i].size
  IN  /\ worker[i].pc = "count"
      /\ m_sessionRecvCountMap' =
           [t \in DOMAIN m_sessionRecvCountMap \cup {s} |->
              IF t = s THEN worker[i].count + n ELSE m_sessionRecvCountMap[t]]
      /\ m_totalCount' = m_totalCount + n
      /\ worker' = [worker EXCEPT ![i] = InitWorker(i)]
      /\ UNCHANGED <<phVars, conn, ring, m_netTaskQueue>>

Process(i) ==
  \/ TakeTask(i) \/ GetUseSize(i) \/ Pop(i)
  \/ InPushPacket(i) \/ ReadRecvCount(i) \/ AddRecvCount(i)

ProcessHandler(i) ==
  /\ Update(i)
  /\ UNCHANGED <<conn, ring, m_netTaskQueue, worker, counts>>

-----------------------------------------------------------------------------
Next ==
  \/ \E s \in Sessions : Accept(s) \/ OnRead(s) \/ PushTask(s) \/ ReadError(s)
  \/ \E i \in Threads : Process(i) \/ ProcessHandler(i)

(***************************************************************************)
(* Workers and handler threads are loops that never block, and an OnRead   *)
(* that has started ends.  Peers owe nothing.                              *)
(***************************************************************************)
Spec ==
  /\ Init /\ [][Next]_vars
  /\ \A i \in Threads : WF_vars(Process(i)) /\ WF_vars(ProcessHandler(i))
  /\ \A s \in Sessions : WF_vars(PushTask(s))

-----------------------------------------------------------------------------
Serving(i) == IF worker[i].pc = "poll" THEN {} ELSE {worker[i].session}

\* No two workers serve one session at a time.  ProcessReceive takes no lock
\* (the lock_guard is commented out, LpSession.cpp:94): m_recvData, the pair
\* GetUseSize and Pop, and the session's count rely on it.
OneWorkerPerSession ==
  \A i, j \in Threads : i # j => Serving(i) \cap Serving(j) = {}

\* The packets of session s that are queued or being processed.
InFlight(s) ==
  {x \in Queued : Entry(x)[1] = s}
  \cup {x \in Threads \X {0} :
           handler[x[1]].pc \in {"process", "seq"} /\ handler[x[1]].session = s}

\* A session's count is the number of its packets that were queued, but for
\* the batch its worker has not counted yet, and the total counts as many
\* packets as the sessions together (LpNetManager.cpp:52-56, 89-100).
RecvCountsExact ==
  /\ \A s \in Sessions :
       (\A i \in Threads : s \notin Serving(i)) =>
         RecvCount(s) = Len(handled[s]) + Cardinality(InFlight(s))
  /\ m_totalCount =
       Cardinality(UNION {{s} \X (1..RecvCount(s)) : s \in Sessions})

\* When a session has no task queued, none about to be, and no worker, its
\* ring is empty: no byte waits for a task that never comes
\* (LpSession.cpp:87-90).
NoStrandedBytes ==
  \A s \in Sessions :
    (/\ conn[s] # "task"
     /\ \A i \in Threads : /\ s \notin Serving(i)
                           /\ \A j \in DOMAIN m_netTaskQueue[i] : m_netTaskQueue[i][j] # s)
    => stored[s] = popped[s]

\* The packets of each session go through Process in the order its peer sent
\* them, each once, whole, whatever the other sessions and threads do.
Channel == INSTANCE PacketChannel WITH arrived <- stored
ImplementsChannel == Channel!Spec

\* The threads catch up with every session again and again, also when the
\* connection closes behind its last packet: what has arrived is handled.
KeepsCatchingUp ==
  \A s \in Sessions : []<>(stored[s] < (Len(handled[s]) + 1) * PacketSize)

\* The comment in PushPacket: the remaining size is to be processed
\* (LpPacketHandler.cpp:174-176).  So a packet never begins in the middle of
\* one of the peer's.
PacketsAligned ==
  \A s \in Sessions : \A j \in DOMAIN handled[s] :
    handled[s][j] = (j - 1) * PacketSize + 1

-----------------------------------------------------------------------------
(* Why the properties above hold.                                          *)

ReceiveTypeOK ==
  /\ conn \in [Sessions -> {"waiting", "reading", "task", "closed"}]
  /\ stored \in [Sessions -> Nat] /\ popped \in [Sessions -> Nat]
  /\ m_netTaskQueue \in [Threads -> Seq(Sessions)]
  /\ worker \in [Threads -> [pc : {"poll", "size", "pop", "push", "count"},
                             session : Sessions \cup {NoSession}, size : Nat, count : Nat]]
  /\ DOMAIN m_sessionRecvCountMap \subseteq Sessions
  /\ \A s \in DOMAIN m_sessionRecvCountMap : m_sessionRecvCountMap[s] \in Nat
  /\ m_totalCount \in Nat

\* A session has one worker: its tasks are in that worker's queue, and
\* PushPacket runs between that worker's Pop and AddRecvCount only.
OneThread ==
  /\ \A i \in Threads : \A j \in DOMAIN m_netTaskQueue[i] : ThreadOf(m_netTaskQueue[i][j]) = i
  /\ \A i \in Threads :
       /\ worker[i].pc = "poll" <=> worker[i].session = NoSession
       /\ worker[i].pc # "poll" => ThreadOf(worker[i].session) = i
       /\ worker[i].pc # "push" => push[i] = InitPush(i)
       /\ push[i].pc # "idle" => push[i].session = worker[i].session

HasTask(s) ==
  conn[s] = "task" \/ \E i \in Threads : \E j \in DOMAIN m_netTaskQueue[i] : m_netTaskQueue[i][j] = s

\* What GetUseSize saw is there for Pop, and is all unless a task has come since.
Fetched ==
  \A s \in Sessions :
    LET w == worker[ThreadOf(s)]
    IN  /\ popped[s] <= stored[s]
        /\ w.session = s /\ w.pc = "pop" => w.size <= stored[s] - popped[s]
        /\ ~HasTask(s) => IF w.session # s \/ w.pc \notin {"size", "pop"} THEN popped[s] = stored[s]
                          ELSE w.pc = "pop" => w.size = stored[s] - popped[s]

\* Packets of s that were queued so far, counted yet or not, and those that a
\* handler has taken out.
Batch(s) ==
  LET i == ThreadOf(s)
  IN  IF worker[i].session # s THEN 0
      ELSE CASE worker[i].pc = "push" -> push[i].recvCount
             [] worker[i].pc = "count" -> worker[i].size
             [] OTHER -> 0
Put(s) == RecvCount(s) + Batch(s)

InHand(s) ==
  LET h == handler[ThreadOf(s)]
  IN  IF h.pc \in {"process", "seq"} /\ h.session = s THEN 1 ELSE 0
Gone(s) == Len(handled[s]) + InHand(s)

QueuedOf(s) == {x \in Queued : Entry(x)[1] = s}

\* None is lost between the two ends of a queue, and none is counted twice.
Counted == UNION {{s} \X (1..RecvCount(s)) : s \in Sessions}
Counts ==
  /\ \A s \in Sessions : Put(s) = Gone(s) + Cardinality(QueuedOf(s))
  /\ \A i \in Threads : worker[i].pc = "count" => worker[i].count = RecvCount(worker[i].session)
  /\ IsFiniteSet(Counted) /\ m_totalCount = Cardinality(Counted)

\* With whole packets the packet number m + 1 of a stream starts behind m others.
Bytes(m) == m * PacketSize
Whole(n) == \E m \in 0..n : n = Bytes(m)

\* What has been popped is what was queued, and what PushPacket has left.
AlignedAt(s) ==
  LET w == worker[ThreadOf(s)]
      p == push[ThreadOf(s)]
  IN  /\ Whole(stored[s])
      /\ IF w.session = s /\ p.pc # "idle"
         THEN /\ p.at + Bytes(p.recvCount) = Bytes(Put(s)) + 1
              /\ popped[s] = Bytes(Put(s)) + p.recvSize
         ELSE popped[s] = Bytes(Put(s))
AlignedThread(i) ==
  /\ Whole(push[i].recvSize)
  /\ worker[i].pc = "pop" => Whole(worker[i].size)
Aligned == (\A s \in Sessions : AlignedAt(s)) /\ (\A i \in Threads : AlignedThread(i))

\* A session's packets in the queue are the next ones, in order.
Start(b) == content[b][2]
InOrderOf(s) ==
  /\ \A j \in DOMAIN handled[s] : handled[s][j] = Bytes(j - 1) + 1
  /\ InHand(s) = 1 => Start(handler[ThreadOf(s)].packet) = Bytes(Len(handled[s])) + 1
  /\ \A x \in QueuedOf(s) :
       \E m \in Gone(s)..(Put(s) - 1) : Start(Entry(x)[2]) = Bytes(m) + 1
  /\ \A m \in Gone(s)..(Put(s) - 1) :
       \E x \in QueuedOf(s) : Start(Entry(x)[2]) = Bytes(m) + 1
  /\ \A x, y \in QueuedOf(s) : x[2] < y[2] => Start(Entry(x)[2]) < Start(Entry(y)[2])
InOrder == \A s \in Sessions : InOrderOf(s)

\* The sequence number on record is that of the packets handled so far, and
\* still is when a handler has only read it.
JudgedOf(s) ==
  LET n == Len(handled[s])
      h == handler[ThreadOf(s)]
  IN  /\ stored[s] <= Bytes(Len(stream[s]))
      /\ IF conn[s] = "waiting" THEN stored[s] = 0
         ELSE s \in DOMAIN m_sessionSequnceMap /\ m_sessionSequnceMap[s] = LastSeqNum(s)[n]
      /\ h.pc = "seq" /\ h.session = s => stream[s][n + 1].head /\ h.seq = LastSeqNum(s)[n]
Judged == (\A s \in Sessions : JudgedOf(s)) /\ VerdictsAsSequential

PathInv ==
  /\ PHInv /\ ReceiveTypeOK /\ OneThread /\ Fetched /\ Counts
  /\ WholePackets => Aligned /\ InOrder
IInv == PathInv /\ (WholePackets => Judged)
=============================================================================
