------------------------------ MODULE LpClient ------------------------------
(***************************************************************************)
(* One LpClient of the load generator, with the sending side of LpSession: *)
(*                                                                         *)
(*   client   the thread of LpClientConsole::ProcessClient: in each round  *)
(*            Connect, CheckSessions, TestSend, CloseSessions              *)
(*   asio     the one thread of LpClient::Run, in OnConnect and OnWrite    *)
(*   network  completes connects and writes                                *)
(*                                                                         *)
(* The two threads share the sessions: m_state has no lock, the counters   *)
(* are atomic.  CheckSessions and CloseSessions spin on m_state.           *)
(*                                                                         *)
(* A packet is its sequence number.  A write takes the content of          *)
(* m_sendBuffer when the network gets round to it, not when it is issued.  *)
(***************************************************************************)
EXTENDS Integers, Sequences, FiniteSets

CONSTANTS
  m_sessionPoolSize, m_sessionCount, m_sessionSendCount,
  m_clientReconnectCount    \* rounds of ProcessClient

ASSUME ClientAssumption ==
  /\ m_sessionPoolSize \in Nat
  /\ m_sessionCount \in Nat \ {0} /\ m_sessionSendCount \in Nat \ {0}
  /\ m_clientReconnectCount \in Nat

VARIABLES
  client,          \* where the client thread is
  round,
  m_sessionPool,
  m_sessionMap,    \* the sessions of the round, by the order of their ids
  m_sendCount,
  session,         \* per session: m_state, m_trySendCnt, m_sendCnt
  m_writeBuffer,   \* per session: packets in the ring
  m_sendBuffer,    \* per session: the packet there
  socket,          \* per session: "closed", "open" or "connected"
  connects, writes,\* per session: operations outstanding
  aborts,          \* per session: connects its socket was closed under,
                   \* not completed yet
  ready,           \* completions for the asio thread, oldest first
  asio,            \* the completion it is in the middle of, if any
  wire,            \* history, per session: packets sent in this round
  raced,           \* history: OnConnect was overtaken by Connect
  broken           \* history: the network refused a write

buffers == <<m_writeBuffer, m_sendBuffer>>
network == <<socket, connects, writes, aborts, wire>>
causes  == <<raced, broken>>
vars == <<client, round, m_sessionPool, m_sessionMap, m_sendCount, session,
          buffers, network, ready, asio, causes>>

\* Every session allocated; a Pop of the first round may allocate more.
Objects == 1..(m_sessionPoolSize + m_sessionCount)

NoSession == 0
None == [op |-> "none", session |-> NoSession, ok |-> FALSE]
At(pc) == [pc |-> pc, session |-> NoSession, todo |-> {}, count |-> 0]
Ids == 1..Len(m_sessionMap)

\* LpClient::Init has filled the pool.
Init ==
  /\ client = At(IF m_clientReconnectCount = 0 THEN "done" ELSE "connect") /\ round = 1
  /\ m_sessionPool = [k \in 1..m_sessionPoolSize |-> k]
  /\ m_sessionMap = <<>> /\ m_sendCount = 0
  /\ session = [o \in Objects |-> [state |-> "Closed", try |-> 0, cnt |-> 0]]
  /\ m_writeBuffer = [o \in Objects |-> <<>>]
  /\ m_sendBuffer = [o \in Objects |-> 0]
  /\ socket = [o \in Objects |-> "closed"]
  /\ connects = [o \in Objects |-> 0] /\ writes = [o \in Objects |-> 0]
  /\ aborts = [o \in Objects |-> 0]
  /\ ready = <<>> /\ asio = None
  /\ wire = [o \in Objects |-> <<>>]
  /\ raced = FALSE /\ broken = FALSE

Completion(op, o, ok) == [op |-> op, session |-> o, ok |-> ok]

\* async_connect opens a closed socket.
AsyncConnect(o) ==
  /\ socket' = [socket EXCEPT ![o] = IF @ = "closed" THEN "open" ELSE @]
  /\ connects' = [connects EXCEPT ![o] = @ + 1]

-----------------------------------------------------------------------------
(* LpClient::Connect, one session after the other.                         *)

\* LpSessionPool::Pop: the oldest session, or a new one.  The pool runs dry in
\* the first round only, when all sessions there are have been taken (Pooled).
Popped == IF m_sessionPool # <<>> THEN Head(m_sessionPool) ELSE Len(m_sessionMap) + 1

Connect ==
  /\ client.pc = "connect"
  /\ m_sessionPool' = IF m_sessionPool = <<>> THEN <<>> ELSE Tail(m_sessionPool)
  /\ AsyncConnect(Popped)
  /\ client' = [At("setState") EXCEPT !.session = Popped]
  /\ UNCHANGED <<round, m_sessionMap, m_sendCount, session, buffers, writes, aborts,
                 wire, ready, asio, causes>>

\* Only now SetState, whatever OnConnect has set meanwhile; then m_sessionMap.
SetConnecting ==
  LET o == client.session
  IN  /\ client.pc = "setState"
      /\ session' = [session EXCEPT ![o].state = "Connecting"]
      /\ raced' = (raced \/ session[o].state = "Connected")
      /\ m_sessionMap' = Append(m_sessionMap, o)
      /\ client' = IF Len(m_sessionMap') < m_sessionCount THEN At("connect")
                   ELSE [At("check") EXCEPT !.todo = 1..m_sessionCount]
      /\ UNCHANGED <<round, m_sessionPool, m_sendCount, buffers, network, ready, asio, broken>>

-----------------------------------------------------------------------------
\* Variant: one connected session is enough.
CheckSessionsAny(k) ==
  /\ client.pc = "check" /\ k \in client.todo
  /\ client' =
       IF session[m_sessionMap[k]].state = "Connected" THEN [At("begin") EXCEPT !.todo = Ids]
       ELSE [client EXCEPT !.todo = IF @ = {k} THEN Ids ELSE @ \ {k}]
  /\ UNCHANGED <<round, m_sessionPool, m_sessionMap, m_sendCount, session, buffers,
                 network, ready, asio, causes>>

\* CheckSessions: the pass ends when all have been seen Connected in it; one
\* that is not makes another pass necessary.
CheckSessions(k) ==
  /\ client.pc = "check" /\ k \in client.todo
  /\ client' =
       IF session[m_sessionMap[k]].state # "Connected" THEN [client EXCEPT !.todo = Ids]
       ELSE IF client.todo = {k} THEN [At("begin") EXCEPT !.todo = Ids]
       ELSE [client EXCEPT !.todo = @ \ {k}]
  /\ UNCHANGED <<round, m_sessionPool, m_sessionMap, m_sendCount, session, buffers,
                 network, ready, asio, causes>>

-----------------------------------------------------------------------------
(* TestSend: for each session SetSendCnt, then so many packets.            *)

TestSend(k) ==
  /\ client.pc = "begin" /\ k \in client.todo
  /\ session' = [session EXCEPT ![m_sessionMap[k]].cnt = m_sessionSendCount,
                                ![m_sessionMap[k]].try = 0]
  /\ client' = [client EXCEPT !.pc = "send", !.session = m_sessionMap[k],
                              !.todo = @ \ {k}, !.count = 0]
  /\ UNCHANGED <<round, m_sessionPool, m_sessionMap, m_sendCount, buffers, network,
                 ready, asio, causes>>

\* Variant: Write before Push, so that Pop takes what was left, if anything.
SendWritesFirst ==
  LET o == client.session
      left == m_writeBuffer[o]
  IN  /\ client.pc = "send" /\ socket[o] # "closed"
      /\ m_sendBuffer' = [m_sendBuffer EXCEPT ![o] = IF left = <<>> THEN @ ELSE Head(left)]
      /\ m_writeBuffer' = [m_writeBuffer EXCEPT ![o] =
           Append(IF left = <<>> THEN left ELSE Tail(left), client.count)]
      /\ session' = [session EXCEPT ![o].try = @ + 1]
      /\ client' = [client EXCEPT !.pc = "write"]
      /\ UNCHANGED <<round, m_sessionPool, m_sessionMap, m_sendCount, network, ready,
                     asio, causes>>

\* LpSession::Send: Push to m_writeBuffer; Write, on an open socket, Pops into
\* m_sendBuffer, which an earlier write may still be using.
Send ==
  LET o == client.session
      data == Append(m_writeBuffer[o], client.count)
  IN  /\ client.pc = "send"
      /\ IF socket[o] = "closed"
         THEN /\ m_writeBuffer' = [m_writeBuffer EXCEPT ![o] = data]
              /\ UNCHANGED <<m_sendBuffer, session>>
         ELSE /\ m_writeBuffer' = [m_writeBuffer EXCEPT ![o] = Tail(data)]
              /\ m_sendBuffer' = [m_sendBuffer EXCEPT ![o] = Head(data)]
              /\ session' = [session EXCEPT ![o].try = @ + 1]
      /\ client' = [client EXCEPT !.pc = "write"]
      /\ UNCHANGED <<round, m_sessionPool, m_sessionMap, m_sendCount, network, ready,
                     asio, causes>>

\* async_write_some, and the next packet or session.
Write ==
  LET o == client.session
      sent == client.count + 1
  IN  /\ client.pc = "write"
      /\ writes' = IF socket[o] = "closed" THEN writes ELSE [writes EXCEPT ![o] = @ + 1]
      /\ m_sendCount' = m_sendCount + 1
      /\ client' = IF sent < m_sessionSendCount
                   THEN [client EXCEPT !.pc = "send", !.count = sent]
                   ELSE IF client.todo # {} THEN [At("begin") EXCEPT !.todo = client.todo]
                   ELSE [At("close") EXCEPT !.todo = Ids]
      /\ UNCHANGED <<round, m_sessionPool, m_sessionMap, session, buffers, socket,
                     connects, aborts, wire, ready, asio, causes>>

-----------------------------------------------------------------------------
(* CloseSessions and the end of the round.                                 *)

\* The pool is first in, first out and only so many Pops are to come: a
\* session behind that many others is never seen again.
Pool(seq) == SubSeq(seq, 1, IF Len(seq) < m_sessionCount * m_clientReconnectCount
                            THEN Len(seq) ELSE m_sessionCount * m_clientReconnectCount)

\* A pass closes and pools every session it sees Closed, those of the passes
\* before included, and is the last if that is all of them.
CloseSessions(k) ==
  LET o == m_sessionMap[k]
      isClosed == session[o].state = "Closed"
      closeCount == client.count + (IF isClosed THEN 1 ELSE 0)
  IN  /\ client.pc = "close" /\ k \in client.todo
      /\ IF isClosed
         THEN /\ socket' = [socket EXCEPT ![o] = "closed"]
              /\ connects' = [connects EXCEPT ![o] = 0]
              /\ writes' = [writes EXCEPT ![o] = 0]
              /\ aborts' = [aborts EXCEPT ![o] = @ + connects[o]]
              /\ m_sessionPool' = Pool(Append(m_sessionPool, o))
         ELSE UNCHANGED <<socket, connects, writes, aborts, m_sessionPool>>
      /\ IF closeCount = Len(m_sessionMap)
         THEN m_sessionMap' = <<>> /\ client' = At("report")
         ELSE /\ client' = IF client.todo = {k} THEN [At("close") EXCEPT !.todo = Ids]
                           ELSE [client EXCEPT !.todo = @ \ {k}, !.count = closeCount]
              /\ UNCHANGED m_sessionMap
      /\ UNCHANGED <<round, m_sendCount, session, buffers, wire, ready, asio, causes>>

\* Variant: m_sendCount keeps counting.
ReportKeepsCount ==
  /\ client.pc = "report"
  /\ round' = round + 1
  /\ client' = At(IF round < m_clientReconnectCount THEN "connect" ELSE "done")
  /\ wire' = [o \in Objects |-> <<>>]
  /\ UNCHANGED <<m_sendCount, m_sessionPool, m_sessionMap, session, buffers, socket,
                 connects, writes, aborts, ready, asio, causes>>

\* The console logs m_sendCount, adds it to the total and clears it.
Report ==
  /\ client.pc = "report"
  /\ m_sendCount' = 0
  /\ round' = round + 1
  /\ client' = At(IF round < m_clientReconnectCount THEN "connect" ELSE "done")
  /\ wire' = [o \in Objects |-> <<>>]
  /\ UNCHANGED <<m_sessionPool, m_sessionMap, session, buffers, socket, connects,
                 writes, aborts, ready, asio, causes>>

-----------------------------------------------------------------------------
(* The network.                                                            *)

\* The first connect of a socket that is let in succeeds ...
ConnectAccepted(o) ==
  /\ connects[o] > 0 /\ socket[o] = "open"
  /\ connects' = [connects EXCEPT ![o] = @ - 1]
  /\ socket' = [socket EXCEPT ![o] = "connected"]
  /\ ready' = Append(ready, Completion("connect", o, TRUE))
  /\ UNCHANGED <<client, round, m_sessionPool, m_sessionMap, m_sendCount, session,
                 buffers, writes, aborts, wire, asio, causes>>

\* ... the server may refuse one, as often as it likes, and any other fails.
ConnectFails(o) ==
  /\ connects[o] > 0
  /\ connects' = [connects EXCEPT ![o] = @ - 1]
  /\ ready' = Append(ready, Completion("connect", o, FALSE))
  /\ UNCHANGED <<client, round, m_sessionPool, m_sessionMap, m_sendCount, session,
                 buffers, socket, writes, aborts, wire, asio, causes>>

ConnectEnds(o) == ConnectAccepted(o) \/ ConnectFails(o)

\* The oldest write of a session sends what m_sendBuffer holds, or fails.
WriteEnds(o) ==
  /\ writes[o] > 0
  /\ writes' = [writes EXCEPT ![o] = @ - 1]
  /\ \/ /\ socket[o] = "connected"
        /\ wire' = [wire EXCEPT ![o] = Append(@, m_sendBuffer[o])]
        /\ ready' = Append(ready, Completion("write", o, TRUE))
        /\ UNCHANGED broken
     \/ /\ broken' = TRUE
        /\ ready' = Append(ready, Completion("write", o, FALSE))
        /\ UNCHANGED wire
  /\ UNCHANGED <<client, round, m_sessionPool, m_sessionMap, m_sendCount, session,
                 buffers, socket, connects, aborts, asio, raced>>

\* A connect that the closing of its socket aborted completes some time,
\* maybe when the session is connecting again.  Aborted writes are left out:
\* OnWrite only logs them.
AbortEnds(o) ==
  /\ aborts[o] > 0
  /\ aborts' = [aborts EXCEPT ![o] = @ - 1]
  /\ ready' = Append(ready, Completion("connect", o, FALSE))
  /\ UNCHANGED <<client, round, m_sessionPool, m_sessionMap, m_sendCount, session,
                 buffers, socket, connects, writes, wire, asio, causes>>

-----------------------------------------------------------------------------
(* The asio thread.                                                        *)

Takes(op, ok) ==
  /\ asio = None /\ ready # <<>>
  /\ Head(ready).op = op /\ Head(ready).ok = ok
  /\ ready' = Tail(ready)

Connected ==
  /\ Takes("connect", TRUE)
  /\ session' = [session EXCEPT ![Head(ready).session].state = "Connected"]
  /\ UNCHANGED <<client, round, m_sessionPool, m_sessionMap, m_sendCount, buffers,
                 network, asio, causes>>

\* Variant: tries again whatever the state is.
ConnectFailedRetries ==
  /\ Takes("connect", FALSE)
  /\ AsyncConnect(Head(ready).session)
  /\ UNCHANGED <<client, round, m_sessionPool, m_sessionMap, m_sendCount, session,
                 buffers, writes, aborts, wire, asio, causes>>

\* OnConnect with an error: again, if the session is Connecting.  It is not
\* yet, if Connect has not come to SetState.  The sleeps are left out.
ConnectFailed ==
  LET o == Head(ready).session
  IN  /\ Takes("connect", FALSE)
      /\ IF session[o].state = "Connecting" THEN AsyncConnect(o)
         ELSE UNCHANGED <<socket, connects>>
      /\ raced' = (raced \/ (client.pc = "setState" /\ client.session = o
                             /\ session[o].state = "Closed"))
      /\ UNCHANGED <<client, round, m_sessionPool, m_sessionMap, m_sendCount, session,
                     buffers, writes, aborts, wire, asio, broken>>

\* OnConnect ends in one of the two.
OnConnect == Connected \/ ConnectFailed


\* OnWrite without an error: if as many writes were tried as there are to be,
\* though they may still be outstanding, the session is to be closed.
OnWrite ==
  LET o == Head(ready).session
  IN  /\ Takes("write", TRUE)
      /\ asio' = IF /\ session[o].try >= session[o].cnt
                    /\ socket[o] # "closed" /\ session[o].state = "Connected"
                 THEN Head(ready) ELSE None
      /\ UNCHANGED <<client, round, m_sessionPool, m_sessionMap, m_sendCount, session,
                     buffers, network, causes>>

\* OnWrite with an error only logs it.
WriteFailed ==
  /\ Takes("write", FALSE)
  /\ UNCHANGED <<client, round, m_sessionPool, m_sessionMap, m_sendCount, session,
                 buffers, network, asio, causes>>

SetClosed ==
  /\ asio # None
  /\ session' = [session EXCEPT ![asio.session].state = "Closed"]
  /\ asio' = None
  /\ UNCHANGED <<client, round, m_sessionPool, m_sessionMap, m_sendCount, buffers,
                 network, ready, causes>>

-----------------------------------------------------------------------------
ProcessClient ==
  \/ Connect \/ SetConnecting \/ Send \/ Write \/ Report
  \/ \E k \in Ids : CheckSessions(k) \/ TestSend(k) \/ CloseSessions(k)

Handlers == OnConnect \/ OnWrite \/ WriteFailed \/ SetClosed

Next ==
  \/ ProcessClient \/ Handlers
  \/ \E o \in Objects : ConnectEnds(o) \/ WriteEnds(o) \/ AbortEnds(o)

(***************************************************************************)
(* Both threads run, and an operation on a socket ends some time, one way  *)
(* or the other.                                                           *)
(***************************************************************************)
Spec ==
  /\ Init /\ [][Next]_vars
  /\ WF_vars(ProcessClient) /\ WF_vars(Handlers)
  /\ \A o \in Objects :
       WF_vars(ConnectEnds(o)) /\ WF_vars(WriteEnds(o)) /\ WF_vars(AbortEnds(o))

-----------------------------------------------------------------------------
ClientPcs ==
  {"connect", "setState", "check", "begin", "send", "write", "close", "report", "done"}
ClientPlaces ==
  [pc : ClientPcs, session : Objects \cup {NoSession}, todo : SUBSET Nat, count : Nat]
SessionStates ==
  [state : {"Closed", "Connecting", "Connected"}, try : 0..m_sessionSendCount,
   cnt : {0, m_sessionSendCount}]
Completions == [op : {"connect", "write"}, session : Objects, ok : BOOLEAN]

TypeOK ==
  /\ client \in ClientPlaces /\ round \in 1..(m_clientReconnectCount + 1)
  /\ m_sessionPool \in Seq(Objects) /\ m_sessionMap \in Seq(Objects)
  /\ m_sendCount \in 0..(m_sessionCount * m_sessionSendCount)
  /\ session \in [Objects -> SessionStates]
  /\ m_writeBuffer \in [Objects -> Seq(Nat)] /\ m_sendBuffer \in [Objects -> Nat]
  /\ socket \in [Objects -> {"closed", "open", "connected"}]
  /\ connects \in [Objects -> Nat] /\ writes \in [Objects -> Nat]
  /\ aborts \in [Objects -> Nat]
  /\ ready \in Seq(Completions) /\ asio \in Completions \cup {None}
  /\ wire \in [Objects -> Seq(Nat)]
  /\ raced \in BOOLEAN /\ broken \in BOOLEAN

Mapped(o) == \E k \in Ids : m_sessionMap[k] = o

\* No socket leaks: an open one belongs to a session of the round, so that
\* CloseSessions finds it; between rounds all are closed, and no late
\* completion opens one again (LpClient.cpp:63-83, 139-163).
OpenIsMapped ==
  \A o \in Objects : socket[o] # "closed" =>
    Mapped(o) \/ (client.pc = "setState" /\ client.session = o)

\* TestSend writes to connected sockets only, although CheckSessions saw the
\* sessions one by one (LpClient.cpp:165-217).
SendsOnConnected ==
  /\ client.pc \in {"send", "write"} => socket[client.session] = "connected"
  /\ \A o \in Objects : writes[o] > 0 => socket[o] = "connected"

\* The writes of a session share m_sendBuffer, so that a packet can be sent
\* twice and the one before it not at all; but the server never sees the
\* numbers of a connection go back, unless a session is in the map twice
\* (LpSession.cpp:110-120, 158-163).
WireInOrder ==
  \A o \in Objects :
    Cardinality({k \in Ids : m_sessionMap[k] = o}) = 1 =>
      \A j \in 2..Len(wire[o]) : wire[o][j - 1] <= wire[o][j]

-----------------------------------------------------------------------------
(* Why they hold.                                                          *)

\* Where the client thread is, and what it has still to do.
Turn ==
  /\ client.pc \in {"setState", "send", "write"} <=> client.session # NoSession
  /\ client.pc \in {"connect", "setState"} => Len(m_sessionMap) < m_sessionCount
  /\ client.pc \in {"check", "begin", "send", "write", "close"} =>
       Len(m_sessionMap) = m_sessionCount /\ client.todo \subseteq Ids
  /\ client.pc \in {"check", "begin", "close"} => client.todo # {}
  /\ client.pc \in {"report", "done"} => m_sessionMap = <<>>
  /\ client.pc \in {"send", "write"} =>
       /\ client.count < m_sessionSendCount
       /\ \E k \in Ids \ client.todo : m_sessionMap[k] = client.session
  /\ client.pc = "close" =>
       client.count < m_sessionCount /\ client.count + Cardinality(client.todo) <= m_sessionCount
  /\ client.pc # "done" => round <= m_clientReconnectCount

\* m_sendCount and what is still to be sent are the packets of a round.
SendCounts ==
  /\ client.pc \in {"connect", "setState", "check", "done"} => m_sendCount = 0
  /\ client.pc \in {"begin", "send", "write"} =>
       m_sendCount + Cardinality(client.todo) * m_sessionSendCount
         + (IF client.pc = "begin" THEN 0 ELSE m_sessionSendCount - client.count)
       = m_sessionCount * m_sessionSendCount
  /\ client.pc = "send" => session[client.session].try <= client.count
  /\ client.pc = "write" => session[client.session].try <= client.count + 1

\* Sessions are popped in the order in which they were made in the first
\* round; a later one finds as many in the pool as it pops.
Taken == Len(m_sessionMap) + (IF client.pc = "setState" THEN 1 ELSE 0)
Pooled ==
  /\ client.pc \in {"connect", "setState"} =>
       IF round > 1 THEN Taken + Len(m_sessionPool) >= m_sessionCount
       ELSE /\ \A k \in Ids : m_sessionMap[k] = k
            /\ client.pc = "setState" => client.session = Taken
            /\ \A j \in DOMAIN m_sessionPool : m_sessionPool[j] = Taken + j
            /\ Taken + Len(m_sessionPool) >= m_sessionPoolSize
  /\ client.pc = "close" => Len(m_sessionPool) >= client.count
  /\ client.pc = "report" => Len(m_sessionPool) >= m_sessionCount

Arriving(o) == \E j \in DOMAIN ready : ready[j] = Completion("connect", o, TRUE)

\* CheckSessions has seen the session Connected.
Checked(k) ==
  \/ client.pc \in {"begin", "send", "write", "close"}
  \/ client.pc = "check" /\ k \notin client.todo

\* A session that is Connected has a socket that is, and OnConnect is over for
\* good; then nothing but CloseSessions closes it, and nothing opens it again.
SocketOf(o) ==
  /\ \/ socket[o] = "closed" /\ session[o].state = "Closed"
     \/ Mapped(o)
     \/ client.pc = "setState" /\ client.session = o
  /\ session[o].state = "Connected" => socket[o] = "connected" /\ ~Arriving(o)
  /\ writes[o] > 0 \/ Arriving(o) => socket[o] = "connected"
ArrivesOnce ==
  \A i, j \in DOMAIN ready :
    ready[i] = ready[j] /\ ready[i].op = "connect" /\ ready[i].ok => i = j
CheckedSocket(o) ==
  /\ session[o].state # "Connecting" /\ ~Arriving(o)
  /\ socket[o] = "connected" \/ (client.pc = "close" /\ socket[o] = "closed")
\* A pass of CloseSessions that can still be the last has closed all it saw.
AllShut ==
  client.pc = "close" /\ client.count + Cardinality(client.todo) = m_sessionCount =>
    \A k \in Ids \ client.todo :
      socket[m_sessionMap[k]] = "closed" /\ session[m_sessionMap[k]].state = "Closed"
Sockets ==
  /\ \A o \in Objects : SocketOf(o)
  /\ ArrivesOnce /\ AllShut
  /\ \A k \in Ids : Checked(k) => CheckedSocket(m_sessionMap[k])

\* What a session has sent is no more than what m_sendBuffer holds, from its
\* first packet of the round on.
Fresh(o) == wire[o] = <<>> /\ writes[o] = 0
Ascending(o) ==
  /\ \A i, j \in DOMAIN wire[o] : i <= j => wire[o][i] <= wire[o][j]
  /\ \A j \in DOMAIN wire[o] : wire[o][j] <= m_sendBuffer[o]
Single(k) == \A j \in Ids : m_sessionMap[j] = m_sessionMap[k] => j = k
WireOf(k) ==
  LET o == m_sessionMap[k]
  IN  /\ Fresh(o) \/ Ascending(o)
      /\ client.pc \in {"begin", "send", "write"} /\ k \in client.todo => Fresh(o)
      /\ client.pc = "send" /\ client.session = o =>
           IF client.count = 0 THEN Fresh(o)
           ELSE Ascending(o) /\ m_sendBuffer[o] < client.count
      /\ client.pc = "write" /\ client.session = o =>
           Ascending(o) /\ m_sendBuffer[o] = client.count
Wires ==
  /\ \A o \in Objects : m_writeBuffer[o] = <<>>
  /\ client.pc \in {"connect", "setState", "check"} => \A o \in Objects : Fresh(o)
  /\ \A k \in Ids : Single(k) => WireOf(k)

IInv == TypeOK /\ Turn /\ SendCounts /\ Pooled /\ Sockets /\ Wires

-----------------------------------------------------------------------------
\* The server goes on refusing: again and again a connect of a socket that is
\* not connected fails.
Refused == \E o \in Objects : socket[o] = "open" /\ ConnectFails(o)
RefusesForEver == []<><<Refused>>_vars


\* The log line at the end of a round: "Send [Send:" m_sendCount, the packets
\* that were sent (LpClientConsole.cpp:101-105).  When the network has refused
\* no write, they have been.
SentAsReported ==
  client.pc = "report" /\ ~broken =>
    m_sendCount = Cardinality(UNION {{o} \X DOMAIN wire[o] : o \in Objects})
=============================================================================
