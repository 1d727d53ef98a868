------------------------------ MODULE LpServer ------------------------------
(***************************************************************************)
(* The life of the server: LpServer (main thread), LpAcceptor with its     *)
(* LpSessionPool and io_context, and the two ends of a session that they   *)
(* see (Read started, Closed).                                             *)
(*                                                                         *)
(*   Main           Bind, LoadFile, Start, the console loop, then Stop     *)
(*   asio threads   OnAccept / AsyncAccept and the OnRead of sessions      *)
(*   loop threads   ProcessHandler and ProcessLog, while m_running         *)
(*   workers        LpNetManager::Process, once LpNetManager::Run has run  *)
(*                                                                         *)
(* AsyncAccept and OnAccept are several steps, each on the thread that     *)
(* executes it: nothing in the code locks m_sessionMap or the acceptor.    *)
(***************************************************************************)
EXTENDS Integers, Sequences, FiniteSets

CONSTANTS
  Main,               \* the main thread
  AsioThreads,        \* m_threadCount threads in io_context::run
  m_ioThreadCount,    \* handler threads, workers and their queues
  SESSION_POOL_SIZE,  \* sessions made by LpAcceptor::Init
  IntMax,             \* INT_MAX
  MaxAccepts,         \* bound: accepts that complete
  MaxReads            \* bound: reads that complete

ASSUME ServerAssumption ==
  /\ AsioThreads # {} /\ Main \notin AsioThreads
  /\ m_ioThreadCount \in Nat \ {0}
  /\ SESSION_POOL_SIZE \in Nat
  /\ IntMax \in Nat \ {0, 1}
  /\ MaxAccepts \in Nat /\ MaxReads \in Nat

VARIABLES
  main,              \* where the main thread is; "failed": the program has ended
  acc,               \* per thread: where it is in the acceptor's code
  asio,              \* per asio thread: "none", "run" or "exited"
  loops,             \* per kind of loop thread: "none", "run" or "exited"
  serverRunning,     \* LpServer::m_running
  m_running,         \* LpAcceptor::m_running
  acceptorOpen,      \* m_acceptor->is_open()
  bound,             \* the acceptor is bound to its address
  ioStopped,         \* the io_context is stopped
  configured,        \* the configuration was read; if not, all counts are 0
  pending,           \* sessions with an async_accept outstanding
  ready,             \* completed accepts whose OnAccept has not begun
  m_queueSessionPool, m_currentSessionID, m_sessionMap,
  session,           \* per session object: state, id, open
  reading,           \* sessions with an async_read_some outstanding
  m_netTaskQueue,    \* LpNetManager's vector of queues: <<object, id>> tasks
  workersRun,        \* LpNetManager's threads are started
  outOfRange,        \* history: an index beyond m_netTaskQueue was used
  acceptFailed,      \* history: async_accept threw, or OnAccept saw an error
  accepts, reads     \* completed so far, for the bounds

threads  == <<main, asio, loops, serverRunning, ioStopped>>
acceptor == <<m_running, acceptorOpen, bound, configured>>
accepting == <<pending, ready>>
pool     == <<m_queueSessionPool, m_currentSessionID, m_sessionMap>>
net      == <<m_netTaskQueue, workersRun, outOfRange>>
vars == <<threads, acc, acceptor, accepting, pool, session, reading, net,
          acceptFailed, accepts, reads>>

Objects == 1..(SESSION_POOL_SIZE + MaxAccepts + 1)
NoObject == 0
Loops == {"handlers", "log"}
At(pc, o, ok) == [pc |-> pc, object |-> o, ok |-> ok]
Idle == At("idle", NoObject, FALSE)
Armed == At("arm", NoObject, FALSE)
Closed(s) == [state |-> "Closed", id |-> s.id, open |-> FALSE]

Init ==
  /\ main = "bind"
  /\ acc = [t \in AsioThreads \cup {Main} |-> Idle]
  /\ asio = [t \in AsioThreads |-> "none"]
  /\ loops = [k \in Loops |-> "none"]
  /\ configured = FALSE
  /\ serverRunning = FALSE /\ m_running = FALSE /\ acceptorOpen = FALSE /\ bound = FALSE
  /\ ioStopped = FALSE
  /\ pending = {} /\ ready = {}
  /\ m_queueSessionPool = <<>>
  /\ m_currentSessionID = 0 /\ m_sessionMap = [k \in {} |-> NoObject]
  /\ session = [o \in Objects |-> [state |-> "Closed", id |-> 0, open |-> FALSE]]
  /\ reading = {} /\ m_netTaskQueue = <<>> /\ workersRun = FALSE
  /\ outOfRange = FALSE /\ acceptFailed = FALSE
  /\ accepts = 0 /\ reads = 0

-----------------------------------------------------------------------------
(* LpAcceptor::AsyncAccept on thread t (called with acc[t].pc = "arm").    *)

\* Variant: the counter is never taken back.
UseSessionIDNoWrap == m_currentSessionID + 1

UseSessionID ==
  IF m_currentSessionID + 1 = IntMax THEN 1 ELSE m_currentSessionID + 1

\* LpSessionPool::Pop: the oldest session, or a new one.
Popped ==
  IF m_queueSessionPool # <<>> THEN Head(m_queueSessionPool)
  ELSE CHOOSE o \in Objects :
         /\ session[o].id = 0 /\ o > SESSION_POOL_SIZE
         /\ \A p \in Objects : p > SESSION_POOL_SIZE /\ session[p].id = 0 => o <= p

\* Variant: the session is entered in the map before it gets its new id.
AsyncAcceptInsertFirst(t) ==
  /\ acc[t].pc = "arm" /\ m_running /\ configured
  /\ LET o == Popped
     IN  /\ session' = [session EXCEPT ![o] =
                   [state |-> "Waiting", id |-> UseSessionID, open |-> @.open]]
         /\ m_sessionMap' = [k \in DOMAIN m_sessionMap \cup {session[o].id} |->
              IF k \in DOMAIN m_sessionMap THEN m_sessionMap[k] ELSE o]
         /\ m_queueSessionPool' = IF m_queueSessionPool = <<>> THEN <<>>
                                  ELSE Tail(m_queueSessionPool)
         /\ m_currentSessionID' = UseSessionID
         /\ acc' = [acc EXCEPT ![t] = At("initiate", o, FALSE)]
  /\ UNCHANGED <<threads, acceptor, accepting, reading, net, acceptFailed, accepts, reads>>

\* SetSessionID takes the id modulo the number of worker threads: with 0 the
\* program dies.
DivideByZero(t) ==
  /\ acc[t].pc = "arm" /\ m_running /\ ~configured
  /\ main' = "failed" /\ acc' = [acc EXCEPT ![t] = Idle]
  /\ UNCHANGED <<asio, loops, serverRunning, ioStopped, acceptor, accepting,
                 pool, session, reading, net, acceptFailed, accepts, reads>>

\* The session's id is entered in m_sessionMap; insert keeps an entry that is
\* already there.
AsyncAccept(t) ==
  /\ acc[t].pc = "arm" /\ configured
  /\ IF ~m_running
     THEN acc' = [acc EXCEPT ![t] = Idle] /\ UNCHANGED <<pool, session>>
     ELSE LET o == Popped
          IN  /\ session' = [session EXCEPT ![o] =
                   [state |-> "Waiting", id |-> UseSessionID, open |-> @.open]]
              /\ m_sessionMap' = [k \in DOMAIN m_sessionMap \cup {UseSessionID} |->
                   IF k \in DOMAIN m_sessionMap THEN m_sessionMap[k] ELSE o]
              /\ m_queueSessionPool' = IF m_queueSessionPool = <<>> THEN <<>>
                                       ELSE Tail(m_queueSessionPool)
              /\ m_currentSessionID' = UseSessionID
              /\ acc' = [acc EXCEPT ![t] = At("initiate", o, FALSE)]
  /\ UNCHANGED <<threads, acceptor, accepting, reading, net, acceptFailed, accepts, reads>>

\* m_acceptor->async_accept: the accept is outstanding; on a closed acceptor it
\* completes with an error; or the call throws.  Then the session is put back as
\* it is, Waiting and in m_sessionMap, and nobody accepts again.
Initiate(t) ==
  LET o == acc[t].object
  IN  /\ acc[t].pc = "initiate"
      /\ \/ /\ acceptorOpen
            /\ pending' = pending \cup {o}
            /\ UNCHANGED <<ready, m_queueSessionPool, acceptFailed>>
         \/ /\ ~acceptorOpen
            /\ ready' = ready \cup {[object |-> o, ok |-> FALSE]}
            /\ UNCHANGED <<pending, m_queueSessionPool, acceptFailed>>
         \/ /\ m_queueSessionPool' = Append(m_queueSessionPool, o)
            /\ acceptFailed' = TRUE
            /\ UNCHANGED accepting
      /\ acc' = [acc EXCEPT ![t] = Idle]
      /\ UNCHANGED <<threads, acceptor, m_currentSessionID, m_sessionMap, session,
                     reading, net, accepts, reads>>

-----------------------------------------------------------------------------
(* The network, and OnAccept on an asio thread.                            *)

\* A client connects, or accepting fails.
CompleteAccept(o, ok) ==
  /\ o \in pending /\ accepts < MaxAccepts
  /\ pending' = pending \ {o}
  /\ ready' = ready \cup {[object |-> o, ok |-> ok]}
  /\ session' = [session EXCEPT ![o] = [state |-> @.state, id |-> @.id, open |-> ok]]
  /\ accepts' = accepts + 1
  /\ UNCHANGED <<threads, acc, acceptor, pool, reading, net, acceptFailed, reads>>

Free(t) == t \in AsioThreads /\ asio[t] = "run" /\ acc[t] = Idle

\* io_context::run takes the completion up.
DispatchAccept(t, r) ==
  /\ Free(t) /\ ~ioStopped
  /\ r \in ready /\ ready' = ready \ {r}
  /\ acc' = [acc EXCEPT ![t] = At("onAccept", r.object, r.ok)]
  /\ UNCHANGED <<threads, acceptor, pending, pool, session, reading, net,
                 acceptFailed, accepts, reads>>

\* m_running == false: the session is closed, forgotten and put back.
OnAcceptRunning(t) ==
  LET o == acc[t].object
  IN  /\ acc[t].pc = "onAccept"
      /\ IF m_running
         THEN acc' = [acc EXCEPT ![t] = At("result", o, @.ok)] /\ UNCHANGED <<pool, session>>
         ELSE /\ session' = [session EXCEPT ![o] = Closed(@)]
              /\ m_sessionMap' = [k \in DOMAIN m_sessionMap \ {session[o].id} |-> m_sessionMap[k]]
              /\ m_queueSessionPool' = Append(m_queueSessionPool, o)
              /\ acc' = [acc EXCEPT ![t] = Idle]
              /\ UNCHANGED m_currentSessionID
      /\ UNCHANGED <<threads, acceptor, accepting, reading, net, acceptFailed, accepts, reads>>

\* Variant: after an error the session is put back and waited with again.
OnAcceptResultRetry(t) ==
  LET o == acc[t].object
  IN  /\ acc[t].pc = "result"
      /\ IF acc[t].ok
         THEN /\ session' = [session EXCEPT ![o] = [state |-> "Connected", id |-> @.id, open |-> @.open]]
              /\ reading' = reading \cup {o}
              /\ acc' = [acc EXCEPT ![t] = At("rearm", o, TRUE)]
              /\ UNCHANGED m_queueSessionPool
         ELSE /\ session' = [session EXCEPT ![o] = Closed(@)]
              /\ m_queueSessionPool' = Append(m_queueSessionPool, o)
              /\ acc' = [acc EXCEPT ![t] = At("initiate", o, FALSE)]
              /\ UNCHANGED reading
      /\ UNCHANGED <<threads, acceptor, accepting, m_currentSessionID, m_sessionMap,
                     net, acceptFailed, accepts, reads>>

\* An error closes the session and puts it back; it stays in m_sessionMap,
\* and nobody accepts again.  Otherwise the session is Connected and reads.
OnAcceptResult(t) ==
  LET o == acc[t].object
  IN  /\ acc[t].pc = "result"
      /\ IF acc[t].ok
         THEN /\ session' = [session EXCEPT ![o] = [state |-> "Connected", id |-> @.id, open |-> @.open]]
              /\ reading' = reading \cup {o}
              /\ acc' = [acc EXCEPT ![t] = At("rearm", o, TRUE)]
              /\ UNCHANGED <<m_queueSessionPool, acceptFailed>>
         ELSE /\ session' = [session EXCEPT ![o] = Closed(@)]
              /\ m_queueSessionPool' = Append(m_queueSessionPool, o)
              /\ acceptFailed' = TRUE
              /\ acc' = [acc EXCEPT ![t] = Idle]
              /\ UNCHANGED reading
      /\ UNCHANGED <<threads, acceptor, accepting, m_currentSessionID, m_sessionMap,
                     net, accepts, reads>>

\* Variant: a session is accepted once and for all.
RearmNever(t) ==
  /\ acc[t].pc = "rearm"
  /\ acc' = [acc EXCEPT ![t] = Idle]
  /\ UNCHANGED <<threads, acceptor, accepting, pool, session, reading, net,
                 acceptFailed, accepts, reads>>

\* m_acceptor->is_open(): AsyncAccept again.
Rearm(t) ==
  /\ acc[t].pc = "rearm"
  /\ acc' = [acc EXCEPT ![t] = IF acceptorOpen THEN Armed ELSE Idle]
  /\ UNCHANGED <<threads, acceptor, accepting, pool, session, reading, net,
                 acceptFailed, accepts, reads>>

-----------------------------------------------------------------------------
(* Sessions and workers, as far as their lives go.                         *)

\* OnRead: a Receive task to m_netTaskQueue[m_threadIndex], then Read again.
OnRead(t, o) ==
  LET q == (session[o].id % m_ioThreadCount) + 1
  IN  /\ Free(t) /\ ~ioStopped /\ o \in reading /\ reads < MaxReads
      /\ IF q <= Len(m_netTaskQueue)
         THEN /\ m_netTaskQueue' = [m_netTaskQueue EXCEPT ![q] =
                                      Append(@, <<o, session[o].id>>)]
              /\ UNCHANGED outOfRange
         ELSE outOfRange' = TRUE /\ UNCHANGED m_netTaskQueue
      /\ reads' = reads + 1
      /\ UNCHANGED <<threads, acc, acceptor, accepting, pool, session, reading,
                     workersRun, acceptFailed, accepts>>

\* Variant: the closed session goes back to the pool.
ReadErrorRecycles(t, o) ==
  /\ Free(t) /\ ~ioStopped /\ o \in reading
  /\ reading' = reading \ {o}
  /\ session' = [session EXCEPT ![o] = Closed(@)]
  /\ m_queueSessionPool' = Append(m_queueSessionPool, o)
  /\ UNCHANGED <<threads, acc, acceptor, accepting, m_currentSessionID, m_sessionMap,
                 net, acceptFailed, accepts, reads>>

\* OnRead with an error: closed, and in no pool.
ReadError(t, o) ==
  /\ Free(t) /\ ~ioStopped /\ o \in reading
  /\ reading' = reading \ {o}
  /\ session' = [session EXCEPT ![o] = Closed(@)]
  /\ UNCHANGED <<threads, acc, acceptor, accepting, pool, net, acceptFailed, accepts, reads>>

TakeTask(q) ==
  /\ workersRun /\ q <= Len(m_netTaskQueue) /\ m_netTaskQueue[q] # <<>>
  /\ m_netTaskQueue' = [m_netTaskQueue EXCEPT ![q] = Tail(@)]
  /\ UNCHANGED <<threads, acc, acceptor, accepting, pool, session, reading,
                 workersRun, outOfRange, acceptFailed, accepts, reads>>

-----------------------------------------------------------------------------
(* The constructor and LpServer::Start on the main thread.                 *)

\* LpAcceptor::Bind: when open fails, set_option throws outside of every try;
\* when bind fails, nobody looks at the error.
Bind ==
  /\ main = "bind"
  /\ \/ acceptorOpen' = TRUE /\ bound' \in BOOLEAN /\ main' = "load"
     \/ main' = "failed" /\ UNCHANGED <<acceptorOpen, bound>>
  /\ UNCHANGED <<m_running, configured, acc, asio, loops, serverRunning, ioStopped,
                 accepting, pool, session, reading, net, acceptFailed, accepts, reads>>

\* LpAcceptor::Init: m_running is set and the pool filled.
InitAcceptor(size) == m_running' = TRUE /\ m_queueSessionPool' = [k \in 1..size |-> k]

\* LoadFile, where a file that cannot be read or parsed leaves the counts 0 and
\* a missing entry throws outside of every try; then Init.
LoadFile ==
  /\ main = "load"
  /\ \/ configured' = TRUE /\ main' = "start" /\ InitAcceptor(SESSION_POOL_SIZE)
     \/ configured' = FALSE /\ main' = "start" /\ InitAcceptor(0)
     \/ main' = "failed" /\ UNCHANGED <<m_running, configured, m_queueSessionPool>>
  /\ UNCHANGED <<acceptorOpen, bound, acc, asio, loops, serverRunning, ioStopped,
                 accepting, m_currentSessionID, m_sessionMap, session, reading, net,
                 acceptFailed, accepts, reads>>

\* Variant: Run before AsyncAccept.
StartRunsFirst ==
  /\ main = "start" /\ bound /\ main' = "accept"
  /\ acc' = [acc EXCEPT ![Main] = Armed]
  /\ asio' = [t \in AsioThreads |-> "run"]
  /\ UNCHANGED <<loops, serverRunning, ioStopped, acceptor, accepting, pool, session,
                 reading, net, acceptFailed, accepts, reads>>

\* Variant: Listen does not look at its error either.
StartUnbound ==
  /\ main = "start" /\ main' = "accept"
  /\ acc' = [acc EXCEPT ![Main] = Armed]
  /\ UNCHANGED <<asio, loops, serverRunning, ioStopped, acceptor, accepting, pool, session,
                 reading, net, acceptFailed, accepts, reads>>

\* Listen throws if the acceptor is not bound (on Windows), and may throw if it
\* is; main then ends.  Otherwise comes the first AsyncAccept.
Start ==
  /\ main = "start"
  /\ \/ bound /\ main' = "accept" /\ acc' = [acc EXCEPT ![Main] = Armed]
     \/ main' = "failed" /\ UNCHANGED acc
  /\ UNCHANGED <<asio, loops, serverRunning, ioStopped, acceptor, accepting, pool, session,
                 reading, net, acceptFailed, accepts, reads>>

\* Variant: one AsyncAccept for each asio thread.
RunAcceptsAgain ==
  /\ main = "accept" /\ acc[Main] = Idle
  /\ IF Cardinality(pending) < Cardinality(AsioThreads)
     THEN /\ acc' = [acc EXCEPT ![Main] = Armed]
          /\ UNCHANGED <<main, serverRunning, asio, loops>>
     ELSE /\ main' = "netRun" /\ serverRunning' = TRUE
          /\ asio' = [t \in AsioThreads |-> "run"]
          /\ loops' = [k \in Loops |-> "run"]
          /\ UNCHANGED acc
  /\ UNCHANGED <<ioStopped, acceptor, accepting, pool, session, reading, net,
                 acceptFailed, accepts, reads>>

\* LpServer::Run: the asio threads, the handler threads and the log thread.
Run ==
  /\ main = "accept" /\ acc[Main] = Idle
  /\ main' = "netRun"
  /\ serverRunning' = TRUE
  /\ asio' = [t \in AsioThreads |-> "run"]
  /\ loops' = [k \in Loops |-> "run"]
  /\ UNCHANGED <<acc, ioStopped, acceptor, accepting, pool, session, reading, net,
                 acceptFailed, accepts, reads>>

\* LpNetManager::Run: the queues one by one, then the workers.
NetRun ==
  /\ main = "netRun"
  /\ IF Len(m_netTaskQueue) < m_ioThreadCount
     THEN /\ m_netTaskQueue' = Append(m_netTaskQueue, <<>>)
          /\ UNCHANGED <<main, workersRun>>
     ELSE /\ workersRun' = TRUE /\ main' = "command"
          /\ UNCHANGED m_netTaskQueue
  /\ UNCHANGED <<acc, asio, loops, serverRunning, ioStopped, acceptor, accepting, pool,
                 session, reading, outOfRange, acceptFailed, accepts, reads>>

-----------------------------------------------------------------------------
(* The command "exit": LpServer::Stop.                                     *)

ExitCommand ==
  /\ main = "command" /\ main' = "close"
  /\ UNCHANGED <<acc, asio, loops, serverRunning, ioStopped, acceptor, accepting, pool,
                 session, reading, net, acceptFailed, accepts, reads>>

\* LpAcceptor::Close: the flag ...
CloseFlag ==
  /\ main = "close" /\ main' = "closeAcceptor"
  /\ m_running' = FALSE
  /\ UNCHANGED <<acc, asio, loops, serverRunning, ioStopped, acceptorOpen, bound, configured,
                 accepting, pool, session, reading, net, acceptFailed, accepts, reads>>

\* ... then the acceptor, which aborts an outstanding accept.
CloseAcceptor ==
  /\ main = "closeAcceptor" /\ main' = "stop"
  /\ acceptorOpen' = FALSE
  /\ ready' = ready \cup {[object |-> o, ok |-> FALSE] : o \in pending}
  /\ pending' = {}
  /\ UNCHANGED <<acc, asio, loops, serverRunning, ioStopped, m_running, bound, configured,
                 pool, session, reading, net, acceptFailed, accepts, reads>>

\* Variant: only the acceptor is closed.
StopForgotten ==
  /\ main = "stop" /\ main' = "asio"
  /\ UNCHANGED <<acc, asio, loops, serverRunning, ioStopped, acceptor, accepting, pool,
                 session, reading, net, acceptFailed, accepts, reads>>

\* LpIOContext::Stop.
Stop ==
  /\ main = "stop" /\ main' = "asio"
  /\ ioStopped' = TRUE
  /\ UNCHANGED <<acc, asio, loops, serverRunning, acceptor, accepting, pool,
                 session, reading, net, acceptFailed, accepts, reads>>

\* A thread returns from io_context::run when the context is stopped, or has
\* no work left, which stops it.
NoWork ==
  pending = {} /\ ready = {} /\ reading = {} /\ \A t \in AsioThreads : acc[t] = Idle

AsioExit(t) ==
  /\ asio[t] = "run" /\ acc[t] = Idle
  /\ ioStopped \/ NoWork
  /\ ioStopped' = TRUE
  /\ asio' = [asio EXCEPT ![t] = "exited"]
  /\ UNCHANGED <<main, acc, loops, serverRunning, acceptor, accepting, pool, session,
                 reading, net, acceptFailed, accepts, reads>>

\* while (m_running), in ProcessHandler and ProcessLog.
LoopTurn(k) ==
  /\ loops[k] = "run"
  /\ loops' = [loops EXCEPT ![k] = IF serverRunning THEN "run" ELSE "exited"]
  /\ UNCHANGED <<main, acc, asio, serverRunning, ioStopped, acceptor, accepting, pool,
                 session, reading, net, acceptFailed, accepts, reads>>

\* Stop joins the asio threads, then the handler threads, then the log
\* thread; behind them come Release and the end of the program.
Exited(k) == IF k = "asio" THEN \A t \in AsioThreads : asio[t] = "exited"
             ELSE loops[k] = "exited"

Join ==
  /\ main \in {"asio", "handlers", "log"} /\ Exited(main)
  /\ main' = CASE main = "asio" -> "handlers" [] main = "handlers" -> "log"
               [] OTHER -> "released"
  /\ UNCHANGED <<acc, asio, loops, serverRunning, ioStopped, acceptor, accepting, pool,
                 session, reading, net, acceptFailed, accepts, reads>>

-----------------------------------------------------------------------------
AcceptorCode(t) ==
  \/ AsyncAccept(t) \/ DivideByZero(t) \/ Initiate(t)
  \/ OnAcceptRunning(t) \/ OnAcceptResult(t) \/ Rearm(t)

MainStep ==
  \/ Bind \/ LoadFile \/ Start \/ Run \/ NetRun
  \/ CloseFlag \/ CloseAcceptor \/ Stop \/ Join

\* An exception or a division by zero has ended the program, before any thread
\* was started.
Failed == main = "failed" /\ UNCHANGED vars

AsioStep(t) == (\E r \in ready : DispatchAccept(t, r)) \/ AsioExit(t)

Next ==
  \/ \E t \in AsioThreads \cup {Main} : AcceptorCode(t)
  \/ \E o \in Objects, ok \in BOOLEAN : CompleteAccept(o, ok)
  \/ \E t \in AsioThreads : AsioStep(t) \/ \E o \in Objects : OnRead(t, o) \/ ReadError(t, o)
  \/ \E q \in 1..m_ioThreadCount : TakeTask(q)
  \/ MainStep \/ ExitCommand \/ Failed
  \/ \E k \in Loops : LoopTurn(k)

(***************************************************************************)
(* Every thread that can run does: the main thread outside the console,    *)
(* the code of the acceptor, an asio thread with something to do, and the  *)
(* loops.  Clients and the console owe nothing.                            *)
(***************************************************************************)
Spec ==
  /\ Init /\ [][Next]_vars
  /\ WF_vars(MainStep)
  /\ \A t \in AsioThreads \cup {Main} : WF_vars(AcceptorCode(t))
  /\ \A t \in AsioThreads : WF_vars(AsioStep(t))
  /\ \A k \in Loops : WF_vars(LoopTurn(k))

-----------------------------------------------------------------------------
Mains == {"bind", "load", "start", "failed", "accept", "netRun", "command", "close",
          "closeAcceptor", "stop", "asio", "handlers", "log", "released"}
AccPcs == {"idle", "arm", "initiate", "onAccept", "result", "rearm"}
AccPlaces == [pc : AccPcs, object : Objects \cup {NoObject}, ok : BOOLEAN]

TypeOK ==
  /\ main \in Mains
  /\ acc \in [AsioThreads \cup {Main} -> AccPlaces]
  /\ asio \in [AsioThreads -> {"none", "run", "exited"}]
  /\ {m_running, acceptorOpen, bound, configured, ioStopped, acceptFailed} \subseteq BOOLEAN
  /\ pending \subseteq Objects /\ reading \subseteq Objects
  /\ ready \subseteq [object : Objects, ok : BOOLEAN]
  /\ m_queueSessionPool \in Seq(Objects)
  /\ m_currentSessionID \in 0..(IntMax - 1)
  /\ \A k \in DOMAIN m_sessionMap : k \in 1..(IntMax - 1) /\ m_sessionMap[k] \in Objects
  /\ session \in [Objects -> [state : {"Closed", "Waiting", "Connected"},
                              id : 0..(IntMax - 1), open : BOOLEAN]]
  /\ m_netTaskQueue \in Seq(Seq(Objects \X (1..(IntMax - 1))))
  /\ accepts \in 0..MaxAccepts

InCode == {t \in AsioThreads \cup {Main} : acc[t].pc # "idle"}

\* One accept is outstanding, or completed, or in somebody's hands: two
\* threads are never in AsyncAccept or OnAccept together, which is what keeps
\* the unlocked m_sessionMap and UseSessionID safe (LpAcceptor.cpp:47-116).
OneAcceptAtATime ==
  Cardinality(pending) + Cardinality(ready) + Cardinality(InCode) <= 1

\* From the first AsyncAccept to Stop there is such an accept, unless one has
\* failed: OnAccept with an error does not accept again, and neither does
\* anybody after async_accept has thrown; the server goes on deaf
\* (LpAcceptor.cpp:63-69, 90-105).
KeepsAccepting ==
  main \in {"netRun", "command"} /\ ~acceptFailed =>
    pending # {} \/ ready # {} \/ InCode # {}

\* A session in the pool is there once, its socket is closed, and nobody works
\* on it: no accept or read is outstanding for it, no completion on its way and
\* no thread has it in OnAccept.  It need not be Closed, and can still be in
\* m_sessionMap: an async_accept that throws puts it back Waiting
\* (LpAcceptor.cpp:67-69, 77-105).
PoolIsFree ==
  \A j \in DOMAIN m_queueSessionPool :
    LET o == m_queueSessionPool[j]
    IN  /\ \A k \in DOMAIN m_queueSessionPool : m_queueSessionPool[k] = o => k = j
        /\ session[o].state # "Connected" /\ ~session[o].open
        /\ o \notin pending \cup reading
        /\ \A r \in ready : r.object # o
        /\ \A t \in InCode : acc[t].object # o

\* A session that waits or is connected is found in m_sessionMap under its
\* id, as long as ids have not come round (LpAcceptor.cpp:58-60, 84,
\* LpSessionPool.cpp:41-46).
IDsIssued == Cardinality({o \in Objects : session[o].id # 0})
SessionInMap ==
  IDsIssued <= IntMax - 1 =>
    \A o \in Objects : session[o].state # "Closed" =>
      session[o].id \in DOMAIN m_sessionMap /\ m_sessionMap[session[o].id] = o

\* A Receive task is served under the id it was queued for: the session it
\* points to has not been given to another connection meanwhile, closed or
\* not (LpSession.cpp:69-90, LpNetManager.cpp:39-52).
TaskOfItsConnection ==
  \A q \in DOMAIN m_netTaskQueue : \A j \in DOMAIN m_netTaskQueue[q] :
    session[m_netTaskQueue[q][j][1]].id = m_netTaskQueue[q][j][2]

\* The asio threads do not run out of work: while the server is up, they
\* leave io_context::run only if an accept has failed, in the first AsyncAccept
\* of the main thread or later (LpServer.cpp:71-79, LpAcceptor.cpp:63-69).
AsioThreadsStay ==
  main \in {"netRun", "command"} /\ ~acceptFailed =>
    \A t \in AsioThreads : asio[t] = "run"

\* A Bind that failed, which the log calls a success, or a configuration that
\* could not be read never leads to a server that runs: nothing is accepted
\* and no thread started (LpAcceptor.cpp:34-42, LpServer.cpp:35-40, 73-79,
\* LpSession.cpp:170).
NothingHalfStarted ==
  ~bound \/ ~configured =>
    pending = {} /\ ready = {} /\ \A t \in AsioThreads : asio[t] = "none"

-----------------------------------------------------------------------------
(* Why the invariants above hold.                                          *)

\* OneAcceptAtATime without numbers: the accept is outstanding, or completed,
\* or in the hands of one thread.
Chain ==
  /\ \A o, p \in pending : o = p
  /\ \A q, r \in ready : q = r
  /\ \A t, u \in InCode : t = u
  /\ pending = {} \/ ready = {}
  /\ pending = {} \/ InCode = {}
  /\ ready = {} \/ InCode = {}

\* The session it is for, until the answer is known.
InChain(o) ==
  \/ o \in pending \/ \E r \in ready : r.object = o
  \/ \E t \in InCode : acc[t].pc \in {"initiate", "onAccept", "result"} /\ acc[t].object = o

\* Whose hands it can be in, and what that needs.
Hands ==
  \A t \in AsioThreads \cup {Main} :
    /\ acc[t].pc \in {"idle", "arm"} => acc[t].object = NoObject /\ ~acc[t].ok
    /\ acc[t].pc \in {"initiate", "onAccept", "result", "rearm"} => acc[t].object # NoObject
    /\ acc[t].pc = "rearm" => acc[t].ok
    /\ t # Main /\ acc[t].pc # "idle" => asio[t] = "run"
    /\ t = Main => acc[t].pc \in {"idle", "arm", "initiate"}
    /\ t = Main /\ acc[t].pc # "idle" => main = "accept"

\* What is behind the main thread, and what not yet: until Start nothing is
\* accepted, until Run nothing happens on an asio thread, until the command
\* exit the acceptor is open and the io_context runs.
NotStarted == main \in {"bind", "load", "start", "failed"}
NotRun == NotStarted \/ main = "accept"
Up == main \in {"accept", "netRun", "command"}

Phases ==
  /\ NotStarted =>
       pending = {} /\ ready = {} /\ InCode = {}
  /\ NotStarted \/ acc[Main].pc = "arm" =>
       /\ \A o \in Objects : session[o].id = 0
       /\ m_currentSessionID = 0 /\ DOMAIN m_sessionMap = {}
  /\ main \in {"bind", "load"} =>
       \A o \in Objects : session[o].state = "Closed" /\ ~session[o].open
  /\ NotRun => /\ ~ioStopped /\ reading = {}
               /\ \A t \in AsioThreads : asio[t] = "none"
  /\ main \in {"load", "start"} \/ Up => acceptorOpen
  /\ main = "start" \/ Up => m_running
  /\ ~NotStarted => bound /\ (configured \/ (main = "accept" /\ acc[Main].pc = "arm"))
  /\ Up /\ ~acceptFailed => ~ioStopped
  /\ Up /\ ~acceptFailed => pending # {} \/ ready # {} \/ InCode # {}

\* The next AsyncAccept has not been made, though its accept is counted.
Due ==
  \/ NotStarted
  \/ \E t \in InCode : acc[t].pc = "arm" \/ acc[t].ok
  \/ \E r \in ready : r.ok

\* Objects beyond the pool are allocated in order, at most one for each accept
\* and one ahead: so there is always one left to allocate.
Allocated ==
  \E k \in 0..(accepts + 1) :
    /\ Due => k <= accepts
    /\ \A o \in Objects : o > SESSION_POOL_SIZE =>
         (session[o].id # 0 <=> o <= SESSION_POOL_SIZE + k)

\* A session whose id is 0 has never been used, and has no open socket, nor has
\* the one that is to be accepted.  One that has been used is not put back while
\* there is an accept to come: Pop never hands it out again.
Unused ==
  /\ \A o \in Objects : InChain(o) =>
       session[o].id # 0 /\ session[o].state = "Waiting" /\ o \notin reading
  /\ \A o \in reading : session[o].id # 0
  /\ \A o \in Objects : session[o].id = 0 => ~session[o].open
  /\ \A t \in InCode : acc[t].pc = "initiate" => ~session[acc[t].object].open
  /\ \A j \in DOMAIN m_queueSessionPool :
       LET o == m_queueSessionPool[j]
       IN  /\ o <= SESSION_POOL_SIZE \/ session[o].id # 0
           /\ session[o].id # 0 => pending = {} /\ ready = {} /\ InCode = {}

\* Until ids come round they are given out in order, each once, and the map
\* holds the newest sessions under ids that were given out.
IDsInOrder ==
  IDsIssued <= IntMax - 1 =>
    /\ m_currentSessionID = IDsIssued
    /\ \A o \in Objects : session[o].id <= m_currentSessionID
    /\ \A o, p \in Objects : session[o].id = session[p].id /\ session[o].id # 0 => o = p
    /\ \A k \in DOMAIN m_sessionMap : k <= m_currentSessionID

IInv ==
  /\ TypeOK /\ Chain /\ Hands /\ Phases /\ Allocated /\ Unused /\ IDsInOrder
  /\ PoolIsFree /\ SessionInMap /\ TaskOfItsConnection /\ AsioThreadsStay

-----------------------------------------------------------------------------
\* Stop gets past the asio threads, whatever they are doing in OnAccept and
\* AsyncAccept, also after an accept has failed.  That the shutdown of a
\* connection already reset throws out of a thread is left out
\* (LpServer.cpp:111-124, LpAcceptor.cpp:77-88, 136-139).
StopJoinsAsioThreads == (main = "close") ~> (main = "handlers")

\* main.cpp:33-36: the command exit stops the server, releases it and ends
\* the program.
ExitEnds == (main = "close") ~> (main = "released")

\* The comments of Start: events are received first and NetTasks processed
\* then (LpServer.cpp:78-83); a task is only ever pushed to a queue that is
\* there.
QueuesReady == ~outOfRange
=============================================================================
