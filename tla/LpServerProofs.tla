--------------------------- MODULE LpServerProofs ---------------------------
(***************************************************************************)
(* The server for any number of asio threads and workers, any size of the  *)
(* pool and any INT_MAX.                                                   *)
(***************************************************************************)
EXTENDS LpServer, TLAPS, SequenceTheorems, FiniteSetTheorems

\* What the accept and the sessions are made of.
accept == <<acc, pending, ready, m_queueSessionPool, m_currentSessionID, m_sessionMap,
            session, reading, m_netTaskQueue>>

\* Steps that leave them alone keep all that is said of them only.
LEMMA QuietStep ==
  ASSUME IInv, UNCHANGED accept
  PROVE  /\ Chain' /\ Unused' /\ IDsInOrder' /\ PoolIsFree'
         /\ SessionInMap' /\ TaskOfItsConnection'
<1> USE DEF IInv, accept
<1>1. Chain'
  BY DEF Chain, InCode
<1>2. Unused'
  BY DEF Unused, InChain, InCode
<1>3. IDsInOrder' /\ SessionInMap'
  BY DEF IDsInOrder, SessionInMap, IDsIssued
<1>4. PoolIsFree'
  BY DEF PoolIsFree, InCode
<1>5. TaskOfItsConnection'
  BY DEF TaskOfItsConnection
<1> QED BY <1>1, <1>2, <1>3, <1>4, <1>5

\* Steps that allocate nothing.
LEMMA NothingAllocated ==
  ASSUME IInv, \A o \in Objects : session'[o].id = session[o].id,
         \/ accepts' = accepts /\ (Due' => Due)
         \/ accepts' = accepts + 1
  PROVE  Allocated'
<1>1. PICK k \in 0..(accepts + 1) :
        /\ Due => k <= accepts
        /\ \A o \in Objects : o > SESSION_POOL_SIZE =>
             (session[o].id # 0 <=> o <= SESSION_POOL_SIZE + k)
  BY DEF IInv, Allocated
<1>2. k \in 0..(accepts' + 1) /\ (Due' => k <= accepts')
  BY <1>1 DEF IInv, TypeOK
<1> QED BY <1>1, <1>2 DEF Allocated

LEMMA QuietAllocated ==
  ASSUME IInv, UNCHANGED <<acc, ready, session, accepts>>, NotStarted' => NotStarted
  PROVE  Allocated'
BY NothingAllocated DEF Due, InCode

-----------------------------------------------------------------------------
(* The accept in the hands of a thread.                                    *)

\* A thread in it is the only one, and the accept is nowhere else.
LEMMA InHand ==
  ASSUME IInv, NEW t \in AsioThreads \cup {Main}, acc[t].pc # "idle"
  PROVE  /\ InCode = {t} /\ pending = {} /\ ready = {} /\ ~NotStarted
         /\ \A u \in AsioThreads \cup {Main} : u # t => acc[u].pc = "idle"
         /\ t = Main => main = "accept"
         /\ t # Main => asio[t] = "run" /\ ~NotRun
BY DEF IInv, Chain, InCode, Phases, Hands, NotRun

LEMMA ObjectInHand ==
  ASSUME IInv, NEW t \in AsioThreads \cup {Main}, acc[t].pc \notin {"idle", "arm"}
  PROVE  acc[t].object \in Objects /\ acc[t].ok \in BOOLEAN
BY DEF IInv, TypeOK, AccPlaces, AccPcs, Hands

LEMMA NoObjectIsNone == ASSUME NEW o \in Objects PROVE o # NoObject
BY ServerAssumption DEF Objects, NoObject

LEMMA PlaceType ==
  ASSUME NEW pc \in AccPcs, NEW o \in Objects \cup {NoObject}, NEW ok \in BOOLEAN
  PROVE  /\ At(pc, o, ok) \in AccPlaces
         /\ At(pc, o, ok).pc = pc /\ At(pc, o, ok).object = o /\ At(pc, o, ok).ok = ok
BY DEF At, AccPlaces

LEMMA NoPlace ==
  /\ Idle \in AccPlaces /\ Idle.pc = "idle" /\ Idle.object = NoObject /\ ~Idle.ok
  /\ Armed \in AccPlaces /\ Armed.pc = "arm" /\ Armed.object = NoObject /\ ~Armed.ok
BY DEF Idle, Armed, At, AccPlaces, AccPcs

\* When the accept is in no other hands, t is the only thread that can be in
\* the code after it has moved.
LEMMA Moved ==
  ASSUME IInv, NEW t \in AsioThreads \cup {Main}, NEW a \in AccPlaces,
         acc' = [acc EXCEPT ![t] = a], InCode \subseteq {t}
  PROVE  /\ acc' \in [AsioThreads \cup {Main} -> AccPlaces] /\ acc'[t] = a
         /\ \A u \in AsioThreads \cup {Main} : u # t => acc'[u] = acc[u] /\ acc'[u].pc = "idle"
         /\ InCode' = IF a.pc = "idle" THEN {} ELSE {t}
BY DEF IInv, TypeOK, InCode

\* A thread that is in no hands holds nothing.
LEMMA IdleHands ==
  ASSUME IInv, NEW t \in AsioThreads \cup {Main}, acc[t].pc = "idle"
  PROVE  acc[t].object = NoObject /\ ~acc[t].ok
BY DEF IInv, Hands

\* The one thread in the code has moved within it or out of it.
LEMMA MovedHands ==
  ASSUME IInv, NEW t \in AsioThreads \cup {Main}, NEW a \in AccPlaces,
         acc' = [acc EXCEPT ![t] = a], InCode \subseteq {t}, UNCHANGED asio,
         a.pc \in {"idle", "arm"} => a.object = NoObject /\ ~a.ok,
         a.pc \notin {"idle", "arm"} => a.object # NoObject,
         a.pc = "rearm" => a.ok,
         t # Main /\ a.pc # "idle" => asio[t] = "run",
         t = Main => a.pc \in {"idle", "arm", "initiate"},
         t = Main /\ a.pc # "idle" => main' = "accept"
  PROVE  Hands'
<1>1. /\ acc'[t] = a
      /\ \A u \in AsioThreads \cup {Main} : u # t => acc'[u] = acc[u] /\ acc'[u].pc = "idle"
  BY Moved
<1> SUFFICES ASSUME NEW u \in AsioThreads \cup {Main}
             PROVE  Hands!(u)'
  BY DEF Hands
<1>2. CASE u = t
  BY <1>1, <1>2
<1>3. CASE u # t
  BY <1>1, <1>3, IdleHands
<1> QED BY <1>2, <1>3

-----------------------------------------------------------------------------
(* The main thread and the loops.                                          *)

\* The steps of the main thread after Run, of which only those that close the
\* acceptor or stop the io_context matter to others.
LEMMA LateMainIInv ==
  ASSUME IInv, CloseFlag \/ Stop \/ Join \/ ExitCommand PROVE IInv'
<1> USE DEF CloseFlag, Stop, Join, ExitCommand, acceptor, accepting, pool, net
<1>1. TypeOK'
  BY DEF IInv, TypeOK, Mains
<1>2. Hands'
  BY DEF IInv, Hands
<1>3. Phases' /\ AsioThreadsStay'
  BY DEF IInv, Phases, NotStarted, NotRun, Up, InCode, AsioThreadsStay, TypeOK, Mains
<1>4. Allocated'
  BY QuietAllocated DEF NotStarted
<1> QED BY <1>1, <1>2, <1>3, <1>4, QuietStep DEF IInv, accept

LEMMA LoopTurnIInv == ASSUME IInv, NEW k \in Loops, LoopTurn(k) PROVE IInv'
<1> USE DEF LoopTurn, acceptor, accepting, pool, net
<1>1. TypeOK' /\ Hands'
  BY DEF IInv, TypeOK, Hands
<1>2. Phases' /\ AsioThreadsStay'
  BY DEF IInv, Phases, NotStarted, NotRun, Up, InCode, AsioThreadsStay
<1>3. Allocated'
  BY QuietAllocated DEF NotStarted
<1> QED BY <1>1, <1>2, <1>3, QuietStep DEF IInv, accept

LEMMA BindIInv == ASSUME IInv, Bind PROVE IInv'
<1> USE DEF Bind, acceptor, accepting, pool, net
<1>1. TypeOK' /\ Hands'
  BY DEF IInv, TypeOK, Mains, Hands
<1>2. Phases' /\ AsioThreadsStay'
  BY DEF IInv, Phases, NotStarted, NotRun, Up, InCode, AsioThreadsStay
<1>3. Allocated'
  BY QuietAllocated DEF NotStarted
<1> QED BY <1>1, <1>2, <1>3, QuietStep DEF IInv, accept

LEMMA RunIInv == ASSUME IInv, Run PROVE IInv'
<1> USE DEF Run, acceptor, accepting, pool, net
<1>1. TypeOK' /\ Hands'
  BY DEF IInv, TypeOK, Mains, Hands, Idle, At
<1>2. Phases' /\ AsioThreadsStay'
  BY DEF IInv, Phases, NotStarted, NotRun, Up, InCode, AsioThreadsStay, Idle, At
<1>3. Allocated'
  BY QuietAllocated DEF NotStarted
<1> QED BY <1>1, <1>2, <1>3, QuietStep DEF IInv, accept

LEMMA AsioExitIInv == ASSUME IInv, NEW t \in AsioThreads, AsioExit(t) PROVE IInv'
<1> USE DEF AsioExit, acceptor, accepting, pool, net
<1>1. TypeOK' /\ Hands'
  BY DEF IInv, TypeOK, Hands, Idle, At
<1>2. ~(main \in {"netRun", "command", "accept"} /\ ~acceptFailed)
  <2> SUFFICES ASSUME main \in {"netRun", "command", "accept"} /\ ~acceptFailed PROVE FALSE
    OBVIOUS
  <2>1. main # "accept" /\ ~ioStopped /\ (pending # {} \/ ready # {} \/ InCode # {})
    BY DEF IInv, Phases, NotRun, Up
  <2>2. acc[Main].pc = "idle"
    BY <2>1 DEF IInv, Hands
  <2>3. InCode = {}
    BY <2>1, <2>2 DEF NoWork, InCode, Idle, At
  <2> QED BY <2>1, <2>3 DEF NoWork
<1>3. Phases'
  BY <1>2 DEF IInv, Phases, NotStarted, NotRun, Up, InCode
<1>4. AsioThreadsStay'
  BY <1>2 DEF AsioThreadsStay
<1>5. Allocated'
  BY QuietAllocated DEF NotStarted
<1> QED BY <1>1, <1>3, <1>4, <1>5, QuietStep DEF IInv, accept

-----------------------------------------------------------------------------

LEMMA StartIInv == ASSUME IInv, Start PROVE IInv'
<1> USE ServerAssumption DEF Start, acceptor, accepting, pool, net
<1>1. CASE main' = "failed" /\ UNCHANGED acc
  <2>1. TypeOK' /\ Hands' /\ Phases' /\ AsioThreadsStay'
    BY <1>1 DEF IInv, TypeOK, Mains, Hands, Phases, NotStarted, NotRun, Up, InCode,
                AsioThreadsStay
  <2>2. Allocated'
    BY <1>1, QuietAllocated DEF NotStarted
  <2> QED BY <1>1, <2>1, <2>2, QuietStep DEF IInv, accept
<1>2. CASE bound /\ main' = "accept" /\ acc' = [acc EXCEPT ![Main] = Armed]
  <2>1. /\ InCode = {} /\ InCode' = {Main} /\ acc'[Main] = Armed
        /\ \A t \in AsioThreads : acc'[t] = acc[t]
        /\ pending = {} /\ ready = {}
    BY <1>2 DEF IInv, TypeOK, Phases, NotStarted, InCode, Armed, At
  <2>2. TypeOK'
    BY <1>2, NoPlace DEF IInv, TypeOK, Mains
  <2>3. Chain'
    BY <2>1 DEF Chain
  <2>4. Hands'
    BY <1>2, <2>1 DEF IInv, Hands, Armed, At
  <2>5. Phases' /\ AsioThreadsStay'
    BY <1>2, <2>1 DEF IInv, Phases, NotStarted, NotRun, Up, AsioThreadsStay, Armed, At
  <2>6. Allocated'
    BY <1>2, NothingAllocated DEF Due, NotStarted
  <2>7. Unused'
    <3>1. \A j \in DOMAIN m_queueSessionPool :
            m_queueSessionPool[j] \in Objects /\ session[m_queueSessionPool[j]].id = 0
      BY DEF IInv, TypeOK, Phases, NotStarted
    <3>2. \A o \in Objects : ~InChain(o)'
      BY <2>1 DEF InChain, Armed, At
    <3>3. \A t \in InCode' : acc'[t].pc = "arm"
      BY <2>1 DEF Armed, At
    <3> QED BY <3>1, <3>2, <3>3 DEF IInv, Unused
  <2>8. PoolIsFree'
    BY <2>1 DEF IInv, PoolIsFree, Armed, At, NoObject, Objects, TypeOK
  <2>9. IDsInOrder' /\ SessionInMap' /\ TaskOfItsConnection'
    BY DEF IInv, IDsInOrder, SessionInMap, IDsIssued, TaskOfItsConnection
  <2> QED BY <2>2, <2>3, <2>4, <2>5, <2>6, <2>7, <2>8, <2>9 DEF IInv
<1> QED BY <1>1, <1>2

LEMMA LoadFileIInv == ASSUME IInv, LoadFile PROVE IInv'
<1> USE ServerAssumption DEF LoadFile, acceptor, accepting, pool, net
<1>1. PICK size \in {0, SESSION_POOL_SIZE} :
        m_queueSessionPool' = [k \in 1..size |-> k] \/ UNCHANGED m_queueSessionPool
  BY DEF InitAcceptor
<1>2. /\ pending = {} /\ ready = {} /\ InCode = {} /\ reading = {}
      /\ \A o \in Objects : /\ session[o].id = 0 /\ session[o].state = "Closed"
                            /\ ~session[o].open
  BY DEF IInv, Phases, NotStarted, NotRun
<1>3. 1..size \subseteq Objects
  BY DEF Objects
<1>4. TypeOK'
  <2>1. m_queueSessionPool' \in Seq(Objects)
    <3>1. size \in Nat /\ \A k \in 1..size : k \in Objects
      BY <1>3
    <3>2. [k \in 1..size |-> k] \in Seq(Objects)
      BY <3>1, IsASeq
    <3> QED BY <1>1, <3>2 DEF IInv, TypeOK
  <2> QED BY <2>1 DEF IInv, TypeOK, Mains, InitAcceptor
<1>5. Chain' /\ Hands' /\ IDsInOrder' /\ SessionInMap' /\ TaskOfItsConnection'
  BY DEF IInv, Chain, Hands, InCode, IDsInOrder, SessionInMap, IDsIssued, TaskOfItsConnection
<1>6. Phases' /\ AsioThreadsStay'
  BY DEF IInv, Phases, NotStarted, NotRun, Up, InCode, AsioThreadsStay, InitAcceptor
<1>7. Allocated'
  BY QuietAllocated DEF NotStarted
<1>8. \A j \in DOMAIN m_queueSessionPool' :
        \/ UNCHANGED m_queueSessionPool
        \/ m_queueSessionPool'[j] = j /\ j \in 1..SESSION_POOL_SIZE
  BY <1>1
<1>9. Unused' /\ PoolIsFree'
  <2>1. InCode' = {} /\ UNCHANGED <<pending, ready, reading, session>>
    BY <1>2 DEF InCode
  <2>2. \A o \in 1..SESSION_POOL_SIZE : o \in Objects /\ o <= SESSION_POOL_SIZE
    BY DEF Objects
  <2>3. Unused'
    BY <1>2, <1>8, <2>1, <2>2 DEF IInv, Unused, InChain
  <2>4. PoolIsFree'
    BY <1>2, <1>8, <2>1, <2>2 DEF IInv, PoolIsFree
  <2> QED BY <2>3, <2>4
<1> QED BY <1>4, <1>5, <1>6, <1>7, <1>9 DEF IInv

LEMMA NetRunIInv == ASSUME IInv, NetRun PROVE IInv'
<1> USE ServerAssumption DEF NetRun, acceptor, accepting, pool, net
<1>1. m_netTaskQueue \in Seq(Seq(Objects \X (1..(IntMax - 1))))
  BY DEF IInv, TypeOK
<1>2. /\ m_netTaskQueue' \in Seq(Seq(Objects \X (1..(IntMax - 1))))
      /\ \A q \in DOMAIN m_netTaskQueue' :
           \/ q \in DOMAIN m_netTaskQueue /\ m_netTaskQueue'[q] = m_netTaskQueue[q]
           \/ m_netTaskQueue'[q] = <<>>
  <2> DEFINE Tasks == Seq(Objects \X (1..(IntMax - 1)))
  <2>1. CASE m_netTaskQueue' = Append(m_netTaskQueue, <<>>)
    <3>1. <<>> \in Tasks
      OBVIOUS
    <3> HIDE DEF Tasks
    <3>2. /\ m_netTaskQueue' \in Seq(Tasks)
          /\ Len(m_netTaskQueue') = Len(m_netTaskQueue) + 1
          /\ \A q \in 1..Len(m_netTaskQueue) : m_netTaskQueue'[q] = m_netTaskQueue[q]
          /\ m_netTaskQueue'[Len(m_netTaskQueue) + 1] = <<>>
      BY <1>1, <2>1, <3>1, AppendProperties DEF Tasks
    <3>3. Len(m_netTaskQueue) \in Nat /\ DOMAIN m_netTaskQueue = 1..Len(m_netTaskQueue)
          /\ DOMAIN m_netTaskQueue' = 1..Len(m_netTaskQueue')
      BY <1>1, <3>2, LenProperties DEF Tasks
    <3>4. /\ m_netTaskQueue' \in Seq(Tasks)
          /\ \A q \in DOMAIN m_netTaskQueue' :
               \/ q \in DOMAIN m_netTaskQueue /\ m_netTaskQueue'[q] = m_netTaskQueue[q]
               \/ m_netTaskQueue'[q] = <<>>
      BY <3>2, <3>3
    <3> QED BY <3>4 DEF Tasks
  <2>2. CASE UNCHANGED m_netTaskQueue
    BY <1>1, <2>2
  <2> QED BY <2>1, <2>2
<1>3. TypeOK' /\ Hands'
  BY <1>2 DEF IInv, TypeOK, Mains, Hands
<1>4. Phases' /\ AsioThreadsStay'
  BY DEF IInv, Phases, NotStarted, NotRun, Up, InCode, AsioThreadsStay
<1>5. Allocated'
  BY QuietAllocated DEF NotStarted
<1>6. Chain' /\ IDsInOrder' /\ SessionInMap'
  BY DEF IInv, Chain, InCode, IDsInOrder, SessionInMap, IDsIssued
<1>7. Unused' /\ PoolIsFree'
  BY DEF IInv, Unused, InChain, InCode, PoolIsFree
<1>8. TaskOfItsConnection'
  <2> SUFFICES ASSUME NEW q \in DOMAIN m_netTaskQueue', NEW j \in DOMAIN m_netTaskQueue'[q]
               PROVE  session'[m_netTaskQueue'[q][j][1]].id = m_netTaskQueue'[q][j][2]
    BY DEF TaskOfItsConnection
  <2>1. m_netTaskQueue'[q] # <<>>
    OBVIOUS
  <2> QED BY <1>2, <2>1 DEF IInv, TaskOfItsConnection
<1> QED BY <1>3, <1>4, <1>5, <1>6, <1>7, <1>8 DEF IInv

LEMMA CloseAcceptorIInv == ASSUME IInv, CloseAcceptor PROVE IInv'
<1> USE ServerAssumption DEF CloseAcceptor, acceptor, accepting, pool, net
<1>1. \A r \in ready' :
        r \in ready \/ \E o \in pending : r = [object |-> o, ok |-> FALSE]
  OBVIOUS
<1>2. /\ \A o \in pending : [object |-> o, ok |-> FALSE] \in ready'
      /\ \A r \in ready : r \in ready'
      /\ UNCHANGED InCode /\ pending' = {}
      /\ pending = {} => ready' = ready
  BY <1>1 DEF InCode
<1>3. TypeOK' /\ Hands'
  <2>1. ready' \subseteq [object : Objects, ok : BOOLEAN]
    <3>1. \A o \in pending : [object |-> o, ok |-> FALSE] \in [object : Objects, ok : BOOLEAN]
      BY DEF IInv, TypeOK
    <3>2. ready \subseteq [object : Objects, ok : BOOLEAN]
      BY DEF IInv, TypeOK
    <3> HIDE DEF CloseAcceptor
    <3> QED BY <1>1, <3>1, <3>2
  <2> QED BY <2>1 DEF IInv, TypeOK, Mains, Hands
<1>4. Chain'
  BY <1>1, <1>2 DEF IInv, Chain
<1>5. Phases' /\ AsioThreadsStay'
  BY DEF IInv, Phases, NotStarted, NotRun, Up, AsioThreadsStay
<1>6. Allocated'
  BY <1>1, <1>2, NothingAllocated DEF Due, NotStarted
<1>7. \A o : InChain(o)' => InChain(o)
  BY <1>1 DEF InChain, InCode
<1>8. Unused'
  BY <1>1, <1>2, <1>7 DEF IInv, Unused
<1>9. PoolIsFree'
  BY <1>1, <1>2 DEF IInv, PoolIsFree
<1>10. IDsInOrder' /\ SessionInMap' /\ TaskOfItsConnection'
  BY DEF IInv, IDsInOrder, SessionInMap, IDsIssued, TaskOfItsConnection
<1> QED BY <1>3, <1>4, <1>5, <1>6, <1>8, <1>9, <1>10 DEF IInv

-----------------------------------------------------------------------------
(* The code of the acceptor.                                               *)

LEMMA DivideByZeroIInv ==
  ASSUME IInv, NEW t \in AsioThreads \cup {Main}, DivideByZero(t) PROVE IInv'
<1> USE DEF DivideByZero, threads, acceptor, accepting, pool, net
<1>1. t = Main /\ InCode = {Main} /\ pending = {} /\ ready = {}
      /\ main = "accept" /\ acc[Main].pc = "arm"
  BY InHand DEF IInv, Phases
<1>2. InCode' = {} /\ acc'[Main] = Idle
      /\ \A u \in AsioThreads \cup {Main} : acc'[u].pc = "idle"
  BY <1>1, Moved, NoPlace
<1>3. TypeOK'
  BY <1>1, Moved, NoPlace DEF IInv, TypeOK, Mains
<1>4. Chain' /\ Hands'
  BY <1>1, <1>2, NoPlace, MovedHands DEF Chain
<1>5. Phases' /\ AsioThreadsStay'
  BY <1>1, <1>2 DEF IInv, Phases, NotStarted, NotRun, Up, AsioThreadsStay
<1>6. Allocated'
  BY <1>1, NothingAllocated DEF Due
<1>7. Unused' /\ PoolIsFree'
  BY <1>1, <1>2 DEF IInv, Unused, InChain, PoolIsFree
<1>8. IDsInOrder' /\ SessionInMap' /\ TaskOfItsConnection'
  BY DEF IInv, IDsInOrder, SessionInMap, IDsIssued, TaskOfItsConnection
<1> QED BY <1>3, <1>4, <1>5, <1>6, <1>7, <1>8 DEF IInv

LEMMA RearmIInv ==
  ASSUME IInv, NEW t \in AsioThreads \cup {Main}, Rearm(t) PROVE IInv'
<1> USE DEF Rearm, threads, acceptor, accepting, pool, net
<1>1. /\ InCode = {t} /\ pending = {} /\ ready = {} /\ ~NotStarted /\ t # Main
      /\ acc[t].ok /\ asio[t] = "run" /\ ~NotRun
  BY InHand DEF IInv, Hands
<1>2. /\ acc' \in [AsioThreads \cup {Main} -> AccPlaces]
      /\ acc'[t] = IF acceptorOpen THEN Armed ELSE Idle
      /\ InCode' = IF acceptorOpen THEN {t} ELSE {}
      /\ \A u \in AsioThreads \cup {Main} : u # t => acc'[u].pc = "idle"
  BY <1>1, Moved, NoPlace
<1>3. TypeOK'
  BY <1>2 DEF IInv, TypeOK
<1>4. Chain'
  BY <1>1, <1>2 DEF Chain
<1>5. Hands'
  BY <1>1, NoPlace, MovedHands
<1>6. Phases' /\ AsioThreadsStay'
  <2>1. acc[Main].pc = "idle" /\ acc'[Main].pc = "idle" /\ main # "accept"
    BY <1>1, <1>2, InHand DEF NotRun
  <2>2. Up => acceptorOpen /\ InCode' # {}
    BY <1>2 DEF IInv, Phases
  <2>3. Phases'
    <3>1. UNCHANGED <<threads, acceptor, accepting, pool, session, reading, acceptFailed>>
      OBVIOUS
    <3> HIDE DEF Rearm
    <3> QED BY <1>1, <2>1, <2>2, <3>1 DEF IInv, Phases, NotStarted, NotRun, Up
  <2>4. AsioThreadsStay'
    BY DEF IInv, AsioThreadsStay
  <2> QED BY <2>3, <2>4
<1>7. Allocated'
  BY <1>1, NothingAllocated DEF Due
<1>8. Unused'
  BY <1>1, <1>2, NoPlace DEF IInv, Unused, InChain
<1>9. PoolIsFree'
  <2>1. \A j \in DOMAIN m_queueSessionPool : m_queueSessionPool[j] # NoObject
    BY NoObjectIsNone DEF IInv, TypeOK
  <2> QED BY <1>1, <1>2, <2>1, NoPlace DEF IInv, PoolIsFree
<1>10. IDsInOrder' /\ SessionInMap' /\ TaskOfItsConnection'
  BY DEF IInv, IDsInOrder, SessionInMap, IDsIssued, TaskOfItsConnection
<1> QED BY <1>3, <1>4, <1>5, <1>6, <1>7, <1>8, <1>9, <1>10 DEF IInv

LEMMA DispatchAcceptIInv ==
  ASSUME IInv, NEW t \in AsioThreads, NEW r \in ready, DispatchAccept(t, r) PROVE IInv'
<1> USE ServerAssumption DEF DispatchAccept, Free, threads, acceptor, accepting, pool, net
<1>1. ready = {r} /\ ready' = {} /\ pending = {} /\ InCode = {} /\ ~NotRun /\ t # Main
  BY DEF IInv, Chain, Phases, NotRun
<1> DEFINE a == At("onAccept", r.object, r.ok)
<1>2. /\ r.object \in Objects /\ r.ok \in BOOLEAN
      /\ a \in AccPlaces /\ a.pc = "onAccept" /\ a.object = r.object /\ a.ok = r.ok
  BY PlaceType DEF IInv, TypeOK, AccPcs
<1> HIDE DEF a
<1>3. /\ acc'[t] = a /\ InCode' = {t}
      /\ acc' = [acc EXCEPT ![t] = a]
      /\ \A u \in AsioThreads \cup {Main} : u # t => acc'[u].pc = "idle"
  BY <1>1, <1>2, Moved DEF a
<1>4. TypeOK'
  BY <1>1, <1>2, <1>3, Moved DEF IInv, TypeOK
<1>5. Chain'
  BY <1>1, <1>3 DEF Chain
<1>6. Hands'
  <2>1. a.object # NoObject
    BY <1>2, NoObjectIsNone
  <2> QED BY <1>1, <1>2, <1>3, <2>1, MovedHands
<1>7. Phases' /\ AsioThreadsStay'
  BY <1>1, <1>2, <1>3 DEF IInv, Phases, NotStarted, NotRun, Up, AsioThreadsStay
<1>8. Allocated'
  BY <1>1, <1>2, <1>3, NothingAllocated DEF Due, NotRun, NotStarted
<1>9. \A p \in Objects : InChain(p)' => InChain(p)
  BY <1>1, <1>2, <1>3 DEF InChain
<1>10. Unused'
  <2>1. \A u \in InCode' : acc'[u].pc = "onAccept"
    BY <1>2, <1>3
  <2> QED BY <1>1, <1>9, <2>1 DEF IInv, Unused
<1>11. PoolIsFree'
  BY <1>1, <1>2, <1>3 DEF IInv, PoolIsFree
<1>12. IDsInOrder' /\ SessionInMap' /\ TaskOfItsConnection'
  BY DEF IInv, IDsInOrder, SessionInMap, IDsIssued, TaskOfItsConnection
<1> QED BY <1>4, <1>5, <1>6, <1>7, <1>8, <1>10, <1>11, <1>12 DEF IInv


-----------------------------------------------------------------------------
(* Sessions that change, and the pool.                                     *)

\* A session changes its state and its socket, and keeps its id.
LEMMA SessionChanged ==
  ASSUME IInv, NEW o \in Objects, NEW s \in {"Closed", "Waiting", "Connected"},
         NEW open \in BOOLEAN,
         session' = [session EXCEPT ![o] = [state |-> s, id |-> session[o].id, open |-> open]]
  PROVE  /\ session' \in [Objects -> [state : {"Closed", "Waiting", "Connected"},
                                      id : 0..(IntMax - 1), open : BOOLEAN]]
         /\ \A p \in Objects : session'[p].id = session[p].id
         /\ \A p \in Objects : p # o => session'[p] = session[p]
         /\ session'[o].state = s /\ session'[o].open = open
<1>1. session[o].id \in 0..(IntMax - 1)
  BY DEF IInv, TypeOK
<1>2. [state |-> s, id |-> session[o].id, open |-> open]
        \in [state : {"Closed", "Waiting", "Connected"}, id : 0..(IntMax - 1), open : BOOLEAN]
  BY <1>1
<1>3. session \in [Objects -> [state : {"Closed", "Waiting", "Connected"},
                               id : 0..(IntMax - 1), open : BOOLEAN]]
  BY DEF IInv, TypeOK
<1> QED BY <1>2, <1>3

\* The ids and the map stay, and no session is revived.
LEMMA SameIDs ==
  ASSUME IInv, \A o \in Objects : session'[o].id = session[o].id,
         \A o \in Objects : session'[o].state # "Closed" => session[o].state # "Closed",
         UNCHANGED <<m_currentSessionID, m_sessionMap>>
  PROVE  IDsInOrder' /\ SessionInMap'
<1>1. IDsIssued' = IDsIssued
  BY DEF IDsIssued
<1> QED BY <1>1 DEF IInv, IDsInOrder, SessionInMap

LEMMA SameTasks ==
  ASSUME IInv, \A o \in Objects : session'[o].id = session[o].id, UNCHANGED m_netTaskQueue
  PROVE  TaskOfItsConnection'
<1> SUFFICES ASSUME NEW q \in DOMAIN m_netTaskQueue, NEW j \in DOMAIN m_netTaskQueue[q]
             PROVE  session'[m_netTaskQueue[q][j][1]].id = m_netTaskQueue[q][j][2]
  BY DEF TaskOfItsConnection
<1>1. m_netTaskQueue[q][j] \in Objects \X (1..(IntMax - 1))
  BY DEF IInv, TypeOK
<1> QED BY <1>1 DEF IInv, TaskOfItsConnection

LEMMA PutBack ==
  ASSUME IInv, NEW o \in Objects, m_queueSessionPool' = Append(m_queueSessionPool, o)
  PROVE  /\ m_queueSessionPool' \in Seq(Objects)
         /\ \A j \in DOMAIN m_queueSessionPool' :
              \/ j \in DOMAIN m_queueSessionPool
                 /\ m_queueSessionPool'[j] = m_queueSessionPool[j]
              \/ j = Len(m_queueSessionPool) + 1 /\ m_queueSessionPool'[j] = o
<1>1. m_queueSessionPool \in Seq(Objects)
  BY DEF IInv, TypeOK
<1> QED BY <1>1, AppendProperties

\* Putting back a session that nobody has in his hands, with a closed socket.
LEMMA PutBackIsFree ==
  ASSUME IInv, NEW o \in Objects, m_queueSessionPool' = Append(m_queueSessionPool, o),
         InChain(o), session[o].id # 0,
         \A p \in Objects : session'[p].id = session[p].id /\ (p # o => session'[p] = session[p]),
         session'[o].state # "Connected", ~session'[o].open,
         pending' = {}, ready' = {}, InCode' = {}, UNCHANGED reading
  PROVE  Unused' /\ PoolIsFree'
<1>2. \A j \in DOMAIN m_queueSessionPool : m_queueSessionPool[j] # o
                                           /\ m_queueSessionPool[j] \in Objects
  BY DEF IInv, PoolIsFree, InChain, TypeOK
<1>3. o \notin reading
  BY DEF IInv, Unused
<1>4. Unused'
  <2>1. \A p \in Objects : ~InChain(p)'
    BY DEF InChain
  <2>2. \A p \in reading' : session'[p].id # 0
    BY DEF IInv, Unused, TypeOK
  <2>3. \A p \in Objects : session'[p].id = 0 => ~session'[p].open
    BY DEF IInv, Unused
  <2> QED BY <1>2, <2>1, <2>2, <2>3, PutBack DEF IInv, Unused
<1>5. PoolIsFree'
  <2> SUFFICES ASSUME NEW j \in DOMAIN m_queueSessionPool'
               PROVE  /\ \A k \in DOMAIN m_queueSessionPool' :
                           m_queueSessionPool'[k] = m_queueSessionPool'[j] => k = j
                      /\ session'[m_queueSessionPool'[j]].state # "Connected"
                      /\ ~session'[m_queueSessionPool'[j]].open
                      /\ m_queueSessionPool'[j] \notin reading
    BY DEF PoolIsFree
  <2> QED BY <1>2, <1>3, PutBack DEF IInv, PoolIsFree
<1> QED BY <1>4, <1>5

-----------------------------------------------------------------------------

LEMMA InitiateIInv ==
  ASSUME IInv, NEW t \in AsioThreads \cup {Main}, Initiate(t) PROVE IInv'
<1> DEFINE o == acc[t].object
<1> USE DEF Initiate, threads, acceptor, accepting, net
<1>1. /\ InCode = {t} /\ pending = {} /\ ready = {} /\ ~NotStarted
      /\ t = Main => main = "accept"
      /\ t # Main => ~NotRun
  BY InHand
<1>2. InCode' = {} /\ \A u \in AsioThreads \cup {Main} : acc'[u].pc = "idle"
  BY <1>1, Moved, NoPlace
<1>3. o \in Objects
  BY ObjectInHand
<1>4. \/ pending' = {o} /\ ready' = {} /\ UNCHANGED <<m_queueSessionPool, acceptFailed>>
      \/ /\ pending' = {} /\ ready' = {[object |-> o, ok |-> FALSE]}
         /\ UNCHANGED <<m_queueSessionPool, acceptFailed>>
      \/ /\ pending' = {} /\ ready' = {} /\ acceptFailed' = TRUE
         /\ m_queueSessionPool' = Append(m_queueSessionPool, o)
  BY <1>1
<1>5. TypeOK'
  <2>1. pending' \subseteq Objects /\ ready' \subseteq [object : Objects, ok : BOOLEAN]
    <3>1. pending' \subseteq {o} /\ ready' \subseteq {[object |-> o, ok |-> FALSE]}
      BY <1>4
    <3>2. [object |-> o, ok |-> FALSE] \in [object : Objects, ok : BOOLEAN]
      BY <1>3
    <3> QED BY <1>3, <3>1, <3>2
  <2>2. m_queueSessionPool' \in Seq(Objects)
    BY <1>3, <1>4, PutBack DEF IInv, TypeOK
  <2>3. acceptFailed' \in BOOLEAN
    BY <1>4 DEF IInv, TypeOK
  <2>4. acc' \in [AsioThreads \cup {Main} -> AccPlaces]
    BY <1>1, Moved, NoPlace
  <2> QED BY <2>1, <2>2, <2>3, <2>4 DEF IInv, TypeOK
<1>6. Chain'
  BY <1>2, <1>4 DEF Chain
<1>7. Hands'
  BY <1>1, NoPlace, MovedHands
<1>8. Phases' /\ AsioThreadsStay'
  BY <1>1, <1>2, <1>4 DEF IInv, Phases, NotStarted, NotRun, Up, AsioThreadsStay
<1>9. Allocated'
  <2>1. ~Due'
    BY <1>1, <1>2, <1>4 DEF Due, NotStarted
  <2> QED BY <2>1, NothingAllocated
<1>10. \A p \in Objects : InChain(p)' => p = o
  BY <1>2, <1>4 DEF InChain
<1>11. InChain(o) /\ session[o].id # 0 /\ session[o].state = "Waiting" /\ ~session[o].open
  BY <1>1, <1>3 DEF InChain, InCode, IInv, Unused
<1>12. ASSUME UNCHANGED m_queueSessionPool PROVE Unused' /\ PoolIsFree'
  <2>1. Unused'
    BY <1>1, <1>2, <1>3, <1>10, <1>11, <1>12 DEF IInv, Unused
  <2>2. PoolIsFree'
    <3>1. /\ \A j \in DOMAIN m_queueSessionPool : m_queueSessionPool[j] # o
          /\ session' = session /\ reading' = reading
      BY <1>1 DEF IInv, PoolIsFree
    <3>2. (\A p \in pending' : p = o) /\ \A r \in ready' : r.object = o
      BY <1>4
    <3> HIDE DEF o, Initiate
    <3>3. m_queueSessionPool' = m_queueSessionPool
      BY <1>12
    <3> SUFFICES ASSUME NEW j \in DOMAIN m_queueSessionPool
                 PROVE  LET p == m_queueSessionPool[j]
                        IN  /\ \A k \in DOMAIN m_queueSessionPool :
                                 m_queueSessionPool[k] = p => k = j
                            /\ session[p].state # "Connected" /\ ~session[p].open
                            /\ p \notin pending' \cup reading
                            /\ \A r \in ready' : r.object # p
                            /\ \A u \in InCode' : acc'[u].object # p
      BY <3>1, <3>3 DEF PoolIsFree
    <3> QED BY <1>2, <3>1, <3>2 DEF IInv, PoolIsFree
  <2> QED BY <2>1, <2>2
<1>13. ASSUME pending' = {}, ready' = {},
              m_queueSessionPool' = Append(m_queueSessionPool, o)
       PROVE  Unused' /\ PoolIsFree'
  <2>1. session' = session /\ reading' = reading
    OBVIOUS
  <2>2. InCode' = {}
    BY <1>2
  <2> HIDE DEF o, Initiate
  <2>3. \A p \in Objects : session'[p].id = session[p].id /\ (p # o => session'[p] = session[p])
    BY <2>1
  <2>4. session'[o].state # "Connected" /\ ~session'[o].open
    BY <1>11, <2>1
  <2> QED BY <1>3, <1>11, <1>13, <2>1, <2>2, <2>3, <2>4, PutBackIsFree
<1>14. IDsInOrder' /\ SessionInMap' /\ TaskOfItsConnection'
  BY DEF IInv, IDsInOrder, SessionInMap, IDsIssued, TaskOfItsConnection
<1>15. Unused' /\ PoolIsFree'
  BY <1>4, <1>12, <1>13
<1> QED BY <1>5, <1>6, <1>7, <1>8, <1>9, <1>14, <1>15 DEF IInv

LEMMA OnAcceptRunningIInv ==
  ASSUME IInv, NEW t \in AsioThreads \cup {Main}, OnAcceptRunning(t) PROVE IInv'
<1> DEFINE o == acc[t].object
<1> USE DEF OnAcceptRunning, threads, acceptor, accepting, pool, net
<1>1. /\ InCode = {t} /\ pending = {} /\ ready = {} /\ ~NotStarted /\ t # Main
      /\ ~NotRun /\ asio[t] = "run" /\ acc[Main].pc = "idle"
  BY InHand DEF IInv, Hands
<1>2. o \in Objects /\ acc[t].ok \in BOOLEAN /\ InChain(o) /\ session[o].id # 0
      /\ session[o].state = "Waiting"
  BY ObjectInHand DEF InChain, IInv, Unused, InCode
<1>u. UNCHANGED <<threads, acceptor, accepting, reading, net, acceptFailed, accepts, reads>>
  OBVIOUS
<1>3. CASE m_running
  <2> DEFINE a == At("result", o, acc[t].ok)
  <2>1. a \in AccPlaces /\ a.pc = "result" /\ a.object = o /\ a.ok = acc[t].ok
    BY <1>2, PlaceType DEF AccPcs
  <2>2. acc' = [acc EXCEPT ![t] = a] /\ UNCHANGED <<pool, session>>
    BY <1>3 DEF AccPlaces
  <2> HIDE DEF a, o, OnAcceptRunning
  <2> USE <1>u
  <2>3. /\ acc' \in [AsioThreads \cup {Main} -> AccPlaces]
        /\ acc'[t] = a /\ InCode' = {t}
        /\ \A u \in AsioThreads \cup {Main} : u # t => acc'[u] = acc[u] /\ acc'[u].pc = "idle"
    BY <1>1, <2>1, <2>2, Moved
  <2>4. TypeOK'
    BY <2>2, <2>3 DEF IInv, TypeOK
  <2>5. Chain'
    BY <1>1, <2>3 DEF Chain
  <2>6. Hands'
    <3>1. o # NoObject
      BY <1>2, NoObjectIsNone
    <3> QED BY <1>1, <2>1, <2>2, <3>1, MovedHands
  <2>7. Phases' /\ AsioThreadsStay'
    BY <1>1, <2>2, <2>3 DEF IInv, Phases, NotStarted, NotRun, Up, AsioThreadsStay
  <2>8. Allocated'
    BY <1>1, <2>1, <2>2, <2>3, NothingAllocated DEF Due, NotStarted
  <2>9. \A p \in Objects : InChain(p)' => InChain(p)
    BY <1>1, <1>2, <2>1, <2>3 DEF InChain
  <2>10. Unused'
    <3>1. \A u \in InCode' : acc'[u].pc = "result"
      BY <2>1, <2>3
    <3> QED BY <1>1, <2>2, <2>3, <2>9, <3>1 DEF IInv, Unused
  <2>11. PoolIsFree'
    BY <1>1, <2>1, <2>2, <2>3 DEF IInv, PoolIsFree, o
  <2>12. IDsInOrder' /\ SessionInMap' /\ TaskOfItsConnection'
    BY <2>2 DEF IInv, IDsInOrder, SessionInMap, IDsIssued, TaskOfItsConnection
  <2> QED BY <2>4, <2>5, <2>6, <2>7, <2>8, <2>10, <2>11, <2>12 DEF IInv
<1>4. CASE ~m_running
  <2>1. /\ session' = [session EXCEPT ![o] = Closed(session[o])]
        /\ m_sessionMap' = [k \in DOMAIN m_sessionMap \ {session[o].id} |-> m_sessionMap[k]]
        /\ m_queueSessionPool' = Append(m_queueSessionPool, o)
        /\ acc' = [acc EXCEPT ![t] = Idle]
        /\ UNCHANGED m_currentSessionID
    BY <1>4
  <2> HIDE DEF o, OnAcceptRunning
  <2> USE <1>u
  <2>2. /\ acc' \in [AsioThreads \cup {Main} -> AccPlaces]
        /\ acc'[t] = Idle /\ InCode' = {}
        /\ \A u \in AsioThreads \cup {Main} : acc'[u].pc = "idle"
    BY <1>1, <2>1, Moved, NoPlace
  <2>3. /\ session' \in [Objects -> [state : {"Closed", "Waiting", "Connected"},
                                     id : 0..(IntMax - 1), open : BOOLEAN]]
        /\ \A p \in Objects : session'[p].id = session[p].id
        /\ \A p \in Objects : p # o => session'[p] = session[p]
        /\ session'[o].state = "Closed" /\ ~session'[o].open
    BY <1>2, <2>1, SessionChanged DEF Closed
  <2>4. TypeOK'
    <3>1. m_queueSessionPool' \in Seq(Objects)
      BY <1>2, <2>1, PutBack
    <3>2. \A k \in DOMAIN m_sessionMap' :
            k \in 1..(IntMax - 1) /\ m_sessionMap'[k] \in Objects
      BY <2>1 DEF IInv, TypeOK
    <3> QED BY <2>1, <2>2, <2>3, <3>1, <3>2 DEF IInv, TypeOK
  <2>5. Chain'
    BY <1>1, <2>2 DEF Chain
  <2>6. Hands'
    BY <1>1, <2>1, NoPlace, MovedHands
  <2>7. Phases' /\ AsioThreadsStay'
    <3>1. ~Up
      BY <1>4 DEF IInv, Phases
    <3> QED BY <1>1, <2>2, <3>1 DEF IInv, Phases, NotStarted, NotRun, Up, AsioThreadsStay
  <2>8. Allocated'
    <3>1. ~Due'
      BY <1>1, <2>2 DEF Due, NotStarted
    <3> QED BY <2>3, <3>1, NothingAllocated
  <2>9. Unused' /\ PoolIsFree'
    BY <1>1, <1>2, <2>1, <2>2, <2>3, PutBackIsFree
  <2>10. TaskOfItsConnection'
    BY <2>3, SameTasks
  <2>11. IDsIssued' = IDsIssued
    BY <2>3 DEF IDsIssued
  <2>12. IDsInOrder'
    BY <2>1, <2>3, <2>11 DEF IInv, IDsInOrder
  <2>13. SessionInMap'
    <3> SUFFICES ASSUME IDsIssued <= IntMax - 1, NEW p \in Objects,
                        session'[p].state # "Closed"
                 PROVE  session[p].id \in DOMAIN m_sessionMap'
                        /\ m_sessionMap'[session[p].id] = p
      BY <2>3, <2>11 DEF SessionInMap
    <3>1. p # o /\ session[p].state # "Closed"
      BY <2>3
    <3>2. session[p].id # session[o].id
      BY <1>2, <3>1 DEF IInv, IDsInOrder
    <3>3. session[p].id \in DOMAIN m_sessionMap /\ m_sessionMap[session[p].id] = p
      BY <3>1 DEF IInv, SessionInMap
    <3> QED BY <2>1, <3>2, <3>3
  <2> QED BY <2>4, <2>5, <2>6, <2>7, <2>8, <2>9, <2>10, <2>12, <2>13 DEF IInv
<1> QED BY <1>3, <1>4


LEMMA OnAcceptResultIInv ==
  ASSUME IInv, NEW t \in AsioThreads \cup {Main}, OnAcceptResult(t) PROVE IInv'
<1> DEFINE o == acc[t].object
<1> USE DEF OnAcceptResult, threads, acceptor, accepting, pool, net
<1>1. /\ InCode = {t} /\ pending = {} /\ ready = {} /\ ~NotStarted /\ t # Main
      /\ ~NotRun /\ asio[t] = "run" /\ acc[Main].pc = "idle"
  BY InHand DEF IInv, Hands
<1>2. o \in Objects /\ acc[t].ok \in BOOLEAN /\ InChain(o) /\ session[o].id # 0
      /\ session[o].state = "Waiting" /\ o \notin reading /\ session[o].open \in BOOLEAN
  BY ObjectInHand DEF InChain, IInv, Unused, InCode, TypeOK
<1>u. UNCHANGED <<threads, acceptor, accepting, m_currentSessionID, m_sessionMap,
                  net, accepts, reads>>
  OBVIOUS
<1>3. CASE acc[t].ok
  <2> DEFINE a == At("rearm", o, TRUE)
  <2>1. a \in AccPlaces /\ a.pc = "rearm" /\ a.object = acc[t].object /\ a.ok
    BY <1>2, PlaceType DEF AccPcs
  <2>2. /\ acc' = [acc EXCEPT ![t] = a]
        /\ session' = [session EXCEPT ![o] =
             [state |-> "Connected", id |-> session[o].id, open |-> session[o].open]]
        /\ reading' = reading \cup {o}
        /\ UNCHANGED <<m_queueSessionPool, acceptFailed>>
    BY <1>3
  <2> HIDE DEF a, o, OnAcceptResult
  <2> USE <1>u
  <2>3. /\ acc' \in [AsioThreads \cup {Main} -> AccPlaces]
        /\ acc'[t] = a /\ InCode' = {t}
        /\ \A u \in AsioThreads \cup {Main} : u # t => acc'[u] = acc[u] /\ acc'[u].pc = "idle"
    BY <1>1, <2>1, <2>2, Moved
  <2>4. /\ session' \in [Objects -> [state : {"Closed", "Waiting", "Connected"},
                                     id : 0..(IntMax - 1), open : BOOLEAN]]
        /\ \A p \in Objects : session'[p].id = session[p].id
        /\ \A p \in Objects : p # o => session'[p] = session[p]
    BY <1>2, <2>2, SessionChanged
  <2>5. TypeOK'
    BY <1>2, <2>2, <2>3, <2>4 DEF IInv, TypeOK
  <2>6. Chain'
    BY <1>1, <2>3 DEF Chain
  <2>7. Hands'
    <3>1. acc[t].object # NoObject
      BY <1>2, NoObjectIsNone DEF o
    <3> QED BY <1>1, <2>1, <2>2, <3>1, MovedHands
  <2>8. Phases' /\ AsioThreadsStay'
    BY <1>1, <2>2, <2>3 DEF IInv, Phases, NotStarted, NotRun, Up, AsioThreadsStay
  <2>9. Allocated'
    <3>1. Due
      BY <1>1, <1>3 DEF Due
    <3> QED BY <2>4, <3>1, NothingAllocated
  <2>10. \A p \in Objects : ~InChain(p)'
    BY <1>1, <2>1, <2>3 DEF InChain
  <2>11. Unused'
    <3>1. \A j \in DOMAIN m_queueSessionPool : m_queueSessionPool[j] \in Objects
      BY DEF IInv, TypeOK
    <3>2. \A p \in reading' : p \in Objects /\ session'[p].id # 0
      BY <1>2, <2>2, <2>4 DEF IInv, Unused, TypeOK
    <3>3. /\ \A u \in InCode' : acc'[u].pc = "rearm"
          /\ \A p \in Objects : session'[p].id = 0 => ~session'[p].open
      BY <1>2, <2>1, <2>3, <2>4 DEF IInv, Unused
    <3> QED BY <1>1, <2>2, <2>3, <2>4, <2>10, <3>1, <3>2, <3>3 DEF IInv, Unused
  <2>12. PoolIsFree'
    <3>1. \A j \in DOMAIN m_queueSessionPool :
            m_queueSessionPool[j] # o /\ m_queueSessionPool[j] \in Objects
      BY <1>2 DEF IInv, PoolIsFree, InChain, TypeOK
    <3> QED BY <1>1, <2>1, <2>2, <2>3, <2>4, <3>1 DEF IInv, PoolIsFree
  <2>13. IDsInOrder' /\ SessionInMap' /\ TaskOfItsConnection'
    <3>1. \A p \in Objects : session'[p].state # "Closed" => session[p].state # "Closed"
      BY <1>2, <2>4
    <3> QED BY <2>4, <3>1, SameIDs, SameTasks
  <2> QED BY <2>5, <2>6, <2>7, <2>8, <2>9, <2>11, <2>12, <2>13 DEF IInv
<1>4. CASE ~acc[t].ok
  <2>1. /\ session' = [session EXCEPT ![o] = Closed(session[o])]
        /\ m_queueSessionPool' = Append(m_queueSessionPool, o)
        /\ acceptFailed' = TRUE
        /\ acc' = [acc EXCEPT ![t] = Idle]
        /\ UNCHANGED reading
    BY <1>4
  <2> HIDE DEF o, OnAcceptResult
  <2> USE <1>u
  <2>2. /\ acc' \in [AsioThreads \cup {Main} -> AccPlaces]
        /\ acc'[t] = Idle /\ InCode' = {}
        /\ \A u \in AsioThreads \cup {Main} : acc'[u].pc = "idle"
    BY <1>1, <2>1, Moved, NoPlace
  <2>3. /\ session' \in [Objects -> [state : {"Closed", "Waiting", "Connected"},
                                     id : 0..(IntMax - 1), open : BOOLEAN]]
        /\ \A p \in Objects : session'[p].id = session[p].id
        /\ \A p \in Objects : p # o => session'[p] = session[p]
        /\ session'[o].state = "Closed" /\ ~session'[o].open
    BY <1>2, <2>1, SessionChanged DEF Closed
  <2>4. TypeOK'
    <3>1. m_queueSessionPool' \in Seq(Objects)
      BY <1>2, <2>1, PutBack
    <3> QED BY <2>1, <2>2, <2>3, <3>1 DEF IInv, TypeOK
  <2>5. Chain'
    BY <1>1, <2>2 DEF Chain
  <2>6. Hands'
    BY <1>1, <2>1, NoPlace, MovedHands
  <2>7. Phases' /\ AsioThreadsStay'
    BY <1>1, <2>1, <2>2 DEF IInv, Phases, NotStarted, NotRun, Up, AsioThreadsStay
  <2>8. Allocated'
    <3>1. ~Due'
      BY <1>1, <2>2 DEF Due, NotStarted
    <3> QED BY <2>3, <3>1, NothingAllocated
  <2>9. Unused' /\ PoolIsFree'
    BY <1>1, <1>2, <2>1, <2>2, <2>3, PutBackIsFree
  <2>10. IDsInOrder' /\ SessionInMap' /\ TaskOfItsConnection'
    <3>1. \A p \in Objects : session'[p].state # "Closed" => session[p].state # "Closed"
      BY <1>2, <2>3
    <3> QED BY <2>3, <3>1, SameIDs, SameTasks
  <2> QED BY <2>4, <2>5, <2>6, <2>7, <2>8, <2>9, <2>10 DEF IInv
<1> QED BY <1>3, <1>4

-----------------------------------------------------------------------------
(* The network, the sessions and the workers.                              *)

LEMMA CompleteAcceptIInv ==
  ASSUME IInv, NEW o \in Objects, NEW ok \in BOOLEAN, CompleteAccept(o, ok) PROVE IInv'
<1> USE ServerAssumption DEF CompleteAccept, threads, acceptor, accepting, pool, net
<1>1. /\ pending = {o} /\ pending' = {} /\ ready = {} /\ InCode = {} /\ InCode' = {}
      /\ ready' = {[object |-> o, ok |-> ok]} /\ InChain(o) /\ ~NotStarted
  BY DEF IInv, Chain, InCode, InChain, Phases
<1>2. session[o].state = "Waiting" /\ session[o].id # 0 /\ o \notin reading
  BY <1>1 DEF IInv, Unused
<1>3. /\ session' \in [Objects -> [state : {"Closed", "Waiting", "Connected"},
                                   id : 0..(IntMax - 1), open : BOOLEAN]]
      /\ \A p \in Objects : session'[p].id = session[p].id
      /\ \A p \in Objects : p # o => session'[p] = session[p]
      /\ session'[o].state = "Waiting"
  <2>1. session' = [session EXCEPT ![o] = [state |-> "Waiting", id |-> session[o].id, open |-> ok]]
    BY <1>2
  <2> QED BY <2>1, SessionChanged
<1>u. /\ UNCHANGED <<threads, acc, acceptor, pool, reading, net, acceptFailed, reads>>
      /\ accepts < MaxAccepts /\ accepts' = accepts + 1
  OBVIOUS
<1> HIDE DEF CompleteAccept
<1> USE <1>u
<1>4. TypeOK'
  <2>1. ready' \subseteq [object : Objects, ok : BOOLEAN]
    BY <1>1
  <2>2. accepts' \in 0..MaxAccepts
    BY DEF IInv, TypeOK
  <2> QED BY <1>1, <1>3, <2>1, <2>2 DEF IInv, TypeOK
<1>5. Chain' /\ Hands'
  BY <1>1 DEF Chain, IInv, Hands
<1>6. Phases' /\ AsioThreadsStay'
  <2>1. acc[Main].pc = "idle"
    BY <1>1 DEF InCode
  <2> QED BY <1>1, <2>1 DEF IInv, Phases, NotStarted, NotRun, Up, AsioThreadsStay
<1>7. Allocated'
  BY <1>3, NothingAllocated
<1>8. \A p \in Objects : InChain(p)' => p = o
  BY <1>1 DEF InChain
<1>9. \A j \in DOMAIN m_queueSessionPool :
        m_queueSessionPool[j] # o /\ m_queueSessionPool[j] \in Objects
  BY <1>1 DEF IInv, PoolIsFree, TypeOK
<1>10. Unused'
  <2>1. \A p \in reading' : p \in Objects /\ session'[p].id # 0
    BY <1>3 DEF IInv, Unused, TypeOK
  <2>2. \A j \in DOMAIN m_queueSessionPool : session[m_queueSessionPool[j]].id = 0
                 /\ m_queueSessionPool[j] <= SESSION_POOL_SIZE
    BY <1>1 DEF IInv, Unused
  <2>3. \A p \in Objects : session'[p].id = 0 => ~session'[p].open
    BY <1>2, <1>3 DEF IInv, Unused
  <2> QED BY <1>1, <1>2, <1>3, <1>8, <1>9, <2>1, <2>2, <2>3 DEF Unused
<1>11. PoolIsFree'
  BY <1>1, <1>3, <1>9 DEF IInv, PoolIsFree
<1>12. IDsInOrder' /\ SessionInMap' /\ TaskOfItsConnection'
  <2>1. \A p \in Objects : session'[p].state # "Closed" => session[p].state # "Closed"
    BY <1>2, <1>3
  <2> QED BY <1>3, <2>1, SameIDs, SameTasks
<1> QED BY <1>4, <1>5, <1>6, <1>7, <1>10, <1>11, <1>12 DEF IInv

LEMMA ReadErrorIInv ==
  ASSUME IInv, NEW t \in AsioThreads, NEW o \in Objects, ReadError(t, o) PROVE IInv'
<1> USE ServerAssumption DEF ReadError, threads, acceptor, accepting, pool, net
<1>1. /\ session' \in [Objects -> [state : {"Closed", "Waiting", "Connected"},
                                   id : 0..(IntMax - 1), open : BOOLEAN]]
      /\ \A p \in Objects : session'[p].id = session[p].id
      /\ \A p \in Objects : p # o => session'[p] = session[p]
      /\ session'[o].state = "Closed" /\ ~session'[o].open
  BY SessionChanged DEF Closed
<1>u. /\ UNCHANGED <<threads, acc, acceptor, accepting, pool, net, acceptFailed, accepts, reads>>
      /\ reading' = reading \ {o} /\ o \in reading
  OBVIOUS
<1> HIDE DEF ReadError
<1> USE <1>u
<1>2. TypeOK' /\ Chain' /\ Hands'
  BY <1>1 DEF IInv, TypeOK, Chain, InCode, Hands
<1>3. Phases' /\ AsioThreadsStay'
  BY <1>1 DEF IInv, Phases, NotStarted, NotRun, Up, InCode, AsioThreadsStay
<1>4. Allocated'
  BY <1>1, NothingAllocated DEF Due, InCode, NotStarted
<1>5. \A p : InChain(p)' => InChain(p)
  BY DEF InChain, InCode
<1>6. Unused'
  <2>1. ~InChain(o)
    BY DEF IInv, Unused
  <2>2. \A p \in Objects : InChain(p)' =>
          session'[p].id # 0 /\ session'[p].state = "Waiting" /\ p \notin reading'
    BY <1>1, <1>5, <2>1 DEF IInv, Unused
  <2>3. \A p \in reading' : session'[p].id # 0
    BY <1>1 DEF IInv, Unused, TypeOK
  <2>4. \A j \in DOMAIN m_queueSessionPool : m_queueSessionPool[j] \in Objects
    BY DEF IInv, TypeOK
  <2>5. /\ \A p \in Objects : session'[p].open => session[p].open
        /\ \A u \in InCode : acc[u].pc = "initiate" => acc[u].object \in Objects
    BY <1>1, ObjectInHand DEF InCode
  <2>6. /\ \A p \in Objects : session'[p].id = 0 => ~session'[p].open
        /\ \A u \in InCode : acc[u].pc = "initiate" => ~session'[acc[u].object].open
    BY <1>1, <2>5 DEF IInv, Unused
  <2> QED BY <1>1, <2>2, <2>3, <2>4, <2>6 DEF IInv, Unused, InCode
<1>7. PoolIsFree'
  <2>1. \A j \in DOMAIN m_queueSessionPool :
        m_queueSessionPool[j] # o /\ m_queueSessionPool[j] \in Objects
    BY DEF IInv, PoolIsFree, TypeOK
  <2> QED BY <1>1, <2>1 DEF IInv, PoolIsFree, InCode
<1>8. IDsInOrder' /\ SessionInMap' /\ TaskOfItsConnection'
  BY <1>1, SameIDs, SameTasks
<1> QED BY <1>2, <1>3, <1>4, <1>6, <1>7, <1>8 DEF IInv


\* A queue of tasks that changes.
LEMMA QueueChanged ==
  ASSUME NEW T, m_netTaskQueue \in Seq(Seq(T)), NEW q \in DOMAIN m_netTaskQueue,
         NEW s \in Seq(T), m_netTaskQueue' = [m_netTaskQueue EXCEPT ![q] = s]
  PROVE  /\ m_netTaskQueue' \in Seq(Seq(T))
         /\ DOMAIN m_netTaskQueue' = DOMAIN m_netTaskQueue
         /\ m_netTaskQueue'[q] = s
         /\ \A p \in DOMAIN m_netTaskQueue : p # q => m_netTaskQueue'[p] = m_netTaskQueue[p]
<1> DEFINE Q == Seq(T)
<1>1. m_netTaskQueue \in Seq(Q) /\ s \in Q
  OBVIOUS
<1> HIDE DEF Q
<1>2. m_netTaskQueue' \in Seq(Q) /\ DOMAIN m_netTaskQueue' = DOMAIN m_netTaskQueue
      /\ m_netTaskQueue'[q] = s
      /\ \A p \in DOMAIN m_netTaskQueue : p # q => m_netTaskQueue'[p] = m_netTaskQueue[p]
  BY <1>1, ExceptSeq
<1> QED BY <1>2 DEF Q

\* Steps that only touch the tasks.
LEMMA TaskStep ==
  ASSUME IInv, UNCHANGED <<threads, acc, acceptor, accepting, pool, session, reading,
                           acceptFailed, accepts>>,
         m_netTaskQueue' \in Seq(Seq(Objects \X (1..(IntMax - 1)))), TaskOfItsConnection'
  PROVE  IInv'
<1> USE DEF threads, acceptor, accepting, pool
<1>1. TypeOK' /\ Hands'
  BY DEF IInv, TypeOK, Hands
<1>2. Phases' /\ AsioThreadsStay'
  BY DEF IInv, Phases, NotStarted, NotRun, Up, InCode, AsioThreadsStay
<1>3. Allocated'
  BY QuietAllocated DEF NotStarted
<1>4. Chain' /\ IDsInOrder' /\ SessionInMap'
  BY DEF IInv, Chain, InCode, IDsInOrder, SessionInMap, IDsIssued
<1>5. Unused' /\ PoolIsFree'
  BY DEF IInv, Unused, InChain, InCode, PoolIsFree
<1> QED BY <1>1, <1>2, <1>3, <1>4, <1>5 DEF IInv

LEMMA OnReadIInv ==
  ASSUME IInv, NEW t \in AsioThreads, NEW o \in Objects, OnRead(t, o) PROVE IInv'
<1> DEFINE T == Objects \X (1..(IntMax - 1))
<1> DEFINE q == (session[o].id % m_ioThreadCount) + 1
<1>u. /\ UNCHANGED <<threads, acc, acceptor, accepting, pool, session, reading,
                     acceptFailed, accepts>>
      /\ o \in reading
      /\ \/ q <= Len(m_netTaskQueue)
            /\ m_netTaskQueue' = [m_netTaskQueue EXCEPT ![q] =
                                    Append(m_netTaskQueue[q], <<o, session[o].id>>)]
         \/ UNCHANGED m_netTaskQueue
  BY DEF OnRead
<1>1. m_netTaskQueue \in Seq(Seq(T)) /\ session[o].id \in 1..(IntMax - 1)
  <2>1. session[o].id \in 0..(IntMax - 1) /\ session[o].id # 0
    BY <1>u DEF IInv, TypeOK, Unused
  <2> QED BY <2>1, ServerAssumption DEF IInv, TypeOK
<1>2. <<o, session[o].id>> \in T
  BY <1>1
<1>3. CASE UNCHANGED m_netTaskQueue
  BY <1>1, <1>3, <1>u, SameTasks, TaskStep
<1>4. CASE /\ q <= Len(m_netTaskQueue)
           /\ m_netTaskQueue' = [m_netTaskQueue EXCEPT ![q] =
                                   Append(m_netTaskQueue[q], <<o, session[o].id>>)]
  <2>1. q \in DOMAIN m_netTaskQueue
    <3>1. session[o].id % m_ioThreadCount \in 0..(m_ioThreadCount - 1)
      BY <1>1, ServerAssumption
    <3>2. q \in Nat \ {0}
      BY <3>1, ServerAssumption
    <3>3. DOMAIN m_netTaskQueue = 1..Len(m_netTaskQueue) /\ Len(m_netTaskQueue) \in Nat
      BY <1>1
    <3> QED BY <1>4, <3>2, <3>3
  <2> DEFINE s == Append(m_netTaskQueue[q], <<o, session[o].id>>)
  <2>2. m_netTaskQueue' = [m_netTaskQueue EXCEPT ![q] = s]
    BY <1>4
  <2>3. m_netTaskQueue[q] \in Seq(T)
    BY <1>1, <2>1
  <2> HIDE DEF q, T
  <2>4. /\ s \in Seq(T)
        /\ \A j \in DOMAIN s : \/ j \in DOMAIN m_netTaskQueue[q] /\ s[j] = m_netTaskQueue[q][j]
                               \/ s[j] = <<o, session[o].id>>
    BY <1>2, <2>3, AppendProperties
  <2> HIDE DEF s
  <2>5. /\ m_netTaskQueue' \in Seq(Seq(T))
        /\ DOMAIN m_netTaskQueue' = DOMAIN m_netTaskQueue
        /\ m_netTaskQueue'[q] = s
        /\ \A p \in DOMAIN m_netTaskQueue : p # q => m_netTaskQueue'[p] = m_netTaskQueue[p]
    BY <1>1, <2>1, <2>2, <2>4, QueueChanged
  <2>6. TaskOfItsConnection'
    <3> SUFFICES ASSUME NEW p \in DOMAIN m_netTaskQueue', NEW j \in DOMAIN m_netTaskQueue'[p]
                 PROVE  session'[m_netTaskQueue'[p][j][1]].id = m_netTaskQueue'[p][j][2]
      BY DEF TaskOfItsConnection
    <3>1. \A k \in DOMAIN m_netTaskQueue : \A i \in DOMAIN m_netTaskQueue[k] :
            session[m_netTaskQueue[k][i][1]].id = m_netTaskQueue[k][i][2]
      BY DEF IInv, TaskOfItsConnection
    <3>2. CASE p # q
      BY <1>u, <2>5, <3>1, <3>2
    <3>3. CASE p = q
      BY <1>u, <2>1, <2>4, <2>5, <3>1, <3>3
    <3> QED BY <3>2, <3>3
  <2> QED BY <1>u, <2>5, <2>6, TaskStep DEF T
<1> QED BY <1>u, <1>3, <1>4

LEMMA TakeTaskIInv ==
  ASSUME IInv, NEW q \in 1..m_ioThreadCount, TakeTask(q) PROVE IInv'
<1> DEFINE T == Objects \X (1..(IntMax - 1))
<1>u. /\ UNCHANGED <<threads, acc, acceptor, accepting, pool, session, reading,
                     acceptFailed, accepts>>
      /\ q <= Len(m_netTaskQueue) /\ m_netTaskQueue[q] # <<>>
      /\ m_netTaskQueue' = [m_netTaskQueue EXCEPT ![q] = Tail(m_netTaskQueue[q])]
  BY DEF TakeTask
<1>1. m_netTaskQueue \in Seq(Seq(T))
  BY DEF IInv, TypeOK
<1> HIDE DEF T
<1>2. q \in DOMAIN m_netTaskQueue /\ m_netTaskQueue[q] \in Seq(T)
  BY <1>1, <1>u, ServerAssumption
<1> DEFINE s == Tail(m_netTaskQueue[q])
<1>3. /\ s \in Seq(T)
      /\ \A j \in DOMAIN s : j + 1 \in DOMAIN m_netTaskQueue[q] /\ s[j] = m_netTaskQueue[q][j + 1]
  BY <1>2, <1>u, HeadTailProperties
<1>4. m_netTaskQueue' = [m_netTaskQueue EXCEPT ![q] = s]
  BY <1>u
<1> HIDE DEF s
<1>5. /\ m_netTaskQueue' \in Seq(Seq(T))
      /\ DOMAIN m_netTaskQueue' = DOMAIN m_netTaskQueue
      /\ m_netTaskQueue'[q] = s
      /\ \A p \in DOMAIN m_netTaskQueue : p # q => m_netTaskQueue'[p] = m_netTaskQueue[p]
  BY <1>1, <1>2, <1>3, <1>4, QueueChanged
<1>6. TaskOfItsConnection'
  <2> SUFFICES ASSUME NEW p \in DOMAIN m_netTaskQueue', NEW j \in DOMAIN m_netTaskQueue'[p]
               PROVE  session'[m_netTaskQueue'[p][j][1]].id = m_netTaskQueue'[p][j][2]
    BY DEF TaskOfItsConnection
  <2>1. \A k \in DOMAIN m_netTaskQueue : \A i \in DOMAIN m_netTaskQueue[k] :
          session[m_netTaskQueue[k][i][1]].id = m_netTaskQueue[k][i][2]
    BY DEF IInv, TaskOfItsConnection
  <2>2. CASE p # q
    BY <1>u, <1>5, <2>1, <2>2
  <2>3. CASE p = q
    <3>1. j \in DOMAIN s
      BY <1>5, <2>3
    <3>2. j + 1 \in DOMAIN m_netTaskQueue[q] /\ s[j] = m_netTaskQueue[q][j + 1]
      BY <1>3, <3>1
    <3> QED BY <1>u, <1>2, <1>5, <2>1, <2>3, <3>2
  <2> QED BY <2>2, <2>3
<1> QED BY <1>u, <1>5, <1>6, TaskStep DEF T


-----------------------------------------------------------------------------
(* AsyncAccept: the session that Pop gives has never been used.            *)

LEMMA FirstBeyond ==
  ASSUME IInv, NEW k \in 0..accepts,
         \A o \in Objects : o > SESSION_POOL_SIZE =>
           (session[o].id # 0 <=> o <= SESSION_POOL_SIZE + k),
         m_queueSessionPool = <<>>
  PROVE  Popped = SESSION_POOL_SIZE + k + 1 /\ Popped \in Objects
<1> DEFINE f == SESSION_POOL_SIZE + k + 1
<1> DEFINE P(o) == /\ session[o].id = 0 /\ o > SESSION_POOL_SIZE
                   /\ \A p \in Objects : p > SESSION_POOL_SIZE /\ session[p].id = 0 => o <= p
<1>1. accepts \in Nat /\ accepts <= MaxAccepts
  BY ServerAssumption DEF IInv, TypeOK
<1>2. f \in Objects /\ f > SESSION_POOL_SIZE
  BY <1>1, ServerAssumption DEF Objects
<1>3. \A p \in Objects : p \in Int
  BY ServerAssumption DEF Objects
<1>4. \A p \in Objects : p > SESSION_POOL_SIZE /\ session[p].id = 0 => f <= p
  BY <1>1, <1>3, ServerAssumption
<1>5. session[f].id = 0
  BY <1>1, <1>2, ServerAssumption
<1>6. P(f)
  BY <1>2, <1>4, <1>5
<1>7. \A o \in Objects : P(o) => o = f
  <2> SUFFICES ASSUME NEW o \in Objects, P(o) PROVE o = f
    OBVIOUS
  <2>1. f <= o /\ o <= f
    BY <1>2, <1>4, <1>5
  <2> QED BY <1>2, <1>3, <2>1
<1>8. (CHOOSE o \in Objects : P(o)) = f
  <2> HIDE DEF P, f
  <2> QED BY <1>2, <1>6, <1>7
<1>9. Popped = CHOOSE o \in Objects : P(o)
  BY DEF Popped
<1> QED BY <1>2, <1>8, <1>9

LEMMA PoppedIsNew ==
  ASSUME IInv, NEW t \in AsioThreads \cup {Main}, acc[t].pc = "arm"
  PROVE  /\ Popped \in Objects /\ session[Popped].id = 0
         /\ \E k \in 0..(accepts + 1) : \A o \in Objects : o > SESSION_POOL_SIZE =>
              (session[o].id # 0 \/ o = Popped <=> o <= SESSION_POOL_SIZE + k)
<1>1. InCode = {t} /\ Due
  BY InHand DEF Due
<1>2. PICK k \in 0..(accepts + 1) :
        /\ k <= accepts
        /\ \A o \in Objects : o > SESSION_POOL_SIZE =>
             (session[o].id # 0 <=> o <= SESSION_POOL_SIZE + k)
  BY <1>1 DEF IInv, Allocated
<1>3. accepts \in Nat /\ k \in 0..accepts /\ k + 1 \in 0..(accepts + 1)
  BY <1>2, ServerAssumption DEF IInv, TypeOK
<1>4. CASE m_queueSessionPool = <<>>
  <2>1. Popped = SESSION_POOL_SIZE + k + 1 /\ Popped \in Objects
    BY <1>2, <1>3, <1>4, FirstBeyond
  <2>2. \A o \in Objects : o \in Int
    BY ServerAssumption DEF Objects
  <2>3. \A o \in Objects : o > SESSION_POOL_SIZE =>
          (session[o].id # 0 \/ o = Popped <=> o <= SESSION_POOL_SIZE + (k + 1))
    BY <1>2, <1>3, <2>1, <2>2, ServerAssumption
  <2>4. session[Popped].id = 0
    BY <1>2, <1>3, <2>1, ServerAssumption
  <2> QED BY <1>3, <2>1, <2>3, <2>4
<1>5. CASE m_queueSessionPool # <<>>
  <2>1. Popped = m_queueSessionPool[1] /\ 1 \in DOMAIN m_queueSessionPool
    BY <1>5 DEF Popped, IInv, TypeOK
  <2>2. Popped \in Objects
    BY <2>1 DEF IInv, TypeOK
  <2>3. session[Popped].id = 0 /\ Popped <= SESSION_POOL_SIZE
    BY <1>1, <2>1 DEF IInv, Unused
  <2>4. \A o \in Objects : o > SESSION_POOL_SIZE => o # Popped
    BY <2>2, <2>3, ServerAssumption DEF Objects
  <2> QED BY <1>2, <2>2, <2>3, <2>4
<1> QED BY <1>4, <1>5

\* What is left in the pool was behind it.
LEMMA PoolRest ==
  ASSUME IInv,
         m_queueSessionPool' = IF m_queueSessionPool = <<>> THEN <<>> ELSE Tail(m_queueSessionPool)
  PROVE  /\ m_queueSessionPool' \in Seq(Objects)
         /\ \A j \in DOMAIN m_queueSessionPool' :
              /\ j \in Int /\ j + 1 \in DOMAIN m_queueSessionPool
              /\ m_queueSessionPool'[j] = m_queueSessionPool[j + 1]
              /\ m_queueSessionPool'[j] # Popped /\ m_queueSessionPool'[j] \in Objects
<1>1. m_queueSessionPool \in Seq(Objects)
  BY DEF IInv, TypeOK
<1>2. CASE m_queueSessionPool = <<>>
  BY <1>2
<1>3. CASE m_queueSessionPool # <<>>
  <2>1. /\ m_queueSessionPool' \in Seq(Objects)
        /\ \A j \in DOMAIN m_queueSessionPool' :
              /\ j \in Nat \ {0} /\ j + 1 \in DOMAIN m_queueSessionPool
              /\ m_queueSessionPool'[j] = m_queueSessionPool[j + 1]
    BY <1>1, <1>3, HeadTailProperties
  <2>2. Popped = m_queueSessionPool[1] /\ 1 \in DOMAIN m_queueSessionPool
    BY <1>1, <1>3 DEF Popped
  <2>3. \A j \in DOMAIN m_queueSessionPool' : m_queueSessionPool[j + 1] # Popped
    <3> SUFFICES ASSUME NEW j \in DOMAIN m_queueSessionPool',
                        m_queueSessionPool[j + 1] = m_queueSessionPool[1]
                 PROVE  FALSE
      BY <2>2
    <3>1. j + 1 = 1
      BY <2>1, <2>2 DEF IInv, PoolIsFree
    <3> QED BY <2>1, <3>1
  <2>4. \A j \in DOMAIN m_queueSessionPool' : m_queueSessionPool'[j] \in Objects
    BY <2>1
  <2> QED BY <2>1, <2>3, <2>4
<1> QED BY <1>2, <1>3

LEMMA UseSessionIDType ==
  ASSUME IInv
  PROVE  /\ UseSessionID \in 1..(IntMax - 1)
         /\ m_currentSessionID < IntMax - 1 => UseSessionID = m_currentSessionID + 1
BY ServerAssumption DEF IInv, TypeOK, UseSessionID

\* One more session has an id.
LEMMA OneMoreID ==
  ASSUME IInv, NEW o \in Objects, session[o].id = 0, session'[o].id # 0,
         \A p \in Objects : p # o => session'[p].id = session[p].id
  PROVE  IDsIssued \in Nat /\ IDsIssued' = IDsIssued + 1
<1> DEFINE S == {p \in Objects : session[p].id # 0}
<1>1. IsFiniteSet(S)
  <2>1. IsFiniteSet(Objects)
    BY FS_Interval, ServerAssumption DEF Objects
  <2> QED BY <2>1, FS_Subset
<1>2. {p \in Objects : session'[p].id # 0} = S \cup {o}
  OBVIOUS
<1>3. Cardinality(S) \in Nat
  BY <1>1, FS_CardinalityType
<1>4. Cardinality(S \cup {o}) = Cardinality(S) + 1
  BY <1>1, FS_AddElement
<1> QED BY <1>2, <1>3, <1>4 DEF IDsIssued

LEMMA AsyncAcceptIInv ==
  ASSUME IInv, NEW t \in AsioThreads \cup {Main}, AsyncAccept(t) PROVE IInv'
<1> USE DEF threads, acceptor, accepting, pool, net
<1>1. /\ InCode = {t} /\ pending = {} /\ ready = {} /\ ~NotStarted
      /\ \A u \in AsioThreads \cup {Main} : u # t => acc[u].pc = "idle"
      /\ t = Main => main = "accept"
      /\ t # Main => asio[t] = "run" /\ ~NotRun
  BY InHand DEF AsyncAccept
<1>u. /\ UNCHANGED <<threads, acceptor, accepting, reading, net, acceptFailed, accepts, reads>>
      /\ acc[t].pc = "arm" /\ configured
  BY DEF AsyncAccept
<1> USE <1>u
<1>2. CASE ~m_running
  <2>1. acc' = [acc EXCEPT ![t] = Idle] /\ UNCHANGED <<pool, session>>
    BY <1>2 DEF AsyncAccept
  <2>2. /\ acc' \in [AsioThreads \cup {Main} -> AccPlaces]
        /\ acc'[t] = Idle /\ InCode' = {}
        /\ \A u \in AsioThreads \cup {Main} : acc'[u].pc = "idle"
    BY <1>1, <2>1, Moved, NoPlace
  <2>3. ~Up
    BY <1>2 DEF IInv, Phases
  <2>4. TypeOK' /\ Chain'
    BY <1>1, <2>1, <2>2 DEF IInv, TypeOK, Chain
  <2>5. Hands'
    BY <1>1, <2>1, NoPlace, MovedHands
  <2>6. Phases' /\ AsioThreadsStay'
    BY <1>1, <2>1, <2>2, <2>3 DEF IInv, Phases, NotStarted, NotRun, Up, AsioThreadsStay
  <2>7. Allocated'
    <3>1. ~Due'
      BY <1>1, <2>2 DEF Due, NotStarted
    <3> QED BY <2>1, <3>1, NothingAllocated
  <2>8. Unused' /\ PoolIsFree'
    BY <1>1, <2>1, <2>2 DEF IInv, Unused, InChain, PoolIsFree
  <2>9. IDsInOrder' /\ SessionInMap' /\ TaskOfItsConnection'
    BY <2>1 DEF IInv, IDsInOrder, SessionInMap, IDsIssued, TaskOfItsConnection
  <2> QED BY <2>4, <2>5, <2>6, <2>7, <2>8, <2>9 DEF IInv
<1>3. CASE m_running
  <2> DEFINE o == Popped
  <2> DEFINE a == At("initiate", o, FALSE)
  <2> DEFINE id == UseSessionID
  <2>1. /\ session' = [session EXCEPT ![o] =
             [state |-> "Waiting", id |-> id, open |-> session[o].open]]
        /\ m_sessionMap' = [k \in DOMAIN m_sessionMap \cup {id} |->
             IF k \in DOMAIN m_sessionMap THEN m_sessionMap[k] ELSE o]
        /\ m_queueSessionPool' = IF m_queueSessionPool = <<>> THEN <<>>
                                 ELSE Tail(m_queueSessionPool)
        /\ m_currentSessionID' = id
        /\ acc' = [acc EXCEPT ![t] = a]
    BY <1>3 DEF AsyncAccept
  <2>2. o \in Objects /\ session[o].id = 0
    BY PoppedIsNew
  <2>3. PICK k \in 0..(accepts + 1) : \A p \in Objects : p > SESSION_POOL_SIZE =>
              (session[p].id # 0 \/ p = o <=> p <= SESSION_POOL_SIZE + k)
    BY PoppedIsNew
  <2>4. /\ id \in 1..(IntMax - 1)
        /\ m_currentSessionID < IntMax - 1 => id = m_currentSessionID + 1
    BY UseSessionIDType
  <2>5. /\ m_queueSessionPool' \in Seq(Objects)
        /\ \A j \in DOMAIN m_queueSessionPool' :
             /\ j \in Int /\ j + 1 \in DOMAIN m_queueSessionPool
             /\ m_queueSessionPool'[j] = m_queueSessionPool[j + 1]
             /\ m_queueSessionPool'[j] # o /\ m_queueSessionPool'[j] \in Objects
    BY <2>1, PoolRest
  <2>6. /\ a \in AccPlaces /\ a.pc = "initiate" /\ a.object = o /\ ~a.ok
    <3> HIDE DEF o
    <3>1. "initiate" \in AccPcs /\ o \in Objects \cup {NoObject} /\ FALSE \in BOOLEAN
      BY <2>2 DEF AccPcs
    <3>2. a \in AccPlaces /\ a.pc = "initiate" /\ a.object = o /\ a.ok = FALSE
      BY <3>1, PlaceType
    <3> QED BY <3>2
  <2> HIDE DEF a, o, id
  <2>7. /\ acc' \in [AsioThreads \cup {Main} -> AccPlaces]
        /\ acc'[t] = a /\ InCode' = {t}
        /\ \A u \in AsioThreads \cup {Main} : u # t => acc'[u] = acc[u] /\ acc'[u].pc = "idle"
    BY <1>1, <2>1, <2>6, Moved
  <2>8. /\ session' \in [Objects -> [state : {"Closed", "Waiting", "Connected"},
                                     id : 0..(IntMax - 1), open : BOOLEAN]]
        /\ \A p \in Objects : p # o => session'[p] = session[p]
        /\ session'[o].id = id /\ session'[o].state = "Waiting" /\ id # 0
    <3>1. session \in [Objects -> [state : {"Closed", "Waiting", "Connected"},
                                   id : 0..(IntMax - 1), open : BOOLEAN]]
      BY DEF IInv, TypeOK
    <3>2. session[o].open \in BOOLEAN /\ id \in 0..(IntMax - 1) /\ id # 0
      BY <2>2, <2>4, <3>1, ServerAssumption
    <3>3. [state |-> "Waiting", id |-> id, open |-> session[o].open]
            \in [state : {"Closed", "Waiting", "Connected"}, id : 0..(IntMax - 1), open : BOOLEAN]
      BY <3>2
    <3> QED BY <2>1, <2>2, <3>1, <3>2, <3>3
  <2>9. TypeOK'
    <3>1. \A i \in DOMAIN m_sessionMap' :
            i \in 1..(IntMax - 1) /\ m_sessionMap'[i] \in Objects
      BY <2>1, <2>2, <2>4 DEF IInv, TypeOK
    <3>2. m_currentSessionID' \in 0..(IntMax - 1)
      BY <2>1, <2>4, ServerAssumption
    <3> QED BY <2>5, <2>7, <2>8, <3>1, <3>2 DEF IInv, TypeOK
  <2>10. Chain'
    BY <1>1, <2>7 DEF Chain
  <2>11. Hands'
    <3>1. a.object # NoObject
      BY <2>2, <2>6, NoObjectIsNone
    <3> QED BY <1>1, <2>1, <2>6, <3>1, MovedHands
  <2>12. Phases' /\ AsioThreadsStay'
    <3>1. acc'[Main].pc # "arm"
      BY <2>6, <2>7
    <3>2. ~NotStarted /\ (main = "accept" \/ ~NotRun)
      BY <1>1
    <3> QED BY <1>1, <2>7, <3>1, <3>2 DEF IInv, Phases, NotStarted, NotRun, Up, AsioThreadsStay
  <2>13. Allocated'
    <3>1. ~Due'
      BY <1>1, <2>6, <2>7 DEF Due, NotStarted
    <3>2. \A p \in Objects : p > SESSION_POOL_SIZE =>
            (session'[p].id # 0 <=> p <= SESSION_POOL_SIZE + k)
      BY <2>3, <2>8
    <3> QED BY <3>1, <3>2 DEF Allocated
  <2>14. \A p \in Objects : InChain(p)' => p = o
    BY <1>1, <2>6, <2>7 DEF InChain
  <2>15. o \notin reading
    BY <2>2 DEF IInv, Unused
  <2>16. Unused'
    <3>1. \A p \in reading' : session'[p].id # 0
      BY <2>8, <2>15 DEF IInv, Unused, TypeOK
    <3>2. \A j \in DOMAIN m_queueSessionPool' :
            /\ m_queueSessionPool'[j] <= SESSION_POOL_SIZE
            /\ session'[m_queueSessionPool'[j]].id = 0
      BY <1>1, <2>5, <2>8 DEF IInv, Unused
    <3>3. session'[o].open = session[o].open
      BY <2>1, <2>2 DEF IInv, TypeOK
    <3>4. /\ \A p \in Objects : session'[p].id = 0 => ~session'[p].open
          /\ \A u \in InCode' : ~session'[acc'[u].object].open
      BY <2>2, <2>6, <2>7, <2>8, <3>3 DEF IInv, Unused
    <3> QED BY <1>1, <2>8, <2>14, <2>15, <3>1, <3>2, <3>4 DEF Unused
  <2>17. PoolIsFree'
    <3> SUFFICES ASSUME NEW j \in DOMAIN m_queueSessionPool'
                 PROVE  /\ \A i \in DOMAIN m_queueSessionPool' :
                             m_queueSessionPool'[i] = m_queueSessionPool'[j] => i = j
                        /\ session'[m_queueSessionPool'[j]].state # "Connected"
                        /\ ~session'[m_queueSessionPool'[j]].open
                        /\ m_queueSessionPool'[j] \notin reading
      BY <1>1, <2>5, <2>6, <2>7 DEF PoolIsFree
    <3>1. \A i \in DOMAIN m_queueSessionPool' :
            m_queueSessionPool'[i] = m_queueSessionPool'[j] => i = j
      <4> SUFFICES ASSUME NEW i \in DOMAIN m_queueSessionPool',
                          m_queueSessionPool'[i] = m_queueSessionPool'[j]
                   PROVE  i = j
        OBVIOUS
      <4>1. i + 1 = j + 1
        BY <2>5 DEF IInv, PoolIsFree
      <4> QED BY <2>5, <4>1
    <3>2. /\ session[m_queueSessionPool[j + 1]].state # "Connected"
          /\ ~session[m_queueSessionPool[j + 1]].open
          /\ m_queueSessionPool[j + 1] \notin reading
      BY <2>5 DEF IInv, PoolIsFree
    <3> QED BY <2>5, <2>8, <3>1, <3>2
  <2>18. IDsIssued \in Nat /\ IDsIssued' = IDsIssued + 1
    BY <2>2, <2>8, OneMoreID
  <2>19. IDsIssued' <= IntMax - 1 =>
           /\ m_currentSessionID = IDsIssued /\ id = m_currentSessionID + 1
           /\ IDsIssued <= IntMax - 1 /\ m_currentSessionID \in Nat
    BY <2>4, <2>18, ServerAssumption DEF IInv, IDsInOrder
  <2>20. IDsInOrder'
    <3> SUFFICES ASSUME IDsIssued' <= IntMax - 1
                 PROVE  /\ id = IDsIssued'
                        /\ \A p \in Objects : session'[p].id <= id
                        /\ \A p, q \in Objects :
                             session'[p].id = session'[q].id /\ session'[p].id # 0 => p = q
                        /\ \A i \in DOMAIN m_sessionMap' : i <= id
      BY <2>1 DEF IDsInOrder
    <3>1. /\ \A p \in Objects : session[p].id <= m_currentSessionID
          /\ \A p, q \in Objects : session[p].id = session[q].id /\ session[p].id # 0 => p = q
          /\ \A i \in DOMAIN m_sessionMap : i <= m_currentSessionID
      BY <2>19 DEF IInv, IDsInOrder
    <3>2. \A p \in Objects : session[p].id \in Int
      BY DEF IInv, TypeOK
    <3>3. \A p \in Objects : session[p].id < id
      BY <2>19, <3>1, <3>2
    <3>4. \A i \in DOMAIN m_sessionMap : i \in Int /\ i <= id
      BY <2>19, <3>1 DEF IInv, TypeOK
    <3>5. \A i \in DOMAIN m_sessionMap' : i <= id
      BY <2>1, <2>19, <3>4
    <3>6. \A p \in Objects : session'[p].id <= id
      BY <2>8, <2>19, <3>2, <3>3
    <3>7. \A p, q \in Objects :
            session'[p].id = session'[q].id /\ session'[p].id # 0 => p = q
      BY <2>8, <2>19, <3>1, <3>2, <3>3
    <3> QED BY <2>18, <2>19, <3>5, <3>6, <3>7
  <2>21. SessionInMap'
    <3> SUFFICES ASSUME IDsIssued' <= IntMax - 1, NEW p \in Objects,
                        session'[p].state # "Closed"
                 PROVE  session'[p].id \in DOMAIN m_sessionMap'
                        /\ m_sessionMap'[session'[p].id] = p
      BY DEF SessionInMap
    <3>1. CASE p = o
      <4>1. \A i \in DOMAIN m_sessionMap : i <= m_currentSessionID /\ i \in Int
        BY <2>19 DEF IInv, IDsInOrder, TypeOK
      <4>2. id \notin DOMAIN m_sessionMap
        BY <2>19, <4>1
      <4> QED BY <2>1, <2>8, <3>1, <4>2
    <3>2. CASE p # o
      BY <2>1, <2>8, <2>19, <3>2 DEF IInv, SessionInMap
    <3> QED BY <3>1, <3>2
  <2>22. TaskOfItsConnection'
    <3> SUFFICES ASSUME NEW q \in DOMAIN m_netTaskQueue, NEW j \in DOMAIN m_netTaskQueue[q]
                 PROVE  session'[m_netTaskQueue[q][j][1]].id = m_netTaskQueue[q][j][2]
      BY DEF TaskOfItsConnection
    <3>1. m_netTaskQueue[q][j] \in Objects \X (1..(IntMax - 1))
      BY DEF IInv, TypeOK
    <3>2. session[m_netTaskQueue[q][j][1]].id = m_netTaskQueue[q][j][2]
      BY DEF IInv, TaskOfItsConnection
    <3>3. m_netTaskQueue[q][j][2] # 0 /\ m_netTaskQueue[q][j][1] \in Objects
      BY <3>1
    <3> QED BY <2>2, <2>8, <3>2, <3>3
  <2> QED BY <2>9, <2>10, <2>11, <2>12, <2>13, <2>16, <2>17, <2>20, <2>21, <2>22 DEF IInv
<1> QED BY <1>2, <1>3


-----------------------------------------------------------------------------
(* The invariant is inductive.                                             *)

LEMMA InitIInv == ASSUME Init PROVE IInv
<1> USE ServerAssumption DEF Init
<1>1. acc = [t \in AsioThreads \cup {Main} |-> Idle] /\ InCode = {}
  BY NoPlace DEF InCode
<1>2. \A o \in Objects : session[o].id = 0 /\ session[o].state = "Closed" /\ ~session[o].open
  OBVIOUS
<1>3. TypeOK
  <2>1. acc \in [AsioThreads \cup {Main} -> AccPlaces]
    BY <1>1, NoPlace
  <2>2. m_queueSessionPool \in Seq(Objects)
        /\ m_netTaskQueue \in Seq(Seq(Objects \X (1..(IntMax - 1))))
    OBVIOUS
  <2>3. 0 \in 0..(IntMax - 1)
    OBVIOUS
  <2>4. session \in [Objects -> [state : {"Closed", "Waiting", "Connected"},
                                 id : 0..(IntMax - 1), open : BOOLEAN]]
    <3>1. [state |-> "Closed", id |-> 0, open |-> FALSE]
            \in [state : {"Closed", "Waiting", "Connected"}, id : 0..(IntMax - 1), open : BOOLEAN]
      BY <2>3
    <3> QED BY <3>1
  <2>5. \A k \in DOMAIN m_sessionMap : k \in 1..(IntMax - 1) /\ m_sessionMap[k] \in Objects
    OBVIOUS
  <2>6. main \in Mains /\ asio \in [AsioThreads -> {"none", "run", "exited"}]
    BY DEF Mains
  <2>7. {m_running, acceptorOpen, bound, configured, ioStopped, acceptFailed} \subseteq BOOLEAN
    OBVIOUS
  <2>8. /\ pending \subseteq Objects /\ reading \subseteq Objects
        /\ ready \subseteq [object : Objects, ok : BOOLEAN]
    OBVIOUS
  <2>9. m_currentSessionID \in 0..(IntMax - 1) /\ accepts \in 0..MaxAccepts
    OBVIOUS
  <2> HIDE DEF Init
  <2> QED BY <2>1, <2>2, <2>4, <2>5, <2>6, <2>7, <2>8, <2>9 DEF TypeOK
<1>4. Chain /\ Hands
  BY <1>1, NoPlace DEF Chain, Hands
<1>5. Phases /\ AsioThreadsStay
  BY <1>1, <1>2 DEF Phases, NotStarted, NotRun, Up, AsioThreadsStay
<1>6. Allocated
  <2>1. \A o \in Objects : o > SESSION_POOL_SIZE =>
          (session[o].id # 0 <=> o <= SESSION_POOL_SIZE + 0)
    BY <1>2 DEF Objects
  <2>2. 0 \in 0..(accepts + 1) /\ 0 <= accepts
    OBVIOUS
  <2> HIDE DEF Init
  <2> QED BY <2>1, <2>2 DEF Allocated
<1>7. Unused /\ PoolIsFree
  BY <1>1 DEF Unused, InChain, PoolIsFree
<1>8. IDsIssued = 0
  <2>1. {o \in Objects : session[o].id # 0} = {}
    BY <1>2
  <2> QED BY <2>1, FS_EmptySet DEF IDsIssued
<1>9. IDsInOrder /\ SessionInMap /\ TaskOfItsConnection
  BY <1>2, <1>8 DEF IDsInOrder, SessionInMap, TaskOfItsConnection
<1> QED BY <1>3, <1>4, <1>5, <1>6, <1>7, <1>9 DEF IInv

LEMMA StutterIInv == ASSUME IInv, UNCHANGED vars PROVE IInv'
BY TaskStep DEF IInv, TypeOK, TaskOfItsConnection, vars, net

LEMMA NextIInv == ASSUME IInv, [Next]_vars PROVE IInv'
<1>1. CASE \E t \in AsioThreads \cup {Main} : AcceptorCode(t)
  BY <1>1, AsyncAcceptIInv, DivideByZeroIInv, InitiateIInv, OnAcceptRunningIInv,
     OnAcceptResultIInv, RearmIInv DEF AcceptorCode
<1>2. CASE \E o \in Objects, ok \in BOOLEAN : CompleteAccept(o, ok)
  BY <1>2, CompleteAcceptIInv
<1>3. CASE \E t \in AsioThreads : AsioStep(t) \/ \E o \in Objects : OnRead(t, o) \/ ReadError(t, o)
  BY <1>3, DispatchAcceptIInv, AsioExitIInv, OnReadIInv, ReadErrorIInv DEF AsioStep
<1>4. CASE \E q \in 1..m_ioThreadCount : TakeTask(q)
  BY <1>4, TakeTaskIInv
<1>5. CASE MainStep \/ ExitCommand
  BY <1>5, BindIInv, LoadFileIInv, StartIInv, RunIInv, NetRunIInv, CloseAcceptorIInv,
     LateMainIInv DEF MainStep
<1>6. CASE Failed \/ UNCHANGED vars
  BY <1>6, StutterIInv DEF Failed
<1>7. CASE \E k \in Loops : LoopTurn(k)
  BY <1>7, LoopTurnIInv
<1> QED BY <1>1, <1>2, <1>3, <1>4, <1>5, <1>6, <1>7 DEF Next

-----------------------------------------------------------------------------
(* What the server keeps.                                                  *)

\* The inductive invariant: LpServer.cpp, LpAcceptor.cpp and LpSessionPool.cpp
\* as far as the life of the server goes.
THEOREM ServerInvariant == Spec => []IInv
<1>1. Init => IInv
  BY InitIInv
<1>2. IInv /\ [Next]_vars => IInv'
  BY NextIInv
<1> QED BY <1>1, <1>2, PTL DEF Spec

\* Every variable stays in its type; ids stay below INT_MAX.
THEOREM ServerTypeOK == Spec => []TypeOK
<1>1. IInv => TypeOK
  BY DEF IInv
<1> QED BY <1>1, ServerInvariant, PTL

\* Two threads are never in AsyncAccept or OnAccept together.
THEOREM ServerOneAcceptAtATime == Spec => []OneAcceptAtATime
<1>1. ASSUME Chain PROVE OneAcceptAtATime
  <2>1. ASSUME NEW S, \A x, y \in S : x = y
        PROVE  Cardinality(S) \in {0, 1} /\ (S = {} => Cardinality(S) = 0)
    <3>1. CASE S = {}
      BY <3>1, FS_EmptySet
    <3>2. CASE S # {}
      <4>1. PICK x \in S : S = {x}
        BY <2>1, <3>2
      <4> QED BY <3>2, <4>1, FS_Singleton
    <3> QED BY <3>1, <3>2
  <2>2. /\ Cardinality(pending) \in {0, 1} /\ (pending = {} => Cardinality(pending) = 0)
        /\ Cardinality(ready) \in {0, 1} /\ (ready = {} => Cardinality(ready) = 0)
        /\ Cardinality(InCode) \in {0, 1} /\ (InCode = {} => Cardinality(InCode) = 0)
    BY <1>1, <2>1 DEF Chain
  <2> QED BY <1>1, <2>2 DEF Chain, OneAcceptAtATime
<1>2. IInv => OneAcceptAtATime
  BY <1>1 DEF IInv
<1> QED BY <1>2, ServerInvariant, PTL

\* Until Stop there is an accept, unless one has failed.
THEOREM ServerKeepsAccepting == Spec => []KeepsAccepting
<1>1. IInv => KeepsAccepting
  BY DEF IInv, Phases, Up, KeepsAccepting
<1> QED BY <1>1, ServerInvariant, PTL

\* Nobody works on a session that the pool can give away.
THEOREM ServerPoolIsFree == Spec => []PoolIsFree
<1>1. IInv => PoolIsFree
  BY DEF IInv
<1> QED BY <1>1, ServerInvariant, PTL

\* A session that lives is found under its id.
THEOREM ServerSessionInMap == Spec => []SessionInMap
<1>1. IInv => SessionInMap
  BY DEF IInv
<1> QED BY <1>1, ServerInvariant, PTL

\* A Receive task is served for the connection that it was queued for.
THEOREM ServerTaskOfItsConnection == Spec => []TaskOfItsConnection
<1>1. IInv => TaskOfItsConnection
  BY DEF IInv
<1> QED BY <1>1, ServerInvariant, PTL

\* The asio threads stay until Stop or a failed accept.
THEOREM ServerAsioThreadsStay == Spec => []AsioThreadsStay
<1>1. IInv => AsioThreadsStay
  BY DEF IInv
<1> QED BY <1>1, ServerInvariant, PTL

\* Without an address or a configuration nothing runs.
THEOREM ServerNothingHalfStarted == Spec => []NothingHalfStarted
<1>1. ASSUME IInv, ~bound \/ ~configured
      PROVE  pending = {} /\ ready = {} /\ \A t \in AsioThreads : asio[t] = "none"
  <2>1. NotStarted \/ (main = "accept" /\ acc[Main].pc = "arm")
    BY <1>1 DEF IInv, Phases
  <2>2. CASE NotStarted
    BY <1>1, <2>2 DEF IInv, Phases, NotRun
  <2>3. CASE main = "accept" /\ acc[Main].pc = "arm"
    <3>1. Main \in InCode
      BY <2>3 DEF InCode
    <3> QED BY <1>1, <2>3, <3>1 DEF IInv, Chain, Phases, NotRun
  <2> QED BY <2>1, <2>2, <2>3
<1>2. IInv => NothingHalfStarted
  BY <1>1 DEF NothingHalfStarted
<1> QED BY <1>2, ServerInvariant, PTL
=============================================================================
