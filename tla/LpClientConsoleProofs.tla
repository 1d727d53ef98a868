------------------------ MODULE LpClientConsoleProofs ------------------------
(***************************************************************************)
(* The report of the load generator for any number of clients, rounds and  *)
(* packets: one LpClientManager is made, and no round is lost from its     *)
(* total or counted twice.                                                 *)
(***************************************************************************)
EXTENDS LpClientConsole, FiniteSetTheorems, TLAPS

LEMMA ModUnique ==
  ASSUME NEW q \in Nat, NEW r \in Nat, NEW U \in Nat \ {0}, r < U
  PROVE  (U * q + r) % U = r
OBVIOUS

\* A sum of words is the word of the sum.
LEMMA ModAdd ==
  ASSUME NEW a \in Nat, NEW s \in Nat, NEW U \in Nat \ {0}
  PROVE  ((a % U) + s) % U = (a + s) % U
<1> DEFINE q == a \div U
           b == (a % U) + s
           p == b \div U
           r == b % U
<1>1. a = U * q + (a % U) /\ q \in Nat /\ a % U \in Nat
  OBVIOUS
<1>2. b = U * p + r /\ p \in Nat /\ r \in Nat /\ r < U
  BY <1>1
<1>3. a + s = U * q + b
  BY <1>1
<1>4. U * q + (U * p + r) = U * (q + p) + r
  BY <1>1, <1>2
<1>5. (a + s) % U = r
  <2> HIDE DEF q, b, p, r
  <2>1. a + s = U * (q + p) + r /\ q + p \in Nat
    BY <1>1, <1>2, <1>3, <1>4
  <2> QED BY <2>1, <1>2, ModUnique
<1> QED BY <1>5

LEMMA InitIInv == Init => IInv
<1> SUFFICES ASSUME Init PROVE IInv
  OBVIOUS
<1> USE ConsoleAssumption DEF Init, SingletonInit, Null
<1>1. TypeOK
  <2>1. Callers = Clients /\ Uint32 \in Nat /\ Uint32 > 1 /\ m_clientReconnectCount \in Nat
    OBVIOUS
  <2>2. m_totalCount \in 0..(Uint32 - 1)
    BY <2>1
  <2>3. launched \in 0..m_threadCount
    BY <2>1
  <2>7. logThread \in BOOLEAN
    BY Zenon
  <2>4. client \in [Clients -> {"none", "round", "add", "store", "get", "log", "done"}]
        /\ total \in [Clients -> 0..(Uint32 - 1)]
    BY <2>1
  <2>5. round \in [Clients -> 1..(m_clientReconnectCount + 1)]
    BY <2>1
  <2>6. call \in [Clients -> {"out", "test", "lock", "retest", "new", "unlock", "return",
                              "returned"}]
    BY <2>1
  <2> QED BY <2>2, <2>3, <2>4, <2>5, <2>6, <2>7 DEF TypeOK
<1>2. TotalExact
  BY DEF TotalExact
<1>3. SingletonInv
  <2>1. \A t \in Callers : call[t] = "out"
    OBVIOUS
  <2>2. holder = {t \in Callers : InLock(t)}
    BY <2>1 DEF InLock
  <2>3. object \in [Callers -> {0, 1}] /\ pointerFirst \in BOOLEAN
    OBVIOUS
  <2>4. allocated = 0 /\ m_instance = 0 /\ built = {}
    OBVIOUS
  <2> QED BY <2>1, <2>2, <2>3, <2>4 DEF SingletonInv, Returned
<1>4. ClientInv
  BY DEF ClientInv, Clients, Returned
<1> QED BY <1>1, <1>2, <1>3, <1>4 DEF IInv

-----------------------------------------------------------------------------
(* Instance().                                                             *)

LEMMA FirstTestKeeps ==
  ASSUME IInv, NEW t \in Clients, FirstTest(t) PROVE SingletonInv'
BY ConsoleAssumption DEF IInv, TypeOK, FirstTest, Goes, SingletonInv, InLock, Returned, Null

LEMMA LockInstanceKeeps ==
  ASSUME IInv, NEW t \in Clients, LockInstance(t) PROVE SingletonInv'
BY ConsoleAssumption DEF IInv, TypeOK, LockInstance, Goes, SingletonInv, InLock, Returned

LEMMA SecondTestKeeps ==
  ASSUME IInv, NEW t \in Clients, SecondTest(t) PROVE SingletonInv'
BY ConsoleAssumption DEF IInv, TypeOK, SecondTest, Goes, SingletonInv, InLock, Returned, Null

LEMMA PublishKeeps ==
  ASSUME IInv, NEW t \in Clients, Publish(t) PROVE SingletonInv'
<1> USE ConsoleAssumption DEF IInv, SingletonInv
<1>1. t \in Callers /\ call[t] = "new" /\ object[t] = 1 /\ allocated = 1 /\ m_instance = 0
  BY DEF Publish, Goes
<1>2. /\ call' = [call EXCEPT ![t] = IF 1 \in built THEN "unlock" ELSE "new"]
      /\ m_instance' = 1 /\ pointerFirst' = (pointerFirst \/ 1 \notin built)
      /\ UNCHANGED <<holder, allocated, built, object>>
  BY <1>1 DEF Publish, Goes
<1>3. call \in [Callers -> {"out", "test", "lock", "retest", "new", "unlock", "return",
                            "returned"}]
  BY DEF TypeOK
<1>4. pointerFirst' \in BOOLEAN
  BY <1>2, Zenon
<1>5. holder' = {u \in Callers : InLock(u)'}
  BY <1>1, <1>2, <1>3 DEF InLock
<1>6. m_instance' = 1 /\ ~pointerFirst' => built' = {1}
  BY <1>1, <1>2
<1>7. ASSUME NEW u \in Callers
      PROVE  /\ call'[u] = "new" => object'[u] = 1 /\ ~(m_instance' = 1 /\ built' = {1})
             /\ Returned(u)' => object'[u] = 1
             /\ call'[u] = "unlock" => built' = {1}
  BY <1>1, <1>2, <1>3 DEF InLock, Returned
<1>8. /\ \A u, v \in holder' : u = v
      /\ built' = {} => call'[t] = "new"
  BY <1>1, <1>2, <1>3
<1> HIDE DEF IInv, SingletonInv
<1>9. /\ allocated' = 1 /\ m_instance' = 1 /\ built' \in {{}, {1}}
      /\ object' \in [Callers -> {0, 1}]
  BY <1>1, <1>2 DEF IInv, SingletonInv
<1> QED BY <1>1, <1>4, <1>5, <1>6, <1>7, <1>8, <1>9 DEF SingletonInv

LEMMA ConstructKeeps ==
  ASSUME IInv, NEW t \in Clients, Construct(t) PROVE SingletonInv'
BY ConsoleAssumption DEF IInv, TypeOK, Construct, Goes, SingletonInv, InLock, Returned

LEMMA UnlockInstanceKeeps ==
  ASSUME IInv, NEW t \in Clients, UnlockInstance(t) PROVE SingletonInv'
BY ConsoleAssumption DEF IInv, TypeOK, UnlockInstance, Goes, SingletonInv, InLock, Returned

LEMMA ReturnKeeps ==
  ASSUME IInv, NEW t \in Clients, Return(t) PROVE SingletonInv'
BY ConsoleAssumption DEF IInv, TypeOK, Return, Goes, SingletonInv, InLock, Returned

\* Every step inside Instance() keeps the singleton as it should be, and no
\* step takes the pointer back.
LEMMA InstanceKeeps ==
  ASSUME IInv, NEW t \in Clients, InInstance(t) PROVE SingletonInv'
BY FirstTestKeeps, LockInstanceKeeps, SecondTestKeeps, PublishKeeps,
   UnlockInstanceKeeps, ReturnKeeps DEF InInstance

LEMMA InstanceStep ==
  ASSUME IInv, NEW t \in Clients, InInstance(t) \/ Construct(t)
  PROVE  /\ call[t] \in {"test", "lock", "retest", "new", "unlock", "return"}
         /\ \E c \in {"lock", "retest", "new", "unlock", "return", "returned"} :
              call' = [call EXCEPT ![t] = c]
         /\ m_instance = 1 => m_instance' = 1
         /\ pointerFirst => pointerFirst'
<1> USE ConsoleAssumption DEF IInv, SingletonInv, Goes, Null
<1>1. CASE Publish(t)
  BY <1>1 DEF Publish
<1>2. CASE Return(t)
  BY <1>2 DEF Return
<1> QED
  BY <1>1, <1>2 DEF InInstance, FirstTest, LockInstance, SecondTest, Construct, UnlockInstance

\* A thread that is not inside calls Instance() or goes away from it.
LEMMA OutsideKeeps ==
  ASSUME IInv, NEW t \in Clients, call[t] \in {"out", "returned"},
         NEW c \in {"out", "test"}, call' = [call EXCEPT ![t] = c],
         UNCHANGED <<m_instance, holder, allocated, built, object, pointerFirst>>
  PROVE  SingletonInv'
BY ConsoleAssumption DEF IInv, TypeOK, SingletonInv, InLock, Returned

LEMMA QuietKeeps ==
  ASSUME IInv, UNCHANGED singleton PROVE SingletonInv'
BY DEF IInv, singleton, SingletonInv, InLock, Returned

-----------------------------------------------------------------------------
(* The clients.                                                            *)

\* A step that reports no round and leaves the total alone.
LEMMA TotalKeeps ==
  ASSUME IInv, UNCHANGED <<built, m_totalCount>>, pointerFirst => pointerFirst',
         \A i \in Clients : Added(i)' = Added(i)
  PROVE  TotalExact'
BY DEF IInv, TotalExact, Reported

LEMMA RunIInv == ASSUME IInv, Run PROVE IInv'
<1> USE ConsoleAssumption DEF Run
<1>1. SingletonInv'
  BY QuietKeeps
<1>2. UNCHANGED <<call, object, m_instance, pointerFirst, built, round, m_totalCount,
                  totalLock, total>>
  BY DEF singleton, manager
<1>3. CASE launched < m_threadCount
  <2>1. /\ launched' = launched + 1 /\ UNCHANGED logThread
        /\ client' = [client EXCEPT ![launched + 1] = "round"]
        /\ launched + 1 \in Clients /\ launched \in Nat
    BY <1>3 DEF IInv, TypeOK, Clients
  <2>2. client[launched + 1] = "none"
    BY <2>1 DEF IInv, ClientInv
  <2> HIDE DEF Run
  <2>3. TypeOK'
    BY <1>2, <1>3, <2>1 DEF IInv, TypeOK
  <2>4. ClientInv'
    BY <1>2, <2>1, <2>2 DEF IInv, TypeOK, ClientInv, Clients, Returned
  <2>5. TotalExact'
    BY <1>2, <2>1, <2>2, TotalKeeps DEF IInv, TypeOK, Added
  <2> QED BY <1>1, <2>3, <2>4, <2>5 DEF IInv
<1>4. CASE ~(launched < m_threadCount)
  <2>1. logThread' = TRUE /\ UNCHANGED <<launched, client>>
    BY <1>4
  <2>2. logThread' \in BOOLEAN
    BY <2>1, Zenon
  <2> HIDE DEF Run
  <2>3. TypeOK'
    BY <1>2, <2>1, <2>2 DEF IInv, TypeOK
  <2>4. ClientInv' /\ TotalExact'
    BY <1>2, <2>1, TotalKeeps DEF IInv, ClientInv, Added, Returned
  <2> QED BY <1>1, <2>3, <2>4 DEF IInv
<1> QED BY <1>3, <1>4

LEMMA RoundIInv == ASSUME IInv, NEW i \in Clients, Round(i) PROVE IInv'
<1> USE ConsoleAssumption DEF Round, Moves, Calls
<1>1. SingletonInv'
  BY OutsideKeeps DEF IInv, ClientInv
<1>2. TypeOK'
  BY DEF IInv, TypeOK, manager, run
<1>3. ClientInv'
  BY DEF IInv, TypeOK, ClientInv, manager, run, Returned
<1>4. TotalExact'
  BY TotalKeeps DEF IInv, TypeOK, Added, manager
<1> QED BY <1>1, <1>2, <1>3, <1>4 DEF IInv

LEMMA InstanceIInv == ASSUME IInv, NEW i \in Clients, Instance(i) PROVE IInv'
<1> USE ConsoleAssumption DEF Instance
<1>1. SingletonInv' /\ UNCHANGED built
  BY InstanceKeeps DEF InInstance, FirstTest, LockInstance, SecondTest, Publish,
     UnlockInstance, Return
<1>2. PICK c \in {"lock", "retest", "new", "unlock", "return", "returned"} :
        call' = [call EXCEPT ![i] = c]
  BY InstanceStep
<1>3. /\ call[i] \in {"test", "lock", "retest", "new", "unlock", "return"}
      /\ m_instance = 1 => m_instance' = 1
      /\ pointerFirst => pointerFirst'
  BY InstanceStep
<1>4. TypeOK'
  BY <1>2 DEF IInv, TypeOK, manager, run
<1>5. ClientInv'
  BY <1>2, <1>3 DEF IInv, TypeOK, ClientInv, manager, run, Returned
<1>6. TotalExact'
  BY <1>1, <1>3, TotalKeeps DEF Added, manager
<1> QED BY <1>1, <1>4, <1>5, <1>6 DEF IInv

\* The manager is made before anybody has reported a round to it.
LEMMA NewManagerIInv == ASSUME IInv, NEW i \in Clients, NewManager(i) PROVE IInv'
<1> USE ConsoleAssumption DEF NewManager
<1>1. SingletonInv'
  BY ConstructKeeps
<1>2. PICK c \in {"lock", "retest", "new", "unlock", "return", "returned"} :
        call' = [call EXCEPT ![i] = c]
  BY InstanceStep
<1>3. /\ call[i] \in {"test", "lock", "retest", "new", "unlock", "return"}
      /\ UNCHANGED <<m_instance, pointerFirst>>
  BY InstanceStep DEF Construct
<1>4. TypeOK'
  BY <1>2 DEF IInv, TypeOK, run
<1>5. ASSUME ~pointerFirst
      PROVE  \A j \in Clients : round[j] = 1 /\ client[j] \notin {"store", "get", "log"}
  <2>1. m_instance # 1
    BY <1>5 DEF Construct, Goes, IInv, SingletonInv
  <2> QED BY <2>1 DEF IInv, TypeOK, ClientInv
<1>6. ClientInv'
  <2>1. ~pointerFirst => totalLock' = {j \in Clients : client'[j] = "store"}
    BY <1>5
  <2>2. totalLock' = {}
    OBVIOUS
  <2> HIDE DEF NewManager
  <2>3. UNCHANGED <<client, round, launched, total>>
    BY DEF NewManager, run
  <2> QED BY <1>2, <1>3, <2>1, <2>2, <2>3 DEF IInv, TypeOK, ClientInv, Returned
<1>7. TotalExact'
  <2> SUFFICES ASSUME ~pointerFirst
               PROVE  m_totalCount' = (SendCount * Cardinality(Reported')) % Uint32
    BY <1>3 DEF TotalExact
  <2>1. \A j \in Clients : Added(j)' = 0
    BY <1>5 DEF Added
  <2>2. Reported' = {}
    BY <2>1 DEF Reported
  <2>3. SendCount * Cardinality(Reported') = 0
    BY <2>2, FS_EmptySet
  <2> QED BY <2>3
<1> QED BY <1>1, <1>4, <1>6, <1>7 DEF IInv

LEMMA AddTotalCountIInv == ASSUME IInv, NEW i \in Clients, AddTotalCount(i) PROVE IInv'
<1> USE ConsoleAssumption DEF AddTotalCount, Moves
<1>1. SingletonInv'
  BY QuietKeeps
<1>2. TypeOK'
  BY DEF IInv, TypeOK, singleton, run
<1>3. ClientInv'
  BY DEF IInv, TypeOK, SingletonInv, ClientInv, singleton, run, Returned
<1>4. TotalExact'
  BY TotalKeeps DEF IInv, TypeOK, Added, singleton
<1> QED BY <1>1, <1>2, <1>3, <1>4 DEF IInv

\* One round more is in the total and one more is reported.
LEMMA StoreTotalIInv == ASSUME IInv, NEW i \in Clients, StoreTotal(i) PROVE IInv'
<1> USE ConsoleAssumption DEF StoreTotal, Moves, Calls
<1>1. SingletonInv'
  BY OutsideKeeps DEF IInv, ClientInv, Returned
<1>2. TypeOK'
  BY DEF IInv, TypeOK, run
<1>3. ClientInv'
  BY DEF IInv, TypeOK, SingletonInv, ClientInv, run, Returned
<1>4. TotalExact'
  <2> SUFFICES ASSUME ~pointerFirst, built # {}
               PROVE  m_totalCount' = (SendCount * Cardinality(Reported')) % Uint32
    BY DEF TotalExact
  <2>1. total[i] = m_totalCount /\ m_totalCount = (SendCount * Cardinality(Reported)) % Uint32
    BY DEF IInv, ClientInv, TotalExact
  <2>2. round[i] \in 1..m_clientReconnectCount /\ client[i] = "store"
    BY DEF IInv, TypeOK, ClientInv
  <2>3. \A j \in Clients : /\ Added(j) \in Int
                         /\ Added(j)' = IF j = i THEN round[i] ELSE Added(j)
    BY DEF IInv, TypeOK, Added
  <2>4. Added(i) = round[i] - 1
    BY <2>2 DEF Added
  <2>5. Reported' = Reported \cup {<<i, round[i]>>} /\ <<i, round[i]>> \notin Reported
    BY <2>2, <2>3, <2>4 DEF Reported
  <2>6. IsFiniteSet(Reported)
    <3>1. IsFiniteSet(Clients) /\ IsFiniteSet(1..m_clientReconnectCount)
      BY FS_Interval DEF Clients
    <3>2. IsFiniteSet(Clients \X (1..m_clientReconnectCount))
      BY <3>1, FS_Product
    <3> QED BY <3>2, FS_Subset DEF Reported
  <2>7. Cardinality(Reported') = Cardinality(Reported) + 1 /\ Cardinality(Reported) \in Nat
    BY <2>5, <2>6, FS_AddElement, FS_CardinalityType
  <2>8. SendCount * Cardinality(Reported') = SendCount * Cardinality(Reported) + SendCount
        /\ SendCount * Cardinality(Reported) \in Nat
    BY <2>7
  <2>9. m_totalCount' = (total[i] + SendCount) % Uint32
        /\ SendCount \in Nat /\ Uint32 \in Nat \ {0}
    OBVIOUS
  <2> HIDE DEF StoreTotal, Reported
  <2> QED BY <2>1, <2>8, <2>9, ModAdd
<1> QED BY <1>1, <1>2, <1>3, <1>4 DEF IInv

LEMMA GetTotalCountIInv == ASSUME IInv, NEW i \in Clients, GetTotalCount(i) PROVE IInv'
<1> USE ConsoleAssumption DEF GetTotalCount, Moves
<1>1. SingletonInv'
  BY QuietKeeps
<1>2. TypeOK'
  BY DEF IInv, TypeOK, singleton, run, manager
<1>3. ClientInv'
  BY DEF IInv, TypeOK, SingletonInv, ClientInv, singleton, run, manager, Returned
<1>4. TotalExact'
  BY TotalKeeps DEF IInv, TypeOK, Added, singleton, manager
<1> QED BY <1>1, <1>2, <1>3, <1>4 DEF IInv

LEMMA LogRoundIInv == ASSUME IInv, NEW i \in Clients, LogRound(i) PROVE IInv'
<1> USE ConsoleAssumption DEF LogRound, Moves
<1>1. SingletonInv'
  BY OutsideKeeps DEF IInv, ClientInv, Returned
<1>2. TypeOK'
  BY DEF IInv, TypeOK, ClientInv, run, manager
<1>3. ClientInv'
  BY DEF IInv, TypeOK, ClientInv, run, manager, Returned
<1>4. TotalExact'
  BY TotalKeeps DEF IInv, TypeOK, Added, manager
<1> QED BY <1>1, <1>2, <1>3, <1>4 DEF IInv

LEMMA StutterIInv ==
  ASSUME IInv, UNCHANGED <<singleton, run, client, round, manager, total>> PROVE IInv'
<1>1. SingletonInv' /\ TotalExact'
  BY QuietKeeps, TotalKeeps DEF singleton, manager, Added
<1>2. TypeOK' /\ ClientInv'
  BY DEF IInv, TypeOK, ClientInv, singleton, run, manager, Returned
<1> QED BY <1>1, <1>2 DEF IInv

LEMMA NextIInv == IInv /\ [Next]_vars => IInv'
BY RunIInv, RoundIInv, InstanceIInv, NewManagerIInv, AddTotalCountIInv, StoreTotalIInv,
   GetTotalCountIInv, LogRoundIInv, StutterIInv
   DEF Next, Report, ProcessLog, Over, vars

-----------------------------------------------------------------------------
\* The inductive invariant of the report, whatever the order in which the
\* pointer and the object of the singleton become visible.
THEOREM ConsoleInvariant == Spec => []IInv
BY InitIInv, NextIInv, PTL DEF Spec

\* One manager is made and every client gets that one (LpSingleton.h:12-21).
THEOREM ConsoleOneInstance == Spec => []OneInstance
<1>1. IInv => OneInstance
  BY ConsoleAssumption DEF IInv, SingletonInv, OneInstance, Returned, Null
<1> QED BY <1>1, ConsoleInvariant, PTL

\* A client behind the lock always finds a built manager; an unbuilt one is
\* out only while its maker is in new (LpSingleton.h:13-21).
THEOREM ConsoleBuiltBehindLock == Spec => []BuiltBehindLock
<1>1. ASSUME IInv PROVE BuiltBehindLock
  <2>1. ASSUME NEW t \in Callers, call[t] = "unlock" PROVE m_instance \in built
    BY <1>1, <2>1 DEF IInv, SingletonInv
  <2>2. ASSUME NEW t \in Callers, Returned(t), object[t] \notin built
        PROVE  \E u \in Callers : call[u] = "new" /\ object[u] = object[t]
    <3>1. object[t] = 1 /\ m_instance = 1 /\ allocated = 1 /\ built = {}
      BY <1>1, <2>2 DEF IInv, SingletonInv, Returned
    <3>2. PICK u \in Callers : call[u] = "new"
      BY <1>1, <3>1 DEF IInv, SingletonInv
    <3>3. object[u] = 1
      BY <1>1, <3>2 DEF IInv, SingletonInv
    <3> QED BY <3>1, <3>2, <3>3
  <2> QED BY <2>1, <2>2 DEF BuiltBehindLock
<1> QED BY <1>1, ConsoleInvariant, PTL

\* No round is lost from the total or counted twice, for any number of
\* clients and rounds (LpClientConsole.cpp:101, LpClientManager.h:15).
THEOREM ConsoleTotalExact == Spec => []TotalExact
<1>1. IInv => TotalExact
  BY DEF IInv
<1> QED BY <1>1, ConsoleInvariant, PTL
=============================================================================
