-------------------------- MODULE LpClientConsole --------------------------
(***************************************************************************)
(* The console of the load generator: a thread per LpClient in             *)
(* ProcessClient, the log thread, and the main thread in Run.  The clients *)
(* share the singleton LpClientManager, made by whichever comes first, and *)
(* the log.                                                                *)
(*                                                                         *)
(* A round from Connect to CloseSessions is one step here (LpClient has    *)
(* its steps); it has sent SendCount packets, or never ends.  What is      *)
(* modelled is the report at its end.                                      *)
(***************************************************************************)
EXTENDS LpSingleton, LpLogger, Integers, FiniteSets

CONSTANTS
  m_threadCount,
  m_clientReconnectCount,  \* rounds of a client
  SendCount,               \* m_sendCount at the end of a round: m_sessionCount
                           \* * m_sessionSendCount
  Uint32                   \* 2^32

Clients == 1..m_threadCount

ASSUME ConsoleAssumption ==
  /\ m_threadCount \in Nat /\ Callers = Clients
  /\ m_clientReconnectCount \in Nat \ {0}
  /\ SendCount \in Nat /\ Uint32 \in Nat \ {0, 1}

VARIABLES
  launched,      \* client threads that Run has started
  logThread,     \* Run has started the log thread
  client, round, \* per client: where it is, and in which round
  m_totalCount, totalLock,   \* LpClientManager; the threads inside m_mutex
  total          \* per client: what it has read of m_totalCount

manager == <<m_totalCount, totalLock>>
run     == <<launched, logThread>>
vars == <<singleton, logger, run, client, round, manager, total>>

\* Before the object is made its memory holds anything, here 0 or 1.
Init ==
  /\ SingletonInit /\ LoggerInit
  /\ launched = 0 /\ logThread = FALSE
  /\ client = [i \in Clients |-> "none"] /\ round = [i \in Clients |-> 1]
  /\ m_totalCount \in {0, 1} /\ totalLock = {}
  /\ total = [i \in Clients |-> 0]

-----------------------------------------------------------------------------
\* Run: the client threads one by one, then the log thread.
Run ==
  /\ ~logThread
  /\ IF launched < m_threadCount
     THEN /\ launched' = launched + 1 /\ client' = [client EXCEPT ![launched + 1] = "round"]
          /\ UNCHANGED logThread
     ELSE logThread' = TRUE /\ UNCHANGED <<launched, client>>
  /\ UNCHANGED <<singleton, logger, round, manager, total>>

ProcessLog == logThread /\ Update /\ UNCHANGED <<singleton, run, client, round, manager, total>>

-----------------------------------------------------------------------------
(* ProcessClient on the thread of client i.                                *)

Moves(i, from, to) == client[i] = from /\ client' = [client EXCEPT ![i] = to]

\* Calls Instance(), whose steps come before the next step of the client.
Calls(i) == call' = [call EXCEPT ![i] = "test"]
           /\ UNCHANGED <<m_instance, holder, allocated, built, object, pointerFirst>>

\* Connect, CheckSessions, TestSend, CloseSessions.
Round(i) ==
  /\ Moves(i, "round", "add") /\ Calls(i)
  /\ UNCHANGED <<logger, run, round, manager, total>>

Instance(i) ==
  /\ InInstance(i)
  /\ UNCHANGED <<logger, run, client, round, manager, total>>

\* The constructor of LpClientManager.
NewManager(i) ==
  /\ Construct(i)
  /\ m_totalCount' = 0 /\ totalLock' = {}
  /\ UNCHANGED <<logger, run, client, round, total>>

\* Variant: lock_guard as a temporary, which is gone at once.
AddTotalCountUnguarded(i) ==
  /\ Returned(i) /\ Moves(i, "add", "store")
  /\ totalLock' = totalLock \cup {i}
  /\ total' = [total EXCEPT ![i] = m_totalCount]
  /\ UNCHANGED <<singleton, logger, run, round, m_totalCount>>

\* AddTotalCount: m_totalCount is read ...
AddTotalCount(i) ==
  /\ Returned(i) /\ Moves(i, "add", "store")
  /\ totalLock = {} /\ totalLock' = {i}
  /\ total' = [total EXCEPT ![i] = m_totalCount]
  /\ UNCHANGED <<singleton, logger, run, round, m_totalCount>>

\* Variant: the sum is not cut to 32 bits.
StoreTotalWide(i) ==
  /\ Moves(i, "store", "get") /\ Calls(i)
  /\ m_totalCount' = total[i] + SendCount
  /\ totalLock' = totalLock \ {i}
  /\ UNCHANGED <<logger, run, round, total>>

\* ... and written, and the lock released.  Then Instance() again.
StoreTotal(i) ==
  /\ Moves(i, "store", "get") /\ Calls(i)
  /\ m_totalCount' = (total[i] + SendCount) % Uint32
  /\ totalLock' = totalLock \ {i}
  /\ UNCHANGED <<logger, run, round, total>>

\* GetTotalCount, one read under the lock.
GetTotalCount(i) ==
  /\ Returned(i) /\ Moves(i, "get", "log")
  /\ totalLock = {}
  /\ total' = [total EXCEPT ![i] = m_totalCount]
  /\ UNCHANGED <<singleton, logger, run, round, manager>>

\* The line "Send [Send: ...][Total: ...]", and the next round.
LogRound(i) ==
  /\ Moves(i, "log", IF round[i] < m_clientReconnectCount THEN "round" ELSE "done")
  /\ LOG([client |-> i, send |-> SendCount, total |-> total[i]])
  /\ call' = [call EXCEPT ![i] = "out"]
  /\ round' = [round EXCEPT ![i] = @ + 1]
  /\ UNCHANGED <<m_instance, holder, allocated, built, object, pointerFirst,
                 run, manager, total>>

Report(i) ==
  \/ Instance(i) \/ NewManager(i) \/ AddTotalCount(i) \/ StoreTotal(i)
  \/ GetTotalCount(i) \/ LogRound(i)

\* All rounds are over; the main thread stays at the console, and the log
\* thread goes on polling.
Over == logThread /\ (\A i \in Clients : client[i] = "done") /\ UNCHANGED vars

Next ==
  \/ Run \/ ProcessLog \/ Over
  \/ \E i \in Clients : Round(i) \/ Report(i)

(***************************************************************************)
(* Every thread runs; but a round need not end (LpClient says when).       *)
(***************************************************************************)
Spec ==
  /\ Init /\ [][Next]_vars
  /\ WF_vars(Run) /\ WF_vars(ProcessLog)
  /\ \A i \in Clients : WF_vars(Report(i))

-----------------------------------------------------------------------------
TypeOK ==
  /\ launched \in 0..m_threadCount /\ logThread \in BOOLEAN
  /\ call \in [Clients -> {"out", "test", "lock", "retest", "new", "unlock",
                           "return", "returned"}]
  /\ client \in [Clients -> {"none", "round", "add", "store", "get", "log", "done"}]
  /\ round \in [Clients -> 1..(m_clientReconnectCount + 1)]
  /\ m_totalCount \in 0..(Uint32 - 1) /\ total \in [Clients -> 0..(Uint32 - 1)]

\* The rounds whose packets have been added to the total.
Added(i) == IF client[i] \in {"get", "log"} THEN round[i] ELSE round[i] - 1
Reported == {r \in Clients \X (1..m_clientReconnectCount) : r[2] <= Added(r[1])}

\* No round is lost from the total or counted twice, however the clients
\* meet: in Instance(), where a second manager would start again from 0, and
\* in AddTotalCount (LpClientConsole.cpp:101, LpClientManager.h:15).
TotalExact ==
  ~pointerFirst /\ built # {} =>
    m_totalCount = (SendCount * Cardinality(Reported)) % Uint32

\* Where a client is tells where it is in Instance() and whether it holds the
\* lock of the manager.
ClientInv ==
  /\ totalLock \subseteq Clients
  /\ \A i \in Clients :
       /\ client[i] \in {"none", "round", "done"} => call[i] = "out"
       /\ client[i] \in {"store", "log"} => Returned(i)
       /\ i > launched => client[i] = "none"
       /\ client[i] # "done" => round[i] <= m_clientReconnectCount
       /\ round[i] > 1 \/ client[i] \in {"store", "get", "log"} => m_instance = 1
  /\ ~pointerFirst =>
       /\ totalLock = {i \in Clients : client[i] = "store"}
       /\ \A i, j \in totalLock : i = j
       /\ \A i \in totalLock : total[i] = m_totalCount

\* What the invariants above need to be inductive.
IInv == TypeOK /\ SingletonInv /\ ClientInv /\ TotalExact

\* The total of the whole test can be read off the console when all clients
\* are through, though each logs what it read of the total some time after it
\* added to it: the last to add reads it all, and no line stays in the queue
\* (LpClientConsole.cpp:101-105, LpLogger.cpp:63-87).
AllSent == (SendCount * m_threadCount * m_clientReconnectCount) % Uint32
FinalTotalPrinted ==
  (\A i \in Clients : client[i] = "done") ~>
    (pointerFirst \/ \E j \in DOMAIN printed : printed[j].total = AllSent)
=============================================================================
