--------------------------- MODULE LpClientProofs ---------------------------
(***************************************************************************)
(* A client of the load generator for any number of sessions, packets and  *)
(* rounds, any size of the pool, and however often the network refuses.    *)
(***************************************************************************)
EXTENDS LpClient, TLAPS, SequenceTheorems, FiniteSetTheorems

LEMMA AtFields ==
  ASSUME NEW pc \in ClientPcs
  PROVE  /\ At(pc) \in ClientPlaces /\ At(pc).pc = pc
         /\ At(pc).session = NoSession /\ At(pc).todo = {} /\ At(pc).count = 0
BY DEF At, ClientPlaces

LEMMA AtTodo ==
  ASSUME NEW pc \in ClientPcs, NEW T \in SUBSET Nat
  PROVE  LET c == [At(pc) EXCEPT !.todo = T]
         IN  /\ c \in ClientPlaces /\ c.pc = pc
             /\ c.session = NoSession /\ c.todo = T /\ c.count = 0
BY DEF At, ClientPlaces

LEMMA MapIds ==
  ASSUME TypeOK
  PROVE  /\ Len(m_sessionMap) \in Nat /\ DOMAIN m_sessionMap = Ids /\ Ids \subseteq Nat
         /\ \A k \in Ids : m_sessionMap[k] \in Objects
         /\ IsFiniteSet(Ids) /\ Cardinality(Ids) = Len(m_sessionMap)
<1>1. /\ Len(m_sessionMap) \in Nat /\ DOMAIN m_sessionMap = 1..Len(m_sessionMap)
      /\ \A k \in 1..Len(m_sessionMap) : m_sessionMap[k] \in Objects
  BY LenProperties DEF TypeOK
<1>2. /\ IsFiniteSet(1..Len(m_sessionMap))
      /\ Cardinality(1..Len(m_sessionMap)) =
           IF 1 > Len(m_sessionMap) THEN 0 ELSE Len(m_sessionMap) - 1 + 1
  BY <1>1, FS_Interval
<1> QED BY <1>1, <1>2 DEF Ids

\* One session of those still to be visited.
LEMMA Visit ==
  ASSUME TypeOK, NEW T \in SUBSET Ids, NEW k \in T
  PROVE  /\ T \ {k} \in SUBSET Ids /\ (T \ {k} = {} <=> T = {k})
         /\ Cardinality(T) \in Nat /\ Cardinality(T \ {k}) \in Nat
         /\ Cardinality(T \ {k}) = Cardinality(T) - 1 /\ Cardinality(T) <= Len(m_sessionMap)
<1>1. IsFiniteSet(Ids) /\ Cardinality(Ids) = Len(m_sessionMap)
  BY MapIds
<1>2. IsFiniteSet(T) /\ Cardinality(T) <= Len(m_sessionMap)
  BY <1>1, FS_Subset
<1>3. Cardinality(T) \in Nat
  BY <1>2, FS_CardinalityType
<1>4. IsFiniteSet(T \ {k}) /\ Cardinality(T \ {k}) = Cardinality(T) - 1
  BY <1>2, FS_RemoveElement
<1>5. Cardinality(T \ {k}) \in Nat
  BY <1>4, FS_CardinalityType
<1> QED BY <1>2, <1>3, <1>4, <1>5

-----------------------------------------------------------------------------
(* Parts that a step leaves alone.                                         *)

LEMMA ClientStill ==
  ASSUME IInv, UNCHANGED <<client, round, m_sessionPool, m_sessionMap, m_sendCount>>,
         \A o \in Objects : session'[o].try = session[o].try
  PROVE  Turn' /\ SendCounts' /\ Pooled'
<1>1. Turn' /\ Pooled'
  BY DEF IInv, Turn, Pooled, Taken, Ids
<1>2. client.pc \in {"send", "write"} => client.session \in Objects
  BY DEF IInv, TypeOK, Turn, ClientPlaces
<1>3. SendCounts'
  BY <1>2 DEF IInv, SendCounts
<1> QED BY <1>1, <1>3

LEMMA WiresStill ==
  ASSUME IInv, UNCHANGED <<client, m_sessionMap, buffers, writes, wire>>
  PROVE  Wires'
BY DEF IInv, Wires, WireOf, Fresh, Ascending, Single, Ids, buffers

LEMMA SocketsStill ==
  ASSUME IInv, UNCHANGED <<client, m_sessionMap, socket, writes, ready>>,
         \A o \in Objects : session'[o].state = session[o].state
  PROVE  Sockets'
<1>1. UNCHANGED Ids /\ \A o \in Objects : (Arriving(o)' <=> Arriving(o)) /\ (Mapped(o)' <=> Mapped(o))
  BY DEF Ids, Arriving, Mapped
<1>2. \A k \in Ids : m_sessionMap[k] \in Objects
  BY MapIds DEF IInv
<1>3. \A o \in Objects : SocketOf(o)'
  BY <1>1 DEF IInv, Sockets, SocketOf
<1>4. ArrivesOnce'
  BY DEF IInv, Sockets, ArrivesOnce
<1>5. AllShut'
  BY <1>1, <1>2 DEF IInv, Sockets, AllShut
<1>6. \A k \in Ids : Checked(k)' => CheckedSocket(m_sessionMap[k])'
  BY <1>1, <1>2 DEF IInv, Sockets, Checked, CheckedSocket
<1> QED BY <1>1, <1>3, <1>4, <1>5, <1>6 DEF Sockets

-----------------------------------------------------------------------------
(* Completions.                                                            *)

LEMMA ReadyGrows ==
  ASSUME TypeOK, ArrivesOnce, NEW c \in Completions, ready' = Append(ready, c),
         c.op = "connect" /\ c.ok => ~Arriving(c.session)
  PROVE  /\ ready' \in Seq(Completions) /\ ArrivesOnce'
         /\ \A o \in Objects : Arriving(o)' => Arriving(o) \/ c = Completion("connect", o, TRUE)
<1>1. /\ ready' \in Seq(Completions) /\ Len(ready) \in Nat
      /\ DOMAIN ready = 1..Len(ready) /\ DOMAIN ready' = 1..(Len(ready) + 1)
      /\ \A j \in 1..Len(ready) : ready'[j] = ready[j] /\ ready[j] \in Completions
      /\ ready'[Len(ready) + 1] = c
  BY LenProperties, AppendProperties DEF TypeOK
<1>2. \A o \in Objects : Arriving(o)' => Arriving(o) \/ c = Completion("connect", o, TRUE)
  <2> SUFFICES ASSUME NEW o \in Objects, NEW j \in 1..(Len(ready) + 1),
                      ready'[j] = Completion("connect", o, TRUE)
               PROVE  Arriving(o) \/ c = Completion("connect", o, TRUE)
    BY <1>1 DEF Arriving
  <2>1. CASE j = Len(ready) + 1
    BY <1>1, <2>1
  <2>2. CASE j # Len(ready) + 1
    <3>1. j \in 1..Len(ready)
      BY <1>1, <2>2
    <3>2. j \in DOMAIN ready /\ ready[j] = Completion("connect", o, TRUE)
      BY <1>1, <3>1
    <3> QED BY <3>2 DEF Arriving
  <2> QED BY <2>1, <2>2
<1>3. \A j \in 1..Len(ready) : ready[j] = c => ~(c.op = "connect" /\ c.ok)
  <2> SUFFICES ASSUME NEW j \in 1..Len(ready), ready[j] = c, c.op = "connect", c.ok PROVE FALSE
    OBVIOUS
  <2>1. c = Completion("connect", c.session, TRUE)
    BY DEF Completions, Completion
  <2> QED BY <1>1, <2>1 DEF Arriving
<1>4. ArrivesOnce'
  <2> SUFFICES ASSUME NEW i \in 1..(Len(ready) + 1), NEW j \in 1..(Len(ready) + 1),
                      ready'[i] = ready'[j], ready'[i].op = "connect", ready'[i].ok
               PROVE  i = j
    BY <1>1 DEF ArrivesOnce
  <2>1. CASE i = Len(ready) + 1 \/ j = Len(ready) + 1
    BY <1>1, <1>3, <2>1
  <2>2. CASE i # Len(ready) + 1 /\ j # Len(ready) + 1
    BY <1>1, <2>2 DEF ArrivesOnce
  <2> QED BY <2>1, <2>2
<1> QED BY <1>1, <1>2, <1>4

LEMMA ReadyShrinks ==
  ASSUME TypeOK, ArrivesOnce, ready # <<>>, ready' = Tail(ready)
  PROVE  /\ ready' \in Seq(Completions) /\ ArrivesOnce' /\ Head(ready) \in Completions
         /\ \A o \in Objects : Arriving(o)' => Arriving(o) /\ Head(ready) # Completion("connect", o, TRUE)
         /\ Head(ready).op = "connect" /\ Head(ready).ok => Arriving(Head(ready).session)
<1>1. /\ ready' \in Seq(Completions) /\ Head(ready) \in Completions
      /\ Len(ready) \in Nat \ {0} /\ Head(ready) = ready[1]
      /\ DOMAIN ready = 1..Len(ready) /\ DOMAIN ready' = 1..(Len(ready) - 1)
      /\ \A j \in 1..(Len(ready) - 1) : ready'[j] = ready[j + 1]
  BY LenProperties, HeadTailProperties, EmptySeq DEF TypeOK
<1>2. ArrivesOnce'
  <2> SUFFICES ASSUME NEW i \in 1..(Len(ready) - 1), NEW j \in 1..(Len(ready) - 1),
                      ready'[i] = ready'[j], ready'[i].op = "connect", ready'[i].ok
               PROVE  i = j
    BY <1>1 DEF ArrivesOnce
  <2>1. i + 1 \in 1..Len(ready) /\ j + 1 \in 1..Len(ready)
    BY <1>1
  <2>2. i + 1 = j + 1
    BY <1>1, <2>1 DEF ArrivesOnce
  <2> QED BY <2>2
<1>3. \A o \in Objects : Arriving(o)' => Arriving(o) /\ Head(ready) # Completion("connect", o, TRUE)
  <2> SUFFICES ASSUME NEW o \in Objects, NEW j \in 1..(Len(ready) - 1),
                      ready'[j] = Completion("connect", o, TRUE)
               PROVE  Arriving(o) /\ Head(ready) # Completion("connect", o, TRUE)
    BY <1>1 DEF Arriving
  <2>1. j + 1 \in 1..Len(ready) /\ 1 \in 1..Len(ready) /\ j + 1 # 1
    BY <1>1
  <2>4. ready[j + 1] = Completion("connect", o, TRUE)
    BY <1>1
  <2>2. Completion("connect", o, TRUE).op = "connect" /\ Completion("connect", o, TRUE).ok
    BY DEF Completion
  <2>3. ready[1] # Completion("connect", o, TRUE)
    BY <1>1, <2>1, <2>2, <2>4 DEF ArrivesOnce
  <2> QED BY <1>1, <2>1, <2>3, <2>4 DEF Arriving
<1>4. Head(ready).op = "connect" /\ Head(ready).ok => Arriving(Head(ready).session)
  <2> SUFFICES ASSUME Head(ready).op = "connect", Head(ready).ok PROVE Arriving(Head(ready).session)
    OBVIOUS
  <2>1. ready[1] = Completion("connect", ready[1].session, TRUE)
    BY <1>1 DEF Completions, Completion
  <2>2. 1 \in DOMAIN ready
    BY <1>1
  <2> QED BY <1>1, <2>1, <2>2 DEF Arriving
<1> QED BY <1>1, <1>2, <1>3, <1>4

\* What a step of the network or of a handler may do to a session: finish a
\* connect, try again while Connecting, set Connected when the only success
\* has come, or Closed.
LEMMA SocketsMove ==
  ASSUME IInv, UNCHANGED <<client, m_sessionMap>>, ArrivesOnce',
         \A o \in Objects :
           /\ Arriving(o)' => Arriving(o) \/ (socket[o] = "open" /\ socket'[o] = "connected")
           /\ \/ socket'[o] = socket[o]
              \/ socket[o] = "open" /\ socket'[o] = "connected"
              \/ socket[o] = "closed" /\ session[o].state = "Connecting"
           /\ \/ session'[o].state = session[o].state
              \/ session'[o].state = "Closed"
              \/ session'[o].state = "Connected" /\ socket'[o] = "connected"
                   /\ socket[o] = "connected" /\ ~Arriving(o)'
           /\ writes'[o] > 0 => writes[o] > 0
  PROVE  Sockets'
<1>1. UNCHANGED Ids /\ \A o \in Objects : Mapped(o)' <=> Mapped(o)
  BY DEF Ids, Mapped
<1>2. \A k \in Ids : m_sessionMap[k] \in Objects
  BY MapIds DEF IInv
<1>3. \A o \in Objects : SocketOf(o)'
  <2> SUFFICES ASSUME NEW o \in Objects PROVE SocketOf(o)'
    OBVIOUS
  <2>1. SocketOf(o)
    BY DEF IInv, Sockets
  <2>2. (socket'[o] = "closed" /\ session'[o].state = "Closed") \/ Mapped(o)'
          \/ (client'.pc = "setState" /\ client'.session = o)
    BY <1>1, <2>1 DEF SocketOf
  <2>3. session'[o].state = "Connected" => socket'[o] = "connected" /\ ~Arriving(o)'
    BY <2>1 DEF SocketOf
  <2>4. writes'[o] > 0 \/ Arriving(o)' => socket'[o] = "connected"
    BY <2>1 DEF SocketOf
  <2> QED BY <2>2, <2>3, <2>4 DEF SocketOf
<1>4. \A k \in Ids : Checked(k)' => CheckedSocket(m_sessionMap[k])'
  <2> SUFFICES ASSUME NEW k \in Ids, Checked(k) PROVE CheckedSocket(m_sessionMap[k])'
    BY DEF Checked
  <2>1. CheckedSocket(m_sessionMap[k]) /\ m_sessionMap[k] \in Objects
    BY <1>2 DEF IInv, Sockets
  <2> QED BY <2>1 DEF CheckedSocket
<1>5. AllShut'
  <2> SUFFICES ASSUME client.pc = "close", client.count + Cardinality(client.todo) = m_sessionCount,
                      NEW k \in Ids \ client.todo
               PROVE  socket'[m_sessionMap[k]] = "closed" /\ session'[m_sessionMap[k]].state = "Closed"
    BY <1>1 DEF AllShut
  <2>1. /\ socket[m_sessionMap[k]] = "closed" /\ session[m_sessionMap[k]].state = "Closed"
        /\ m_sessionMap[k] \in Objects
    BY <1>2 DEF IInv, Sockets, AllShut
  <2> QED BY <2>1
<1> QED BY <1>1, <1>3, <1>4, <1>5 DEF Sockets

-----------------------------------------------------------------------------
(* The network.                                                            *)

LEMMA NetworkTypes ==
  ASSUME TypeOK,
         UNCHANGED <<client, round, m_sessionPool, m_sessionMap, m_sendCount, session, buffers, asio>>,
         socket' \in [Objects -> {"closed", "open", "connected"}],
         connects' \in [Objects -> Nat], writes' \in [Objects -> Nat], aborts' \in [Objects -> Nat],
         ready' \in Seq(Completions), wire' \in [Objects -> Seq(Nat)],
         raced' \in BOOLEAN, broken' \in BOOLEAN
  PROVE  TypeOK'
BY DEF TypeOK, buffers

LEMMA ConnectEndsIInv == ASSUME IInv, NEW o \in Objects, ConnectEnds(o) PROVE IInv'
<1> USE DEF ConnectEnds, ConnectAccepted, ConnectFails
<1>1. PICK ok \in BOOLEAN :
        /\ ready' = Append(ready, Completion("connect", o, ok))
        /\ IF ok THEN socket[o] = "open" /\ socket' = [socket EXCEPT ![o] = "connected"]
                 ELSE UNCHANGED socket
  OBVIOUS
<1>2. /\ Completion("connect", o, ok) \in Completions
      /\ Completion("connect", o, ok).ok = ok /\ Completion("connect", o, ok).session = o
      /\ \A p \in Objects :
           Completion("connect", o, ok) = Completion("connect", p, TRUE) => ok /\ p = o
  BY DEF Completion, Completions
<1>3. ok => ~Arriving(o)
  BY <1>1 DEF IInv, Sockets, SocketOf
<1>4. /\ ready' \in Seq(Completions) /\ ArrivesOnce'
      /\ \A p \in Objects : Arriving(p)' => Arriving(p) \/ (ok /\ p = o)
  BY <1>1, <1>2, <1>3, ReadyGrows DEF IInv, Sockets
<1>5. TypeOK'
  <2>4. /\ connects \in [Objects -> Nat] /\ socket \in [Objects -> {"closed", "open", "connected"}]
    BY DEF IInv, TypeOK
  <2>5. connects' \in [Objects -> Nat]
    <3>1. connects[o] > 0 /\ connects' = [connects EXCEPT ![o] = @ - 1]
      OBVIOUS
    <3> HIDE DEF ConnectEnds
    <3> QED BY <2>4, <3>1
  <2>6. socket' \in [Objects -> {"closed", "open", "connected"}]
    BY <1>1, <2>4
  <2>1. connects' \in [Objects -> Nat] /\ socket' \in [Objects -> {"closed", "open", "connected"}]
    BY <2>5, <2>6
  <2>3. /\ writes' \in [Objects -> Nat] /\ aborts' \in [Objects -> Nat]
        /\ wire' \in [Objects -> Seq(Nat)] /\ raced' \in BOOLEAN /\ broken' \in BOOLEAN
    BY DEF IInv, TypeOK, causes
  <2> QED BY <1>4, <2>1, <2>3, NetworkTypes DEF IInv
<1>6. Sockets'
  <2>1. \A p \in Objects : p # o => socket'[p] = socket[p]
    BY <1>1 DEF IInv, TypeOK
  <2>2. ok => socket'[o] = "connected"
    BY <1>1 DEF IInv, TypeOK
  <2>3. ~ok => socket'[o] = socket[o]
    BY <1>1
  <2> QED BY <1>1, <1>4, <2>1, <2>2, <2>3, SocketsMove
<1>7. Turn' /\ SendCounts' /\ Pooled'
  BY ClientStill
<1>8. Wires'
  BY WiresStill
<1> QED BY <1>5, <1>6, <1>7, <1>8 DEF IInv

LEMMA AbortEndsIInv == ASSUME IInv, NEW o \in Objects, AbortEnds(o) PROVE IInv'
<1> USE DEF AbortEnds
<1>1. /\ Completion("connect", o, FALSE) \in Completions
      /\ ~Completion("connect", o, FALSE).ok
      /\ \A p \in Objects : Completion("connect", o, FALSE) # Completion("connect", p, TRUE)
  BY DEF Completion, Completions
<1>2. /\ ready' \in Seq(Completions) /\ ArrivesOnce'
      /\ \A p \in Objects : Arriving(p)' => Arriving(p)
  BY <1>1, ReadyGrows DEF IInv, Sockets
<1>3. TypeOK'
  <2>1. aborts' \in [Objects -> Nat]
    BY DEF IInv, TypeOK
  <2>2. /\ connects' \in [Objects -> Nat] /\ socket' \in [Objects -> {"closed", "open", "connected"}]
        /\ writes' \in [Objects -> Nat]
        /\ wire' \in [Objects -> Seq(Nat)] /\ raced' \in BOOLEAN /\ broken' \in BOOLEAN
    BY DEF IInv, TypeOK, causes
  <2> QED BY <1>2, <2>1, <2>2, NetworkTypes DEF IInv
<1>4. Sockets'
  BY <1>2, SocketsMove
<1>5. Turn' /\ SendCounts' /\ Pooled'
  BY ClientStill
<1>6. Wires'
  BY WiresStill
<1> QED BY <1>3, <1>4, <1>5, <1>6 DEF IInv

LEMMA WriteEndsIInv == ASSUME IInv, NEW o \in Objects, WriteEnds(o) PROVE IInv'
<1> USE DEF WriteEnds
<1>1. PICK ok \in BOOLEAN :
        /\ ready' = Append(ready, Completion("write", o, ok))
        /\ wire' = IF ok THEN [wire EXCEPT ![o] = Append(@, m_sendBuffer[o])] ELSE wire
  OBVIOUS
<1>2. /\ Completion("write", o, ok) \in Completions
      /\ Completion("write", o, ok).op = "write"
      /\ \A p \in Objects : Completion("write", o, ok) # Completion("connect", p, TRUE)
  BY DEF Completion, Completions
<1>3. /\ ready' \in Seq(Completions) /\ ArrivesOnce'
      /\ \A p \in Objects : Arriving(p)' => Arriving(p)
  BY <1>1, <1>2, ReadyGrows DEF IInv, Sockets
<1>4. /\ wire[o] \in Seq(Nat) /\ m_sendBuffer[o] \in Nat
      /\ Append(wire[o], m_sendBuffer[o]) \in Seq(Nat)
  BY AppendProperties DEF IInv, TypeOK
<1>5. TypeOK'
  <2>1. writes' \in [Objects -> Nat]
    BY DEF IInv, TypeOK
  <2>2. wire' \in [Objects -> Seq(Nat)]
    BY <1>1, <1>4 DEF IInv, TypeOK
  <2>5. broken \in BOOLEAN
    BY DEF IInv, TypeOK
  <2>7. UNCHANGED broken \/ broken'
    OBVIOUS
  <2>8. broken' \in BOOLEAN
    BY <2>5, <2>7, Zenon
  <2>4. /\ connects' \in [Objects -> Nat] /\ socket' \in [Objects -> {"closed", "open", "connected"}]
        /\ aborts' \in [Objects -> Nat] /\ raced' \in BOOLEAN
    BY DEF IInv, TypeOK
  <2> QED BY <1>3, <2>1, <2>2, <2>4, <2>8, NetworkTypes DEF IInv
<1>6. Sockets'
  BY <1>3, SocketsMove DEF IInv, TypeOK
<1>7. Turn' /\ SendCounts' /\ Pooled'
  BY ClientStill
<1>8. Wires'
  <2>1. ~Fresh(o)
    BY DEF IInv, TypeOK, Fresh
  <2>2. \A p \in Objects : p # o => wire'[p] = wire[p] /\ writes'[p] = writes[p]
    BY <1>1 DEF IInv, TypeOK
  <2>3. \A p \in Objects : Fresh(p) => Fresh(p)'
    BY <2>1, <2>2 DEF Fresh
  <2>4. \A p \in Objects : Ascending(p) => Ascending(p)'
    <3> SUFFICES ASSUME Ascending(o), ok PROVE Ascending(o)'
      BY <1>1, <2>2 DEF Ascending, buffers
    <3>1. /\ Len(wire[o]) \in Nat /\ DOMAIN wire[o] = 1..Len(wire[o])
          /\ DOMAIN wire'[o] = 1..(Len(wire[o]) + 1)
          /\ \A j \in 1..Len(wire[o]) : wire'[o][j] = wire[o][j] /\ wire[o][j] \in Nat
          /\ wire'[o][Len(wire[o]) + 1] = m_sendBuffer[o]
      <4>1. wire'[o] = Append(wire[o], m_sendBuffer[o])
        BY <1>1 DEF IInv, TypeOK
      <4>2. /\ Len(wire[o]) \in Nat /\ DOMAIN wire[o] = 1..Len(wire[o])
            /\ \A j \in 1..Len(wire[o]) : wire[o][j] \in Nat
        BY <1>4, LenProperties
      <4>3. LET w == Append(wire[o], m_sendBuffer[o])
            IN  /\ DOMAIN w = 1..(Len(wire[o]) + 1)
                /\ \A j \in 1..Len(wire[o]) : w[j] = wire[o][j]
                /\ w[Len(wire[o]) + 1] = m_sendBuffer[o]
        BY <1>4, LenProperties, AppendProperties
      <4> QED BY <4>1, <4>2, <4>3
    <3>2. \A j \in DOMAIN wire'[o] : wire'[o][j] <= m_sendBuffer[o]
      BY <1>4, <3>1 DEF Ascending
    <3>3. \A i, j \in DOMAIN wire'[o] : i <= j => wire'[o][i] <= wire'[o][j]
      <4> SUFFICES ASSUME NEW i \in 1..(Len(wire[o]) + 1), NEW j \in 1..(Len(wire[o]) + 1), i <= j
                   PROVE  wire'[o][i] <= wire'[o][j]
        BY <3>1
      <4>1. CASE j = Len(wire[o]) + 1
        BY <3>1, <3>2, <4>1
      <4>2. CASE j # Len(wire[o]) + 1
        <5>1. i \in 1..Len(wire[o]) /\ j \in 1..Len(wire[o])
          BY <3>1, <4>2
        <5> QED BY <3>1, <5>1 DEF Ascending
      <4> QED BY <4>1, <4>2
    <3> QED BY <3>2, <3>3 DEF Ascending, buffers
  <2>5. \A k \in Ids : m_sessionMap[k] \in Objects
    BY MapIds DEF IInv
  <2>6. UNCHANGED Ids /\ \A k \in Ids : Single(k)' <=> Single(k)
    BY DEF Ids, Single
  <2>7. \A k \in Ids : Single(k) => WireOf(k)'
    <3> SUFFICES ASSUME NEW k \in Ids, Single(k) PROVE WireOf(k)'
      OBVIOUS
    <3>1. WireOf(k) /\ m_sessionMap[k] \in Objects
      BY <2>5 DEF IInv, Wires
    <3> QED BY <2>3, <2>4, <3>1 DEF WireOf, buffers
  <2>8. client.pc \in {"connect", "setState", "check"} => \A p \in Objects : Fresh(p)'
    BY <2>3 DEF IInv, Wires
  <2> QED BY <2>6, <2>7, <2>8 DEF IInv, Wires, buffers
<1> QED BY <1>5, <1>6, <1>7, <1>8 DEF IInv

-----------------------------------------------------------------------------
(* The asio thread.                                                        *)

LEMMA HandlerTypes ==
  ASSUME TypeOK,
         UNCHANGED <<client, round, m_sessionPool, m_sessionMap, m_sendCount, buffers,
                     writes, aborts, wire, broken>>,
         session' \in [Objects -> SessionStates],
         socket' \in [Objects -> {"closed", "open", "connected"}],
         connects' \in [Objects -> Nat],
         ready' \in Seq(Completions), asio' \in Completions \cup {None}, raced' \in BOOLEAN
  PROVE  TypeOK'
BY DEF TypeOK, buffers

LEMMA SetState ==
  ASSUME TypeOK, NEW o \in Objects, NEW st \in {"Closed", "Connecting", "Connected"},
         session' = [session EXCEPT ![o].state = st]
  PROVE  /\ session' \in [Objects -> SessionStates] /\ session'[o].state = st
         /\ \A p \in Objects : /\ session'[p].try = session[p].try
                               /\ p # o => session'[p].state = session[p].state
<1>1. session \in [Objects -> SessionStates]
  BY DEF TypeOK
<1>2. session' = [session EXCEPT ![o] = [session[o] EXCEPT !.state = st]]
  OBVIOUS
<1>3. /\ [session[o] EXCEPT !.state = st] \in SessionStates
      /\ [session[o] EXCEPT !.state = st].state = st
      /\ [session[o] EXCEPT !.state = st].try = session[o].try
  BY <1>1 DEF SessionStates
<1> QED BY <1>1, <1>2, <1>3

LEMMA ConnectedIInv == ASSUME IInv, Connected PROVE IInv'
<1>0. /\ ready # <<>> /\ ready' = Tail(ready) /\ Head(ready).op = "connect" /\ Head(ready).ok
      /\ session' = [session EXCEPT ![Head(ready).session].state = "Connected"]
  BY DEF Connected, Takes
<1>2. UNCHANGED <<client, round, m_sessionPool, m_sessionMap, m_sendCount, buffers, socket, connects,
                  writes, aborts, wire, asio, raced, broken>>
  BY DEF Connected, network, causes
<1>3. /\ ready' \in Seq(Completions) /\ ArrivesOnce' /\ Head(ready) \in Completions
      /\ \A p \in Objects :
           Arriving(p)' => Arriving(p) /\ Head(ready) # Completion("connect", p, TRUE)
      /\ Arriving(Head(ready).session)
  BY <1>0, ReadyShrinks DEF IInv, Sockets
<1>4. PICK o \in Objects : o = Head(ready).session
  BY <1>3 DEF Completions
<1>1. /\ session' = [session EXCEPT ![o].state = "Connected"]
      /\ Head(ready) = Completion("connect", o, TRUE)
  BY <1>0, <1>3, <1>4 DEF Completions, Completion
<1>5. socket[o] = "connected" /\ ~Arriving(o)'
  <2>1. ~Arriving(o)' /\ Arriving(o)
    BY <1>1, <1>3, <1>4
  <2> QED BY <2>1 DEF IInv, Sockets, SocketOf
<1>6. /\ session' \in [Objects -> SessionStates] /\ session'[o].state = "Connected"
      /\ \A p \in Objects : /\ session'[p].try = session[p].try
                            /\ p # o => session'[p].state = session[p].state
  BY <1>1, <1>4, SetState DEF IInv
<1>7. TypeOK'
  <2>1. /\ socket' \in [Objects -> {"closed", "open", "connected"}]
        /\ connects' \in [Objects -> Nat] /\ asio' \in Completions \cup {None} /\ raced' \in BOOLEAN
    BY <1>2 DEF IInv, TypeOK
  <2> QED BY <1>2, <1>3, <1>6, <2>1, HandlerTypes DEF IInv
<1>8. Sockets'
  BY <1>2, <1>3, <1>5, <1>6, SocketsMove
<1>9. Turn' /\ SendCounts' /\ Pooled'
  BY <1>2, <1>6, ClientStill
<1>10. Wires'
  BY <1>2, WiresStill
<1> QED BY <1>7, <1>8, <1>9, <1>10 DEF IInv

LEMMA ConnectFailedIInv == ASSUME IInv, ConnectFailed PROVE IInv'
<1> DEFINE o == Head(ready).session
<1>1. ready # <<>> /\ ready' = Tail(ready)
  BY DEF ConnectFailed, Takes
<1>2. /\ UNCHANGED <<client, round, m_sessionPool, m_sessionMap, m_sendCount, session, buffers,
                     writes, aborts, wire, asio, broken>>
      /\ IF session[o].state = "Connecting" THEN AsyncConnect(o) ELSE UNCHANGED <<socket, connects>>
  BY DEF ConnectFailed
<1>3. /\ ready' \in Seq(Completions) /\ ArrivesOnce' /\ Head(ready) \in Completions
      /\ \A p \in Objects : Arriving(p)' => Arriving(p)
  BY <1>1, ReadyShrinks DEF IInv, Sockets
<1>4. o \in Objects
  BY <1>3 DEF Completions
<1>5. raced' \in BOOLEAN
  BY DEF ConnectFailed, IInv, TypeOK
<1> HIDE DEF o
<1>6. /\ socket \in [Objects -> {"closed", "open", "connected"}]
      /\ connects \in [Objects -> Nat] /\ asio' \in Completions \cup {None}
      /\ session' \in [Objects -> SessionStates]
  BY <1>2 DEF IInv, TypeOK
<1>7. /\ socket' \in [Objects -> {"closed", "open", "connected"}]
      /\ connects' \in [Objects -> Nat]
      /\ \A p \in Objects : \/ socket'[p] = socket[p]
                            \/ socket[p] = "closed" /\ session[p].state = "Connecting"
  BY <1>2, <1>4, <1>6 DEF AsyncConnect
<1>8. TypeOK'
  BY <1>2, <1>3, <1>5, <1>6, <1>7, HandlerTypes DEF IInv
<1>9. Sockets'
  BY <1>2, <1>3, <1>7, SocketsMove
<1>10. Turn' /\ SendCounts' /\ Pooled'
  BY <1>2, ClientStill
<1>11. Wires'
  BY <1>2, WiresStill
<1> QED BY <1>8, <1>9, <1>10, <1>11 DEF IInv

LEMMA WriteCompletedIInv == ASSUME IInv, OnWrite \/ WriteFailed PROVE IInv'
<1>1. ready # <<>> /\ ready' = Tail(ready)
  BY DEF OnWrite, WriteFailed, Takes
<1>2. UNCHANGED <<client, round, m_sessionPool, m_sessionMap, m_sendCount, session, buffers, socket,
                  connects, writes, aborts, wire, raced, broken>>
  BY DEF OnWrite, WriteFailed, network, causes
<1>3. /\ ready' \in Seq(Completions) /\ ArrivesOnce' /\ Head(ready) \in Completions
      /\ \A p \in Objects : Arriving(p)' => Arriving(p)
  BY <1>1, ReadyShrinks DEF IInv, Sockets
<1>4. asio' \in Completions \cup {None}
  BY <1>3 DEF OnWrite, WriteFailed, IInv, TypeOK
<1>5. TypeOK'
  <2>1. /\ socket' \in [Objects -> {"closed", "open", "connected"}]
        /\ connects' \in [Objects -> Nat] /\ session' \in [Objects -> SessionStates]
        /\ raced' \in BOOLEAN
    BY <1>2 DEF IInv, TypeOK
  <2> QED BY <1>2, <1>3, <1>4, <2>1, HandlerTypes DEF IInv
<1>6. Sockets'
  BY <1>2, <1>3, SocketsMove
<1>7. Turn' /\ SendCounts' /\ Pooled'
  BY <1>2, ClientStill
<1>8. Wires'
  BY <1>2, WiresStill
<1> QED BY <1>5, <1>6, <1>7, <1>8 DEF IInv

LEMMA SetClosedIInv == ASSUME IInv, SetClosed PROVE IInv'
<1> DEFINE o == asio.session
<1>1. session' = [session EXCEPT ![o].state = "Closed"] /\ asio' = None
  BY DEF SetClosed
<1>2. UNCHANGED <<client, round, m_sessionPool, m_sessionMap, m_sendCount, buffers, socket, connects,
                  writes, aborts, wire, ready, raced, broken>>
  BY DEF SetClosed, network, causes
<1>3. o \in Objects
  BY DEF SetClosed, IInv, TypeOK, Completions
<1> HIDE DEF o
<1>4. /\ session' \in [Objects -> SessionStates] /\ session'[o].state = "Closed"
      /\ \A p \in Objects : /\ session'[p].try = session[p].try
                            /\ p # o => session'[p].state = session[p].state
  BY <1>1, <1>3, SetState DEF IInv
<1>5. TypeOK'
  <2>1. /\ socket' \in [Objects -> {"closed", "open", "connected"}]
        /\ connects' \in [Objects -> Nat] /\ ready' \in Seq(Completions)
        /\ asio' \in Completions \cup {None} /\ raced' \in BOOLEAN
    BY <1>1, <1>2 DEF IInv, TypeOK
  <2> QED BY <1>2, <1>4, <2>1, HandlerTypes DEF IInv
<1>6. Sockets'
  <2>1. ArrivesOnce' /\ \A p \in Objects : Arriving(p)' <=> Arriving(p)
    BY <1>2 DEF IInv, Sockets, ArrivesOnce, Arriving
  <2> QED BY <1>2, <1>4, <2>1, SocketsMove
<1>7. Turn' /\ SendCounts' /\ Pooled'
  BY <1>2, <1>4, ClientStill
<1>8. Wires'
  BY <1>2, WiresStill
<1> QED BY <1>5, <1>6, <1>7, <1>8 DEF IInv

-----------------------------------------------------------------------------
(* The client thread.                                                      *)

LEMMA ClientTypes ==
  ASSUME TypeOK, UNCHANGED <<ready, asio, broken>>,
         client' \in ClientPlaces, round' \in 1..(m_clientReconnectCount + 1),
         m_sessionPool' \in Seq(Objects), m_sessionMap' \in Seq(Objects),
         m_sendCount' \in 0..(m_sessionCount * m_sessionSendCount),
         session' \in [Objects -> SessionStates],
         m_writeBuffer' \in [Objects -> Seq(Nat)], m_sendBuffer' \in [Objects -> Nat],
         socket' \in [Objects -> {"closed", "open", "connected"}],
         connects' \in [Objects -> Nat], writes' \in [Objects -> Nat], aborts' \in [Objects -> Nat],
         wire' \in [Objects -> Seq(Nat)], raced' \in BOOLEAN
  PROVE  TypeOK'
BY DEF TypeOK

LEMMA Times ==
  ASSUME NEW t \in Nat, NEW c \in Nat
  PROVE  t * c \in Nat /\ (t # 0 => (t - 1) * c = t * c - c) /\ (t = 0 => t * c = 0)
OBVIOUS

\* As long as only the client thread has moved, completions are where they were.
LEMMA ReadyStill ==
  ASSUME IInv, UNCHANGED ready
  PROVE  ArrivesOnce' /\ \A o \in Objects : Arriving(o)' <=> Arriving(o)
BY DEF IInv, Sockets, ArrivesOnce, Arriving

LEMMA ReportIInv == ASSUME IInv, Report PROVE IInv'
<1>1. /\ client.pc = "report" /\ m_sendCount' = 0 /\ round' = round + 1
      /\ client' = At(IF round < m_clientReconnectCount THEN "connect" ELSE "done")
      /\ wire' = [o \in Objects |-> <<>>]
      /\ UNCHANGED <<m_sessionPool, m_sessionMap, session, m_writeBuffer, m_sendBuffer, socket,
                     connects, writes, aborts, ready, asio, raced, broken>>
  BY DEF Report, buffers, causes
<1>2. PICK pc \in {"connect", "done"} :
        pc = (IF round < m_clientReconnectCount THEN "connect" ELSE "done")
  OBVIOUS
<1>3. /\ client' \in ClientPlaces /\ client'.pc = pc
      /\ client'.session = NoSession /\ client'.todo = {} /\ client'.count = 0
  BY <1>1, <1>2, AtFields DEF ClientPcs
<1>4. /\ m_sessionMap = <<>> /\ Len(m_sessionMap) = 0 /\ Ids = {} /\ Ids' = {}
      /\ round \in 1..m_clientReconnectCount
  BY <1>1, EmptySeq DEF IInv, Turn, Ids, TypeOK
<1>5. TypeOK'
  <2>1. wire' \in [Objects -> Seq(Nat)]
    BY <1>1, EmptySeq
  <2>2. round' \in 1..(m_clientReconnectCount + 1)
    BY <1>1, <1>4, ClientAssumption
  <2>3. m_sendCount' \in 0..(m_sessionCount * m_sessionSendCount)
    BY <1>1, Times, ClientAssumption
  <2>4. /\ m_sessionPool' \in Seq(Objects) /\ m_sessionMap' \in Seq(Objects)
        /\ session' \in [Objects -> SessionStates]
        /\ m_writeBuffer' \in [Objects -> Seq(Nat)] /\ m_sendBuffer' \in [Objects -> Nat]
        /\ socket' \in [Objects -> {"closed", "open", "connected"}]
        /\ connects' \in [Objects -> Nat] /\ writes' \in [Objects -> Nat]
        /\ aborts' \in [Objects -> Nat] /\ raced' \in BOOLEAN
    BY <1>1 DEF IInv, TypeOK
  <2> QED BY <1>1, <1>3, <2>1, <2>2, <2>3, <2>4, ClientTypes DEF IInv
<1>6. Turn'
  <2>1. pc = "connect" => round + 1 <= m_clientReconnectCount
    BY <1>2, <1>4, ClientAssumption
  <2> QED BY <1>1, <1>2, <1>3, <1>4, <2>1, ClientAssumption DEF Turn
<1>7. SendCounts'
  BY <1>1, <1>3, <1>2 DEF SendCounts
<1>8. Pooled'
  <2>1. Len(m_sessionPool) >= m_sessionCount /\ Len(m_sessionPool) \in Nat
    BY <1>1, LenProperties DEF IInv, Pooled, TypeOK
  <2>2. round' > 1 /\ Taken' = 0
    BY <1>1, <1>2, <1>3, <1>4 DEF Taken
  <2> QED BY <1>1, <1>2, <1>3, <2>1, <2>2, ClientAssumption DEF Pooled
<1>9. \A o \in Objects : /\ socket[o] = "closed" /\ session[o].state = "Closed"
                         /\ writes[o] = 0 /\ ~Arriving(o)
  <2> SUFFICES ASSUME NEW o \in Objects
               PROVE  /\ socket[o] = "closed" /\ session[o].state = "Closed"
                      /\ writes[o] = 0 /\ ~Arriving(o)
    OBVIOUS
  <2>1. SocketOf(o) /\ ~Mapped(o) /\ writes[o] \in Nat
    BY <1>4 DEF IInv, Sockets, Mapped, TypeOK
  <2>2. socket[o] = "closed" /\ session[o].state = "Closed"
    BY <1>1, <2>1 DEF SocketOf
  <2> QED BY <2>1, <2>2 DEF SocketOf
<1>10. Sockets'
  <2>1. ArrivesOnce' /\ \A o \in Objects : ~Arriving(o)'
    BY <1>1, <1>9, ReadyStill
  <2>2. \A o \in Objects : SocketOf(o)'
    BY <1>1, <1>9, <2>1 DEF SocketOf
  <2> QED BY <1>2, <1>3, <1>4, <2>1, <2>2 DEF Sockets, AllShut
<1>11. Wires'
  <2>1. \A o \in Objects : Fresh(o)'
    BY <1>1, <1>9 DEF Fresh
  <2> QED BY <1>1, <1>4, <2>1 DEF IInv, Wires
<1> QED BY <1>5, <1>6, <1>7, <1>8, <1>10, <1>11 DEF IInv

LEMMA CheckSessionsIInv == ASSUME IInv, NEW k \in Ids, CheckSessions(k) PROVE IInv'
<1>1. /\ client.pc = "check" /\ k \in client.todo
      /\ UNCHANGED <<round, m_sessionPool, m_sessionMap, m_sendCount, session, m_writeBuffer,
                     m_sendBuffer, socket, connects, writes, aborts, wire, ready, asio,
                     raced, broken>>
  BY DEF CheckSessions, buffers, network, causes
<1>2. /\ Len(m_sessionMap) = m_sessionCount /\ client.todo \subseteq Ids /\ client \in ClientPlaces
      /\ client.session = NoSession /\ UNCHANGED Ids
  BY <1>1 DEF IInv, Turn, TypeOK, Ids
<1>3. /\ Ids \in SUBSET Nat /\ Ids # {} /\ Cardinality(Ids) = m_sessionCount
      /\ \A j \in Ids : m_sessionMap[j] \in Objects
  BY <1>2, MapIds, ClientAssumption DEF IInv
<1>4. PICK pc \in {"check", "begin"}, T \in SUBSET Ids :
        /\ client' \in ClientPlaces /\ client'.pc = pc /\ client'.session = NoSession
        /\ client'.todo = T /\ T # {}
        /\ pc = "begin" => T = Ids /\ client'.count = 0
        /\ \/ T = Ids /\ pc = "check"
           \/ /\ session[m_sessionMap[k]].state = "Connected"
              /\ IF pc = "begin" THEN client.todo = {k} ELSE T = client.todo \ {k}
  <2>1. CASE session[m_sessionMap[k]].state # "Connected"
    <3>1. client' = [client EXCEPT !.todo = Ids]
      BY <2>1 DEF CheckSessions
    <3>2. /\ client' \in ClientPlaces /\ client'.pc = "check"
          /\ client'.session = NoSession /\ client'.todo = Ids
      BY <1>1, <1>2, <1>3, <3>1 DEF ClientPlaces
    <3> QED BY <1>3, <3>2
  <2>2. CASE session[m_sessionMap[k]].state = "Connected" /\ client.todo = {k}
    <3>1. client' = [At("begin") EXCEPT !.todo = Ids]
      BY <2>2 DEF CheckSessions
    <3>2. /\ client' \in ClientPlaces /\ client'.pc = "begin"
          /\ client'.session = NoSession /\ client'.todo = Ids /\ client'.count = 0
      BY <1>3, <3>1, AtTodo DEF ClientPcs
    <3> QED BY <1>3, <2>2, <3>2
  <2>3. CASE session[m_sessionMap[k]].state = "Connected" /\ client.todo # {k}
    <3>1. client' = [client EXCEPT !.todo = client.todo \ {k}]
      BY <2>3 DEF CheckSessions
    <3>2. client.todo \ {k} \in SUBSET Ids /\ client.todo \ {k} # {}
      BY <1>1, <1>2, <2>3
    <3>3. /\ client' \in ClientPlaces /\ client'.pc = "check"
          /\ client'.session = NoSession /\ client'.todo = client.todo \ {k}
      BY <1>1, <1>2, <1>3, <3>1, <3>2 DEF ClientPlaces
    <3> QED BY <2>3, <3>2, <3>3
  <2> QED BY <2>1, <2>2, <2>3
<1>5. TypeOK'
  BY <1>1, <1>4 DEF IInv, TypeOK
<1>6. Turn'
  BY <1>1, <1>2, <1>4 DEF IInv, Turn
<1>7. SendCounts'
  <2>1. m_sendCount = 0 /\ m_sessionCount * m_sessionSendCount \in Nat
    BY <1>1, Times, ClientAssumption DEF IInv, SendCounts
  <2> QED BY <1>1, <1>3, <1>4, <2>1 DEF SendCounts
<1>8. Pooled'
  BY <1>4 DEF Pooled
<1>9. Sockets'
  <2>1. ArrivesOnce' /\ \A o \in Objects : (Arriving(o)' <=> Arriving(o)) /\ (Mapped(o)' <=> Mapped(o))
    BY <1>1, <1>2, ReadyStill DEF Mapped
  <2>2. \A o \in Objects : SocketOf(o)'
    BY <1>1, <1>4, <2>1 DEF IInv, Sockets, SocketOf
  <2>3. \A j \in Ids : Checked(j)' => Checked(j) \/ (j = k /\ session[m_sessionMap[k]].state = "Connected")
    BY <1>1, <1>4 DEF Checked
  <2>4. session[m_sessionMap[k]].state = "Connected" => CheckedSocket(m_sessionMap[k])
    BY <1>3 DEF IInv, Sockets, SocketOf, CheckedSocket
  <2>5. \A j \in Ids : CheckedSocket(m_sessionMap[j]) => CheckedSocket(m_sessionMap[j])'
    BY <1>1, <1>3, <2>1 DEF CheckedSocket
  <2>6. \A j \in Ids' : Checked(j)' => CheckedSocket(m_sessionMap[j])'
    BY <1>2, <2>3, <2>4, <2>5 DEF IInv, Sockets
  <2>7. AllShut'
    BY <1>4 DEF AllShut
  <2> QED BY <2>1, <2>2, <2>6, <2>7 DEF Sockets
<1>10. Wires'
  <2>1. \A o \in Objects : Fresh(o)'
    BY <1>1 DEF IInv, Wires, Fresh
  <2>2. \A j \in Ids : WireOf(j)'
    BY <1>1, <1>3, <1>4, <2>1 DEF WireOf
  <2> QED BY <1>1, <1>2, <2>1, <2>2 DEF IInv, Wires
<1> QED BY <1>5, <1>6, <1>7, <1>8, <1>9, <1>10 DEF IInv

LEMMA TestSendIInv == ASSUME IInv, NEW k \in Ids, TestSend(k) PROVE IInv'
<1>1. /\ client.pc = "begin" /\ k \in client.todo
      /\ UNCHANGED <<round, m_sessionPool, m_sessionMap, m_sendCount, m_writeBuffer,
                     m_sendBuffer, socket, connects, writes, aborts, wire, ready, asio,
                     raced, broken>>
  BY DEF TestSend, buffers, network, causes
<1>2. /\ Len(m_sessionMap) = m_sessionCount /\ client.todo \in SUBSET Ids /\ client \in ClientPlaces
      /\ UNCHANGED Ids /\ Ids \subseteq Nat /\ \A j \in Ids : m_sessionMap[j] \in Objects
  BY <1>1, MapIds DEF IInv, Turn, TypeOK, Ids
<1>3. PICK o \in Objects : o = m_sessionMap[k]
  BY <1>2
<1>4. /\ client' \in ClientPlaces /\ client'.pc = "send" /\ client'.session = o
      /\ client'.todo = client.todo \ {k} /\ client'.count = 0
  <2>1. client' = [client EXCEPT !.pc = "send", !.session = o, !.todo = client.todo \ {k}, !.count = 0]
    BY <1>3 DEF TestSend
  <2> QED BY <1>2, <1>3, <2>1 DEF ClientPlaces, ClientPcs
<1>5. /\ session' \in [Objects -> SessionStates] /\ session'[o].try = 0
      /\ \A p \in Objects : session'[p].state = session[p].state
  <2>1. session \in [Objects -> SessionStates]
    BY DEF IInv, TypeOK
  <2>2. session' = [session EXCEPT ![o] = [[session[o] EXCEPT !.cnt = m_sessionSendCount] EXCEPT !.try = 0]]
    BY <1>3 DEF TestSend
  <2>3. LET r == [[session[o] EXCEPT !.cnt = m_sessionSendCount] EXCEPT !.try = 0]
        IN  r \in SessionStates /\ r.try = 0 /\ r.state = session[o].state
    <3>1. 0 \in 0..m_sessionSendCount
      BY ClientAssumption
    <3>2. session[o] \in SessionStates
      BY <2>1
    <3> QED BY <3>1, <3>2 DEF SessionStates
  <2> QED BY <2>1, <2>2, <2>3
<1>6. TypeOK'
  BY <1>1, <1>4, <1>5 DEF IInv, TypeOK
<1>7. o # NoSession /\ m_sessionSendCount \in Nat \ {0}
  BY ClientAssumption DEF Objects, NoSession
<1>8. Turn'
  <2>1. k \in Ids \ (client.todo \ {k})
    BY <1>1
  <2>2. round <= m_clientReconnectCount
    BY <1>1 DEF IInv, Turn
  <2> QED BY <1>1, <1>2, <1>3, <1>4, <1>7, <2>1, <2>2 DEF Turn
<1>9. SendCounts'
  <2>1. /\ Cardinality(client.todo) \in Nat \ {0}
        /\ Cardinality(client.todo \ {k}) = Cardinality(client.todo) - 1
    <3>1. /\ Cardinality(client.todo) \in Nat /\ Cardinality(client.todo \ {k}) \in Nat
          /\ Cardinality(client.todo \ {k}) = Cardinality(client.todo) - 1
      BY <1>1, <1>2, Visit DEF IInv
    <3> QED BY <3>1
  <2>2. m_sendCount + Cardinality(client.todo) * m_sessionSendCount = m_sessionCount * m_sessionSendCount
    <3>1. m_sendCount + Cardinality(client.todo) * m_sessionSendCount + 0
            = m_sessionCount * m_sessionSendCount
      BY <1>1 DEF IInv, SendCounts
    <3> QED BY <2>1, <3>1, Times, ClientAssumption DEF IInv, TypeOK
  <2>3. (Cardinality(client.todo) - 1) * m_sessionSendCount
          = Cardinality(client.todo) * m_sessionSendCount - m_sessionSendCount
        /\ Cardinality(client.todo) * m_sessionSendCount \in Nat
    BY <2>1, <1>7, Times
  <2>4. m_sendCount + Cardinality(client.todo \ {k}) * m_sessionSendCount + (m_sessionSendCount - 0)
          = m_sessionCount * m_sessionSendCount
    <3> DEFINE a == Cardinality(client.todo) * m_sessionSendCount
               b == (Cardinality(client.todo) - 1) * m_sessionSendCount
    <3>1. Cardinality(client.todo \ {k}) * m_sessionSendCount = b
      BY <2>1
    <3>2. m_sendCount \in Int /\ a \in Int /\ b = a - m_sessionSendCount
      BY <2>3 DEF IInv, TypeOK
    <3>3. m_sendCount + a = m_sessionCount * m_sessionSendCount
      BY <2>2
    <3> HIDE DEF a, b
    <3> QED BY <1>7, <3>1, <3>2, <3>3
  <2>5. session'[client'.session].try <= client'.count
    BY <1>4, <1>5
  <2> QED BY <1>1, <1>4, <2>4, <2>5 DEF SendCounts
<1>10. Pooled'
  BY <1>4 DEF Pooled
<1>11. Sockets'
  <2>1. ArrivesOnce' /\ \A p \in Objects : (Arriving(p)' <=> Arriving(p)) /\ (Mapped(p)' <=> Mapped(p))
    BY <1>1, <1>2, ReadyStill DEF Mapped
  <2>2. \A p \in Objects : SocketOf(p)'
    BY <1>1, <1>4, <1>5, <2>1 DEF IInv, Sockets, SocketOf
  <2>3. \A j \in Ids : Checked(j) /\ Checked(j)'
    BY <1>1, <1>4 DEF Checked
  <2>4. \A j \in Ids : CheckedSocket(m_sessionMap[j]) => CheckedSocket(m_sessionMap[j])'
    BY <1>1, <1>2, <1>4, <1>5, <2>1 DEF CheckedSocket
  <2>5. AllShut'
    BY <1>4 DEF AllShut
  <2> QED BY <1>2, <2>1, <2>2, <2>3, <2>4, <2>5 DEF IInv, Sockets
<1>12. Wires'
  <2>1. \A p \in Objects : (Fresh(p)' <=> Fresh(p)) /\ (Ascending(p)' <=> Ascending(p))
    BY <1>1 DEF Fresh, Ascending
  <2>2. \A j \in Ids : Single(j)' <=> Single(j)
    BY <1>1, <1>2 DEF Single
  <2>3. \A j \in Ids : Single(j) => WireOf(j)'
    <3> SUFFICES ASSUME NEW j \in Ids, Single(j) PROVE WireOf(j)'
      OBVIOUS
    <3>1. WireOf(j) /\ m_sessionMap[j] \in Objects
      BY <1>2 DEF IInv, Wires
    <3>2. m_sessionMap[j] = o => j = k
      BY <1>3 DEF Single
    <3> QED BY <1>1, <1>3, <1>4, <2>1, <3>1, <3>2 DEF WireOf
  <2> QED BY <1>1, <1>2, <1>4, <2>2, <2>3 DEF IInv, Wires
<1> QED BY <1>6, <1>8, <1>9, <1>10, <1>11, <1>12 DEF IInv

\* In TestSend the session is mapped and its socket connected.
LEMMA Sending ==
  ASSUME IInv, client.pc \in {"send", "write"}
  PROVE  /\ Len(m_sessionMap) = m_sessionCount /\ client.todo \in SUBSET Ids
         /\ client.session \in Objects /\ client.session # NoSession
         /\ \E k \in Ids \ client.todo : m_sessionMap[k] = client.session
         /\ client.count \in 0..(m_sessionSendCount - 1)
         /\ socket[client.session] = "connected" /\ m_writeBuffer[client.session] = <<>>
<1>1. client \in ClientPlaces
  BY DEF IInv, TypeOK
<1>2. /\ Len(m_sessionMap) = m_sessionCount /\ client.todo \in SUBSET Ids
      /\ client.session \in Objects /\ client.session # NoSession
      /\ \E k \in Ids \ client.todo : m_sessionMap[k] = client.session
      /\ client.count \in 0..(m_sessionSendCount - 1)
  BY <1>1, ClientAssumption DEF IInv, Turn, ClientPlaces
<1>3. socket[client.session] = "connected"
  BY <1>2 DEF IInv, Sockets, Checked, CheckedSocket
<1> QED BY <1>2, <1>3 DEF IInv, Wires

LEMMA SendIInv == ASSUME IInv, Send PROVE IInv'
<1>1. /\ client.pc = "send"
      /\ UNCHANGED <<round, m_sessionPool, m_sessionMap, m_sendCount, socket, connects, writes,
                     aborts, wire, ready, asio, raced, broken>>
      /\ client' = [client EXCEPT !.pc = "write"]
  BY DEF Send, network, causes
<1>2. /\ Len(m_sessionMap) = m_sessionCount /\ client.todo \in SUBSET Ids
      /\ client.session # NoSession
      /\ \E k \in Ids \ client.todo : m_sessionMap[k] = client.session
      /\ client.count \in 0..(m_sessionSendCount - 1)
      /\ UNCHANGED Ids /\ \A j \in Ids : m_sessionMap[j] \in Objects
  BY <1>1, Sending, MapIds DEF Ids, IInv
<1>3. PICK o \in Objects : /\ o = client.session
                           /\ socket[o] = "connected" /\ m_writeBuffer[o] = <<>>
  BY <1>1, Sending
<1>4. /\ client' \in ClientPlaces /\ client'.pc = "write" /\ client'.session = o
      /\ client'.todo = client.todo /\ client'.count = client.count
  <2>1. client \in ClientPlaces
    BY DEF IInv, TypeOK
  <2> QED BY <1>1, <1>3, <2>1 DEF ClientPlaces, ClientPcs
<1>5. /\ m_writeBuffer' = [m_writeBuffer EXCEPT ![o] = Tail(Append(m_writeBuffer[o], client.count))]
      /\ m_sendBuffer' = [m_sendBuffer EXCEPT ![o] = Head(Append(m_writeBuffer[o], client.count))]
      /\ session' = [session EXCEPT ![o].try = session[o].try + 1]
  BY <1>3 DEF Send
<1>6. Tail(Append(m_writeBuffer[o], client.count)) = <<>>
      /\ Head(Append(m_writeBuffer[o], client.count)) = client.count
  <2>1. Append(<<>>, client.count) = <<client.count>>
    OBVIOUS
  <2>2. Head(<<client.count>>) = client.count /\ Tail(<<client.count>>) = <<>>
    OBVIOUS
  <2> QED BY <1>3, <2>1, <2>2
<1>7. /\ m_writeBuffer' \in [Objects -> Seq(Nat)] /\ m_sendBuffer' \in [Objects -> Nat]
      /\ \A p \in Objects : m_writeBuffer'[p] = <<>>
      /\ m_sendBuffer'[o] = client.count
      /\ \A p \in Objects : p # o => m_sendBuffer'[p] = m_sendBuffer[p]
  <2>1. /\ m_writeBuffer \in [Objects -> Seq(Nat)] /\ m_sendBuffer \in [Objects -> Nat]
        /\ \A p \in Objects : m_writeBuffer[p] = <<>>
    BY DEF IInv, TypeOK, Wires
  <2>2. <<>> \in Seq(Nat) /\ client.count \in Nat
    BY <1>2, EmptySeq
  <2> QED BY <1>5, <1>6, <2>1, <2>2
<1>8. /\ session' \in [Objects -> SessionStates] /\ session'[o].try <= client.count + 1
      /\ \A p \in Objects : session'[p].state = session[p].state
  <2>1. session \in [Objects -> SessionStates] /\ session[o].try <= client.count
    BY <1>1, <1>3 DEF IInv, TypeOK, SendCounts
  <2>2. session' = [session EXCEPT ![o] = [session[o] EXCEPT !.try = session[o].try + 1]]
    BY <1>5
  <2>3. session[o] \in SessionStates
    BY <2>1
  <2>4. session[o].try + 1 \in 0..m_sessionSendCount /\ session[o].try + 1 <= client.count + 1
    BY <1>2, <2>1, <2>3, ClientAssumption DEF SessionStates
  <2>5. LET r == [session[o] EXCEPT !.try = session[o].try + 1]
        IN  r \in SessionStates /\ r.try = session[o].try + 1 /\ r.state = session[o].state
    BY <2>3, <2>4 DEF SessionStates
  <2> QED BY <2>1, <2>2, <2>4, <2>5
<1>9. TypeOK'
  <2>1. /\ round' \in 1..(m_clientReconnectCount + 1)
        /\ m_sessionPool' \in Seq(Objects) /\ m_sessionMap' \in Seq(Objects)
        /\ m_sendCount' \in 0..(m_sessionCount * m_sessionSendCount)
        /\ socket' \in [Objects -> {"closed", "open", "connected"}]
        /\ connects' \in [Objects -> Nat] /\ writes' \in [Objects -> Nat]
        /\ aborts' \in [Objects -> Nat] /\ wire' \in [Objects -> Seq(Nat)] /\ raced' \in BOOLEAN
    BY <1>1 DEF IInv, TypeOK
  <2> QED BY <1>1, <1>4, <1>7, <1>8, <2>1, ClientTypes DEF IInv
<1>10. Turn'
  <2>1. client.count < m_sessionSendCount /\ round <= m_clientReconnectCount
    BY <1>1 DEF IInv, Turn
  <2> QED BY <1>1, <1>2, <1>3, <1>4, <2>1 DEF Turn
<1>11. SendCounts'
  BY <1>1, <1>4, <1>8 DEF IInv, SendCounts
<1>12. Pooled'
  BY <1>4 DEF Pooled
<1>13. Sockets'
  <2>1. ArrivesOnce' /\ \A p \in Objects : (Arriving(p)' <=> Arriving(p)) /\ (Mapped(p)' <=> Mapped(p))
    BY <1>1, <1>2, ReadyStill DEF Mapped
  <2>2. \A p \in Objects : SocketOf(p)'
    BY <1>1, <1>4, <1>8, <2>1 DEF IInv, Sockets, SocketOf
  <2>3. \A j \in Ids : Checked(j)
    BY <1>1 DEF Checked
  <2>4. \A j \in Ids : CheckedSocket(m_sessionMap[j]) => CheckedSocket(m_sessionMap[j])'
    BY <1>1, <1>2, <1>4, <1>8, <2>1 DEF CheckedSocket
  <2>5. AllShut'
    BY <1>4 DEF AllShut
  <2> QED BY <1>1, <1>2, <2>1, <2>2, <2>3, <2>4, <2>5 DEF IInv, Sockets
<1>14. Wires'
  <2>1. \A p \in Objects : /\ Fresh(p)' <=> Fresh(p)
                           /\ p # o => (Ascending(p)' <=> Ascending(p))
    BY <1>1, <1>7 DEF Fresh, Ascending
  <2>2. \A j \in Ids : Single(j)' <=> Single(j)
    BY <1>1, <1>2 DEF Single
  <2>3. Fresh(o) => Ascending(o)'
    BY <1>1 DEF Fresh, Ascending
  <2>4. Ascending(o) /\ m_sendBuffer[o] < client.count => Ascending(o)'
    <3> SUFFICES ASSUME Ascending(o), m_sendBuffer[o] < client.count,
                        NEW j \in DOMAIN wire[o]
                 PROVE  wire[o][j] <= client.count
      BY <1>1, <1>7 DEF Ascending
    <3>1. wire[o][j] \in Nat /\ m_sendBuffer[o] \in Nat /\ client.count \in Nat
      <4>1. wire[o] \in Seq(Nat) /\ m_sendBuffer[o] \in Nat
        BY DEF IInv, TypeOK
      <4> QED BY <1>2, <4>1, LenProperties
    <3> QED BY <3>1 DEF Ascending
  <2>5. \A j \in Ids : Single(j) => WireOf(j)'
    <3> SUFFICES ASSUME NEW j \in Ids, Single(j) PROVE WireOf(j)'
      OBVIOUS
    <3>1. PICK p \in Objects : p = m_sessionMap[j]
      BY <1>2
    <3>2. /\ Fresh(p) \/ Ascending(p)
          /\ j \in client.todo => Fresh(p)
          /\ p = o => IF client.count = 0 THEN Fresh(p) ELSE Ascending(p) /\ m_sendBuffer[p] < client.count
      BY <1>1, <1>3, <3>1 DEF IInv, Wires, WireOf
    <3>3. /\ Fresh(p)' \/ Ascending(p)'
          /\ j \in client.todo => Fresh(p)'
          /\ p = o => Ascending(p)' /\ m_sendBuffer'[p] = client.count
      BY <1>7, <2>1, <2>3, <2>4, <3>2
    <3> QED BY <1>1, <1>3, <1>4, <3>1, <3>3 DEF WireOf
  <2> QED BY <1>2, <1>4, <1>7, <2>2, <2>5 DEF Wires
<1> QED BY <1>9, <1>10, <1>11, <1>12, <1>13, <1>14 DEF IInv

LEMMA WriteIInv == ASSUME IInv, Write PROVE IInv'
<1>1. /\ client.pc = "write" /\ m_sendCount' = m_sendCount + 1
      /\ UNCHANGED <<round, m_sessionPool, m_sessionMap, session, m_writeBuffer, m_sendBuffer,
                     socket, connects, aborts, wire, ready, asio, raced, broken>>
  BY DEF Write, buffers, causes
<1>2. /\ Len(m_sessionMap) = m_sessionCount /\ client.todo \in SUBSET Ids
      /\ client.count \in 0..(m_sessionSendCount - 1) /\ client.session # NoSession
      /\ UNCHANGED Ids /\ Ids \subseteq Nat /\ \A j \in Ids : m_sessionMap[j] \in Objects
      /\ m_sessionCount \in Nat \ {0} /\ m_sessionSendCount \in Nat \ {0}
      /\ Ids # {}
  BY <1>1, Sending, MapIds, ClientAssumption DEF Ids, IInv
<1>3. PICK o \in Objects : /\ o = client.session /\ socket[o] = "connected"
                           /\ \E k \in Ids \ client.todo : m_sessionMap[k] = o
  BY <1>1, Sending
<1>4. writes' = [writes EXCEPT ![o] = writes[o] + 1]
  BY <1>3 DEF Write
<1>5. PICK pc \in {"send", "begin", "close"} :
        /\ client' \in ClientPlaces /\ client'.pc = pc
        /\ pc = "send" => /\ client.count + 1 < m_sessionSendCount
                          /\ client'.session = o /\ client'.todo = client.todo
                          /\ client'.count = client.count + 1
        /\ pc # "send" => /\ client.count + 1 = m_sessionSendCount
                          /\ client'.session = NoSession /\ client'.count = 0
        /\ pc = "begin" => client.todo # {} /\ client'.todo = client.todo
        /\ pc = "close" => client.todo = {} /\ client'.todo = Ids
  <2>1. CASE client.count + 1 < m_sessionSendCount
    <3>1. client' = [client EXCEPT !.pc = "send", !.count = client.count + 1]
      BY <2>1 DEF Write
    <3>4. client \in ClientPlaces
      BY DEF IInv, TypeOK
    <3>2. client \in ClientPlaces /\ client.count + 1 \in Nat
      BY <1>2, <3>4
    <3>3. /\ client' \in ClientPlaces /\ client'.pc = "send" /\ client'.session = o
          /\ client'.todo = client.todo /\ client'.count = client.count + 1
      BY <1>3, <3>1, <3>2 DEF ClientPlaces, ClientPcs
    <3> QED BY <2>1, <3>3
  <2>2. CASE ~(client.count + 1 < m_sessionSendCount) /\ client.todo # {}
    <3>1. client' = [At("begin") EXCEPT !.todo = client.todo]
      BY <2>2 DEF Write
    <3>4. client.todo \in SUBSET Nat
      BY <1>2
    <3>5. client.count + 1 = m_sessionSendCount
      BY <1>2, <2>2
    <3>2. client.todo \in SUBSET Nat /\ client.count + 1 = m_sessionSendCount
      BY <3>4, <3>5
    <3>3. /\ client' \in ClientPlaces /\ client'.pc = "begin" /\ client'.session = NoSession
          /\ client'.todo = client.todo /\ client'.count = 0
      BY <3>1, <3>2, AtTodo DEF ClientPcs
    <3> QED BY <2>2, <3>2, <3>3
  <2>3. CASE ~(client.count + 1 < m_sessionSendCount) /\ client.todo = {}
    <3>1. client' = [At("close") EXCEPT !.todo = Ids]
      BY <2>3 DEF Write
    <3>2. Ids \in SUBSET Nat /\ client.count + 1 = m_sessionSendCount
      BY <1>2, <2>3
    <3>3. /\ client' \in ClientPlaces /\ client'.pc = "close" /\ client'.session = NoSession
          /\ client'.todo = Ids /\ client'.count = 0
      BY <3>1, <3>2, AtTodo DEF ClientPcs
    <3> QED BY <2>3, <3>2, <3>3
  <2> QED BY <2>1, <2>2, <2>3
<1>6. /\ Cardinality(client.todo) \in Nat /\ (client.todo = {} => Cardinality(client.todo) = 0)
      /\ Cardinality(Ids) = m_sessionCount
  <2>1. IsFiniteSet(Ids) /\ Cardinality(Ids) = m_sessionCount
    BY <1>2, MapIds DEF IInv
  <2> QED BY <1>2, <2>1, FS_Subset, FS_CardinalityType, FS_EmptySet
<1>7. PICK left \in Nat : left = Cardinality(client.todo) * m_sessionSendCount
                          /\ (client.todo = {} => left = 0)
  BY <1>2, <1>6, Times
<1>8. PICK all \in Nat : all = m_sessionCount * m_sessionSendCount
  BY <1>2, Times
<1>9. m_sendCount \in Nat /\ m_sendCount + left + (m_sessionSendCount - client.count) = all
  BY <1>1, <1>7, <1>8 DEF IInv, SendCounts, TypeOK
<1>10. TypeOK'
  <2>1. writes' \in [Objects -> Nat]
    <3>1. writes \in [Objects -> Nat]
      BY DEF IInv, TypeOK
    <3> QED BY <1>4, <3>1
  <2>2. m_sendCount' \in 0..all
    BY <1>1, <1>2, <1>9
  <2>3. /\ round' \in 1..(m_clientReconnectCount + 1)
        /\ m_sessionPool' \in Seq(Objects) /\ m_sessionMap' \in Seq(Objects)
        /\ session' \in [Objects -> SessionStates]
        /\ m_writeBuffer' \in [Objects -> Seq(Nat)] /\ m_sendBuffer' \in [Objects -> Nat]
        /\ socket' \in [Objects -> {"closed", "open", "connected"}]
        /\ connects' \in [Objects -> Nat]
        /\ aborts' \in [Objects -> Nat] /\ wire' \in [Objects -> Seq(Nat)] /\ raced' \in BOOLEAN
    BY <1>1 DEF IInv, TypeOK
  <2> QED BY <1>1, <1>5, <1>8, <2>1, <2>2, <2>3, ClientTypes DEF IInv
<1>11. Turn'
  <2>1. round <= m_clientReconnectCount
    BY <1>1 DEF IInv, Turn
  <2>2. client'.count < m_sessionSendCount /\ client'.count \in Nat
    BY <1>2, <1>5 DEF ClientPlaces
  <2>3. o # NoSession
    BY <1>2, <1>3
  <2>4. pc = "close" => client'.count + Cardinality(client'.todo) <= m_sessionCount
                          /\ client'.count < m_sessionCount
    BY <1>2, <1>5, <1>6
  <2> QED BY <1>1, <1>2, <1>3, <1>5, <2>1, <2>2, <2>3, <2>4 DEF Turn
<1>12. SendCounts'
  <2>1. pc = "send" => session'[client'.session].try <= client'.count
    BY <1>1, <1>3, <1>5 DEF IInv, SendCounts
  <2>2. pc = "send" => m_sendCount' + left + (m_sessionSendCount - client'.count) = all
    <3>1. /\ m_sendCount' = m_sendCount + 1 /\ client.count \in Nat /\ m_sessionSendCount \in Nat
          /\ pc = "send" => client'.count = client.count + 1
      BY <1>1, <1>2, <1>5
    <3> QED BY <1>9, <3>1
  <2>3. pc = "begin" => m_sendCount' + left + 0 = all
    BY <1>1, <1>2, <1>5, <1>9
  <2>4. pc \in {"send", "begin"} => client'.todo = client.todo
    BY <1>5
  <2> QED BY <1>5, <1>7, <1>8, <2>1, <2>2, <2>3, <2>4 DEF SendCounts
<1>13. Pooled'
  BY <1>1, <1>5, LenProperties DEF Pooled, IInv, TypeOK
<1>14. Sockets'
  <2>1. ArrivesOnce' /\ \A p \in Objects : (Arriving(p)' <=> Arriving(p)) /\ (Mapped(p)' <=> Mapped(p))
    BY <1>1, <1>2, ReadyStill DEF Mapped
  <2>2. \A p \in Objects : p # o => writes'[p] = writes[p]
    BY <1>4 DEF IInv, TypeOK
  <2>3. \A p \in Objects : SocketOf(p)'
    BY <1>1, <1>3, <1>5, <2>1, <2>2 DEF IInv, Sockets, SocketOf
  <2>4. \A j \in Ids : Checked(j)
    BY <1>1 DEF Checked
  <2>5. \A j \in Ids : CheckedSocket(m_sessionMap[j]) => CheckedSocket(m_sessionMap[j])'
    BY <1>1, <1>2, <2>1 DEF CheckedSocket
  <2>6. AllShut'
    BY <1>2, <1>5 DEF AllShut
  <2> QED BY <1>1, <1>2, <2>1, <2>3, <2>4, <2>5, <2>6 DEF IInv, Sockets
<1>15. Wires'
  <2>1. \A p \in Objects : /\ p # o => (Fresh(p)' <=> Fresh(p))
                           /\ Ascending(p)' <=> Ascending(p)
    BY <1>1, <1>4 DEF Fresh, Ascending, IInv, TypeOK
  <2>2. \A j \in Ids : Single(j)' <=> Single(j)
    BY <1>1, <1>2 DEF Single
  <2>3. \A j \in Ids : Single(j) => WireOf(j)'
    <3> SUFFICES ASSUME NEW j \in Ids, Single(j) PROVE WireOf(j)'
      OBVIOUS
    <3>1. PICK p \in Objects : p = m_sessionMap[j]
      BY <1>2
    <3>2. /\ Fresh(p) \/ Ascending(p)
          /\ j \in client.todo => Fresh(p)
          /\ p = o => Ascending(p) /\ m_sendBuffer[p] = client.count
      BY <1>1, <1>3, <3>1 DEF IInv, Wires, WireOf
    <3>3. p = o => j \notin client.todo
      BY <1>3, <3>1 DEF Single
    <3>4. /\ Fresh(p)' \/ Ascending(p)'
          /\ j \in client.todo => Fresh(p)'
          /\ p = o => Ascending(p)' /\ m_sendBuffer'[p] < client.count + 1
      BY <1>1, <1>2, <2>1, <3>2, <3>3
    <3>5. client.count + 1 # 0
      BY <1>2
    <3> QED BY <1>1, <1>5, <3>1, <3>4, <3>5 DEF WireOf
  <2> QED BY <1>1, <1>2, <1>5, <2>2, <2>3 DEF IInv, Wires
<1> QED BY <1>10, <1>11, <1>12, <1>13, <1>14, <1>15 DEF IInv

LEMMA PoppedObject ==
  ASSUME IInv, client.pc = "connect"
  PROVE  Popped \in Objects
<1>1. Len(m_sessionMap) \in Nat /\ Len(m_sessionMap) < m_sessionCount
  BY MapIds DEF IInv, Turn
<1>2. CASE m_sessionPool # <<>>
  BY <1>2, HeadTailProperties DEF Popped, IInv, TypeOK
<1>3. CASE m_sessionPool = <<>>
  BY <1>1, <1>3, ClientAssumption DEF Popped, Objects
<1> QED BY <1>2, <1>3

LEMMA ConnectIInv == ASSUME IInv, Connect PROVE IInv'
<1>1. /\ client.pc = "connect"
      /\ m_sessionPool' = IF m_sessionPool = <<>> THEN <<>> ELSE Tail(m_sessionPool)
      /\ UNCHANGED <<round, m_sessionMap, m_sendCount, session, m_writeBuffer, m_sendBuffer,
                     writes, aborts, wire, ready, asio, raced, broken>>
  BY DEF Connect, buffers, causes
<1>2. PICK o \in Objects : o = Popped
  BY <1>1, PoppedObject
<1>3. /\ Len(m_sessionMap) \in Nat /\ Len(m_sessionMap) < m_sessionCount /\ UNCHANGED Ids
      /\ \A j \in Ids : m_sessionMap[j] \in Objects
      /\ round \in 1..m_clientReconnectCount
  BY <1>1, MapIds DEF IInv, Turn, Ids, TypeOK
<1>4. /\ client' \in ClientPlaces /\ client'.pc = "setState" /\ client'.session = o
      /\ client'.todo = {} /\ client'.count = 0
  <2>1. client' = [At("setState") EXCEPT !.session = o]
    BY <1>2 DEF Connect
  <2> QED BY <2>1 DEF At, ClientPlaces, ClientPcs
<1>5. /\ socket' = [socket EXCEPT ![o] = IF socket[o] = "closed" THEN "open" ELSE socket[o]]
      /\ connects' = [connects EXCEPT ![o] = connects[o] + 1]
  BY <1>2 DEF Connect, AsyncConnect
<1>6. /\ socket' \in [Objects -> {"closed", "open", "connected"}] /\ connects' \in [Objects -> Nat]
      /\ \A p \in Objects : /\ p # o => socket'[p] = socket[p]
                            /\ socket[p] = "connected" => socket'[p] = "connected"
  <2>1. socket \in [Objects -> {"closed", "open", "connected"}] /\ connects \in [Objects -> Nat]
    BY DEF IInv, TypeOK
  <2> QED BY <1>5, <2>1
<1>7. /\ m_sessionPool' \in Seq(Objects) /\ Len(m_sessionPool) \in Nat /\ Len(m_sessionPool') \in Nat
      /\ DOMAIN m_sessionPool = 1..Len(m_sessionPool) /\ DOMAIN m_sessionPool' = 1..Len(m_sessionPool')
      /\ m_sessionPool = <<>> => Len(m_sessionPool) = 0 /\ Len(m_sessionPool') = 0
      /\ m_sessionPool # <<>> => /\ Len(m_sessionPool) > 0
                                 /\ Len(m_sessionPool') = Len(m_sessionPool) - 1
                                 /\ \A j \in 1..Len(m_sessionPool') : m_sessionPool'[j] = m_sessionPool[j + 1]
  <2>1. m_sessionPool \in Seq(Objects)
    BY DEF IInv, TypeOK
  <2>2. CASE m_sessionPool = <<>>
    BY <1>1, <2>1, <2>2, LenProperties, EmptySeq
  <2>3. CASE m_sessionPool # <<>>
    <3>1. m_sessionPool' = Tail(m_sessionPool)
      BY <1>1, <2>3
    <3>2. /\ Tail(m_sessionPool) \in Seq(Objects)
          /\ Len(Tail(m_sessionPool)) = Len(m_sessionPool) - 1
          /\ \A j \in 1..Len(Tail(m_sessionPool)) : Tail(m_sessionPool)[j] = m_sessionPool[j + 1]
          /\ Len(m_sessionPool) \in Nat \ {0}
      BY <2>1, <2>3, HeadTailProperties, EmptySeq
    <3>3. /\ DOMAIN m_sessionPool = 1..Len(m_sessionPool)
          /\ DOMAIN Tail(m_sessionPool) = 1..Len(Tail(m_sessionPool))
      BY <2>1, <3>2, LenProperties
    <3>4. Len(Tail(m_sessionPool)) \in Nat /\ Len(m_sessionPool) > 0
      BY <3>2
    <3> QED BY <2>3, <3>1, <3>2, <3>3, <3>4
  <2> QED BY <2>2, <2>3
<1>8. TypeOK'
  <2>1. /\ round' \in 1..(m_clientReconnectCount + 1) /\ m_sessionMap' \in Seq(Objects)
        /\ m_sendCount' \in 0..(m_sessionCount * m_sessionSendCount)
        /\ session' \in [Objects -> SessionStates]
        /\ m_writeBuffer' \in [Objects -> Seq(Nat)] /\ m_sendBuffer' \in [Objects -> Nat]
        /\ writes' \in [Objects -> Nat] /\ aborts' \in [Objects -> Nat]
        /\ wire' \in [Objects -> Seq(Nat)] /\ raced' \in BOOLEAN
    BY <1>1 DEF IInv, TypeOK
  <2> QED BY <1>1, <1>4, <1>6, <1>7, <2>1, ClientTypes DEF IInv
<1>9. o # NoSession
  BY ClientAssumption DEF Objects, NoSession
<1>10. Turn'
  BY <1>1, <1>3, <1>4, <1>9 DEF Turn
<1>11. SendCounts'
  BY <1>1, <1>4 DEF IInv, SendCounts
<1>12. Pooled'
  <2>1. Taken = Len(m_sessionMap) /\ Taken' = Len(m_sessionMap) + 1
    BY <1>1, <1>3, <1>4 DEF Taken
  <2>2. CASE round > 1
    <3>1. Len(m_sessionMap) + Len(m_sessionPool) >= m_sessionCount
      BY <1>1, <2>1, <2>2 DEF IInv, Pooled
    <3>2. m_sessionPool # <<>>
      <4> SUFFICES ASSUME m_sessionPool = <<>> PROVE FALSE
        OBVIOUS
      <4>1. Len(m_sessionPool) = 0
        BY <1>7
      <4> QED BY <1>3, <3>1, <4>1, ClientAssumption
    <3>3. Len(m_sessionMap) + 1 + Len(m_sessionPool') >= m_sessionCount
      BY <1>3, <1>7, <3>1, <3>2, ClientAssumption
    <3> QED BY <1>1, <1>4, <2>1, <2>2, <3>3 DEF Pooled
  <2>3. CASE ~(round > 1)
    <3>1. /\ \A k \in Ids : m_sessionMap[k] = k
          /\ \A j \in DOMAIN m_sessionPool : m_sessionPool[j] = Len(m_sessionMap) + j
          /\ Len(m_sessionMap) + Len(m_sessionPool) >= m_sessionPoolSize
      BY <1>1, <2>1, <2>3 DEF IInv, Pooled
    <3>2. o = Len(m_sessionMap) + 1
      <4>1. CASE m_sessionPool = <<>>
        BY <1>2, <4>1 DEF Popped
      <4>2. CASE m_sessionPool # <<>>
        <5>1. Head(m_sessionPool) = m_sessionPool[1] /\ 1 \in DOMAIN m_sessionPool
          BY <1>7, <4>2
        <5> QED BY <1>2, <3>1, <4>2, <5>1 DEF Popped
      <4> QED BY <4>1, <4>2
    <3>3. \A j \in DOMAIN m_sessionPool' : m_sessionPool'[j] = Len(m_sessionMap) + 1 + j
      <4> SUFFICES ASSUME NEW j \in 1..Len(m_sessionPool')
                   PROVE  m_sessionPool'[j] = Len(m_sessionMap) + 1 + j
        BY <1>7
      <4>1. m_sessionPool # <<>>
        <5>2. Len(m_sessionPool') \in Nat
          BY <1>7
        <5>1. Len(m_sessionPool') # 0
          BY <5>2
        <5> QED BY <1>7, <5>1
      <4>2. m_sessionPool'[j] = m_sessionPool[j + 1] /\ j + 1 \in DOMAIN m_sessionPool
        BY <1>7, <4>1
      <4>3. m_sessionPool[j + 1] = Len(m_sessionMap) + (j + 1)
        BY <3>1, <4>2
      <4> QED BY <1>3, <4>2, <4>3
    <3>4. Len(m_sessionMap) + 1 + Len(m_sessionPool') >= m_sessionPoolSize
      <4>1. Len(m_sessionPool') \in Nat /\ Len(m_sessionPool) \in Nat
            /\ Len(m_sessionPool') + 1 >= Len(m_sessionPool)
        <5>1. CASE m_sessionPool = <<>>
          <6>1. Len(m_sessionPool) = 0
            BY <1>7, <5>1
          <6> QED BY <1>7, <6>1
        <5>2. CASE m_sessionPool # <<>>
          <6>1. Len(m_sessionPool') = Len(m_sessionPool) - 1
            BY <1>7, <5>2
          <6> QED BY <1>7, <6>1
        <5> QED BY <5>1, <5>2
      <4> QED BY <1>3, <3>1, <4>1, ClientAssumption
    <3> QED BY <1>1, <1>3, <1>4, <2>1, <2>3, <3>1, <3>2, <3>3, <3>4 DEF Pooled
  <2> QED BY <2>2, <2>3
<1>13. Sockets'
  <2>1. ArrivesOnce' /\ \A p \in Objects : (Arriving(p)' <=> Arriving(p)) /\ (Mapped(p)' <=> Mapped(p))
    BY <1>1, <1>3, ReadyStill DEF Mapped
  <2>2. \A p \in Objects : SocketOf(p)'
    BY <1>1, <1>4, <1>6, <2>1 DEF IInv, Sockets, SocketOf
  <2>3. AllShut' /\ \A j \in Ids' : ~Checked(j)'
    BY <1>4 DEF AllShut, Checked
  <2> QED BY <2>1, <2>2, <2>3 DEF Sockets
<1>14. Wires'
  <2>1. \A p \in Objects : Fresh(p)'
    BY <1>1 DEF IInv, Wires, Fresh
  <2>2. \A j \in Ids : WireOf(j)'
    BY <1>1, <1>3, <1>4, <2>1 DEF WireOf
  <2> QED BY <1>1, <1>3, <2>1, <2>2 DEF IInv, Wires
<1> QED BY <1>8, <1>10, <1>11, <1>12, <1>13, <1>14 DEF IInv

LEMMA SetConnectingIInv == ASSUME IInv, SetConnecting PROVE IInv'
<1>1. /\ client.pc = "setState"
      /\ UNCHANGED <<round, m_sessionPool, m_sendCount, m_writeBuffer, m_sendBuffer, socket, connects,
                     writes, aborts, wire, ready, asio, broken>>
  BY DEF SetConnecting, buffers, network
<1>2. /\ Len(m_sessionMap) \in Nat /\ Len(m_sessionMap) < m_sessionCount
      /\ \A j \in Ids : m_sessionMap[j] \in Objects
      /\ round \in 1..m_clientReconnectCount
      /\ m_sessionCount \in Nat
  <2>1. /\ Len(m_sessionMap) \in Nat /\ \A j \in Ids : m_sessionMap[j] \in Objects
        /\ m_sessionCount \in Nat /\ m_clientReconnectCount \in Nat
    BY MapIds, ClientAssumption DEF IInv
  <2>2. /\ Len(m_sessionMap) < m_sessionCount /\ round <= m_clientReconnectCount
    BY <1>1 DEF IInv, Turn
  <2>3. round \in 1..(m_clientReconnectCount + 1)
    BY DEF IInv, TypeOK
  <2> QED BY <2>1, <2>2, <2>3
<1>3. PICK o \in Objects : o = client.session
  <2>1. client \in ClientPlaces /\ client.session # NoSession
    BY <1>1 DEF IInv, TypeOK, Turn
  <2> QED BY <2>1 DEF ClientPlaces
<1>4. /\ m_sessionMap' = Append(m_sessionMap, o)
      /\ session' = [session EXCEPT ![o].state = "Connecting"]
  BY <1>3 DEF SetConnecting
<1>5. /\ m_sessionMap' \in Seq(Objects) /\ Len(m_sessionMap') = Len(m_sessionMap) + 1
      /\ Ids' = Ids \cup {Len(m_sessionMap) + 1}
      /\ \A j \in Ids : m_sessionMap'[j] = m_sessionMap[j]
      /\ m_sessionMap'[Len(m_sessionMap) + 1] = o
  <2>1. m_sessionMap \in Seq(Objects)
    BY DEF IInv, TypeOK
  <2>2. /\ m_sessionMap' \in Seq(Objects) /\ Len(m_sessionMap') = Len(m_sessionMap) + 1
        /\ \A j \in 1..Len(m_sessionMap) : m_sessionMap'[j] = m_sessionMap[j]
        /\ m_sessionMap'[Len(m_sessionMap) + 1] = o
    BY <1>4, <2>1, AppendProperties
  <2>3. 1..(Len(m_sessionMap) + 1) = (1..Len(m_sessionMap)) \cup {Len(m_sessionMap) + 1}
    BY <1>2
  <2> QED BY <2>2, <2>3 DEF Ids
<1>6. PICK pc \in {"connect", "check"} :
        /\ client' \in ClientPlaces /\ client'.pc = pc
        /\ client'.session = NoSession /\ client'.count = 0
        /\ pc = "connect" => Len(m_sessionMap) + 1 < m_sessionCount
        /\ pc = "check" => Len(m_sessionMap) + 1 = m_sessionCount /\ client'.todo = Ids'
  <2>1. CASE Len(m_sessionMap) + 1 < m_sessionCount
    <3>1. client' = At("connect")
      BY <1>5, <2>1 DEF SetConnecting
    <3> QED BY <2>1, <3>1, AtFields DEF ClientPcs
  <2>2. CASE ~(Len(m_sessionMap) + 1 < m_sessionCount)
    <3>2. Len(m_sessionMap) + 1 = m_sessionCount
      BY <1>2, <2>2
    <3>3. PICK T \in SUBSET Nat : T = 1..m_sessionCount
      BY <1>2
    <3>1. client' = [At("check") EXCEPT !.todo = T]
      BY <1>5, <2>2, <3>3 DEF SetConnecting
    <3>4. T = Ids'
      BY <1>2, <1>5, <3>2, <3>3 DEF Ids
    <3>5. /\ client' \in ClientPlaces /\ client'.pc = "check" /\ client'.session = NoSession
          /\ client'.todo = T /\ client'.count = 0
      BY <3>1, AtTodo DEF ClientPcs
    <3> QED BY <3>2, <3>4, <3>5
  <2> QED BY <2>1, <2>2
<1>7. /\ session' \in [Objects -> SessionStates] /\ session'[o].state = "Connecting"
      /\ \A p \in Objects : p # o => session'[p].state = session[p].state
  BY <1>4, SetState DEF IInv
<1>8. TypeOK'
  <2>1. raced' \in BOOLEAN
    BY DEF SetConnecting, IInv, TypeOK
  <2>2. /\ round' \in 1..(m_clientReconnectCount + 1) /\ m_sessionPool' \in Seq(Objects)
        /\ m_sendCount' \in 0..(m_sessionCount * m_sessionSendCount)
        /\ m_writeBuffer' \in [Objects -> Seq(Nat)] /\ m_sendBuffer' \in [Objects -> Nat]
        /\ socket' \in [Objects -> {"closed", "open", "connected"}]
        /\ connects' \in [Objects -> Nat] /\ writes' \in [Objects -> Nat]
        /\ aborts' \in [Objects -> Nat] /\ wire' \in [Objects -> Seq(Nat)]
    BY <1>1 DEF IInv, TypeOK
  <2> QED BY <1>1, <1>5, <1>6, <1>7, <2>1, <2>2, ClientTypes DEF IInv
<1>9. Turn'
  <2>1. Len(m_sessionMap) + 1 \in Ids'
    BY <1>5
  <2> QED BY <1>1, <1>2, <1>5, <1>6, <2>1 DEF Turn
<1>10. SendCounts'
  BY <1>1, <1>6 DEF IInv, SendCounts
<1>11. Pooled'
  <2>1. CASE pc = "check"
    BY <1>6, <2>1 DEF Pooled
  <2>2. CASE pc = "connect"
    <3>1. Taken = Len(m_sessionMap) + 1 /\ Taken' = Len(m_sessionMap) + 1
      BY <1>1, <1>2, <1>5, <1>6, <2>2 DEF Taken
    <3>2. round > 1 => Len(m_sessionMap) + 1 + Len(m_sessionPool) >= m_sessionCount
      BY <1>1, <3>1 DEF IInv, Pooled
    <3>3. ~(round > 1) =>
            /\ \A k \in Ids : m_sessionMap[k] = k
            /\ o = Len(m_sessionMap) + 1
            /\ \A j \in DOMAIN m_sessionPool : m_sessionPool[j] = Len(m_sessionMap) + 1 + j
            /\ Len(m_sessionMap) + 1 + Len(m_sessionPool) >= m_sessionPoolSize
      BY <1>1, <1>3, <3>1 DEF IInv, Pooled
    <3>4. ~(round > 1) => \A k \in Ids' : m_sessionMap'[k] = k
      BY <1>5, <3>3
    <3> QED BY <1>1, <1>6, <2>2, <3>1, <3>2, <3>3, <3>4 DEF Pooled
  <2> QED BY <2>1, <2>2
<1>12. Sockets'
  <2>1. ArrivesOnce' /\ \A p \in Objects : Arriving(p)' <=> Arriving(p)
    BY <1>1, ReadyStill
  <2>2. \A p \in Objects : Mapped(p)' <=> Mapped(p) \/ p = o
    BY <1>5 DEF Mapped
  <2>3. \A p \in Objects : SocketOf(p)'
    BY <1>1, <1>3, <1>7, <2>1, <2>2 DEF IInv, Sockets, SocketOf
  <2>4. AllShut' /\ \A j \in Ids' : ~Checked(j)'
    BY <1>6 DEF AllShut, Checked
  <2> QED BY <2>1, <2>3, <2>4 DEF Sockets
<1>13. Wires'
  <2>1. \A p \in Objects : Fresh(p)'
    BY <1>1 DEF IInv, Wires, Fresh
  <2>2. \A j \in Ids' : m_sessionMap'[j] \in Objects
    BY <1>2, <1>5
  <2>3. \A j \in Ids' : WireOf(j)'
    BY <1>6, <2>1, <2>2 DEF WireOf
  <2> QED BY <1>1, <2>1, <2>3 DEF IInv, Wires
<1> QED BY <1>8, <1>9, <1>10, <1>11, <1>12, <1>13 DEF IInv

\* The pool is cut behind all that is still popped.
LEMMA PoolCut ==
  ASSUME NEW seq \in Seq(Objects), m_clientReconnectCount # 0
  PROVE  /\ Pool(seq) \in Seq(Objects)
         /\ \A n \in 0..m_sessionCount : Len(seq) >= n => Len(Pool(seq)) >= n
<1>1. Len(seq) \in Nat /\ \A j \in 1..Len(seq) : seq[j] \in Objects
  BY LenProperties
<1>2. PICK cap \in Nat : cap = m_sessionCount * m_clientReconnectCount
  BY Times, ClientAssumption
<1>3. cap >= m_sessionCount
  <2>1. /\ m_sessionCount \in Nat /\ m_clientReconnectCount \in Nat
        /\ m_clientReconnectCount - 1 \in Nat
    BY ClientAssumption
  <2>2. /\ (m_clientReconnectCount - 1) * m_sessionCount \in Nat
        /\ (m_clientReconnectCount - 1) * m_sessionCount
             = m_clientReconnectCount * m_sessionCount - m_sessionCount
    BY <2>1, Times
  <2>3. m_clientReconnectCount * m_sessionCount = cap
    BY <1>2, <2>1
  <2> QED BY <2>1, <2>2, <2>3
<1>4. m_sessionCount \in Nat
  BY ClientAssumption
<1>5. CASE Len(seq) < cap
  <2>1. Pool(seq) = SubSeq(seq, 1, Len(seq))
    BY <1>2, <1>5 DEF Pool
  <2> QED BY <2>1, SubSeqFull
<1>6. CASE ~(Len(seq) < cap)
  <2>1. Pool(seq) = SubSeq(seq, 1, cap)
    BY <1>2, <1>6 DEF Pool
  <2>2. \A j \in 1..cap : seq[j] \in Objects
    <3>1. \A j \in 1..cap : j \in 1..Len(seq)
      <4>1. Len(seq) \in Nat
        BY <1>1
      <4> QED BY <1>6, <4>1
    <3> QED BY <1>1, <3>1
  <2>3. SubSeq(seq, 1, cap) \in Seq(Objects) /\ Len(SubSeq(seq, 1, cap)) = IF 1 <= cap THEN cap - 1 + 1 ELSE 0
    BY <2>2, SubSeqProperties
  <2>4. Len(SubSeq(seq, 1, cap)) = cap
    BY <2>3
  <2>5. \A n \in 0..m_sessionCount : cap >= n
    BY <1>3, <1>4
  <2> QED BY <2>1, <2>3, <2>4, <2>5
<1> QED BY <1>5, <1>6

LEMMA CloseSessionsIInv == ASSUME IInv, NEW k \in Ids, CloseSessions(k) PROVE IInv'
<1>1. /\ client.pc = "close" /\ k \in client.todo
      /\ UNCHANGED <<round, m_sendCount, session, m_writeBuffer, m_sendBuffer, wire, ready,
                     asio, raced, broken>>
  BY DEF CloseSessions, buffers, causes
<1>2. /\ Len(m_sessionMap) = m_sessionCount /\ client.todo \in SUBSET Ids
      /\ client \in ClientPlaces /\ client.session = NoSession /\ client.count \in Nat
      /\ client.count < m_sessionCount
      /\ client.count + Cardinality(client.todo) <= m_sessionCount
      /\ round \in 1..m_clientReconnectCount /\ m_clientReconnectCount # 0
      /\ m_sessionCount \in Nat \ {0}
  <2>1. client \in ClientPlaces
    BY DEF IInv, TypeOK
  <2>2. client.count \in Nat
    BY <2>1 DEF ClientPlaces
  <2>3. round \in 1..m_clientReconnectCount /\ m_clientReconnectCount # 0
    BY <1>1, ClientAssumption DEF IInv, TypeOK, Turn
  <2> QED BY <1>1, <2>1, <2>2, <2>3, ClientAssumption DEF IInv, Turn
<1>3. /\ Ids \in SUBSET Nat /\ Ids # {} /\ Cardinality(Ids) = m_sessionCount
      /\ \A j \in Ids : m_sessionMap[j] \in Objects
  BY <1>1, <1>2, MapIds DEF IInv
<1>4. PICK t \in Nat : /\ t = Cardinality(client.todo) /\ t >= 1
                       /\ Cardinality(client.todo \ {k}) = t - 1
                       /\ (client.todo # {k} => t > 1) /\ (client.todo = {k} => t = 1)
  <2>1. /\ Cardinality(client.todo) \in Nat /\ Cardinality(client.todo \ {k}) \in Nat
        /\ Cardinality(client.todo \ {k}) = Cardinality(client.todo) - 1
    BY <1>1, <1>2, Visit DEF IInv
  <2>2. client.todo = {k} => Cardinality(client.todo) = 1
    BY FS_Singleton
  <2>3. client.todo # {k} => Cardinality(client.todo \ {k}) # 0
    <3>1. client.todo # {k} => client.todo \ {k} # {}
      BY <1>1
    <3>2. IsFiniteSet(client.todo \ {k})
      BY <1>2, MapIds, FS_Subset, FS_RemoveElement DEF IInv
    <3> QED BY <3>1, <3>2, FS_EmptySet
  <2> QED BY <2>1, <2>2, <2>3
<1>5. PICK o \in Objects : o = m_sessionMap[k]
  BY <1>3
<1>6. PICK isClosed \in BOOLEAN : isClosed <=> session[o].state = "Closed"
  OBVIOUS
<1>7. PICK n \in Nat : n = client.count + (IF isClosed THEN 1 ELSE 0)
  BY <1>2
<1>8. /\ isClosed => /\ socket' = [socket EXCEPT ![o] = "closed"]
                     /\ connects' = [connects EXCEPT ![o] = 0] /\ writes' = [writes EXCEPT ![o] = 0]
                     /\ aborts' = [aborts EXCEPT ![o] = aborts[o] + connects[o]]
                     /\ m_sessionPool' = Pool(Append(m_sessionPool, o))
      /\ ~isClosed => UNCHANGED <<socket, connects, writes, aborts, m_sessionPool>>
  BY <1>5, <1>6 DEF CloseSessions
<1>9. \/ n = m_sessionCount /\ m_sessionMap' = <<>> /\ client' = At("report")
      \/ /\ n # m_sessionCount /\ UNCHANGED m_sessionMap
         /\ client' = IF client.todo = {k} THEN [At("close") EXCEPT !.todo = Ids]
                      ELSE [client EXCEPT !.todo = client.todo \ {k}, !.count = n]
  BY <1>2, <1>5, <1>6, <1>7 DEF CloseSessions
<1>10. /\ client' \in ClientPlaces /\ client'.session = NoSession
       /\ client'.pc = IF n = m_sessionCount THEN "report" ELSE "close"
       /\ client'.pc = "close" =>
            \/ client'.todo = Ids /\ client'.count = 0
            \/ client'.todo = client.todo \ {k} /\ client'.count = n /\ client.todo # {k}
  <2>1. CASE n = m_sessionCount
    BY <1>9, <2>1, AtFields DEF ClientPcs
  <2>2. CASE n # m_sessionCount /\ client.todo = {k}
    <3>1. client' = [At("close") EXCEPT !.todo = Ids]
      BY <1>9, <2>2
    <3> QED BY <1>3, <2>2, <3>1, AtTodo DEF ClientPcs
  <2>3. CASE n # m_sessionCount /\ client.todo # {k}
    <3>1. client' = [client EXCEPT !.todo = client.todo \ {k}, !.count = n]
      BY <1>9, <2>3
    <3>2. client.todo \ {k} \in SUBSET Nat
      BY <1>2, <1>3
    <3>3. /\ client' \in ClientPlaces /\ client'.session = NoSession /\ client'.pc = "close"
          /\ client'.todo = client.todo \ {k} /\ client'.count = n
      BY <1>1, <1>2, <3>1, <3>2 DEF ClientPlaces
    <3> QED BY <2>3, <3>3
  <2> QED BY <2>1, <2>2, <2>3
<1>11. /\ m_sessionPool' \in Seq(Objects)
       /\ Len(m_sessionPool') \in Nat /\ Len(m_sessionPool') >= n
  <2>1. /\ m_sessionPool \in Seq(Objects) /\ Len(m_sessionPool) \in Nat
        /\ Len(m_sessionPool) >= client.count
    BY <1>1, LenProperties DEF IInv, TypeOK, Pooled
  <2>2. CASE ~isClosed
    BY <1>7, <1>8, <1>2, <2>1, <2>2
  <2>3. CASE isClosed
    <3>1. /\ Append(m_sessionPool, o) \in Seq(Objects)
          /\ Len(Append(m_sessionPool, o)) = Len(m_sessionPool) + 1
      BY <2>1, AppendProperties
    <3>2. n \in 0..m_sessionCount /\ Len(Append(m_sessionPool, o)) >= n
      BY <1>2, <1>7, <2>1, <2>3, <3>1
    <3>3. Pool(Append(m_sessionPool, o)) \in Seq(Objects) /\ Len(Pool(Append(m_sessionPool, o))) >= n
      BY <1>2, <3>1, <3>2, PoolCut
    <3> QED BY <1>8, <2>3, <3>3, LenProperties
  <2> QED BY <2>2, <2>3
<1>12. /\ socket' \in [Objects -> {"closed", "open", "connected"}]
       /\ connects' \in [Objects -> Nat] /\ writes' \in [Objects -> Nat] /\ aborts' \in [Objects -> Nat]
       /\ \A p \in Objects : p # o => socket'[p] = socket[p] /\ writes'[p] = writes[p]
       /\ isClosed => socket'[o] = "closed" /\ writes'[o] = 0
       /\ ~isClosed => socket'[o] = socket[o] /\ writes'[o] = writes[o]
  <2>1. /\ socket \in [Objects -> {"closed", "open", "connected"}]
        /\ connects \in [Objects -> Nat] /\ writes \in [Objects -> Nat] /\ aborts \in [Objects -> Nat]
    BY DEF IInv, TypeOK
  <2> QED BY <1>8, <2>1
<1>13. TypeOK'
  <2>1. /\ round' \in 1..(m_clientReconnectCount + 1)
        /\ m_sendCount' \in 0..(m_sessionCount * m_sessionSendCount)
        /\ session' \in [Objects -> SessionStates]
        /\ m_writeBuffer' \in [Objects -> Seq(Nat)] /\ m_sendBuffer' \in [Objects -> Nat]
        /\ wire' \in [Objects -> Seq(Nat)] /\ raced' \in BOOLEAN
    BY <1>1 DEF IInv, TypeOK
  <2>2. m_sessionMap' \in Seq(Objects)
    BY <1>9, EmptySeq DEF IInv, TypeOK
  <2> QED BY <1>1, <1>10, <1>11, <1>12, <2>1, <2>2, ClientTypes DEF IInv
<1>14. Turn'
  <2>1. CASE n = m_sessionCount
    BY <1>1, <1>2, <1>9, <1>10, <2>1 DEF Turn
  <2>2. CASE n # m_sessionCount
    <3>1. UNCHANGED <<m_sessionMap, Ids>>
      BY <1>9, <2>2 DEF Ids
    <3>2. client'.todo \subseteq Ids /\ client'.todo # {}
      BY <1>1, <1>2, <1>3, <1>10, <2>2
    <3>3. client'.count < m_sessionCount /\ client'.count + Cardinality(client'.todo) <= m_sessionCount
      <4>1. CASE client'.todo = Ids /\ client'.count = 0
        BY <1>2, <1>3, <4>1
      <4>2. CASE client'.todo = client.todo \ {k} /\ client'.count = n
        <5>1. n <= client.count + 1
          BY <1>2, <1>7
        <5> QED BY <1>2, <1>4, <2>2, <4>2, <5>1
      <4> QED BY <1>10, <2>2, <4>1, <4>2
    <3> QED BY <1>1, <1>2, <1>10, <2>2, <3>1, <3>2, <3>3 DEF Turn
  <2> QED BY <2>1, <2>2
<1>15. SendCounts'
  BY <1>10 DEF SendCounts
<1>16. Pooled'
  BY <1>2, <1>7, <1>10, <1>11 DEF Pooled
\* When the pass can still be the last, this session is shut as the others are.
<1>17. client.count + t = m_sessionCount /\ isClosed =>
         \A j \in Ids \ (client.todo \ {k}) :
           socket'[m_sessionMap[j]] = "closed" /\ session[m_sessionMap[j]].state = "Closed"
  <2> SUFFICES ASSUME client.count + t = m_sessionCount, isClosed, NEW j \in Ids, j = k \/ j \notin client.todo
               PROVE  socket'[m_sessionMap[j]] = "closed" /\ session[m_sessionMap[j]].state = "Closed"
    OBVIOUS
  <2>1. PICK p \in Objects : p = m_sessionMap[j]
    BY <1>3
  <2>2. CASE p = o
    BY <1>6, <1>12, <2>1, <2>2
  <2>3. CASE p # o
    <3>1. j \in Ids \ client.todo
      BY <1>5, <2>1, <2>3
    <3>2. socket[p] = "closed" /\ session[p].state = "Closed"
      BY <1>1, <1>4, <2>1, <3>1 DEF IInv, Sockets, AllShut
    <3> QED BY <1>12, <2>1, <2>3, <3>2
  <2> QED BY <2>2, <2>3
<1>18. ArrivesOnce' /\ \A p \in Objects : Arriving(p)' <=> Arriving(p)
  BY <1>1, ReadyStill
<1>19. \A j \in Ids : CheckedSocket(m_sessionMap[j])
  BY <1>1 DEF IInv, Sockets, Checked
<1>20. Sockets'
  <2>1. CASE n = m_sessionCount
    <3>1. Ids' = {} /\ client'.pc = "report"
      BY <1>9, <1>10, <2>1, EmptySeq DEF Ids
    <3>2. isClosed /\ client.count + t = m_sessionCount /\ t = 1
      BY <1>2, <1>4, <1>7, <2>1
    <3>3. client.todo = {k}
      BY <1>4, <3>2
    <3>4. \A j \in Ids : socket'[m_sessionMap[j]] = "closed" /\ session[m_sessionMap[j]].state = "Closed"
      BY <1>17, <3>2, <3>3
    <3>5. \A p \in Objects : socket'[p] = "closed" /\ session[p].state = "Closed"
      <4> SUFFICES ASSUME NEW p \in Objects, ~Mapped(p)
                   PROVE  socket'[p] = "closed" /\ session[p].state = "Closed"
        BY <3>4 DEF Mapped
      <4>1. socket[p] = "closed" /\ session[p].state = "Closed"
        BY <1>1 DEF IInv, Sockets, SocketOf
      <4>2. p # o
        BY <1>5 DEF Mapped
      <4> QED BY <1>12, <4>1, <4>2
    <3>6. \A p \in Objects : SocketOf(p)'
      <4> SUFFICES ASSUME NEW p \in Objects PROVE SocketOf(p)'
        OBVIOUS
      <4>1. SocketOf(p)
        BY DEF IInv, Sockets
      <4>2. ~(writes'[p] > 0) /\ ~Arriving(p)'
        <5>1. p = o => writes'[p] = 0 /\ ~Arriving(p)'
          BY <1>5, <1>12, <1>18, <1>19, <3>2 DEF CheckedSocket
        <5>2. p # o => writes'[p] = writes[p] /\ socket[p] = "closed"
          BY <1>12, <3>5
        <5> QED BY <1>18, <4>1, <5>1, <5>2 DEF SocketOf
      <4> QED BY <1>1, <3>5, <4>2 DEF SocketOf
    <3> QED BY <1>18, <3>1, <3>6 DEF Sockets, AllShut
  <2>2. CASE n # m_sessionCount
    <3>1. UNCHANGED <<m_sessionMap, Ids>> /\ client'.pc = "close"
          /\ \A p \in Objects : Mapped(p)' <=> Mapped(p)
      BY <1>9, <1>10, <2>2 DEF Ids, Mapped
    <3>2. \A p \in Objects : SocketOf(p)'
      <4> SUFFICES ASSUME NEW p \in Objects PROVE SocketOf(p)'
        OBVIOUS
      <4>1. SocketOf(p)
        BY DEF IInv, Sockets
      <4>2. CASE p # o \/ ~isClosed
        BY <1>1, <1>12, <1>18, <3>1, <4>1, <4>2 DEF SocketOf
      <4>3. CASE p = o /\ isClosed
        <5>1. socket'[p] = "closed" /\ session'[p].state = "Closed" /\ ~(writes'[p] > 0)
          BY <1>1, <1>6, <1>12, <4>3
        <5>2. ~Arriving(p)'
          BY <1>5, <1>18, <1>19, <4>3 DEF CheckedSocket
        <5> QED BY <5>1, <5>2 DEF SocketOf
      <4> QED BY <4>2, <4>3
    <3>3. \A j \in Ids : CheckedSocket(m_sessionMap[j])'
      <4> SUFFICES ASSUME NEW j \in Ids PROVE CheckedSocket(m_sessionMap[j])'
        OBVIOUS
      <4>1. PICK p \in Objects : p = m_sessionMap[j]
        BY <1>3
      <4>2. /\ session[p].state # "Connecting" /\ ~Arriving(p)'
            /\ socket'[p] \in {"connected", "closed"}
        BY <1>12, <1>18, <1>19, <4>1 DEF CheckedSocket
      <4> QED BY <1>1, <3>1, <4>1, <4>2 DEF CheckedSocket
    <3>4. AllShut'
      <4> SUFFICES ASSUME client'.count + Cardinality(client'.todo) = m_sessionCount,
                          NEW j \in Ids \ client'.todo
                   PROVE  socket'[m_sessionMap[j]] = "closed" /\ session'[m_sessionMap[j]].state = "Closed"
        BY <3>1 DEF AllShut
      <4>1. client'.todo = client.todo \ {k} /\ client'.count = n
        BY <1>10, <3>1
      <4>2. isClosed /\ client.count + t = m_sessionCount
        BY <1>2, <1>4, <1>7, <4>1
      <4> QED BY <1>1, <1>17, <4>1, <4>2
    <3> QED BY <1>18, <3>1, <3>2, <3>3, <3>4 DEF Sockets
  <2> QED BY <2>1, <2>2
<1>21. Wires'
  <2>1. \A p \in Objects : Fresh(p) => Fresh(p)'
    BY <1>1, <1>12 DEF Fresh
  <2>2. \A p \in Objects : Ascending(p)' <=> Ascending(p)
    BY <1>1 DEF Ascending
  <2>3. CASE n = m_sessionCount
    <3>1. Ids' = {} /\ client'.pc = "report"
      BY <1>9, <1>10, <2>3, EmptySeq DEF Ids
    <3> QED BY <1>1, <3>1 DEF IInv, Wires
  <2>4. CASE n # m_sessionCount
    <3>1. UNCHANGED <<m_sessionMap, Ids>> /\ client'.pc = "close"
      BY <1>9, <1>10, <2>4 DEF Ids
    <3>2. \A j \in Ids : Single(j)' => WireOf(j)'
      <4> SUFFICES ASSUME NEW j \in Ids, Single(j)' PROVE WireOf(j)'
        OBVIOUS
      <4>1. Single(j)
        BY <3>1 DEF Single
      <4>2. WireOf(j) /\ m_sessionMap[j] \in Objects
        BY <1>3, <4>1 DEF IInv, Wires
      <4> QED BY <2>1, <2>2, <3>1, <4>2 DEF WireOf
    <3> QED BY <1>1, <3>1, <3>2 DEF IInv, Wires
  <2> QED BY <2>3, <2>4
<1> QED BY <1>13, <1>14, <1>15, <1>16, <1>20, <1>21 DEF IInv

-----------------------------------------------------------------------------
LEMMA InitIInv == Init => IInv
<1> SUFFICES ASSUME Init PROVE IInv
  OBVIOUS
<1> USE DEF Init
<1>1. PICK pc \in {"connect", "done"} :
        /\ pc = (IF m_clientReconnectCount = 0 THEN "done" ELSE "connect")
        /\ client \in ClientPlaces /\ client.pc = pc
        /\ client.session = NoSession /\ client.todo = {} /\ client.count = 0
  BY AtFields DEF ClientPcs
<1>2. /\ Len(m_sessionMap) = 0 /\ Ids = {} /\ m_sessionMap \in Seq(Objects)
      /\ ready \in Seq(Completions) /\ DOMAIN ready = {}
  BY EmptySeq DEF Ids
<1>3. /\ m_sessionPool \in Seq(Objects) /\ Len(m_sessionPool) = m_sessionPoolSize
      /\ \A j \in DOMAIN m_sessionPool : m_sessionPool[j] = j
  <2>1. m_sessionPoolSize \in Nat /\ \A j \in 1..m_sessionPoolSize : j \in Objects
    BY ClientAssumption DEF Objects
  <2>2. [j \in 1..m_sessionPoolSize |-> j] \in Seq(Objects)
    BY <2>1, IsASeq
  <2>3. DOMAIN m_sessionPool = 1..m_sessionPoolSize
    OBVIOUS
  <2>4. Len(m_sessionPool) = m_sessionPoolSize
    BY <2>1
  <2> QED BY <2>2, <2>3, <2>4
<1>4. TypeOK
  <2>1. session \in [Objects -> SessionStates]
    <3>1. [state |-> "Closed", try |-> 0, cnt |-> 0] \in SessionStates
      BY ClientAssumption DEF SessionStates
    <3> QED BY <3>1
  <2>2. m_writeBuffer \in [Objects -> Seq(Nat)] /\ wire \in [Objects -> Seq(Nat)]
    BY EmptySeq
  <2>3. /\ m_sendBuffer \in [Objects -> Nat] /\ connects \in [Objects -> Nat]
        /\ writes \in [Objects -> Nat] /\ aborts \in [Objects -> Nat]
        /\ socket \in [Objects -> {"closed", "open", "connected"}]
    OBVIOUS
  <2>4. m_sendCount \in 0..(m_sessionCount * m_sessionSendCount)
    BY Times, ClientAssumption
  <2>5. round \in 1..(m_clientReconnectCount + 1)
    BY ClientAssumption
  <2> QED BY <1>1, <1>2, <1>3, <2>1, <2>2, <2>3, <2>4, <2>5 DEF TypeOK
<1>5. Turn
  BY <1>1, <1>2, ClientAssumption DEF Turn
<1>6. SendCounts
  BY <1>1 DEF SendCounts
<1>7. Pooled
  <2>1. Taken = 0
    BY <1>1, <1>2 DEF Taken
  <2>2. \A j \in DOMAIN m_sessionPool : m_sessionPool[j] = 0 + j
    BY <1>3, ClientAssumption
  <2>3. 0 + Len(m_sessionPool) >= m_sessionPoolSize /\ ~(round > 1)
    BY <1>3, ClientAssumption
  <2> QED BY <1>1, <1>2, <2>1, <2>2, <2>3 DEF Pooled
<1>8. Sockets
  BY <1>1, <1>2 DEF Sockets, SocketOf, ArrivesOnce, AllShut, Arriving
<1>9. Wires
  BY <1>2 DEF Wires, Fresh
<1> QED BY <1>4, <1>5, <1>6, <1>7, <1>8, <1>9 DEF IInv

LEMMA StutterIInv == ASSUME IInv, UNCHANGED vars PROVE IInv'
<1> USE DEF vars, buffers, network, causes
<1>1. TypeOK'
  BY DEF IInv, TypeOK
<1> QED BY <1>1, ClientStill, SocketsStill, WiresStill DEF IInv

LEMMA NextIInv == ASSUME IInv, [Next]_vars PROVE IInv'
<1>1. CASE ProcessClient
  BY <1>1, ConnectIInv, SetConnectingIInv, CheckSessionsIInv, TestSendIInv, SendIInv, WriteIInv,
     CloseSessionsIInv, ReportIInv DEF ProcessClient
<1>2. CASE Handlers
  BY <1>2, ConnectedIInv, ConnectFailedIInv, WriteCompletedIInv, SetClosedIInv DEF Handlers, OnConnect
<1>3. CASE \E o \in Objects : ConnectEnds(o) \/ WriteEnds(o) \/ AbortEnds(o)
  BY <1>3, ConnectEndsIInv, WriteEndsIInv, AbortEndsIInv
<1>4. CASE UNCHANGED vars
  BY <1>4, StutterIInv
<1> QED BY <1>1, <1>2, <1>3, <1>4 DEF Next

\* The client of the load generator keeps its sessions, sockets, counts and
\* buffers in step whatever its two threads and the network do
\* (LpClient.cpp:48-227, LpSession.cpp:104-163).
THEOREM ClientInvariant == Spec => []IInv
<1>1. Init => IInv
  BY InitIInv
<1>2. IInv /\ [Next]_vars => IInv'
  BY NextIInv
<1> QED BY <1>1, <1>2, PTL DEF Spec

\* Every variable has its type; m_sendCount is never more than the packets of
\* a round, and a session that Pop makes is one of those there are.
THEOREM ClientTypeOK == Spec => []TypeOK
<1>1. IInv => TypeOK
  BY DEF IInv
<1> QED BY <1>1, ClientInvariant, PTL

\* No socket leaks: an open one belongs to a session of the round, and between
\* rounds all are closed (LpClient.cpp:63-83, 139-163).
THEOREM ClientOpenIsMapped == Spec => []OpenIsMapped
<1>1. IInv => OpenIsMapped
  BY DEF IInv, Sockets, SocketOf, OpenIsMapped
<1> QED BY <1>1, ClientInvariant, PTL

\* TestSend writes to connected sockets only, though CheckSessions saw the
\* sessions one by one (LpClient.cpp:165-217).
THEOREM ClientSendsOnConnected == Spec => []SendsOnConnected
<1>1. IInv => SendsOnConnected
  BY Sending DEF IInv, Sockets, SocketOf, SendsOnConnected
<1> QED BY <1>1, ClientInvariant, PTL

\* The numbers of a connection never go back, however late the writes that
\* share m_sendBuffer read it (LpSession.cpp:110-120, 158-163).
THEOREM ClientWireInOrder == Spec => []WireInOrder
<1>1. ASSUME IInv PROVE WireInOrder
  <2> SUFFICES ASSUME NEW o \in Objects, Cardinality({k \in Ids : m_sessionMap[k] = o}) = 1,
                      NEW j \in 2..Len(wire[o])
               PROVE  wire[o][j - 1] <= wire[o][j]
    BY DEF WireInOrder
  <2>1. IsFiniteSet({k \in Ids : m_sessionMap[k] = o})
    <3>1. IsFiniteSet(Ids) /\ {k \in Ids : m_sessionMap[k] = o} \in SUBSET Ids
      BY <1>1, MapIds DEF IInv
    <3> QED BY <3>1, FS_Subset
  <2>2. PICK k : {i \in Ids : m_sessionMap[i] = o} = {k}
    BY <2>1, FS_Singleton
  <2>3. k \in Ids /\ m_sessionMap[k] = o /\ Single(k)
    BY <2>2 DEF Single
  <2>4. Fresh(o) \/ Ascending(o)
    BY <1>1, <2>3 DEF IInv, Wires, WireOf
  <2>5. Len(wire[o]) \in Nat /\ DOMAIN wire[o] = 1..Len(wire[o])
    BY <1>1, LenProperties DEF IInv, TypeOK
  <2>6. wire[o] # <<>>
    BY <2>5, EmptySeq
  <2>7. j - 1 \in 1..Len(wire[o]) /\ j \in 1..Len(wire[o]) /\ j - 1 <= j
    BY <2>5
  <2> QED BY <2>4, <2>5, <2>6, <2>7 DEF Fresh, Ascending
<1> QED BY <1>1, ClientInvariant, PTL
=============================================================================
