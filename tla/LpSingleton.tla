---------------------------- MODULE LpSingleton ----------------------------
(***************************************************************************)
(* LpUtility/LpSingleton: Instance(), with double-checked locking.  The    *)
(* first test of m_instance and the read behind it take no lock.           *)
(*                                                                         *)
(* m_instance is a plain pointer, so the two halves of "m_instance = new   *)
(* T" that other threads can see, the constructor's writes and the store   *)
(* of the pointer, may take effect in either order.                        *)
(***************************************************************************)
EXTENDS Naturals

CONSTANT Callers   \* threads that call Instance()

VARIABLES
  m_instance,      \* the pointer
  holder,          \* m_mutex: the threads inside
  allocated,       \* objects allocated so far: 1, 2, ...
  built,           \* those whose constructor has taken effect
  call,            \* per thread: where it is in Instance()
  object,          \* per thread: what new, then what Instance() returned
  pointerFirst     \* history: the pointer was stored before the object

singleton == <<m_instance, holder, allocated, built, call, object, pointerFirst>>

Null == 0

SingletonInit ==
  /\ m_instance = Null /\ holder = {}
  /\ allocated = 0 /\ built = {}
  /\ call = [t \in Callers |-> "out"] /\ object = [t \in Callers |-> Null]
  /\ pointerFirst = FALSE

Goes(t, from, to) == call[t] = from /\ call' = [call EXCEPT ![t] = to]

\* The unlocked test.
FirstTest(t) ==
  /\ Goes(t, "test", IF m_instance = Null THEN "lock" ELSE "return")
  /\ UNCHANGED <<m_instance, holder, allocated, built, object, pointerFirst>>

\* Variant: lock_guard as a temporary, which is gone at once.
LockInstanceGone(t) ==
  /\ Goes(t, "lock", "retest")
  /\ UNCHANGED <<m_instance, holder, allocated, built, object, pointerFirst>>

LockInstance(t) ==
  /\ holder = {} /\ Goes(t, "lock", "retest")
  /\ holder' = {t}
  /\ UNCHANGED <<m_instance, allocated, built, object, pointerFirst>>

\* Variant: the first test is the only one.
SecondTestForgotten(t) ==
  /\ Goes(t, "retest", "new")
  /\ allocated' = allocated + 1
  /\ object' = [object EXCEPT ![t] = allocated + 1]
  /\ UNCHANGED <<m_instance, holder, built, pointerFirst>>

\* The test under the lock, and operator new.
SecondTest(t) ==
  /\ Goes(t, "retest", IF m_instance = Null THEN "new" ELSE "unlock")
  /\ IF m_instance = Null
     THEN /\ allocated' = allocated + 1
          /\ object' = [object EXCEPT ![t] = allocated + 1]
     ELSE UNCHANGED <<allocated, object>>
  /\ UNCHANGED <<m_instance, holder, built, pointerFirst>>

\* The constructor takes effect ...
Construct(t) ==
  /\ object[t] \notin built
  /\ Goes(t, "new", IF m_instance = object[t] THEN "unlock" ELSE "new")
  /\ built' = built \cup {object[t]}
  /\ UNCHANGED <<m_instance, holder, allocated, object, pointerFirst>>

\* ... and the pointer is stored, in one order or the other.
Publish(t) ==
  /\ m_instance # object[t]
  /\ Goes(t, "new", IF object[t] \in built THEN "unlock" ELSE "new")
  /\ m_instance' = object[t]
  /\ pointerFirst' = (pointerFirst \/ object[t] \notin built)
  /\ UNCHANGED <<holder, allocated, built, object>>

UnlockInstance(t) ==
  /\ Goes(t, "unlock", "return")
  /\ holder' = holder \ {t}
  /\ UNCHANGED <<m_instance, allocated, built, object, pointerFirst>>

\* return m_instance, read once more without the lock.
Return(t) ==
  /\ Goes(t, "return", "returned")
  /\ object' = [object EXCEPT ![t] = m_instance]
  /\ UNCHANGED <<m_instance, holder, allocated, built, pointerFirst>>

\* All of Instance() but the constructor, whose effect the class adds to.
InInstance(t) ==
  \/ FirstTest(t) \/ LockInstance(t) \/ SecondTest(t) \/ Publish(t)
  \/ UnlockInstance(t) \/ Return(t)

Returned(t) == call[t] = "returned"

\* Which threads hold m_mutex, and how far the object is that one of them is
\* making: what the properties below rest on.
InLock(t) == call[t] \in {"retest", "new", "unlock"}
SingletonInv ==
  /\ allocated \in {0, 1} /\ m_instance \in {0, allocated} /\ built \in {{}, {allocated}}
  /\ built # {} \/ m_instance = 1 => allocated = 1
  /\ object \in [Callers -> {0, 1}] /\ pointerFirst \in BOOLEAN
  /\ holder = {t \in Callers : InLock(t)} /\ \A t, u \in holder : t = u
  /\ \A t \in Callers :
       /\ call[t] = "new" =>
            object[t] = 1 /\ allocated = 1 /\ ~(m_instance = 1 /\ built = {1})
       /\ call[t] \in {"unlock", "return", "returned"} => m_instance = 1
       /\ call[t] = "unlock" => built = {1}
       /\ Returned(t) => object[t] = 1
  /\ allocated = 1 /\ (m_instance = 0 \/ built = {}) => \E t \in Callers : call[t] = "new"
  /\ m_instance = 1 /\ ~pointerFirst => built = {1}

\* However many threads come first together, one object is made and all of
\* them get that one (LpSingleton.h:12-21).
OneInstance ==
  /\ allocated <= 1
  /\ \A t \in Callers : Returned(t) => object[t] = m_instance /\ m_instance # Null

\* The pointer can be out before the object is built, and then the unlocked
\* test hands out memory that no constructor has seen.  Two things limit that,
\* however the stores are ordered: a thread that has passed through the lock
\* leaves it with a built object, and an unbuilt one is in use only while its
\* maker is still in new (LpSingleton.h:13-21).
BuiltBehindLock ==
  /\ \A t \in Callers : call[t] = "unlock" => m_instance \in built
  /\ \A t \in Callers : Returned(t) /\ object[t] \notin built =>
       \E u \in Callers : call[u] = "new" /\ object[u] = object[t]
=============================================================================
