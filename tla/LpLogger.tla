------------------------------ MODULE LpLogger ------------------------------
(***************************************************************************)
(* LpUtility/LpLogger: any thread LOGs a line into a concurrent_queue, one *)
(* thread takes the lines out and prints them.  A line is what the module  *)
(* that logs it makes of it; time stamps and colours are left out.         *)
(***************************************************************************)
EXTENDS Naturals, Sequences

VARIABLES
  m_logQueue,
  printing,     \* the line Update has popped, if any: 0 or 1 lines
  printed       \* the console

logger == <<m_logQueue, printing, printed>>

LoggerInit == m_logQueue = <<>> /\ printing = <<>> /\ printed = <<>>

\* The line is made by the calling thread, and pushed.
LOG(line) ==
  /\ m_logQueue' = Append(m_logQueue, line)
  /\ UNCHANGED <<printing, printed>>

\* Variant: the last line waits for one behind it.
TryPopLate ==
  /\ printing = <<>> /\ Len(m_logQueue) > 1
  /\ printing' = <<Head(m_logQueue)>>
  /\ m_logQueue' = Tail(m_logQueue)
  /\ UNCHANGED printed

\* Update: try_pop, which does nothing on an empty queue ...
TryPop ==
  /\ printing = <<>> /\ m_logQueue # <<>>
  /\ printing' = <<Head(m_logQueue)>>
  /\ m_logQueue' = Tail(m_logQueue)
  /\ UNCHANGED printed

\* ... then Print.  Only one thread calls Update, so its mutex is free.
PrintLine ==
  /\ printing # <<>>
  /\ printed' = printed \o printing
  /\ printing' = <<>>
  /\ UNCHANGED m_logQueue

Update == TryPop \/ PrintLine
=============================================================================
