\* stop joins the thread: refuted by a plugin whose init fails.
SPECIFICATION Spec
CONSTANTS
  Caller = {c1}
  m1 = m1
  m2 = m2
  m3 = m3
  Module <- MCModule
  Object = {o1}
  NoModule = NoModule
  IdOf <- MCIdOf
\* Nobody is obliged to call the host, and a terminated process stops.
CHECK_DEADLOCK FALSE
INVARIANT StopJoins
