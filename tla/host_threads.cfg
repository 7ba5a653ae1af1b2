\* Two callers race; two plugin objects over three libraries with two ids.
\* Fair scheduling, for CallsReturn, so no symmetry.
SPECIFICATION FairSpec
CONSTANTS
  Caller = {c1, c2}
  m1 = m1
  m2 = m2
  m3 = m3
  Module <- MCModule
  Object = {o1, o2}
  NoModule = NoModule
  IdOf <- MCIdOf
\* Nobody is obliged to call the host, and a terminated process stops.
CHECK_DEADLOCK FALSE
INVARIANTS
  CodeIsMapped
  RefsMatchHandles
  UniqueOwner
  ListedIsLive
  AllStopBeforeUnload
  TerminatedByFailedInit
PROPERTIES
  LifecycleSpec
  CallsReturn
