\* Two plugins: one may still be starting when the other has failed.
SPECIFICATION FairSpec
CONSTANTS
  Plugin = {p1, p2}
  Level = {1, 2}
\* After unloading OBS may do nothing, and a terminated process stays so.
CHECK_DEADLOCK FALSE
INVARIANTS
  WindowIsFit
  NothingIsLeft
PROPERTIES
  StaysClosed
  LogIsFair
  UnloadEnds
