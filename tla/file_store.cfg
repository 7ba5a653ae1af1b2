\* Two callers; four roots, eleven relative paths, two texts.
SPECIFICATION Spec
CONSTANTS
  Caller = {c1, c2}
  Character = {"a", "b", "."}
  Letter = {"C", "D"}
  Home <- MCHome
  Relative <- MCRelative
  Text <- MCText
  Hole = "hole"
SYMMETRY Symmetry
INVARIANTS
  StaysWithinRoot
  NoOldInNew
PROPERTIES
  DescendingIsResolved
  YesMeansWritten
  YesMeansRead
