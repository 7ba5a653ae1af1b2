\* A failed read is an error: refuted where the stream takes it for the end.
SPECIFICATION FairSpec
CONSTANTS
  Caller = {c1}
  Character = {"a", "b", "."}
  Letter = {"C", "D"}
  Home <- MCHome
  Relative <- MCRelative
  Text <- MCText
  Hole = "hole"
PROPERTY ReadErrorIsReported
