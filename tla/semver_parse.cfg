\* Every text of up to six characters, over two digits; ints of six bits, so
\* that two digits may overflow.
SPECIFICATION FairSpec
CONSTANTS
  Digit = {"1", "9"}
  MaxLength = 6
  Limit = 32
\* The parser returns.
CHECK_DEADLOCK FALSE
INVARIANTS
  ParsesWhatIsWritten
PROPERTIES
  ParseEnds
