SPECIFICATION FairSpec
CONSTANTS
  plain = plain
  long = long
  escaped = escaped
  rest = rest
  Secret = {plain, long}
  Text = {plain, escaped, rest}
  DataLines <- MCDataLines
  Empty = Empty
  Misbehaves = FALSE
  MaxStatus = 1
PROPERTY ConstructorReturns
\* GravelBox really stops here: that is what the run shows.
CHECK_DEADLOCK FALSE
