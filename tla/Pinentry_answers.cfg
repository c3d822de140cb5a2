SPECIFICATION FairSpec
CONSTANTS
  plain = plain
  long = long
  escaped = escaped
  rest = rest
  Secret = {plain, long}
  Text = {plain, escaped, rest}
  DataLines <- MCDataLines
  Empty = Empty
  Misbehaves = TRUE
  MaxStatus = 1
INVARIANT TypeOK
INVARIANT InStep
INVARIANT ResultIsTheUsers
PROPERTY ConstructorReturnsWithPinentry
PROPERTY OperationEnds
PROPERTY RefinesUserDialog
\* When pinentry does not start GravelBox really stops: see Pinentry_launch.
CHECK_DEADLOCK FALSE
