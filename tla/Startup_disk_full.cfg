SPECIFICATION Spec
CONSTANTS
  guarded = guarded
  plain = plain
  broken = broken
  k1 = k1
  p1 = p1
  Content = {guarded, plain, broken}
  Broken = {broken}
  Key = {k1, k2}
  Password = {p1}
  HashOf <- MCHashOf
  NoFile = NoFile
  Truncated = Truncated
  None = None
  MaxSigned = 2
PROPERTY SuccessMeansSigned
