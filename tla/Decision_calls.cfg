SPECIFICATION Spec
CONSTANTS
  Word = 16
  Half = 4
  Page = 4
  kMaxStrLen = 3
  Task = {t1, t2}
  NoTask = NoTask
  NumArgs = 2
  Name <- MCNames
  Files <- MCFiles
  RuleSets <- MCRuleSets
  Pattern <- MCPattern
  Matches <- MCMatches
  Calls <- MCCalls
  Memories <- MCMemories
SYMMETRY MCSymmetry
CHECK_DEADLOCK FALSE
INVARIANT TypeOK
INVARIANT FirstMatchDecides
INVARIANT ShownAsDefined
INVARIANT NumbersAreExact
INVARIANT StringsAreTheTasks
