SPECIFICATION FairSpec
CONSTANTS
  Task = {root, t1}
  Root = root
  NoTask = NoTask
  Syscall = {"clone", "exec"}
  NoSyscall = NoSyscall
  Effect <- MCEffect
  Policy <- MCPolicy
  ReadsMemory <- MCReadsMemory
  ExitCode = {0}
  ThreadExec = TRUE
  HasPassword = FALSE
  Asserts = FALSE
  Crashes = FALSE
PROPERTY EndsWhenAllGone
\* GravelBox and the target really may stop: that is what the run shows.
CHECK_DEADLOCK FALSE
