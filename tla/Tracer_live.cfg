SPECIFICATION FairSpec
CONSTANTS
  Task = {root, t1}
  Root = root
  NoTask = NoTask
  Syscall = {"open", "clone", "exec"}
  NoSyscall = NoSyscall
  Effect <- MCEffect
  Policy <- MCPolicy
  ReadsMemory <- MCReadsMemory
  ExitCode = {0}
  ThreadExec = TRUE
  HasPassword = TRUE
  Asserts = FALSE
  Crashes = TRUE
INVARIANT NoLostStop
INVARIANT KnownThread
INVARIANT LeavesNoTask
INVARIANT WaitInv
INVARIANT WaitIsAnswered
INVARIANT ExitCodeInv
PROPERTY EndsUnlessStale
PROPERTY StopIsHandled
