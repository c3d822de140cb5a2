SPECIFICATION Spec
CONSTANTS
  Task = {root, t1, t2}
  Root = root
  NoTask = NoTask
  Syscall = {"open", "unlink", "clone", "exit", "exit_group"}
  NoSyscall = NoSyscall
  Effect <- MCEffect
  Policy <- MCPolicy
  ReadsMemory <- MCReadsMemory
  ExitCode = {0, 3}
  ThreadExec = FALSE
  HasPassword = TRUE
  Asserts = TRUE
  Crashes = FALSE
SYMMETRY Symmetry
INVARIANT RInv
INVARIANT TypeOK
INVARIANT Mediation
INVARIANT SyscallParity
INVARIANT NoLostStop
INVARIANT EntryAssertionHolds
INVARIANT ReturnsExitCodeOfChild
PROPERTY RefusalIsVisible
PROPERTY VerdictIsStable
PROPERTY RefinesMediator
