SPECIFICATION Spec
CONSTANTS
  Task = {root, t1, t2}
  Root = root
  NoTask = NoTask
  Syscall = {"open", "fork", "exec"}
  NoSyscall = NoSyscall
  Effect <- MCEffect
  Policy <- MCPolicy
  ReadsMemory <- MCReadsMemory
  ExitCode = {0}
  ThreadExec = FALSE
  HasPassword = FALSE
  Asserts = TRUE
  Crashes = FALSE
SYMMETRY Symmetry
INVARIANT IInv
INVARIANT Mediation
INVARIANT OnlyNewbornsLeftBehind
PROPERTY RefusalIsVisible
