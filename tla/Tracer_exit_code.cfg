SPECIFICATION Spec
CONSTANTS
  Task = {root, t1}
  Root = root
  NoTask = NoTask
  Syscall = {"fork", "exit_group"}
  NoSyscall = NoSyscall
  Effect <- MCEffect
  Policy <- MCPolicy
  ReadsMemory <- MCReadsMemory
  ExitCode = {0, 3}
  ThreadExec = FALSE
  HasPassword = FALSE
  Asserts = FALSE
  Crashes = FALSE
SYMMETRY Symmetry
INVARIANT ReturnsExitCodeOfChild
