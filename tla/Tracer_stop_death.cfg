SPECIFICATION Spec
CONSTANTS
  Task = {root, t1}
  Root = root
  NoTask = NoTask
  Syscall = {"open", "exit_group"}
  NoSyscall = NoSyscall
  Effect <- MCEffect
  Policy <- MCPolicy
  ReadsMemory <- MCReadsMemory
  ExitCode = {0}
  ThreadExec = FALSE
  HasPassword = FALSE
  Asserts = FALSE
  Crashes = FALSE
SYMMETRY Symmetry
INVARIANT DeathDuringStopTolerated
