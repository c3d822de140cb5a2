SPECIFICATION Spec
CONSTANTS
  Task = {root, t1}
  Root = root
  NoTask = NoTask
  Syscall = {"clone", "exec"}
  NoSyscall = NoSyscall
  Effect <- MCEffect
  Policy <- MCPolicy
  ReadsMemory <- MCReadsMemory
  ExitCode = {0}
  ThreadExec = TRUE
  HasPassword = FALSE
  Asserts = TRUE
  Crashes = FALSE
SYMMETRY Symmetry
INVARIANT EntryAssertionHolds
\* GravelBox may hang here for another reason: see Tracer_hang.
CHECK_DEADLOCK FALSE
