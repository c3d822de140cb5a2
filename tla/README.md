# GravelBox: specifications, model checking, proofs

GravelBox runs a program under `ptrace(2)`, stops it at every system call, and lets the
configuration or the user decide whether the call is made. This directory holds TLA+
modules of its parts, the TLC configurations that check them on small instances, and
theorems that TLAPS checks for all values of the constants. `PROJECT.json` lists the runs,
the source lines behind every definition, the deliberate mistakes ("slips") that each
property is tested against, the disagreements found, the hazards and the theorems.

Paths below are relative to the repository's `src/` directory.

## Inventory

| Component | State | Operations | Talks to | Hard part |
|---|---|---|---|---|
| Tracing loop: `trace/tracer.cpp`, `trace/tracer.h` | the map `thread_status`; the stop being handled | `waitpid(-1)`, the switch on the stop, the callback, `PTRACE_*` requests | kernel, parser, configuration, dialog | any task can stop, be born or die while one stop is handled; entry and exit stops look alike |
| Pinentry dialog: `ui/pinentry_ui.*`, `ui/pinentry_conn.*` | two pipes, the pinentry process, the position in the protocol | constructor, `confirm`, `getpin`, destructor | pinentry over pipes; main program by calls and exceptions | pinentry can fail to start, die, or answer something else |
| Process helpers: `utils.h` | none; `Fd` owns a descriptor | `spawn`, `check` | kernel | the child of `fork` fails on its own |
| Startup: `main.cpp`, `modules.cpp` | options, configuration, one or two dialogs | `main`, `run` | all others | the files change while the user types |
| Configuration: `config/file_config.*` | rules, text, key, password hash | constructor, `verify_signature`, `remove_password`, `verify_password`, `get_action` | files | text, key and hash must belong together |
| Signer: `sign.cpp` | text, key | `main` | files, a dialog | dies or fails between truncating and writing |
| System call parser: `parser/*` | definitions by number, target's pid, the base of the stream | constructor, `operator()`, one `write` per argument type | target's memory, tracing loop | memory of a task that may be dead; page borders, integer widths |
| Console dialog: `ui/pwd.*`, `ui/cli_ui.*`, `ui/test.cpp` | terminal mode | `Pwd`, `CliUI::ask` | terminal | terminal mode restored on every path |
| Logger, `debug_*.h`, `type_traits.h`, `exceptions.h`, example targets, build files | none | none that changes state | | |

What makes each correct:

- *Tracing loop.* No system call is executed that neither the configuration nor the user
  allowed; entry and exit are not confused; a refusal is seen as `EPERM`; no stop is
  forgotten; the loop ends when nothing is left and returns the child's exit code; a task
  that dies at a bad moment does no harm.
- *Dialog.* An answer is the user's answer to the question on the screen; no operation
  waits for ever; the process is reaped.
- *Startup, configuration, signer.* The rules in force are those that were signed with the
  key the user typed; the password can be checked with what was signed; every dialog is
  closed; success is reported only for a signature that is on the disk.
- *Parser.* What the rules and the user are shown is what the registers and the task's memory
  hold at the stop: the right definition, every number at its width and sign, every string up
  to its end. The first group with a pattern that matches decides.

The hazards, each with its line and the properties that watch it, are in `PROJECT.json`.

## Modules

```
Ptrace --> Tracer --> TracerInvariant --> TracerRefinement --> MCTracer   (runs Tracer_*)
                             |                 |    ^
                             v                 v    | INSTANCE ... WITH
                       TracerProofs --> RefinementProofs   Mediator
                             \--> TrackingProofs
Pinentry --> PinentryRefinement --> MCPinentry              (runs Pinentry_*)
   |              ^ INSTANCE ... WITH
   |              |  UserDialog
   |              \-----------> DialogProofs
   \--> PinentryProofs ------------/
Signing --> Startup --> StartupRefinement --> MCStartup     (runs Startup_*)
                              ^   \---------> StartupProofs
                              | INSTANCE ... WITH
                          SignedStart
ArgTypes --> Decision --> MCDecision                        (run Decision_calls)
                     \--> DecisionProofs
```

An arrow leads from a module to one that extends it. The modules named `...Proofs` hold the
theorems.

**Ptrace** is the environment of the tracing loop and no code of the repository: the life
of tasks, their stops, thread groups, `execve` with its change of thread ids, and what
`waitpid` and `PTRACE_SYSCALL` do. A task is in exactly one state `run[t]`; `seen[t]` says
whether its stop has been reported. Dead group leaders are reported last. A thread id is
used again only after it was reaped.

**Tracer** is `run_with_callbacks()` and the callback in `Tracer::run()`. `pc` is the
position in the loop; `child`, `wstatus`, `thread_status` and `args` are the variables of
those names; one action stands for the code between two points at which other tasks'
steps matter:

| Code | Action |
|---|---|
| first `waitpid`, `PTRACE_SETOPTIONS` | `AttachChild`, `SetOptions`, `ChildInitFails` |
| `waitpid(-1)`: a stop, an exit, pinentry's exit, `ECHILD` | `WaitStop`, `WaitExit`, `WaitPinentry`, `WaitFails` |
| the switch | `HandleSigstop`, `HandleOther`, `HandleEntry`, `HandleAllowedExit`, `HandleDeniedExit` |
| the callback | `ParseFails`, `GetAction`, `UserAnswers`, `EnterPassword`, `DialogFails` |
| what follows it | `Allow`, `Deny`, `Resume` |
| the `ESRCH` handler | the disjunct `TraceeGone` of the actions that make requests |
| `~PinentryUI`, whose `ok()` or assertion may fail, and `main` | `CloseUI` |

`fate` says how GravelBox ends; `answer` records what the user said of each task's current
call and is read by properties only. Adjacent requests about the same stopped task
(`PTRACE_GETREGS` and `PTRACE_SETREGS`) are one step: nothing but the task's death can come
between, and a request on a dead task fails whichever of the two it is. The system calls
are a few model values that differ in what they do to tasks (`Effect`), in the action
configured for them (`Policy`) and in whether the parser reads memory for them.

**Mediator** is what GravelBox promises, without stops, map or loop: a task asks for a call,
the configuration or the user decides, only a granted call executes and creates tasks, a
refused one returns `EPERM`, and tasks may die at any time. **TracerRefinement** maps `Tracer`
onto it. The phase of a task is read off the kernel's state of the task; `thread_status` is
looked at only in a system call stop, to tell whether the call has been decided. A wrong
entry in the map therefore shows as a step that `Mediator` does not allow: a call that executes
without being granted, a result that is not the call's, an answer that outlives its call.

**Pinentry** is one `PinentryUI` object, the process it forks, and the pipes. `Script(op)`
is the list of commands of each member function of `PinentryConn`. A line carries its kind,
what follows the keyword and, for the properties only, the command it answers. `DataLines` says
how pinentry writes a secret: on one `D` line or several, as it is or escaped. `recv()` undoes
none of this and lets each `D` line replace the one before, so what it hears of a secret is the
text of its last line (`Heard`). An error line has a code: the user's refusal, another one, 0, or
one that cannot be read, which `recv()` also takes for 0 and so for a success (`Successes`). When
pinentry answers a dialog by itself, which only a misbehaving one does, the history variable
`user` is "void". `holds` says that the constructor's `Fd` objects still keep pinentry's ends open
in GravelBox. The escapes that `StrType::write` puts for control characters keep a command on one
line, which the model takes for granted.

**UserDialog** is what a `PinentryUI` object promises to its user, without process, pipes or
protocol (`pinentry_ui.h:44-60`, "true if the user accepts the syscall"): an operation asks one
question, the user answers it at most once, the operation returns that answer, a password in the
form in which it is heard, or fails, and after a failure nothing is asked. A void dialog may have
any result but a refusal. **PinentryRefinement** maps `Pinentry` onto it: the phase is read off
`op` and `pc`, the answer and the result are variables of both. A dialog shown twice, or after an
exception, or a result that is not the answer, is a step that `UserDialog` does not allow.
**MCPinentry** has a password that pinentry writes as it is, and one that it escapes and splits.

**Signing** is `gravelbox_sign`, the two files, and the user who edits them. The signer writes to
a stream, which is flushed after success has been decided: the bytes reach the file if the disk
takes them and if the file still has its name (`attached`); the user may write an older
signature over it (`RestoreSignature`), or move another file into its place or remove it
(`ReplaceSignature`). **Startup** is `main()`, `run()` and the part of `FileConfig` that is about
keys: the configuration is read once, the signature file after each key typed, its length first
and its bytes later. HMAC is a free constructor, and only the signer makes signatures. All
configurations name the same signature file.

**SignedStart** is what the start promises to whoever signs configurations, without files and
dialogs: rules are read once; they are enforced only if they have been approved under the key
that is typed, or if approval is waived; the password of approved rules is demanded and that of
others never; and none of this changes while they are enforced. **StartupRefinement** maps
`Startup` onto it. GravelBox enforces from the moment at which `run()` is past the signature, and
the demand is the password hash that `FileConfig` has then.

**ArgTypes** is the argument types of the parser as operators on a C++ stream: the base that
the stream keeps from one argument to the next, casts to narrower and signed types, and
`StrType::write` with its one or two pieces, what `process_vm_readv` returns when a piece is
not mapped, and how each class of character is shown. What is printed is a sequence of tokens.
**Decision** is the way from the registers of a stopped task to the configured action: loading
the definitions, `setpid()`, `Parser::operator()` and `SyscallDef::write()` one argument at a
time, the two loops of `get_action()`, the death of the task in between, and the exceptions of
`process_vm_readv` and `regex_match`, which leave `noexcept` functions. A configuration has its
`max_str_len`, which no action uses.

| Code | Action |
|---|---|
| `Parser::Parser` | `LoadDefinition`, `RejectFile`, `Loaded` |
| the stop, `setpid()` | `Stop`, `SetPid` |
| `Parser::operator()`, `SyscallDef::write` | `WriteNumber`, `WriteName`, `WriteArg`, `ArgsWritten` |
| `get_action()` | `MatchHits`, `MatchThrows`, `MatchMisses`, `NextGroup`, `NothingMatches` |
| the callback goes on | `Return` |

`Tracer` sees of all this the function `Policy` and the action `ParseFails`; `Decision` sees
of the loop one stop after the other.

## Runs

| Run | Checks | Bounds, and what they leave room for |
|---|---|---|
| `Tracer_threads` | `TypeOK`, `RInv`, `Mediation`, `SyscallParity`, `NoLostStop`, `EntryAssertionHolds`, `ReturnsExitCodeOfChild`, `RefusalIsVisible`, `VerdictIsStable`, `RefinesMediator` | three tasks in one process, allowed, refused and asked calls, a password, two exit codes |
| `Tracer_forks` | `IInv`, `Mediation`, `RefusalIsVisible`, `OnlyNewbornsLeftBehind` | three processes; fork, exec, calls that read memory |
| `Tracer_live` | `NoLostStop`, `KnownThread`, `LeavesNoTask`, `WaitInv`, `WaitIsAnswered`, `ExitCodeInv`, `EndsUnlessStale`, `StopIsHandled` | two tasks of one process, `execve` by any thread, deaths of GravelBox and pinentry |
| `Pinentry_answers` | `TypeOK`, `InStep`, `ResultIsTheUsers`, `ConstructorReturnsWithPinentry`, `OperationEnds`, `RefinesUserDialog` | any sequence of operations, a secret on one `D` line, one escaped and split over two, and the empty one; error lines with the user's code, another, 0 and none; at most one `S` line per reply |
| `Startup_edits` | `TypeOK`, `IInv`, `EnforcedIsSigned`, `PasswordIsCheckable`, `UisAccountedFor`, `RefusalHasReason`, `RefinesSignedStart` | three configurations, two keys, two different signatures (`MaxSigned`), any number of edits and attempts, any flush may fail |
| `Decision_calls` | `TypeOK`, `FirstMatchDecides`, `ShownAsDefined`, `NumbersAreExact`, `StringsAreTheTasks` | `Word` 16, `Half` 4, `Page` 4, `kMaxStrLen` 3, two registers, two tasks, four definition files, three lists of groups, `max_str_len` 2 |

Three tasks are enough for one that is handled, one that dies and one that is born at the
same time; a creator, its child and a bystander. No counter is bounded: thread ids are
used again, operations are repeated without end, and the state spaces are finite. The only
bounds are `MaxStatus` (an `S` line is skipped, one is as good as many) and `MaxSigned`
(two signatures suffice for a current and a stale one).

In `Decision_calls` a string starts at every address there is: it lies inside a page, ends at
its border, crosses it by one byte or two, and wraps around the end of the address space. One
page is mapped or two, so the first or the second piece can be the one that cannot be read. A
half word of four values has both signs and makes the cast to 32 bits lose something. The four
files are a good one that uses every type, one with more parameters than registers, one with
a number defined twice and one with an unknown type. The group lists include an empty list, an
empty group, a group whose first pattern misses, and patterns that both of two groups have.
Both tasks stop again and again, so the second stop of the parser is another task's.

Runs that find a disagreement with what the repository says of itself:

| Run | Says | Does |
|---|---|---|
| `Tracer_assert` | `tracer.cpp:114`: a `USERSPACE` thread's stop is an entry stop | after `execve` by another thread than the leader it is an exit stop |
| `Tracer_hang` | `tracer.h:20`: "Return after the child process exits" | after such an `execve` the loop waits for ever |
| `Tracer_exit_code` | `tracer.h:24`: "child process exit code" | the code of the task reaped last |
| `Tracer_stop_death` | `tracer.cpp:164`: "tracee died during stop", go on | a death noticed by the parser ends GravelBox |
| `Pinentry_launch` | `utils.h:61`: "@throw system_error if `fork()` or `exec` fails" | the constructor waits for ever |
| `Startup_disk_full` | `sign.cpp:73`: "signed successfully" | the signature file may be empty, another one, or gone |

Three more disagreements have no run of their own: the property that a passing run checks has
to leave room for what the code does, and says so.

| Run | Says | Does |
|---|---|---|
| `Pinentry_answers`, `ResultIsTheUsers` | `pinentry_conn.h:89`: "The password entered by the user" | the last `D` line of it, with its escapes: `Heard` |
| `Pinentry_answers`, `ResultIsTheUsers` | `pinentry_conn.h:163`: "Assert that operation is successful." | an error line with the code 0, or with none, is a success: the exception `user = "void"` |
| `Decision_calls`, `StringsAreTheTasks` | `README.md:147`: `max-string-length` is "The maximum number of characters to display" | the maximum is `kMaxStrLen`: the property speaks of that |

`OnlyNewbornsLeftBehind` is as much as the code gives: when a parent dies before its forked
child's first stop was reported, the map becomes empty and GravelBox returns, which kills
the child. No document promises otherwise, so it is stated as the exception in a property
that holds.

`LeavesNoTask` is about GravelBox's own end, by a signal, an exception or `SIGPIPE`, at any
moment: `PTRACE_O_EXITKILL` takes every task along. Before that option is set there is only the
child, which has not got past its own `SIGSTOP`.

`ReturnsExitCodeOfChild` holds in `Tracer_threads` because there is one process only; it is
proved for every target that does not fork.

`WaitIsAnswered` says that GravelBox and the tasks never all wait for one another: whenever the
loop is in `waitpid` there is a stop or an exit to report, or a task under way that will bring
one. TLC's own deadlock check cannot see this in a run where GravelBox may be killed at any
moment. The exception in the property is the thread id that `Tracer_hang`
shows to stay in the map.

`EndsUnlessStale` is what remains of `EndsWhenAllGone` when any thread may call `execve`:
the loop fails to end only if the map names a thread id that is no more.

`CHECK_DEADLOCK FALSE` stands in `Pinentry_answers` and `Pinentry_launch`, where a pinentry
that fails to start stops everything; in `Tracer_assert` and `Tracer_hang`, where the
loop really blocks; and in `Decision_calls`, where GravelBox stops for good when it rejects the
definitions, fails the assertion about the parameters, or terminates.

`SuccessMeansSigned` is not among the properties of `Startup_edits`: the signer cannot know what
became of its bytes. What holds is on the reader's side: whatever the signer leaves behind,
GravelBox enforces only what was signed (`EnforcedIsSigned`, `RefinesSignedStart`) and refuses an
empty or missing file (`RefusalHasReason`).

### Fairness

`Tracer!FairSpec`: GravelBox's own steps are weakly fair, which says that its process is
scheduled; the dialog is weakly fair, which says that the user answers; and a password
dialog that comes up again and again is not answered wrongly for ever. Nothing is assumed
of the target: a program that runs for ever is allowed to. `Pinentry!FairSpec`: GravelBox,
pinentry and the user each make their steps; nothing makes pinentry die, and nothing makes
GravelBox begin another operation. `Startup` has no liveness property: its key dialog may go
on as long as the user likes. `Decision` has none either: its loops run over finite lists.

## Proofs

### The tracing loop

For any set of tasks, any policy, any set of calls and exit codes. `TracerProofs` and
`TrackingProofs` prove without further assumption, so with `execve` by any thread and with
GravelBox killed at any moment:

- `TypeCorrect`, `NoLostStopHolds`, `LeavesNoTaskHolds`;
- `KnownThreadHolds`: `thread_status.at()` never throws;
- `OnlyNewbornsLeftBehindHolds`;
- `WaitInvHolds` and `WaitIsAnsweredHolds`;
- `ExitCodeInvHolds` and `ReturnsExitCodeOfChildHolds` for targets that create no process
  (`NoFork`). `Tracer_exit_code` shows that this is needed.

`TracerProofs` proves `MediationHolds`, `SyscallParityHolds`, `EntryAssertionCorrect`,
`RefusalIsVisibleHolds` and `VerdictIsStableHolds`, and `TrackingProofs` proves
`WaitAlwaysAnswered`, under `~ThreadExec`: no thread but a group's leader calls `execve`.
`Tracer_assert` shows that the assumption is needed for `EntryAssertionHolds`; the same confusion
of entry and exit breaks the other properties of system calls, and `Tracer_hang` ends where
`WaitAlwaysAnswered` fails.

None of the properties is inductive. There are three invariants, in `TracerInvariant`:

- `IInv` is about the state of each task, under `~ThreadExec`. While a stop is handled its task
  stays in the stop that was reported unless it is killed (`ChildStaysStopped`); a stop that was
  reported belongs to the task being handled (`ReportedIsHandled`); and `StatusAgrees` says, for
  each state a task can be in, what the map must say of it and what `orig_rax`, `rax` and the
  user's answer must be. The parts that `NoLostStop` and `LeavesNoTask` rest on are inductive
  without the assumption.
- `TrackInv` is about *whether* the map knows a task, not about what it says of it, and needs no
  assumption. A task that runs has been entered (`Entered`). When a thread calls `execve` it
  goes on under its leader's id, and the kernel no longer reports its own; so the id must be
  known under which it goes on. It is, because the leader of every task is in the map, dead or
  alive, until the group's other threads have been reaped (`LeaderTracked`). A task resumed from
  its first stop is in the map (`ChildIsStopped`), and the loop returns with an empty one.
- `WaitInv` adds what `waitpid` waits for: the loop goes on only with a task in the map
  (`LoopHasTask`), no stop was reported and left (`ReportedIsHandled`), and an `execve` in progress
  waits for dead threads only, none being born any more (`ExecKillsOthers`). From there:
  a task in the map is in a stop not yet reported, or runs, or is dead; a dead leader that is not
  reported has another thread in its group, of which the same is true; and an `execve` waits for
  a thread that can be reaped or for nobody.

`ExitCodeInv` adds to `TrackInv`, for a single process, that the child stays in the map until it is
reaped (`RootTracked`). It is its group's leader, hence reaped last, so that the code returned is
the child's (`ReturnedWithCode`).

Every invariant is checked by a run before it is proved: `IInv` in `Tracer_forks` and, as part
of `RInv`, in `Tracer_threads`; `WaitInv`, with `TrackInv` in it, and `ExitCodeInv` in
`Tracer_live`. The proofs have one lemma for each action, with the tasks' steps separate from
GravelBox's. For `TrackInv` and `WaitInv`, `TaskStepEffect` and `StepEffect` first sum up what any
step can do to a task and to the map; the invariants follow from that.

`RefinementProofs`, under `~ThreadExec`: `RefinesMediatorHolds`, the loop implements
`Mediator`. The mapping needs more than `IInv`, because the abstract state includes what the
user said and what a task has got: `RInv` adds that an answer is recorded exactly as far as the
callback has come (`AnswerAgrees`), that a refusal has a reason (`DenyAgrees`), and that a free
thread id starts afresh (`FreeIsFresh`). `RInvHolds` is proved first. Then each action is shown
to be a step of `Mediator` or to change nothing that `Mediator` speaks of. The lemmas speak of
the *view* of a task, its phase, call, answer and result, and of the effect of a step on the
views of all tasks; most steps of the loop change no view.

### The dialog

`PinentryProofs`, for any secrets, any way of writing them on `D` lines, any number of status
lines, and a pinentry that may misbehave or die at any time: `TypeCorrect`, `InStepHolds`,
`ResultIsTheUsersHolds`, which says of a password that it is the last line of what the user typed
(`Heard`). `DataLinesAssumption` says that there is at least one line. `InStep` is not
inductive, as it does not say where a reply ends. The invariant `PInv` joins the lines in the
pipe and those that pinentry has yet to write (`Coming`) and says that, while GravelBox waits and
all is well, they are a reply (`ReplyOK`): about the command of the moment, with the first OK or
error as its last line, and with an end that fits what the user did and the data seen so far.
Writing a line leaves `Coming` as it is, taking one removes its first line, and a death cuts it
short; the lemmas show that a reply stays a reply under each.

`DialogProofs`: `RefinesUserDialogHolds`, `Pinentry` implements `UserDialog`. The invariant `DInv` adds
to `PInv` that the user has not acted before pinentry has read the dialog's command (`ActsOnce`),
which is the last of its operation; that no dialog is on its way to pinentry once the object is
being destroyed (`OnlyBye`), which holds because an exception finds the pipe to a living pinentry
empty; and that an operation under way has returned nothing (`NoResultYet`). With it every step of
GravelBox, pinentry and the user is a step of `UserDialog` or changes nothing of it.

### Startup and signer

`StartupProofs`, for any sets of contents, keys and passwords and any number of edits:
`TypeCorrect`, `Invariance`, `EnforcedIsSignedHolds`, `PasswordIsCheckableHolds`,
`UisAccountedForHolds`, `RefusalHasReasonHolds` and `RefinesSignedStartHolds`, whether the disk
takes the signatures or not. The argument: every signature on
the disk was made by the signer (`SignatureIsMade`), the text that is verified is the one
that the rules came from (`TextIsLoaded`), two MACs are equal only when key and data are
(`VerifiedIsSigned`), and what was signed is never forgotten. For the dialogs, the state of
each `PinentryUI` object follows the position in `run()` (`UiInv`); for a refusal, the file that
is compared is there (`ReadsFile`). `FileAssumption` says only that a missing or
damaged file is not a signature.

For the refinement, `HashIsKept` adds that the password hash is the one of the text that was read,
until the text is verified or given up. The step that verifies, or gives up, is then the abstract
`Enforce`: of signed rules with the key that verified them and the password they set, of unsigned
ones with neither. Before it the mapping shows no key, and after it no action changes one.

### Parser and rules

`DecisionProofs`, for any word and page size, any `kMaxStrLen` up to a page, any definitions,
rules, pattern language, registers and memories: `TypeCorrect`, `FirstMatchDecidesHolds`,
`ShownAsDefinedHolds`, `NumbersAreExactHolds`, `StringsAreTheTasksHolds`. The invariant says
that the map holds exactly the definitions read so far (`MapAgrees`), that the text so far is
what the definition calls for (`TextAgrees`), and that every pattern passed over does not match
(`MatchAgrees`). The arithmetic is in lemmas: division with remainder is unique
(`DivisionIsUnique`), a cast keeps the value at its width (`SignedCastIsExact`), the pieces cover
exactly the addresses of the string, in order, without crossing a page and across the end of the
address space (`PiecesCover`), the bytes that were read are those addresses' (`BufferIsMemory`),
and the loop over the buffer finds the same end as the definition of a string in memory
(`SameLength`).

### Only model-checked

Liveness, which needs `ENABLED` and fairness: `EndsUnlessStale`, `StopIsHandled`,
`ConstructorReturnsWithPinentry`, `OperationEnds`. Every invariant, action property and refinement
that a passing run checks is also a theorem.

## Not modelled

- Which texts a regular expression matches: `Matches` is any relation between patterns and texts.
  Separators, brackets and quotes between the tokens, and characters beyond their class.
- What another thread writes into the memory of a stopped task between the parser's reading and
  the kernel's. GravelBox does nothing about it, and no document says that it does: the property
  about strings speaks of the memory at the stop.
- The read end of the pipe from pinentry, which `pinentry_ui.cpp:20` makes without `O_CLOEXEC`:
  a second pinentry and the target inherit it, and could take lines, a password among them,
  before GravelBox does. `Pinentry` has one reader; all that is said of the dialog is said under
  the assumption that nobody else reads.
- Tasks created with `CLONE_UNTRACED`, which the kernel does not attach: nothing stops their system
  calls, and GravelBox, which sets no other barrier, never hears of them. `Ptrace` attaches every new
  task, so what is said of the tracing loop is said of targets that do not ask for this.
- `README.md:149` of the repository writes `action-group` where the code reads `action-groups`:
  not a matter of behaviour over time.
- More than six parameters of a definition: the loader accepts it and the first such call fails
  the assertion or, with `RELEASE=1`, reads past the array. `Decision` has both outcomes; a
  definition file with this defect is nobody's promise, so no property forbids them.
- System calls of the child between its `SIGSTOP` and its own `execve` (redirection of the
  standard streams) are ordinary calls of the root task; those before it are not traced.
- `SIGCONT` sent to a task that was just born, which removes its `SIGSTOP`.
- Kernels without `PTRACE_O_EXITKILL`, for which the build warns that the option is not set.
- The assertion in `tracer.cpp:73` about the child's first stop: a signal that reaches the
  child between `PTRACE_TRACEME` and its own `SIGSTOP` makes it fail. The model has that end
  (`assert_stop`), and no property forbids it.
- What the kernel does to a task with a signal that GravelBox suppresses: the code never
  delivers one, and no document says what it should do.
- The console dialog (`ui/pwd.*`, `ui/cli_ui.*`, `ui/test.cpp`). It is in no program that can be
  built: `gravelbox` does not link it, the assertion in `cli_ui.h:26` asks of `CliUI` a member
  function it does not have, so `cli_ui.cpp` and `test.cpp` do not compile, and `ui/Makefile`
  names files that do not exist.
- The logger, the debugging stand-ins, concepts, exception classes, example targets and build
  files, for the reasons given in `PROJECT.json`.

## Plan

1. *Done:* tracing loop, dialog, startup and signer, parser and rules, with their proofs; the
   abstract mediator, dialog and start, each with its refinement checked and proved;
   which tasks the map knows, and that `waitpid` is answered, whoever calls `execve`.
2. *Next:* what remains of mediation for the other tasks when one thread has called `execve`;
   several readers of pinentry's pipe; the console dialog, should it become part of a program; a composition in which `Policy` is
   replaced by `Decision`, too large for TLC as it is.
