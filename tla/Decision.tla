------------------------------ MODULE Decision ------------------------------
(***************************************************************************)
(* What the configuration decides about one system call: Parser            *)
(* (src/parser/parser.cpp, syscalldef.h) turns the registers of the        *)
(* stopped task into a text, and FileConfig::get_action() matches the text *)
(* against the action groups.  Tracer knows only the outcome of this, as   *)
(* its Policy.                                                             *)
(*                                                                         *)
(* The text is kept in segments: the name of the call, and then what is    *)
(* printed for each argument.                                              *)
(***************************************************************************)
EXTENDS ArgTypes

CONSTANTS
  Task,
  Name,            \* the names of system calls
  NumArgs,         \* 6, the registers that carry arguments
  Files,           \* the definition files there may be
  RuleSets,        \* the rules of the configurations there may be; their
                   \* max_str_len is read, and nothing uses it
  Pattern,         \* the regular expressions in them
  Matches(_, _),   \* does a pattern match a text?
  Calls,           \* what the registers hold at an entry stop
  Memories,        \* what the memory of a task holds
  NoTask

Definition == [number : Value, name : Name, params : Seq(STRING)]
Tokens == [is : Words \cup Name, val : Int]
Actions == {"ALLOW", "DENY", "ASK"}
ActionGroup == [action : Actions, patterns : Seq(Pattern)]

ASSUME NumArgsAssumption == NumArgs \in Nat
ASSUME FilesAssumption == Files \subseteq Seq(Definition)
ASSUME RuleSetsAssumption ==
  RuleSets \subseteq [default : Actions, groups : Seq(ActionGroup), max_str_len : Nat]
ASSUME CallsAssumption ==
  Calls \subseteq [int80 : BOOLEAN, number : Value, args : [1..NumArgs -> Value]]
ASSUME MemoriesAssumption ==
  Memories \subseteq [pages : SUBSET Nat, at : [Value -> Char]]
ASSUME TaskAssumption == NoTask \notin Task

VARIABLES
  pc,              \* where the parser and get_action() are
  file, rules,     \* the files' contents: they never change
  loaded,          \* how many definitions of the file have been read
  syscall_map_,    \* the definitions, by number
  task, call,      \* the task that has stopped, and its registers
  memory,          \* what its memory holds
  target_,         \* the task whose memory the parser reads
  os,              \* the stream: its base, and the segments printed to it
  group, pattern,  \* the positions of the two loops of get_action()
  verdict          \* its result

inputVars == <<file, rules>>
mapVars == <<loaded, syscall_map_>>
stopVars == <<task, call, memory>>
matchVars == <<group, pattern, verdict>>
vars == <<pc, inputVars, mapVars, stopVars, target_, os, matchVars>>

NoCall == [int80 |-> FALSE, number |-> 0, args |-> [i \in 1..NumArgs |-> 0]]
Dead == [pages |-> {}, at |-> <<>>]

TypeOK ==
  /\ pc \in {"load", "idle", "stopped", "parse", "args", "match", "decided",
             "rejected", "assert_args", "terminate"}
  /\ file \in Files /\ rules \in RuleSets
  /\ loaded \in 0..Len(file)
  /\ DOMAIN syscall_map_ \subseteq Value
  /\ \A n \in DOMAIN syscall_map_ : syscall_map_[n] \in Definition
  /\ task \in Task \cup {NoTask} /\ target_ \in Task \cup {NoTask}
  /\ call \in Calls \cup {NoCall}
  /\ memory \in Memories \cup {Dead}
  /\ os \in [base : {"dec", "hex"}, text : Seq(Seq(Tokens))]
  /\ group \in 1 .. Len(rules.groups) + 1 /\ pattern \in Nat \ {0}
  /\ verdict \in Actions \cup {"none"}

Init ==
  /\ pc = "load"
  /\ file \in Files /\ rules \in RuleSets
  /\ loaded = 0 /\ syscall_map_ = [n \in {} |-> NoCall]
  /\ task = NoTask /\ call = NoCall /\ memory = Dead
  /\ target_ = NoTask /\ os = NewStream
  /\ group = 1 /\ pattern = 1 /\ verdict = "none"

GoTo(where) == pc' = where
-----------------------------------------------------------------------------
(***************************************************************************)
(* Parser::Parser(): read the definitions.  A definition that is not well  *)
(* formed stands for itself with an unknown type.                          *)
(***************************************************************************)
WellFormed(d) == \A i \in 1..Len(d.params) : d.params[i] \in ArgTypeNames

\* Slip: a second definition of a number is dropped in silence.
LoadDefinitionKeepsFirst ==
  /\ pc = "load" /\ loaded < Len(file)
  /\ LET d == file[loaded + 1] IN
       /\ WellFormed(d)
       /\ syscall_map_' = [n \in DOMAIN syscall_map_ \cup {d.number} |->
                             IF n \in DOMAIN syscall_map_ THEN syscall_map_[n] ELSE d]
  /\ loaded' = loaded + 1
  /\ UNCHANGED <<pc, inputVars, stopVars, target_, os, matchVars>>

LoadDefinition ==
  /\ pc = "load" /\ loaded < Len(file)
  /\ LET d == file[loaded + 1] IN
       /\ WellFormed(d) /\ d.number \notin DOMAIN syscall_map_
       /\ syscall_map_' = [n \in DOMAIN syscall_map_ \cup {d.number} |->
                             IF n = d.number THEN d ELSE syscall_map_[n]]
  /\ loaded' = loaded + 1
  /\ UNCHANGED <<pc, inputVars, stopVars, target_, os, matchVars>>

\* No such file, no JSON, an unknown type, or a number that is already defined.
RejectFile ==
  /\ pc = "load"
  /\ \/ loaded = 0
     \/ /\ loaded < Len(file)
        /\ LET d == file[loaded + 1]
           IN  ~WellFormed(d) \/ d.number \in DOMAIN syscall_map_
  /\ GoTo("rejected")
  /\ UNCHANGED <<inputVars, mapVars, stopVars, target_, os, matchVars>>

Loaded ==
  /\ pc = "load" /\ loaded = Len(file)
  /\ GoTo("idle")
  /\ UNCHANGED <<inputVars, mapVars, stopVars, target_, os, matchVars>>

-----------------------------------------------------------------------------
(***************************************************************************)
(* An entry stop, and the two callbacks of the tracing loop.               *)
(***************************************************************************)
Stop(t) ==
  /\ pc = "idle"
  /\ task' = t /\ call' \in Calls /\ memory' \in Memories
  /\ GoTo("stopped")
  /\ UNCHANGED <<inputVars, mapVars, target_, os, matchVars>>

\* The stopped task is killed.
Dies ==
  /\ pc \in {"stopped", "parse", "args", "match"} /\ memory # Dead
  /\ memory' = Dead
  /\ UNCHANGED <<pc, inputVars, mapVars, task, call, target_, os, matchVars>>

\* Slip: the parser is told of the first task only.
SetPidOnce ==
  /\ pc = "stopped"
  /\ target_' = IF target_ = NoTask THEN task ELSE target_
  /\ GoTo("parse")
  /\ UNCHANGED <<inputVars, mapVars, stopVars, os, matchVars>>

\* pid_callback(): Parser::setpid()
SetPid ==
  /\ pc = "stopped"
  /\ target_' = task
  /\ GoTo("parse")
  /\ UNCHANGED <<inputVars, mapVars, stopVars, os, matchVars>>

-----------------------------------------------------------------------------
(***************************************************************************)
(* Parser::operator(), which is noexcept.                                  *)
(***************************************************************************)
Undefined == call.int80 \/ call.number \notin DOMAIN syscall_map_

\* By number, with all the argument registers.
WriteNumber ==
  /\ pc = "parse" /\ Undefined
  /\ os' = [base |-> "hex",
            text |-> << <<Token(IF call.int80 THEN "syscall32" ELSE "syscall", 0)>>,
                        <<Token("dec", call.number)>> >>
                     \o [i \in 1..NumArgs |-> <<Token("hex", call.args[i])>>]]
  /\ GoTo("match")
  /\ UNCHANGED <<inputVars, mapVars, stopVars, target_, matchVars>>

\* SyscallDef::write() asserts that there are no more than NumArgs parameters;
\* make RELEASE=1 compiles the assertion out.
WriteName ==
  /\ pc = "parse" /\ ~Undefined
  /\ LET d == syscall_map_[call.number] IN
       \/ /\ Len(d.params) > NumArgs
          /\ GoTo("assert_args")
          /\ UNCHANGED os
       \/ /\ os' = [os EXCEPT !.text = << <<Token(d.name, 0)>> >>]
          /\ GoTo("args")
  /\ UNCHANGED <<inputVars, mapVars, stopVars, target_, matchVars>>

Params == syscall_map_[call.number].params

\* The next argument.  Past the last register the read is out of bounds, and
\* another task's memory may hold anything.  Any error of process_vm_readv() but
\* EFAULT is an exception that leaves a noexcept function: ESRCH when the task is
\* dead, and EPERM or ENOMEM when it is not.
WriteArg ==
  /\ pc = "args" /\ Len(os.text) <= Len(Params)
  /\ LET i    == Len(os.text)
         type == Params[i]
     IN  \E value \in IF i <= NumArgs THEN {call.args[i]} ELSE Value,
            seen \in IF target_ = task THEN {memory} ELSE Memories :
           \/ /\ type = "char*"
              /\ GoTo("terminate")
              /\ UNCHANGED os
           \/ /\ type = "char*" => seen # Dead
              /\ LET out == Write(type, [os EXCEPT !.text = <<>>], seen, value)
                 IN  os' = [base |-> out.base, text |-> Append(os.text, out.text)]
              /\ UNCHANGED pc
  /\ UNCHANGED <<inputVars, mapVars, stopVars, target_, matchVars>>

ArgsWritten ==
  /\ pc = "args" /\ Len(os.text) > Len(Params)
  /\ GoTo("match")
  /\ UNCHANGED <<inputVars, mapVars, stopVars, target_, os, matchVars>>

-----------------------------------------------------------------------------
(***************************************************************************)
(* FileConfig::get_action(): two nested loops.                             *)
(***************************************************************************)
InGroup == pc = "match" /\ group <= Len(rules.groups)
Patterns == rules.groups[group].patterns

Decide(what) ==
  /\ verdict' = what
  /\ GoTo("decided")
  /\ UNCHANGED <<inputVars, mapVars, stopVars, target_, os, group, pattern>>

MatchHits ==
  /\ InGroup /\ pattern <= Len(Patterns) /\ Matches(Patterns[pattern], os.text)
  /\ Decide(rules.groups[group].action)

\* regex_match() throws when a pattern takes too much time or memory on the
\* text, and get_action() is noexcept.
MatchThrows ==
  /\ InGroup /\ pattern <= Len(Patterns)
  /\ GoTo("terminate")
  /\ UNCHANGED <<inputVars, mapVars, stopVars, target_, os, matchVars>>

\* Slip: a pattern that does not match ends its group.
MatchMissesGroup ==
  /\ InGroup /\ pattern <= Len(Patterns) /\ ~Matches(Patterns[pattern], os.text)
  /\ group' = group + 1 /\ pattern' = 1
  /\ UNCHANGED <<pc, inputVars, mapVars, stopVars, target_, os, verdict>>

MatchMisses ==
  /\ InGroup /\ pattern <= Len(Patterns) /\ ~Matches(Patterns[pattern], os.text)
  /\ pattern' = pattern + 1
  /\ UNCHANGED <<pc, inputVars, mapVars, stopVars, target_, os, group, verdict>>

\* Slip: both loops advance to the next group.
NextGroupSkips ==
  /\ InGroup /\ pattern > Len(Patterns)
  /\ group' = group + 2 /\ pattern' = 1
  /\ UNCHANGED <<pc, inputVars, mapVars, stopVars, target_, os, verdict>>

NextGroup ==
  /\ InGroup /\ pattern > Len(Patterns)
  /\ group' = group + 1 /\ pattern' = 1
  /\ UNCHANGED <<pc, inputVars, mapVars, stopVars, target_, os, verdict>>

NothingMatches ==
  /\ pc = "match" /\ group > Len(rules.groups)
  /\ Decide(rules.default)

\* The callback goes on with the action; the text and the registers are local.
Return ==
  /\ pc = "decided"
  /\ GoTo("idle")
  /\ task' = NoTask /\ call' = NoCall /\ memory' = Dead /\ os' = NewStream
  /\ group' = 1 /\ pattern' = 1 /\ verdict' = "none"
  /\ UNCHANGED <<inputVars, mapVars, target_>>

Load == LoadDefinition \/ RejectFile \/ Loaded
Parse == SetPid \/ WriteNumber \/ WriteName \/ WriteArg \/ ArgsWritten
GetAction == MatchHits \/ MatchThrows \/ MatchMisses \/ NextGroup \/ NothingMatches

Next == Load \/ (\E t \in Task : Stop(t)) \/ Dies \/ Parse \/ GetAction \/ Return

Spec == Init /\ [][Next]_vars

-----------------------------------------------------------------------------
(***************************************************************************)
(* Properties.                                                             *)
(***************************************************************************)
Written == pc \in {"match", "decided"}
IsNamed == \E i \in 1..Len(file) : file[i].number = call.number /\ ~call.int80

\* The action is that of the first group with a pattern that matches, whatever
\* the other groups and the other patterns of that group do, and the default
\* when there is none ("earlier action groups will shadow later", README.md).
Hits == {g \in 1..Len(rules.groups) :
           \E p \in 1..Len(rules.groups[g].patterns) :
             Matches(rules.groups[g].patterns[p], os.text)}

FirstMatchDecides ==
  pc = "decided" =>
    IF Hits = {} THEN verdict = rules.default
    ELSE \E g \in Hits : verdict = rules.groups[g].action /\ \A h \in Hits : g <= h

\* A call is shown under a definition exactly when the file has one for its
\* number and it is no 32-bit call, whose numbers mean something else.  Every
\* definition in the file counts: none is shadowed by another one.
ShownAsDefined ==
  Written =>
    /\ \A i \in 1..Len(file) : file[i].number = call.number /\ ~call.int80 =>
         /\ os.text[1] = <<Token(file[i].name, 0)>>
         /\ Len(os.text) = 1 + Len(file[i].params)
    /\ ~IsNamed =>
         /\ os.text[1] = <<Token(IF call.int80 THEN "syscall32" ELSE "syscall", 0)>>
         /\ os.text[2] = <<Token("dec", call.number)>>
         /\ \A i \in 1..NumArgs : os.text[i + 2] = <<Token("hex", call.args[i])>>

\* A number is shown in the base and with the value that its type stands for,
\* whatever was printed before it on the same stream: narrow types are congruent
\* to the register, and signed types are within their range.
InRange(n, low, w) == low <= n /\ n < low + w
IsNumber(segment, base, n) == Len(segment) = 1 /\ segment[1] = Token(base, n)

Narrow(segment, value, low, w) ==
  /\ Len(segment) = 1 /\ segment[1].is = "dec"
  /\ InRange(segment[1].val, low, w)
  /\ (segment[1].val - value) % w = 0

ExactNumber(type, segment, value) ==
  /\ type = "int32_t"  => Narrow(segment, value, -(Half \div 2), Half)
  /\ type = "uint32_t" => Narrow(segment, value, 0, Half)
  /\ type = "int64_t"  => Narrow(segment, value, -(Word \div 2), Word)
  /\ type \in {"uint64_t", "flags"} => IsNumber(segment, "dec", value)
  /\ type = "void*" /\ value # 0 => IsNumber(segment, "hex", value)
  /\ type = "void*" /\ value = 0 => segment = <<Token("NULL", 0)>>
  /\ type = "unknown" => segment = <<Token("[", 0), Token("hex", value)>>

NumbersAreExact ==
  Written /\ ~Undefined =>
    \A i \in 1..Len(Params) : i <= NumArgs =>
      ExactNumber(Params[i], os.text[i + 1], call.args[i])

\* A string is what the stopped task has at that address, byte by byte: up to
\* the first NUL, the end of what is mapped, or kMaxStrLen bytes, and only then
\* with dots.  What another thread writes there later is not known.  The length
\* that the configuration asks for (README.md:146) plays no part.
Readable(mem, value, i) ==
  LET address == (value + i - 1) % Word
  IN  address \div Page \in mem.pages /\ mem.at[address] # "nul"

IsString(mem, segment, value) ==
  LET n == CHOOSE k \in 0..kMaxStrLen :
             /\ \A i \in 1..k : Readable(mem, value, i)
             /\ k < kMaxStrLen => ~Readable(mem, value, k + 1)
      chars == [i \in 1..n |-> Token(Shown(mem.at[(value + i - 1) % Word]), 0)]
  IN  IF value \div Page \notin mem.pages THEN segment = <<Token("<fault>", 0)>>
      ELSE segment = <<Token("quote", 0)>> \o chars \o <<Token("quote", 0)>>
                     \o IF n = kMaxStrLen THEN <<Token("...", 0)>> ELSE <<>>

StringsAreTheTasks ==
  Written /\ ~Undefined /\ memory # Dead =>
    \A i \in 1..Len(Params) : i <= NumArgs /\ Params[i] = "char*" =>
      IsString(memory, os.text[i + 1], call.args[i])
=============================================================================
