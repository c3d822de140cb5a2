------------------------------ MODULE ArgTypes ------------------------------
(***************************************************************************)
(* How a register value is shown to the rules and to the user: the         *)
(* argument types of src/parser/argtypes.cpp, which print to a C++ stream. *)
(*                                                                         *)
(* The stream keeps its number base from one argument to the next.  What   *)
(* is printed is a sequence of tokens: a number with the base it is        *)
(* printed in, a character of a string in the form it is shown in, or a    *)
(* fixed word.                                                             *)
(***************************************************************************)
EXTENDS Integers, Sequences

CONSTANTS
  Word,       \* 2^64, the number of register values and of addresses
  Half,       \* 2^32
  Page,       \* the page size that the code takes for granted, 4096
  kMaxStrLen  \* 32

ASSUME WordAssumption ==
  /\ Word \in Nat \ {0} /\ Half \in Nat \ {0} /\ Page \in Nat \ {0}
  /\ Page < Word /\ Word % Page = 0 /\ Word % Half = 0
ASSUME LengthAssumption == kMaxStrLen \in 1..Page

Value == 0 .. Word - 1

-----------------------------------------------------------------------------
(***************************************************************************)
(* The stream.                                                             *)
(***************************************************************************)
NewStream == [base |-> "dec", text |-> <<>>]

\* The words that can be printed; names of system calls come on top.
Words == {"dec", "hex", "[", "NULL", "quote", "...", "<fault>", "syscall", "syscall32",
          "nul", "\\\\", "\\n", "\\t", "\\x", "printable"}

Token(is, n) == [is |-> is, val |-> n]
Put(os, word) == [os EXCEPT !.text = Append(@, Token(word, 0))]
SetBase(os, base) == [os EXCEPT !.base = base]
PutNumber(os, n) == [os EXCEPT !.text = Append(@, Token(os.base, n))]

-----------------------------------------------------------------------------
(***************************************************************************)
(* Integers and pointers.                                                  *)
(***************************************************************************)
\* static_cast to an unsigned, or a signed, type of w values.
Cast(n, w) == n % w
SignedCast(n, w) == IF 2 * (n % w) < w THEN n % w ELSE (n % w) - w

WriteUnknown(os, value) == PutNumber(SetBase(Put(os, "["), "hex"), value)

\* Slip: the base is left as it was.
WriteSInt32KeepsBase(os, value) == PutNumber(os, SignedCast(value, Half))

WriteSInt32(os, value) == PutNumber(SetBase(os, "dec"), SignedCast(value, Half))
WriteUInt32(os, value) == PutNumber(SetBase(os, "dec"), Cast(value, Half))
WriteSInt64(os, value) == PutNumber(SetBase(os, "dec"), SignedCast(value, Word))
WriteUInt64(os, value) == PutNumber(SetBase(os, "dec"), value)

WritePtr(os, value) ==
  IF value = 0 THEN Put(os, "NULL") ELSE PutNumber(SetBase(os, "hex"), value)

-----------------------------------------------------------------------------
(***************************************************************************)
(* Strings.  A memory says which pages are mapped and what is at each      *)
(* address.                                                                *)
(***************************************************************************)
Char == {"nul", "backslash", "newline", "tab", "printable", "other"}

\* The iovecs: one, or two that meet at the end of a page.
Pieces(value) ==
  IF value \div Page = ((value + kMaxStrLen - 1) % Word) \div Page
  THEN <<[base |-> value, len |-> kMaxStrLen]>>
  ELSE LET first == Page - (value % Page)
       IN  <<[base |-> value, len |-> first],
             [base |-> ((value \div Page + 1) * Page) % Word, len |-> kMaxStrLen - first]>>

\* process_vm_readv() stops at the first piece it cannot read; how many bytes it
\* returns, 0 standing for the error EFAULT.
Mapped(memory, piece) == piece.base \div Page \in memory.pages

BytesRead(memory, pieces) ==
  CASE ~Mapped(memory, pieces[1]) -> 0
    [] Mapped(memory, pieces[1]) /\ Len(pieces) = 2 /\ ~Mapped(memory, pieces[2]) -> pieces[1].len
    [] OTHER -> kMaxStrLen

\* The i-th byte of the buffer.
Buffer(memory, pieces, i) ==
  IF i <= pieces[1].len THEN memory.at[pieces[1].base + i - 1]
  ELSE memory.at[pieces[2].base + i - 1 - pieces[1].len]

\* How a character is shown; "other" ones are escaped in hexadecimal.
Shown(c) ==
  CASE c = "backslash" -> "\\\\"
    [] c = "newline"   -> "\\n"
    [] c = "tab"       -> "\\t"
    [] c = "other"     -> "\\x"
    [] OTHER           -> c

\* How many of the bytes come before the first NUL.
BeforeNul(memory, pieces, bytes) ==
  CHOOSE k \in 0..bytes : /\ \A i \in 1..k : Buffer(memory, pieces, i) # "nul"
                          /\ k < bytes => Buffer(memory, pieces, k + 1) = "nul"

\* Up to the first NUL, with dots when the buffer has none and is full.
WriteStr(os, memory, value) ==
  LET pieces == Pieces(value)
      bytes  == BytesRead(memory, pieces)
      buf(i) == Buffer(memory, pieces, i)
      n      == BeforeNul(memory, pieces, bytes)
      chars  == [i \in 1..n |-> Token(Shown(buf(i)), 0)]
      quoted == <<Token("quote", 0)>> \o chars \o <<Token("quote", 0)>>
  IN  IF bytes = 0 THEN Put(os, "<fault>")
      ELSE [base |-> IF \E i \in 1..n : buf(i) = "other" THEN "hex" ELSE os.base,
            text |-> os.text \o quoted \o
                     (IF n = kMaxStrLen THEN <<Token("...", 0)>> ELSE <<>>)]

-----------------------------------------------------------------------------
\* The names under which definitions refer to the types (Parser::argtypes_).
ArgTypeNames == {"unknown", "flags", "int32_t", "uint32_t", "int64_t", "uint64_t",
                 "char*", "void*"}

Write(type, os, memory, value) ==
  CASE type = "unknown"               -> WriteUnknown(os, value)
    [] type \in {"flags", "uint64_t"} -> WriteUInt64(os, value)
    [] type = "int32_t"               -> WriteSInt32(os, value)
    [] type = "uint32_t"              -> WriteUInt32(os, value)
    [] type = "int64_t"               -> WriteSInt64(os, value)
    [] type = "char*"                 -> WriteStr(os, memory, value)
    [] type = "void*"                 -> WritePtr(os, value)
=============================================================================
