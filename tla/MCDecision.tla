----------------------------- MODULE MCDecision -----------------------------
(***************************************************************************)
(* Instances of Decision: addresses of four bits, pages of four bytes, and *)
(* strings of three, so that a string can cross a page and the end of the  *)
(* address space.  The definitions use every type.                         *)
(***************************************************************************)
EXTENDS Decision, TLC

Def(n, name, params) == [number |-> n, name |-> name, params |-> params]

Table == << Def(0, "read", <<"int32_t", "void*">>),
            Def(1, "lseek", <<"uint32_t", "int64_t">>),
            Def(2, "open", <<"char*", "flags">>),
            Def(3, "bpf", <<"unknown", "int32_t">>),
            Def(4, "mmap", <<"void*", "uint64_t">>) >>

TooMany == << Def(2, "open", <<"char*", "flags", "uint32_t">>) >>
Twice == << Def(0, "read", <<"int32_t">>), Def(0, "write", <<"int32_t">>) >>
UnknownType == << Def(0, "read", <<"size_t">>) >>

MCNames == {"read", "write", "lseek", "open", "bpf", "mmap"}

MCFiles == {Table, TooMany, Twice, UnknownType}

-----------------------------------------------------------------------------
MCPattern == {"any", "by number", "fault", "negative"}

\* Is there a token with P in the text?
Has(text, P(_)) == \E s \in 1..Len(text) : \E i \in 1..Len(text[s]) : P(text[s][i])

MCMatches(p, text) ==
  CASE p = "any"       -> TRUE
    [] p = "by number" -> text[1][1].is \in {"syscall", "syscall32"}
    [] p = "fault"     -> Has(text, LAMBDA token : token.is = "<fault>")
    [] p = "negative"  -> Has(text, LAMBDA token : token.val < 0)

Group(action, patterns) == [action |-> action, patterns |-> patterns]

\* The configurations ask for strings of two bytes.
MCRuleSets ==
  {[default |-> "ASK", max_str_len |-> 2, groups |-> groups] :
     groups \in { <<>>,
                  << Group("DENY", <<"by number", "fault">>), Group("ALLOW", <<"any">>) >>,
                  << Group("ALLOW", <<>>), Group("DENY", <<"fault", "negative">>),
                     Group("ALLOW", <<"negative", "fault">>) >> }}

-----------------------------------------------------------------------------
Call(int80, n, a, b) == [int80 |-> int80, number |-> n, args |-> <<a, b>>]

Edges == {0, 1, 3, 7, 8, 15}

MCCalls ==
  {Call(FALSE, 2, a, 9) : a \in Value}
    \cup {Call(FALSE, n, a, b) : n \in {0, 1, 3, 4, 5}, a \in Edges, b \in Edges}
    \cup {Call(TRUE, n, 3, 8) : n \in {2, 5}}

\* One page is mapped or two, in the middle or at either end, and what is in
\* them begins with one character and has its NUL somewhere.
MCMemories ==
  {[pages |-> pages, at |-> [v \in Value |-> IF v = nul THEN "nul"
                                            ELSE IF v = odd THEN "other" ELSE "printable"]] :
     pages \in {{1}, {1, 2}, {0, 3}, {3}}, nul \in {5, 8, 15}, odd \in {6, 13}}

MCSymmetry == Permutations(Task)
=============================================================================
