--------------------------- MODULE DecisionProofs ---------------------------
(***************************************************************************)
(* Proofs about Decision, for any width of registers, size of pages and    *)
(* length of strings, any definitions, any rules and any memory: which     *)
(* action is chosen, and what is shown of the call that it is chosen for.  *)
(***************************************************************************)
EXTENDS Decision, TLAPS, WellFoundedInduction, SequenceTheorems

-----------------------------------------------------------------------------
(***************************************************************************)
(* Division.                                                               *)
(***************************************************************************)
LEMMA Remainder ==
  ASSUME NEW n \in Int, NEW w \in Nat \ {0}
  PROVE  n % w \in 0 .. w - 1
OBVIOUS

LEMMA Division ==
  ASSUME NEW n \in Int, NEW w \in Nat \ {0}
  PROVE  n \div w \in Int /\ n = w * (n \div w) + (n % w)
OBVIOUS

LEMMA AtLeastOnce ==
  ASSUME NEW q \in Int, NEW w \in Nat \ {0}, q >= 1
  PROVE  w * q >= w
OBVIOUS

\* There is one way to divide.
LEMMA DivisionIsUnique ==
  ASSUME NEW q \in Int, NEW w \in Nat \ {0}, NEW r \in 0 .. w - 1
  PROVE  (w * q + r) \div w = q /\ (w * q + r) % w = r
<1> DEFINE n == w * q + r
           d == n \div w
           s == n % w
<1>0. n \in Int
  OBVIOUS
<1>1. d \in Int /\ n = w * d + s /\ s \in 0 .. w - 1
  BY <1>0, Division, Remainder
<1>2. w * (q - d) = s - r /\ w * (d - q) = r - s
  BY <1>1
<1>3. q - d >= 1 => w * (q - d) >= w
  BY <1>1, AtLeastOnce
<1>4. d - q >= 1 => w * (d - q) >= w
  BY <1>1, AtLeastOnce
<1>5. ~(q - d >= 1) /\ ~(d - q >= 1)
  <2> HIDE DEF n, d, s
  <2> QED BY <1>1, <1>2, <1>3, <1>4
<1>6. d = q
  BY <1>1, <1>5
<1>7. s = r
  BY <1>1, <1>2, <1>6
<1> QED BY <1>6, <1>7

LEMMA MultipleOf ==
  ASSUME NEW q \in Int, NEW w \in Nat \ {0}
  PROVE  (w * q) % w = 0
<1>1. w * q + 0 = w * q
  OBVIOUS
<1> QED BY <1>1, DivisionIsUnique

LEMMA ValueIsReduced ==
  ASSUME NEW w \in Nat \ {0}, NEW n \in 0 .. w - 1
  PROVE  n % w = n
OBVIOUS

-----------------------------------------------------------------------------
(***************************************************************************)
(* The casts of argtypes.cpp.                                              *)
(***************************************************************************)
LEMMA CastIsExact ==
  ASSUME NEW n \in Int, NEW w \in Nat \ {0}
  PROVE  /\ Cast(n, w) \in Int /\ InRange(Cast(n, w), 0, w)
         /\ (Cast(n, w) - n) % w = 0
<1> DEFINE q == -(n \div w)
<1>1. q \in Int /\ n % w \in 0 .. w - 1 /\ (n % w) - n = w * q
  BY Division, Remainder
<1>2. ((n % w) - n) % w = 0
  BY <1>1, MultipleOf
<1> QED BY <1>1, <1>2 DEF Cast, InRange

LEMMA SignedCastIsExact ==
  ASSUME NEW n \in Int, NEW w \in Nat \ {0}
  PROVE  /\ SignedCast(n, w) \in Int /\ InRange(SignedCast(n, w), -(w \div 2), w)
         /\ (SignedCast(n, w) - n) % w = 0
<1>1. w \div 2 \in Nat /\ (w = 2 * (w \div 2) \/ w = 2 * (w \div 2) + 1)
  OBVIOUS
<1>2. SignedCast(n, w) \in Int /\ InRange(SignedCast(n, w), -(w \div 2), w)
  BY <1>1, Remainder DEF SignedCast, InRange
<1>3. ((n % w) - n) % w = 0
  BY CastIsExact DEF Cast
<1>4. ((n % w) - w - n) % w = 0
  <2> DEFINE q == -(n \div w) - 1
  <2>1. q \in Int /\ (n % w) - w - n = w * q
    BY Division, Remainder
  <2> QED BY <2>1, MultipleOf
<1>5. SignedCast(n, w) - n = (n % w) - n \/ SignedCast(n, w) - n = (n % w) - w - n
  BY DEF SignedCast
<1> QED BY <1>2, <1>3, <1>4, <1>5

-----------------------------------------------------------------------------
(***************************************************************************)
(* What is printed for a number.                                           *)
(***************************************************************************)
Stream == [base : {"dec", "hex"}, text : Seq(Tokens)]

LEMMA AppendToEmpty ==
  ASSUME NEW x
  PROVE  Append(<<>>, x) = <<x>> /\ Len(<<x>>) = 1 /\ <<x>>[1] = x
OBVIOUS

LEMMA AppendToOne ==
  ASSUME NEW S, NEW x \in S, NEW y \in S
  PROVE  Append(<<x>>, y) = <<x, y>>
<1> DEFINE s == Append(<<x>>, y)
           t == <<x, y>>
<1>1. <<x>> \in Seq(S) /\ Len(<<x>>) = 1 /\ t \in Seq(S) /\ Len(t) = 2 /\ t[1] = x /\ t[2] = y
  OBVIOUS
<1>2. s \in Seq(S) /\ Len(s) = 2 /\ s[1] = x /\ s[2] = y
  BY <1>1, AppendProperties
<1>3. \A i \in 1 .. Len(s) : s[i] = t[i]
  BY <1>1, <1>2
<1> HIDE DEF s, t
<1>4. s = t
  BY <1>1, <1>2, <1>3, SeqEqual
<1> QED BY <1>4 DEF s, t

LEMMA TokenType ==
  ASSUME NEW word \in Words, NEW n \in Int
  PROVE  Token(word, n) \in Tokens
BY DEF Token, Tokens

LEMMA PutType ==
  ASSUME NEW o \in Stream, NEW word \in Words
  PROVE  Put(o, word) \in Stream /\ Put(o, word).text = Append(o.text, Token(word, 0))
BY TokenType DEF Put, Stream

LEMMA SetBaseType ==
  ASSUME NEW o \in Stream, NEW base \in {"dec", "hex"}
  PROVE  SetBase(o, base) \in Stream /\ SetBase(o, base).base = base
         /\ SetBase(o, base).text = o.text
BY DEF SetBase, Stream

LEMMA PutNumberType ==
  ASSUME NEW o \in Stream, NEW n \in Int
  PROVE  PutNumber(o, n) \in Stream /\ PutNumber(o, n).text = Append(o.text, Token(o.base, n))
<1>1. o.base \in {"dec", "hex"}
  BY DEF Stream
<1>2. Token(o.base, n) \in Tokens
  BY <1>1, TokenType DEF Words
<1> QED BY <1>2 DEF PutNumber, Stream

\* A number on an empty stream, in a base that is set just before.
LEMMA BasedNumber ==
  ASSUME NEW o \in Stream, o.text = <<>>, NEW base \in {"dec", "hex"}, NEW n \in Int
  PROVE  PutNumber(SetBase(o, base), n) \in Stream
         /\ PutNumber(SetBase(o, base), n).text = <<Token(base, n)>>
<1>1. SetBase(o, base) \in Stream /\ SetBase(o, base).base = base
      /\ SetBase(o, base).text = <<>>
  BY SetBaseType
<1>2. Append(SetBase(o, base).text, Token(base, n)) = <<Token(base, n)>>
  BY <1>1, AppendToEmpty
<1> QED BY <1>1, <1>2, PutNumberType

LEMMA NarrowSegment ==
  ASSUME NEW n \in Int, NEW value, NEW low, NEW w, InRange(n, low, w), (n - value) % w = 0
  PROVE  Narrow(<<Token("dec", n)>>, value, low, w)
BY DEF Narrow, Token

LEMMA NumberSegment ==
  ASSUME NEW base, NEW n
  PROVE  IsNumber(<<Token(base, n)>>, base, n)
BY DEF IsNumber

LEMMA WriteNumbers ==
  ASSUME NEW type \in ArgTypeNames \ {"char*"}, NEW o \in Stream, o.text = <<>>,
         NEW mem, NEW value \in Value
  PROVE  /\ Write(type, o, mem, value) \in Stream
         /\ ExactNumber(type, Write(type, o, mem, value).text, value)
<1> DEFINE out == Write(type, o, mem, value)
<1>0. value \in Int /\ Word \in Nat \ {0} /\ Half \in Nat \ {0} /\ value \in 0 .. Word - 1
  BY WordAssumption DEF Value
<1>1. CASE type = "unknown"
  <2>1. Put(o, "[") \in Stream /\ Put(o, "[").text = <<Token("[", 0)>>
    <3>1. "[" \in Words
      BY DEF Words
    <3> QED BY <3>1, PutType, AppendToEmpty
  <2>2. SetBase(Put(o, "["), "hex") \in Stream /\ SetBase(Put(o, "["), "hex").base = "hex"
        /\ SetBase(Put(o, "["), "hex").text = <<Token("[", 0)>>
    BY <2>1, SetBaseType
  <2>3. WriteUnknown(o, value) \in Stream
        /\ WriteUnknown(o, value).text = <<Token("[", 0), Token("hex", value)>>
    <3>1. Token("[", 0) \in Tokens /\ Token("hex", value) \in Tokens
      BY <1>0, TokenType DEF Words
    <3>2. Append(<<Token("[", 0)>>, Token("hex", value)) = <<Token("[", 0), Token("hex", value)>>
      BY <3>1, AppendToOne
    <3> QED BY <1>0, <2>2, <3>2, PutNumberType DEF WriteUnknown
  <2> QED BY <1>1, <2>3 DEF Write, ExactNumber
<1>2. CASE type \in {"flags", "uint64_t"}
  <2>1. WriteUInt64(o, value) \in Stream /\ WriteUInt64(o, value).text = <<Token("dec", value)>>
    BY <1>0, BasedNumber DEF WriteUInt64
  <2> QED BY <1>2, <2>1, NumberSegment DEF Write, ExactNumber
<1>3. CASE type = "int32_t"
  <2>1. SignedCast(value, Half) \in Int
        /\ InRange(SignedCast(value, Half), -(Half \div 2), Half)
        /\ (SignedCast(value, Half) - value) % Half = 0
    BY <1>0, SignedCastIsExact
  <2>2. WriteSInt32(o, value) \in Stream
        /\ WriteSInt32(o, value).text = <<Token("dec", SignedCast(value, Half))>>
    BY <2>1, BasedNumber DEF WriteSInt32
  <2> QED BY <1>3, <2>1, <2>2, NarrowSegment DEF Write, ExactNumber
<1>4. CASE type = "uint32_t"
  <2>1. Cast(value, Half) \in Int /\ InRange(Cast(value, Half), 0, Half)
        /\ (Cast(value, Half) - value) % Half = 0
    BY <1>0, CastIsExact
  <2>2. WriteUInt32(o, value) \in Stream
        /\ WriteUInt32(o, value).text = <<Token("dec", Cast(value, Half))>>
    BY <2>1, BasedNumber DEF WriteUInt32
  <2> QED BY <1>4, <2>1, <2>2, NarrowSegment DEF Write, ExactNumber
<1>5. CASE type = "int64_t"
  <2>1. SignedCast(value, Word) \in Int
        /\ InRange(SignedCast(value, Word), -(Word \div 2), Word)
        /\ (SignedCast(value, Word) - value) % Word = 0
    BY <1>0, SignedCastIsExact
  <2>2. WriteSInt64(o, value) \in Stream
        /\ WriteSInt64(o, value).text = <<Token("dec", SignedCast(value, Word))>>
    BY <2>1, BasedNumber DEF WriteSInt64
  <2> QED BY <1>5, <2>1, <2>2, NarrowSegment DEF Write, ExactNumber
<1>6. CASE type = "void*"
  <2>1. CASE value = 0
    <3>1. "NULL" \in Words
      BY DEF Words
    <3>2. WritePtr(o, value) \in Stream /\ WritePtr(o, value).text = <<Token("NULL", 0)>>
      BY <2>1, <3>1, PutType, AppendToEmpty DEF WritePtr
    <3> QED BY <1>6, <2>1, <3>2 DEF Write, ExactNumber
  <2>2. CASE value # 0
    <3>1. WritePtr(o, value) \in Stream /\ WritePtr(o, value).text = <<Token("hex", value)>>
      BY <1>0, <2>2, BasedNumber DEF WritePtr
    <3> QED BY <1>6, <2>2, <3>1, NumberSegment DEF Write, ExactNumber
  <2> QED BY <2>1, <2>2
<1> QED BY <1>1, <1>2, <1>3, <1>4, <1>5, <1>6 DEF ArgTypeNames

-----------------------------------------------------------------------------
(***************************************************************************)
(* Where the bytes of a string come from.                                  *)
(***************************************************************************)
LEMMA WholePages == \E P \in Nat : P >= 2 /\ Word = Page * P
<1> DEFINE P == Word \div Page
<1>1. P \in Int /\ Word = Page * P
  BY Division, WordAssumption
<1>2. Page * 1 = Page /\ (P < 1 => Page * P <= 0)
  BY <1>1, WordAssumption
<1>3. P >= 2
  BY <1>1, <1>2, WordAssumption
<1> HIDE DEF P
<1>4. P \in Nat
  BY <1>1, <1>3
<1> QED BY <1>1, <1>3, <1>4

\* The o-th address of page p, when there are P pages.
LEMMA AddressInPage ==
  ASSUME NEW P \in Nat, Word = Page * P, NEW p \in 0 .. P - 1, NEW o \in 0 .. Page - 1
  PROVE  /\ Page * p + o \in Int
         /\ (Page * p + o) % Word = Page * p + o
         /\ (Page * p + o) \div Page = p
<1>1. Page * p + Page * (P - 1 - p) = Word - Page /\ Page * (P - 1 - p) >= 0 /\ Page * p >= 0
  BY WordAssumption
<1>2. Page * p + o \in 0 .. Word - 1
  BY <1>1, WordAssumption
<1> QED BY <1>2, ValueIsReduced, DivisionIsUnique, WordAssumption

\* The pieces that the string is read in cover its bytes in order, and neither
\* of them leaves its page.
LEMMA PiecesCover ==
  ASSUME NEW value \in Value
  PROVE  LET ps == Pieces(value)
             address(i) == (value + i - 1) % Word
         IN  /\ ps[1].base = value /\ ps[1].len \in 1 .. kMaxStrLen
             /\ \A i \in 1 .. ps[1].len :
                  address(i) = value + i - 1 /\ address(i) \div Page = value \div Page
             /\ \/ Len(ps) = 1 /\ ps[1].len = kMaxStrLen
                \/ /\ Len(ps) = 2 /\ ps[1].len < kMaxStrLen
                   /\ \A i \in ps[1].len + 1 .. kMaxStrLen :
                        /\ address(i) = ps[2].base + i - 1 - ps[1].len
                        /\ address(i) \div Page = ps[2].base \div Page
<1> DEFINE address(i) == (value + i - 1) % Word
           p == value \div Page
           o == value % Page
           last == value + kMaxStrLen - 1
<1>0. /\ value \in 0 .. Word - 1 /\ Page \in Nat \ {0} /\ Word \in Nat \ {0}
      /\ kMaxStrLen \in 1 .. Page
  BY WordAssumption, LengthAssumption DEF Value
<1>1. PICK P \in Nat : P >= 2 /\ Word = Page * P
  BY WholePages
<1>2. p \in Int /\ o \in 0 .. Page - 1 /\ value = Page * p + o
  BY <1>0, Division, Remainder
<1>3. p \in 0 .. P - 1
  <2>1. p < 0 => Page * p <= -Page
    BY <1>0, <1>2
  <2>2. p >= P => Page * p >= Page * P
    BY <1>0, <1>1, <1>2
  <2> HIDE DEF p, o
  <2> QED BY <1>0, <1>1, <1>2, <2>1, <2>2
<1> HIDE DEF p, o
<1>4. \A i \in 1 .. kMaxStrLen : o + i - 1 < Page =>
        address(i) = value + i - 1 /\ address(i) \div Page = p
  <2> SUFFICES ASSUME NEW i \in 1 .. kMaxStrLen, o + i - 1 < Page
               PROVE  address(i) = value + i - 1 /\ address(i) \div Page = p
    OBVIOUS
  <2>1. o + i - 1 \in 0 .. Page - 1 /\ value + i - 1 = Page * p + (o + i - 1)
    BY <1>0, <1>2, <1>3
  <2> QED BY <1>1, <1>3, <2>1, AddressInPage
<1> DEFINE base2 == ((p + 1) * Page) % Word
           p2 == IF p + 1 < P THEN p + 1 ELSE 0
<1>5. base2 = Page * p2 /\ base2 \div Page = p2 /\ p2 # p /\ p2 \in 0 .. P - 1
  <2>1. p2 # p /\ p2 \in 0 .. P - 1 /\ 0 \in 0 .. Page - 1 /\ Page * p2 + 0 = Page * p2
    BY <1>0, <1>1, <1>3
  <2>2. (Page * p2) % Word = Page * p2 /\ (Page * p2) \div Page = p2
    BY <1>1, <2>1, AddressInPage
  <2>3. CASE p + 1 < P
    <3>1. (p + 1) * Page = Page * p2
      BY <1>0, <1>3, <2>3
    <3> QED BY <2>1, <2>2, <3>1
  <2>4. CASE ~(p + 1 < P)
    <3>1. (p + 1) * Page = Word * 1 /\ p2 = 0 /\ Page * p2 = 0
      BY <1>0, <1>1, <1>3, <2>4
    <3>2. base2 = 0
      BY <1>0, <3>1, MultipleOf
    <3> QED BY <2>1, <2>2, <3>1, <3>2
  <2> QED BY <2>3, <2>4
<1>6. \A i \in 1 .. kMaxStrLen : o + i - 1 >= Page =>
        address(i) = base2 + (o + i - 1 - Page) /\ address(i) \div Page = p2
  <2> SUFFICES ASSUME NEW i \in 1 .. kMaxStrLen, o + i - 1 >= Page
               PROVE  address(i) = base2 + (o + i - 1 - Page) /\ address(i) \div Page = p2
    OBVIOUS
  <2> DEFINE x == o + i - 1 - Page
  <2>1. x \in 0 .. Page - 1 /\ value + i - 1 = Page * (p + 1) + x
    BY <1>0, <1>2, <1>3
  <2> HIDE DEF x
  <2>2. (Page * p2 + x) % Word = Page * p2 + x /\ (Page * p2 + x) \div Page = p2
    BY <1>1, <1>5, <2>1, AddressInPage
  <2>3. CASE p + 1 < P
    BY <1>5, <2>1, <2>2, <2>3 DEF x
  <2>4. CASE ~(p + 1 < P)
    <3>1. Page * (p + 1) = Word * 1 /\ p2 = 0 /\ Page * p2 + x = x
      BY <1>0, <1>1, <1>3, <2>1, <2>4
    <3>2. x \in 0 .. Word - 1 /\ value + i - 1 = Word * 1 + x
      BY <2>1, <3>1, WordAssumption
    <3>3. address(i) = x
      BY <1>0, <3>2, DivisionIsUnique
    <3> QED BY <1>5, <2>2, <3>1, <3>3 DEF x
  <2> QED BY <2>3, <2>4
<1>7. last % Word = address(kMaxStrLen) /\ kMaxStrLen \in 1 .. kMaxStrLen
  BY <1>0
<1> HIDE DEF address, last, p2, base2
<1>8. CASE o + kMaxStrLen - 1 < Page
  <2>1. (last % Word) \div Page = p
    BY <1>4, <1>7, <1>8
  <2>2. Pieces(value) = <<[base |-> value, len |-> kMaxStrLen]>>
    BY <2>1 DEF Pieces, last, p
  <2>3. \A i \in 1 .. kMaxStrLen : address(i) = value + i - 1 /\ address(i) \div Page = p
    BY <1>0, <1>2, <1>4, <1>8
  <2>4. Len(Pieces(value)) = 1 /\ Pieces(value)[1].base = value /\ Pieces(value)[1].len = kMaxStrLen
    BY <2>2
  <2> QED BY <1>0, <2>3, <2>4 DEF address, p
<1>9. CASE o + kMaxStrLen - 1 >= Page
  <2> DEFINE first == Page - o
  <2>1. (last % Word) \div Page = p2
    BY <1>6, <1>7, <1>9
  <2>2. Pieces(value) = <<[base |-> value, len |-> first],
                          [base |-> base2, len |-> kMaxStrLen - first]>>
    BY <1>5, <2>1 DEF Pieces, last, p, o, base2
  <2>3. first \in 1 .. kMaxStrLen /\ first < kMaxStrLen
    BY <1>0, <1>2, <1>9
  <2>4. \A i \in 1 .. first : address(i) = value + i - 1 /\ address(i) \div Page = p
    BY <1>0, <1>2, <1>4, <2>3
  <2>5. \A i \in first + 1 .. kMaxStrLen :
          address(i) = base2 + (o + i - 1 - Page) /\ address(i) \div Page = p2
    BY <1>0, <1>2, <1>6, <2>3
  <2>6. base2 \in Int
    BY <1>5, <1>0
  <2>7. \A i \in first + 1 .. kMaxStrLen :
          address(i) = base2 + i - 1 - first /\ address(i) \div Page = base2 \div Page
    BY <1>0, <1>2, <1>5, <2>3, <2>5, <2>6
  <2> HIDE DEF first
  <2> QED BY <2>2, <2>3, <2>4, <2>7 DEF address, p
<1> QED BY <1>0, <1>2, <1>8, <1>9

-----------------------------------------------------------------------------
(***************************************************************************)
(* What is printed for a string.                                           *)
(***************************************************************************)
LEMMA LeastElement ==
  ASSUME NEW T, T \subseteq Nat, T # {}
  PROVE  \E x \in T : \A y \in T : x <= y
<1>1. PICK x \in T : \A y \in T : ~(<<y, x>> \in OpToRel(<, Nat))
  BY WFMin, NatLessThanWellFounded
<1>2. \A y \in T : ~(y < x)
  BY <1>1 DEF OpToRel
<1> QED BY <1>2

\* The buffer holds the bytes at the addresses that follow the pointer, and
\* those that were read are those that are mapped.
LEMMA BufferIsMemory ==
  ASSUME memory \in Memories, NEW value \in Value
  PROVE  LET ps == Pieces(value)
             bytes == BytesRead(memory, ps)
             address(i) == (value + i - 1) % Word
         IN  /\ \A i \in 1 .. kMaxStrLen : /\ address(i) \in Value
                                          /\ Buffer(memory, ps, i) = memory.at[address(i)]
             /\ value \div Page \notin memory.pages => bytes = 0
             /\ value \div Page \in memory.pages =>
                  /\ bytes \in 1 .. kMaxStrLen
                  /\ \A i \in 1 .. kMaxStrLen :
                       i <= bytes <=> address(i) \div Page \in memory.pages
<1> DEFINE ps == Pieces(value)
           bytes == BytesRead(memory, ps)
           address(i) == (value + i - 1) % Word
<1>1. /\ ps[1].base = value /\ ps[1].len \in 1 .. kMaxStrLen
      /\ \A i \in 1 .. ps[1].len :
           address(i) = value + i - 1 /\ address(i) \div Page = value \div Page
      /\ \/ Len(ps) = 1 /\ ps[1].len = kMaxStrLen
         \/ /\ Len(ps) = 2 /\ ps[1].len < kMaxStrLen
            /\ \A i \in ps[1].len + 1 .. kMaxStrLen :
                 /\ address(i) = ps[2].base + i - 1 - ps[1].len
                 /\ address(i) \div Page = ps[2].base \div Page
  BY PiecesCover
<1>2. /\ value \in 0 .. Word - 1 /\ Word \in Nat \ {0} /\ kMaxStrLen \in Nat \ {0}
  BY WordAssumption, LengthAssumption DEF Value
<1>3. \A i \in 1 .. kMaxStrLen : address(i) \in Value
  BY <1>2, Remainder DEF Value
<1> HIDE DEF ps, address
<1>4. \A i \in 1 .. kMaxStrLen : Buffer(memory, ps, i) = memory.at[address(i)]
  <2> SUFFICES ASSUME NEW i \in 1 .. kMaxStrLen
               PROVE  Buffer(memory, ps, i) = memory.at[address(i)]
    OBVIOUS
  <2>1. CASE i <= ps[1].len
    <3>1. i \in 1 .. ps[1].len
      BY <1>1, <2>1
    <3> QED BY <1>1, <2>1, <3>1 DEF Buffer
  <2>2. CASE ~(i <= ps[1].len)
    <3>1. Len(ps) = 2 /\ i \in ps[1].len + 1 .. kMaxStrLen
      BY <1>1, <1>2, <2>2
    <3> QED BY <1>1, <2>2, <3>1 DEF Buffer
  <2> QED BY <2>1, <2>2
<1>5. CASE value \div Page \notin memory.pages
  <2>1. bytes = 0
    BY <1>1, <1>5 DEF BytesRead, Mapped
  <2> QED BY <1>3, <1>4, <1>5, <2>1 DEF ps, address
<1>6. CASE value \div Page \in memory.pages
  <2>1. bytes = IF Len(ps) = 2 /\ ps[2].base \div Page \notin memory.pages
                THEN ps[1].len ELSE kMaxStrLen
    BY <1>1, <1>6 DEF BytesRead, Mapped
  <2>2. bytes \in 1 .. kMaxStrLen
    BY <1>1, <1>2, <2>1
  <2> HIDE DEF bytes
  <2>3. ASSUME NEW i \in 1 .. kMaxStrLen
        PROVE  i <= bytes <=> address(i) \div Page \in memory.pages
    <3>1. CASE i <= ps[1].len
      <4>1. i \in 1 .. ps[1].len
        BY <1>1, <3>1
      <4>2. address(i) \div Page = value \div Page
        BY <1>1, <4>1
      <4> QED BY <1>1, <1>2, <1>6, <2>1, <3>1, <4>2
    <3>2. CASE ~(i <= ps[1].len)
      <4>1. Len(ps) = 2 /\ i \in ps[1].len + 1 .. kMaxStrLen
        BY <1>1, <1>2, <3>2
      <4>2. address(i) \div Page = ps[2].base \div Page
        BY <1>1, <4>1
      <4> QED BY <1>1, <1>2, <2>1, <3>2, <4>1, <4>2
    <3> QED BY <3>1, <3>2
  <2> QED BY <1>3, <1>4, <1>6, <2>2, <2>3 DEF ps, address, bytes
<1> QED BY <1>5, <1>6

LEMMA ShownIsWord ==
  ASSUME NEW c \in Char
  PROVE  Token(Shown(c), 0) \in Tokens
<1>1. Shown(c) \in Words
  BY DEF Char, Shown, Words
<1> QED BY <1>1, TokenType

\* The string ends at the same byte, whether one looks for it in the buffer, where
\* the bytes of B are not NUL, or in the memory, where those of R can be read.
Ends(S, length, k) == (\A i \in 1 .. k : i \in S) /\ (k < length => k + 1 \notin S)
EndsAt(S, length, n) == \A k \in 0 .. length : Ends(S, length, k) <=> k = n
IsCut(R, B, bytes, K) == \A i \in 1 .. K : i \in R <=> (i <= bytes /\ i \in B)

LEMMA SameLength ==
  ASSUME NEW bytes \in Nat, NEW K \in Nat, bytes <= K, NEW B, NEW R, IsCut(R, B, bytes, K)
  PROVE  \E n \in 0 .. bytes : EndsAt(B, bytes, n) /\ EndsAt(R, K, n)
<1> USE DEF IsCut
<1> DEFINE T == {k \in 0 .. bytes : k < bytes => k + 1 \notin B}
<1>1. T \subseteq Nat /\ bytes \in T
  OBVIOUS
<1>2. PICK n \in T : \A y \in T : n <= y
  <2> HIDE DEF T
  <2> QED BY <1>1, LeastElement
<1>3. n \in 0 .. bytes /\ (n < bytes => n + 1 \notin B)
  OBVIOUS
<1>4. \A i \in 1 .. n : i \in B
  <2> SUFFICES ASSUME NEW i \in 1 .. n, i \notin B
               PROVE  FALSE
    OBVIOUS
  <2>1. i - 1 \in 0 .. bytes /\ (i - 1) + 1 = i
    BY <1>3
  <2>2. i - 1 \in T
    BY <2>1
  <2> QED BY <1>2, <1>3, <2>2
<1> HIDE DEF T
<1>5. ASSUME NEW k \in 0 .. bytes, \A i \in 1 .. k : i \in B, k < bytes => k + 1 \notin B
      PROVE  k = n
  <2>1. ~(k < n)
    BY <1>3, <1>4, <1>5
  <2>2. ~(n < k)
    BY <1>3, <1>5
  <2> QED BY <1>3, <2>1, <2>2
<1>6. \A i \in 1 .. n : i \in R
  BY <1>3, <1>4
<1>7. n < K => n + 1 \notin R
  BY <1>3
<1>8. ASSUME NEW k \in 0 .. K, \A i \in 1 .. k : i \in R, k < K => k + 1 \notin R
      PROVE  k = n
  <2>1. ~(k < n)
    BY <1>3, <1>6, <1>8
  <2>2. ~(n < k)
    BY <1>3, <1>7, <1>8
  <2> QED BY <1>3, <2>1, <2>2
<1> QED BY <1>3, <1>4, <1>5, <1>6, <1>7, <1>8 DEF Ends, EndsAt

LEMMA WriteString ==
  ASSUME memory \in Memories, NEW value \in Value, NEW o \in Stream, o.text = <<>>
  PROVE  /\ WriteStr(o, memory, value) \in Stream
         /\ IsString(memory, WriteStr(o, memory, value).text, value)
<1> DEFINE ps == Pieces(value)
           bytes == BytesRead(memory, ps)
           buf(i) == Buffer(memory, ps, i)
           address(i) == (value + i - 1) % Word
<1>1. kMaxStrLen \in Nat \ {0} /\ memory.at \in [Value -> Char]
  BY LengthAssumption, WordAssumption, MemoriesAssumption
<1>2. \A i \in 1 .. kMaxStrLen : /\ address(i) \in Value /\ buf(i) = memory.at[address(i)]
                              /\ buf(i) \in Char
  BY <1>1, BufferIsMemory
<1>3. CASE value \div Page \notin memory.pages
  <2>1. bytes = 0
    BY <1>3, BufferIsMemory
  <2>2. WriteStr(o, memory, value) = Put(o, "<fault>")
    BY <2>1 DEF WriteStr
  <2>3. Put(o, "<fault>") \in Stream /\ Put(o, "<fault>").text = <<Token("<fault>", 0)>>
    BY PutType, AppendToEmpty DEF Words
  <2> QED BY <1>3, <2>2, <2>3 DEF IsString
<1>4. CASE value \div Page \in memory.pages
  <2>1. bytes \in 1 .. kMaxStrLen
        /\ \A i \in 1 .. kMaxStrLen : i <= bytes <=> address(i) \div Page \in memory.pages
    BY <1>4, BufferIsMemory
  <2>2. \A i \in 1 .. kMaxStrLen : Readable(memory, value, i) <=> (i <= bytes /\ buf(i) # "nul")
    BY <1>2, <2>1 DEF Readable
  <2> HIDE DEF bytes, buf, address, ps
  <2> DEFINE B == {i \in 1 .. kMaxStrLen : buf(i) # "nul"}
             R == {i \in 1 .. kMaxStrLen : Readable(memory, value, i)}
  <2>3. PICK n \in 0 .. bytes : EndsAt(B, bytes, n) /\ EndsAt(R, kMaxStrLen, n)
    <3>1. IsCut(R, B, bytes, kMaxStrLen)
      BY <2>2 DEF IsCut
    <3>2. bytes \in Nat /\ kMaxStrLen \in Nat /\ bytes <= kMaxStrLen
      BY <1>1, <2>1
    <3> HIDE DEF B, R
    <3> QED BY <3>1, <3>2, SameLength
  <2>4. n \in 0 .. kMaxStrLen
    BY <1>1, <2>1
  <2> DEFINE InBuf(k) == (\A i \in 1 .. k : buf(i) # "nul") /\ (k < bytes => buf(k + 1) = "nul")
             InMem(k) == (\A i \in 1 .. k : Readable(memory, value, i))
                         /\ (k < kMaxStrLen => ~Readable(memory, value, k + 1))
  <2>5. \A k \in 0 .. bytes : InBuf(k) <=> k = n
    <3>1. \A k \in 0 .. bytes : InBuf(k) <=> Ends(B, bytes, k)
      BY <1>1, <2>1 DEF Ends
    <3> QED BY <2>3, <3>1 DEF EndsAt
  <2>6. \A k \in 0 .. kMaxStrLen : InMem(k) <=> k = n
    <3>1. \A k \in 0 .. kMaxStrLen : InMem(k) <=> Ends(R, kMaxStrLen, k)
      BY <1>1 DEF Ends
    <3> QED BY <2>3, <3>1 DEF EndsAt
  <2>7. BeforeNul(memory, ps, bytes) = n
    <3>1. BeforeNul(memory, ps, bytes) = CHOOSE k \in 0 .. bytes : InBuf(k)
      BY DEF BeforeNul, buf
    <3> HIDE DEF InBuf
    <3> QED BY <2>5, <3>1
  <2>8. (CHOOSE k \in 0 .. kMaxStrLen : InMem(k)) = n
    <3> HIDE DEF InMem
    <3> QED BY <2>4, <2>6
  <2> DEFINE chars == [i \in 1 .. n |-> Token(Shown(buf(i)), 0)]
             seen == [i \in 1 .. n |-> Token(Shown(memory.at[address(i)]), 0)]
             quote == <<Token("quote", 0)>>
             dots == IF n = kMaxStrLen THEN <<Token("...", 0)>> ELSE <<>>
             base == IF \E i \in 1 .. n : buf(i) = "other" THEN "hex" ELSE o.base
  <2>9. chars = seen /\ \A i \in 1 .. n : buf(i) \in Char
    <3>1. \A i \in 1 .. n : i \in 1 .. kMaxStrLen
      BY <1>1, <2>4
    <3> QED BY <1>2, <3>1
  <2>10. chars \in Seq(Tokens) /\ quote \in Seq(Tokens) /\ dots \in Seq(Tokens)
    <3>1. \A i \in 1 .. n : Token(Shown(buf(i)), 0) \in Tokens
      BY <2>9, ShownIsWord
    <3>2. Token("quote", 0) \in Tokens /\ Token("...", 0) \in Tokens
      BY TokenType DEF Words
    <3> QED BY <2>4, <3>1, <3>2
  <2>11. WriteStr(o, memory, value) =
           [base |-> base, text |-> o.text \o (quote \o chars \o quote) \o dots]
    BY <2>1, <2>7 DEF WriteStr, bytes, buf, ps
  <2> DEFINE segment == quote \o chars \o quote \o dots
  <2>12. segment \in Seq(Tokens) /\ o.text \o (quote \o chars \o quote) \o dots = segment
    <3> HIDE DEF chars, quote, dots
    <3>1. quote \o chars \o quote \in Seq(Tokens)
      BY <2>10, ConcatProperties
    <3>2. o.text \o (quote \o chars \o quote) = quote \o chars \o quote
      BY <3>1, ConcatEmptySeq
    <3> QED BY <2>10, <3>1, <3>2, ConcatProperties
  <2>13. base \in {"dec", "hex"}
    BY DEF Stream
  <2>14. IsString(memory, segment, value)
    BY <1>4, <2>8, <2>9 DEF IsString, address
  <2>15. WriteStr(o, memory, value) = [base |-> base, text |-> segment]
    BY <2>11, <2>12
  <2> HIDE DEF segment, base
  <2> QED BY <2>12, <2>13, <2>14, <2>15 DEF Stream
<1> QED BY <1>3, <1>4

-----------------------------------------------------------------------------
(***************************************************************************)
(* The invariant.                                                          *)
(***************************************************************************)
\* The map holds the definitions that have been read, and every one of them.
MapAgrees ==
  /\ DOMAIN syscall_map_ = {file[i].number : i \in 1 .. loaded}
  /\ \A i \in 1 .. loaded : WellFormed(file[i]) /\ syscall_map_[file[i].number] = file[i]
  /\ pc \notin {"load", "rejected"} => loaded = Len(file)

\* The arguments that have been written are exact.
ArgExact(i) ==
  /\ ExactNumber(Params[i], os.text[i + 1], call.args[i])
  /\ Params[i] = "char*" /\ memory # Dead => IsString(memory, os.text[i + 1], call.args[i])

ByName ==
  /\ Len(os.text) \in 1 .. Len(Params) + 1
  /\ os.text[1] = <<Token(syscall_map_[call.number].name, 0)>>
  /\ \A i \in 1 .. Len(Params) : i < Len(os.text) /\ i <= NumArgs => ArgExact(i)

ByNumber ==
  /\ os.text[1] = <<Token(IF call.int80 THEN "syscall32" ELSE "syscall", 0)>>
  /\ os.text[2] = <<Token("dec", call.number)>>
  /\ \A i \in 1 .. NumArgs : os.text[i + 2] = <<Token("hex", call.args[i])>>

TextAgrees ==
  /\ pc \in {"parse", "args"} => target_ = task
  /\ pc = "args" => ~Undefined /\ ByName
  /\ Written /\ ~Undefined => ByName /\ Len(os.text) = Len(Params) + 1
  /\ Written /\ Undefined => ByNumber

\* No pattern that has been passed over matches.
Hit(g, p) == Matches(rules.groups[g].patterns[p], os.text)

MatchAgrees ==
  /\ pc \notin {"match", "decided", "terminate"} => group = 1 /\ pattern = 1
  /\ pc = "match" =>
       /\ \A g \in 1 .. Len(rules.groups) : g < group =>
            \A p \in 1 .. Len(rules.groups[g].patterns) : ~Hit(g, p)
       /\ group <= Len(rules.groups) =>
            \A p \in 1 .. Len(Patterns) : p < pattern => ~Hit(group, p)
  /\ FirstMatchDecides

IInv == TypeOK /\ MapAgrees /\ TextAgrees /\ MatchAgrees

LEMMA InitIInv == Init => IInv
<1> SUFFICES ASSUME Init
             PROVE  IInv
  OBVIOUS
<1> USE DEF Init
<1>1. file \in Seq(Definition) /\ Len(file) \in Nat
  BY FilesAssumption
<1>2. rules.groups \in Seq(ActionGroup) /\ Len(rules.groups) \in Nat
  BY RuleSetsAssumption
<1>3. os \in [base : {"dec", "hex"}, text : Seq(Seq(Tokens))]
  BY EmptySeq DEF NewStream
<1>4. TypeOK
  BY <1>1, <1>2, <1>3 DEF TypeOK
<1>5. MapAgrees
  BY DEF MapAgrees
<1>6. TextAgrees /\ MatchAgrees
  BY DEF TextAgrees, MatchAgrees, FirstMatchDecides, Written
<1> QED BY <1>4, <1>5, <1>6 DEF IInv

-----------------------------------------------------------------------------
(***************************************************************************)
(* What the invariant rests on: the types of what is in the file and the   *)
(* configuration.                                                          *)
(***************************************************************************)
LEMMA InputTypes ==
  ASSUME TypeOK
  PROVE  /\ file \in Seq(Definition) /\ Len(file) \in Nat
         /\ rules.groups \in Seq(ActionGroup) /\ Len(rules.groups) \in Nat
         /\ rules.default \in Actions
         /\ \A g \in 1 .. Len(rules.groups) :
              rules.groups[g].action \in Actions /\ Len(rules.groups[g].patterns) \in Nat
         /\ call.args \in [1 .. NumArgs -> Value] /\ call.number \in Value
         /\ call.int80 \in BOOLEAN
<1>1. file \in Seq(Definition) /\ Len(file) \in Nat
  BY FilesAssumption DEF TypeOK
<1>2. /\ rules.groups \in Seq(ActionGroup) /\ Len(rules.groups) \in Nat
      /\ rules.default \in Actions
  BY RuleSetsAssumption DEF TypeOK
<1>3. \A g \in 1 .. Len(rules.groups) :
        rules.groups[g].action \in Actions /\ Len(rules.groups[g].patterns) \in Nat
  <2> SUFFICES ASSUME NEW g \in 1 .. Len(rules.groups)
               PROVE  rules.groups[g].action \in Actions /\ Len(rules.groups[g].patterns) \in Nat
    OBVIOUS
  <2>1. rules.groups[g] \in ActionGroup
    BY <1>2, ElementOfSeq
  <2> QED BY <2>1 DEF ActionGroup
<1>4. 0 \in Value
  BY WordAssumption DEF Value
<1>5. /\ call.args \in [1 .. NumArgs -> Value] /\ call.number \in Value
      /\ call.int80 \in BOOLEAN
  <2>1. CASE call \in Calls
    BY <2>1, CallsAssumption
  <2>2. CASE call = NoCall
    BY <1>4, <2>2 DEF NoCall
  <2> QED BY <2>1, <2>2 DEF TypeOK
<1> QED BY <1>1, <1>2, <1>3, <1>5

\* A call that is defined has the parameters of a definition that was accepted.
LEMMA ParamTypes ==
  ASSUME TypeOK, MapAgrees, ~Undefined
  PROVE  /\ Params \in Seq(STRING) /\ Len(Params) \in Nat
         /\ \A i \in 1 .. Len(Params) : Params[i] \in ArgTypeNames
         /\ syscall_map_[call.number].name \in Name
<1>1. PICK j \in 1 .. loaded : file[j].number = call.number
  BY DEF Undefined, MapAgrees
<1>2. syscall_map_[call.number] = file[j] /\ WellFormed(file[j])
  BY <1>1 DEF MapAgrees
<1>3. file[j] \in Definition
  BY <1>1, InputTypes, ElementOfSeq DEF TypeOK
<1> QED BY <1>2, <1>3 DEF Params, WellFormed, Definition

-----------------------------------------------------------------------------
(***************************************************************************)
(* One argument.                                                           *)
(***************************************************************************)
OsType == [base : {"dec", "hex"}, text : Seq(Seq(Tokens))]

\* What an argument adds to the text, if it adds anything.
Adds(i, segment) ==
  /\ segment \in Seq(Tokens)
  /\ os' \in OsType /\ os'.text = Append(os.text, segment)
  /\ i <= NumArgs => /\ ExactNumber(Params[i], segment, call.args[i])
                     /\ Params[i] = "char*" => IsString(memory, segment, call.args[i])

LEMMA WriteArgAdds ==
  ASSUME IInv, WriteArg
  PROVE  /\ Len(os.text) \in 1 .. Len(Params)
         /\ \/ pc' = "terminate" /\ os' = os
            \/ pc' = pc /\ \E segment : Adds(Len(os.text), segment)
<1> DEFINE i == Len(os.text)
           type == Params[i]
           o == [os EXCEPT !.text = <<>>]
<1>0. /\ TypeOK /\ MapAgrees /\ ~Undefined /\ ByName /\ target_ = task
      /\ pc = "args" /\ i <= Len(Params)
  BY DEF IInv, TextAgrees, WriteArg
<1>1. i \in 1 .. Len(Params) /\ type \in ArgTypeNames
  <2>1. i \in 1 .. Len(Params)
    BY <1>0, ParamTypes DEF ByName
  <2> QED BY <1>0, <2>1, ParamTypes
<1>2. os \in OsType
  BY <1>0 DEF TypeOK, OsType
<1>3. o \in Stream /\ o.text = <<>>
  <2>1. <<>> \in Seq(Tokens)
    BY EmptySeq
  <2> QED BY <1>2, <2>1 DEF OsType, Stream
<1>4. PICK value \in IF i <= NumArgs THEN {call.args[i]} ELSE Value :
        \/ pc' = "terminate" /\ os' = os
        \/ /\ type = "char*" => memory # Dead
           /\ LET out == Write(type, o, memory, value)
              IN  os' = [base |-> out.base, text |-> Append(os.text, out.text)]
           /\ pc' = pc
  BY <1>0 DEF WriteArg, GoTo
<1>5. value \in Value /\ (i <= NumArgs => value = call.args[i])
  <2>1. call.args \in [1 .. NumArgs -> Value] /\ NumArgs \in Nat
    BY <1>0, InputTypes, NumArgsAssumption
  <2> QED BY <1>1, <1>4, <2>1
<1> HIDE DEF i, type, o
<1>6. CASE pc' = "terminate" /\ os' = os
  BY <1>1, <1>6 DEF i
<1>7. CASE /\ type = "char*" => memory # Dead
           /\ LET out == Write(type, o, memory, value)
              IN  os' = [base |-> out.base, text |-> Append(os.text, out.text)]
           /\ pc' = pc
  <2> DEFINE out == Write(type, o, memory, value)
  <2>1. out \in Stream /\ ExactNumber(type, out.text, value)
        /\ (type = "char*" => IsString(memory, out.text, value))
    <3>1. CASE type = "char*"
      <4>1. memory \in Memories
        BY <1>0, <1>7, <3>1 DEF TypeOK
      <4>2. out = WriteStr(o, memory, value)
        BY <3>1 DEF Write
      <4>3. ExactNumber(type, out.text, value)
        BY <3>1 DEF ExactNumber
      <4> QED BY <1>3, <1>5, <4>1, <4>2, <4>3, WriteString
    <3>2. CASE type # "char*"
      BY <1>1, <1>3, <1>5, <3>2, WriteNumbers
    <3> QED BY <3>1, <3>2
  <2>2. os' = [base |-> out.base, text |-> Append(os.text, out.text)]
    BY <1>7
  <2> HIDE DEF out
  <2>3. out.text \in Seq(Tokens) /\ out.base \in {"dec", "hex"}
    BY <2>1 DEF Stream
  <2>4. os' \in OsType /\ os'.text = Append(os.text, out.text)
    <3>1. Append(os.text, out.text) \in Seq(Seq(Tokens))
      BY <1>2, <2>3, AppendProperties DEF OsType
    <3> QED BY <2>2, <2>3, <3>1 DEF OsType
  <2>5. Adds(i, out.text)
    BY <1>5, <2>1, <2>3, <2>4 DEF Adds, type
  <2> QED BY <1>1, <1>7, <2>5 DEF i
<1> QED BY <1>4, <1>6, <1>7

\* The text of a call that is shown by number.
LEMMA WriteNumberText ==
  ASSUME IInv, WriteNumber
  PROVE  /\ os' \in OsType
         /\ os'.text[1] = <<Token(IF call.int80 THEN "syscall32" ELSE "syscall", 0)>>
         /\ os'.text[2] = <<Token("dec", call.number)>>
         /\ \A i \in 1 .. NumArgs : os'.text[i + 2] = <<Token("hex", call.args[i])>>
<1> DEFINE first == <<Token(IF call.int80 THEN "syscall32" ELSE "syscall", 0)>>
           second == <<Token("dec", call.number)>>
           arg(i) == <<Token("hex", call.args[i])>>
           rest == [i \in 1 .. NumArgs |-> arg(i)]
<1>1. /\ call.args \in [1 .. NumArgs -> Value] /\ call.number \in Value
      /\ NumArgs \in Nat /\ Value \subseteq Int
  BY InputTypes, NumArgsAssumption, WordAssumption DEF IInv, Value
<1>2. first \in Seq(Tokens) /\ second \in Seq(Tokens)
  <2>1. Token(IF call.int80 THEN "syscall32" ELSE "syscall", 0) \in Tokens
    BY TokenType DEF Words
  <2>2. Token("dec", call.number) \in Tokens
    BY <1>1, TokenType DEF Words
  <2> QED BY <2>1, <2>2
<1>3. \A i \in 1 .. NumArgs : arg(i) \in Seq(Tokens)
  <2>1. \A i \in 1 .. NumArgs : call.args[i] \in Int
    BY <1>1
  <2>2. \A i \in 1 .. NumArgs : Token("hex", call.args[i]) \in Tokens
    BY <2>1, TokenType DEF Words
  <2> QED BY <2>2
<1>4. os' = [base |-> "hex", text |-> <<first, second>> \o rest]
  BY DEF WriteNumber
<1> HIDE DEF first, second, arg
<1>5. rest \in Seq(Seq(Tokens)) /\ Len(rest) = NumArgs
  BY <1>1, <1>3
<1>6. /\ <<first, second>> \in Seq(Seq(Tokens)) /\ Len(<<first, second>>) = 2
      /\ <<first, second>>[1] = first /\ <<first, second>>[2] = second
  BY <1>2
<1> DEFINE text == <<first, second>> \o rest
<1>7. /\ text \in Seq(Seq(Tokens))
      /\ \A i \in 1 .. 2 + NumArgs :
           text[i] = IF i <= 2 THEN <<first, second>>[i] ELSE rest[i - 2]
  <2> HIDE DEF rest
  <2> QED BY <1>5, <1>6, ConcatProperties
<1>8. text[1] = first /\ text[2] = second
  <2>1. 1 \in 1 .. 2 + NumArgs /\ 2 \in 1 .. 2 + NumArgs
    BY <1>1
  <2>2. text[1] = <<first, second>>[1] /\ text[2] = <<first, second>>[2]
    <3> HIDE DEF text, rest
    <3> QED BY <1>7, <2>1
  <2> QED BY <1>6, <2>2
<1>9. \A i \in 1 .. NumArgs : text[i + 2] = arg(i)
  <2> SUFFICES ASSUME NEW i \in 1 .. NumArgs
               PROVE  text[i + 2] = arg(i)
    OBVIOUS
  <2>1. i + 2 \in 1 .. 2 + NumArgs /\ ~(i + 2 <= 2) /\ (i + 2) - 2 = i
    BY <1>1
  <2>2. text[i + 2] = rest[i]
    <3> HIDE DEF text, rest
    <3> QED BY <1>7, <2>1
  <2> QED BY <2>2
<1> HIDE DEF text
<1>10. os'.text = text /\ os' \in OsType
  BY <1>4, <1>7 DEF OsType, text
<1> QED BY <1>8, <1>9, <1>10 DEF first, second, arg

-----------------------------------------------------------------------------
(***************************************************************************)
(* Every step preserves the invariant.                                     *)
(***************************************************************************)
LEMMA NextTypeOK ==
  ASSUME IInv, [Next]_vars
  PROVE  TypeOK'
<1>1. TypeOK
  BY DEF IInv
<1> USE DEF TypeOK, inputVars, mapVars, stopVars, matchVars, GoTo
<1>2. /\ Len(file) \in Nat /\ Len(rules.groups) \in Nat /\ rules.default \in Actions
      /\ \A i \in 1 .. Len(file) : file[i] \in Definition
      /\ \A g \in 1 .. Len(rules.groups) : rules.groups[g].action \in Actions
  BY <1>1, InputTypes, ElementOfSeq
<1>3. CASE UNCHANGED vars
  BY <1>1, <1>3 DEF vars
<1>4. CASE LoadDefinition
  <2>1. loaded + 1 \in 1 .. Len(file) /\ file[loaded + 1] \in Definition
    BY <1>1, <1>2, <1>4 DEF LoadDefinition
  <2>2. /\ DOMAIN syscall_map_' = DOMAIN syscall_map_ \cup {file[loaded + 1].number}
        /\ \A n \in DOMAIN syscall_map_' : syscall_map_'[n] \in Definition
        /\ loaded' = loaded + 1
        /\ UNCHANGED <<pc, inputVars, stopVars, target_, os, matchVars>>
    BY <1>1, <1>4, <2>1 DEF LoadDefinition
  <2>3. file[loaded + 1].number \in Value
    BY <2>1 DEF Definition
  <2> QED BY <1>1, <2>1, <2>2, <2>3
<1>5. CASE RejectFile \/ Loaded
  BY <1>1, <1>5 DEF RejectFile, Loaded
<1>6. ASSUME NEW t \in Task, Stop(t)
      PROVE  TypeOK'
  BY <1>1, <1>6 DEF Stop
<1>7. CASE Dies \/ SetPid \/ ArgsWritten
  BY <1>1, <1>7 DEF Dies, SetPid, ArgsWritten
<1>8. CASE WriteNumber
  <2>1. os' \in OsType
    BY <1>8, WriteNumberText
  <2> QED BY <1>1, <1>8, <2>1 DEF WriteNumber, OsType
<1>9. CASE WriteName
  <2>1. CASE ~Undefined /\ os' = [os EXCEPT !.text = << <<Token(syscall_map_[call.number].name, 0)>> >>]
    <3>1. Token(syscall_map_[call.number].name, 0) \in Tokens
      BY <1>1, <2>1, ParamTypes DEF IInv, Tokens, Token
    <3>2. << <<Token(syscall_map_[call.number].name, 0)>> >> \in Seq(Seq(Tokens))
      BY <3>1
    <3>3. os' \in OsType
      BY <1>1, <2>1, <3>2 DEF OsType
    <3> QED BY <1>1, <1>9, <3>3 DEF WriteName, OsType
  <2>2. CASE os' = os
    BY <1>1, <1>9, <2>2 DEF WriteName
  <2> QED BY <1>9, <2>1, <2>2 DEF WriteName
<1>10. CASE WriteArg
  <2>1. os' \in OsType /\ pc' \in {pc, "terminate"}
    BY <1>1, <1>10, WriteArgAdds DEF Adds, OsType
  <2> QED BY <1>1, <1>10, <2>1 DEF WriteArg, OsType
<1>11. CASE MatchHits \/ NothingMatches
  BY <1>1, <1>2, <1>11 DEF MatchHits, NothingMatches, Decide, InGroup
<1>12. CASE MatchThrows \/ MatchMisses \/ NextGroup
  BY <1>1, <1>2, <1>12 DEF MatchThrows, MatchMisses, NextGroup, InGroup
<1>13. CASE Return
  <2>1. NewStream \in OsType
    BY EmptySeq DEF NewStream, OsType
  <2> QED BY <1>1, <1>2, <1>13, <2>1 DEF Return, OsType
<1> QED BY <1>3, <1>4, <1>5, <1>6, <1>7, <1>8, <1>9, <1>10, <1>11, <1>12, <1>13
        DEF Next, Load, Parse, GetAction

LEMMA NextMapAgrees ==
  ASSUME IInv, [Next]_vars
  PROVE  MapAgrees'
<1>1. TypeOK /\ MapAgrees
  BY DEF IInv
<1>2. Len(file) \in Nat /\ loaded \in 0 .. Len(file)
  BY <1>1, InputTypes DEF TypeOK
<1> USE DEF inputVars, mapVars, stopVars, matchVars, GoTo
<1>3. CASE UNCHANGED <<file, loaded, syscall_map_>> /\ pc \notin {"load", "rejected"}
  BY <1>1, <1>3 DEF MapAgrees, WellFormed
<1>4. CASE UNCHANGED vars
  BY <1>1, <1>4 DEF MapAgrees, WellFormed, vars
<1>5. CASE LoadDefinition
  <2> DEFINE d == file[loaded + 1]
  <2>1. /\ WellFormed(d) /\ d.number \notin DOMAIN syscall_map_
        /\ DOMAIN syscall_map_' = DOMAIN syscall_map_ \cup {d.number}
        /\ syscall_map_'[d.number] = d
        /\ \A n \in DOMAIN syscall_map_ : syscall_map_'[n] = syscall_map_[n]
        /\ loaded' = loaded + 1 /\ file' = file /\ pc' = pc /\ pc = "load"
    BY <1>5 DEF LoadDefinition
  <2>2. \A i \in 1 .. loaded' : i \in 1 .. loaded \/ i = loaded + 1
    BY <1>2, <2>1
  <2>3. \A i \in 1 .. loaded : file[i].number \in DOMAIN syscall_map_ /\ i \in 1 .. loaded'
    BY <1>1, <1>2, <2>1 DEF MapAgrees
  <2>4. loaded + 1 \in 1 .. loaded'
    BY <1>2, <2>1
  <2>5. DOMAIN syscall_map_' = {file[i].number : i \in 1 .. loaded'}
    BY <1>1, <2>1, <2>2, <2>3, <2>4 DEF MapAgrees
  <2>6. \A i \in 1 .. loaded' : WellFormed(file[i]) /\ syscall_map_'[file[i].number] = file[i]
    BY <1>1, <2>1, <2>2, <2>3 DEF MapAgrees
  <2> QED BY <2>1, <2>5, <2>6 DEF MapAgrees, WellFormed
<1>6. CASE RejectFile \/ Loaded
  BY <1>1, <1>6 DEF RejectFile, Loaded, MapAgrees, WellFormed
<1>7. ASSUME NEW t \in Task, Stop(t)
      PROVE  MapAgrees'
  BY <1>3, <1>7 DEF Stop
<1> QED BY <1>3, <1>4, <1>5, <1>6, <1>7
        DEF Next, Load, Parse, GetAction, Dies, SetPid, WriteNumber, WriteName, WriteArg,
            ArgsWritten, MatchHits, MatchThrows, MatchMisses, NextGroup, NothingMatches, InGroup, Decide, Return

\* What has been written stays true as long as the call, the definitions and the
\* stream stay the same: the memory can only go away.
LEMMA TextStays ==
  ASSUME UNCHANGED <<syscall_map_, call, os>>, memory' \in {memory, Dead}
  PROVE  /\ Undefined' = Undefined /\ Params' = Params
         /\ ByName => ByName'
         /\ ByNumber => ByNumber'
<1>1. Undefined' = Undefined /\ Params' = Params
  BY DEF Undefined, Params
<1>2. ASSUME NEW i, ArgExact(i)
      PROVE  ArgExact(i)'
  BY <1>1, <1>2 DEF ArgExact
<1>3. ByName => ByName'
  BY <1>1, <1>2 DEF ByName
<1>4. ByNumber => ByNumber'
  BY DEF ByNumber
<1> QED BY <1>1, <1>3, <1>4

LEMMA NextTextAgrees ==
  ASSUME IInv, [Next]_vars
  PROVE  TextAgrees'
<1>1. TypeOK /\ MapAgrees /\ TextAgrees
  BY DEF IInv
<1> USE DEF inputVars, mapVars, stopVars, matchVars, GoTo, Written
<1>2. CASE pc' \notin {"parse", "args", "match", "decided"}
  BY <1>2 DEF TextAgrees
<1>3. CASE UNCHANGED vars \/ Dies
  <2>1. UNCHANGED <<pc, target_, task, syscall_map_, call, os>> /\ memory' \in {memory, Dead}
    BY <1>3 DEF vars, Dies
  <2> QED BY <1>1, <2>1, TextStays DEF TextAgrees
<1>4. CASE SetPid
  BY <1>4 DEF SetPid, TextAgrees
<1>5. CASE WriteNumber
  <2>1. Undefined' /\ pc' = "match" /\ UNCHANGED call
    BY <1>5 DEF WriteNumber, Undefined
  <2>2. ByNumber'
    BY <1>5, <2>1, WriteNumberText DEF ByNumber
  <2> QED BY <2>1, <2>2 DEF TextAgrees
<1>6. CASE WriteName
  <2>1. CASE pc' # "assert_args"
    <3>1. /\ ~Undefined /\ pc = "parse" /\ pc' = "args"
          /\ os' = [os EXCEPT !.text = << <<Token(syscall_map_[call.number].name, 0)>> >>]
          /\ UNCHANGED <<syscall_map_, call, task, target_>>
      BY <1>6, <2>1 DEF WriteName
    <3>2. os'.text = << <<Token(syscall_map_[call.number].name, 0)>> >>
      BY <1>1, <3>1 DEF TypeOK
    <3>3. Len(os'.text) = 1 /\ os'.text[1] = <<Token(syscall_map_[call.number].name, 0)>>
      BY <3>2
    <3>4. Len(Params) \in Nat /\ Params' = Params /\ ~Undefined'
      BY <1>1, <3>1, ParamTypes DEF Params, Undefined
    <3>5. ByName'
      BY <3>1, <3>3, <3>4 DEF ByName
    <3> QED BY <1>1, <3>1, <3>4, <3>5 DEF TextAgrees
  <2> QED BY <1>2, <2>1
<1>7. CASE WriteArg
  <2> DEFINE n == Len(os.text)
  <2>1. /\ pc = "args" /\ ~Undefined /\ ByName /\ target_ = task /\ n \in 1 .. Len(Params)
        /\ UNCHANGED <<syscall_map_, call, memory, task, target_>>
    BY <1>1, <1>7, WriteArgAdds DEF WriteArg, TextAgrees
  <2>2. CASE pc' = "terminate"
    BY <1>2, <2>2
  <2>3. CASE pc' = pc /\ \E segment : Adds(n, segment)
    <3>1. PICK segment : Adds(n, segment)
      BY <2>3
    <3>2. /\ os.text \in Seq(Seq(Tokens)) /\ segment \in Seq(Tokens)
          /\ os'.text = Append(os.text, segment)
      BY <1>1, <3>1 DEF Adds, TypeOK
    <3>3. /\ Len(os'.text) = n + 1 /\ os'.text[n + 1] = segment
          /\ \A i \in 1 .. n : os'.text[i] = os.text[i]
      BY <3>2, AppendProperties
    <3>4. Len(Params) \in Nat /\ Params' = Params /\ ~Undefined'
      BY <1>1, <2>1, ParamTypes DEF Params, Undefined
    <3> HIDE DEF n
    <3>5. ASSUME NEW i \in 1 .. Len(Params), i < n + 1, i <= NumArgs
          PROVE  ArgExact(i)'
      <4>1. CASE i = n
        <5>1. os'.text[i + 1] = segment
          BY <3>3, <4>1
        <5>2. /\ ExactNumber(Params[i], segment, call.args[i])
              /\ Params[i] = "char*" => IsString(memory, segment, call.args[i])
          BY <3>1, <3>5, <4>1 DEF Adds
        <5> QED BY <2>1, <3>4, <5>1, <5>2 DEF ArgExact
      <4>2. CASE i # n
        <5>1. i < n /\ i + 1 \in 1 .. n
          BY <2>1, <3>4, <3>5, <4>2
        <5>2. os'.text[i + 1] = os.text[i + 1]
          BY <3>3, <5>1
        <5>3. ArgExact(i)
          BY <2>1, <3>5, <5>1 DEF ByName, n
        <5> QED BY <2>1, <3>4, <5>2, <5>3 DEF ArgExact
      <4> QED BY <4>1, <4>2
    <3>6. Len(os'.text) \in 1 .. Len(Params') + 1 /\ os'.text[1] = os.text[1]
      BY <2>1, <3>3, <3>4
    <3>7. ByName'
      BY <2>1, <3>3, <3>4, <3>5, <3>6 DEF ByName
    <3> QED BY <2>1, <2>3, <3>4, <3>7 DEF TextAgrees
  <2> QED BY <1>7, <2>2, <2>3, WriteArgAdds
<1>8. CASE ArgsWritten
  <2>1. /\ ~Undefined /\ ByName /\ Len(os.text) > Len(Params) /\ pc' = "match"
        /\ UNCHANGED <<syscall_map_, call, os>> /\ memory' \in {memory, Dead}
    BY <1>1, <1>8 DEF ArgsWritten, TextAgrees
  <2>2. Len(os.text) = Len(Params) + 1
    BY <1>1, <2>1, ParamTypes DEF ByName
  <2> QED BY <2>1, <2>2, TextStays DEF TextAgrees
<1>9. CASE GetAction
  <2>1. /\ UNCHANGED <<syscall_map_, call, os>> /\ memory' \in {memory, Dead}
        /\ pc = "match" /\ pc' \in {"match", "decided", "terminate"}
    BY <1>9 DEF GetAction, MatchHits, MatchThrows, MatchMisses, NextGroup, NothingMatches, InGroup, Decide
  <2> QED BY <1>1, <2>1, TextStays DEF TextAgrees
<1>10. CASE Load \/ Return \/ \E t \in Task : Stop(t)
  BY <1>2, <1>10 DEF Load, LoadDefinition, RejectFile, Loaded, Return, Stop
<1> QED BY <1>3, <1>4, <1>5, <1>6, <1>7, <1>8, <1>9, <1>10 DEF Next, Parse

\* While get_action() searches, all that it has passed over has not matched.
LEMMA NextMatchAgrees ==
  ASSUME IInv, [Next]_vars
  PROVE  MatchAgrees'
<1>1. TypeOK /\ MatchAgrees
  BY DEF IInv
<1>2. /\ Len(rules.groups) \in Nat /\ group \in 1 .. Len(rules.groups) + 1
      /\ pattern \in Nat \ {0}
      /\ \A g \in 1 .. Len(rules.groups) : Len(rules.groups[g].patterns) \in Nat
  BY <1>1, InputTypes DEF TypeOK
<1> USE DEF inputVars, mapVars, stopVars, matchVars, GoTo
<1>3. CASE group' = 1 /\ pattern' = 1 /\ pc' # "decided"
  BY <1>3 DEF MatchAgrees, FirstMatchDecides
<1>4. CASE UNCHANGED <<pc, rules, os, group, pattern, verdict>>
  BY <1>1, <1>4 DEF MatchAgrees, FirstMatchDecides, Hits, Hit, Patterns
<1>5. CASE Load \/ Parse \/ Return \/ \E t \in Task : Stop(t)
  <2>1. group' = 1 /\ pattern' = 1 /\ pc' # "decided"
    BY <1>1, <1>5, WriteArgAdds
       DEF Load, LoadDefinition, RejectFile, Loaded, Parse, SetPid, WriteNumber, WriteName,
           WriteArg, ArgsWritten, Return, Stop, MatchAgrees
  <2> QED BY <1>3, <2>1
<1>6. CASE Dies \/ UNCHANGED vars
  BY <1>4, <1>6 DEF Dies, vars
<1>11. CASE MatchThrows
  BY <1>11 DEF MatchThrows, MatchAgrees, FirstMatchDecides
<1>7. CASE MatchHits
  <2>1. /\ pc = "match" /\ group \in 1 .. Len(rules.groups) /\ pattern \in 1 .. Len(Patterns)
        /\ Hit(group, pattern) /\ verdict' = rules.groups[group].action /\ pc' = "decided"
        /\ UNCHANGED <<rules, os, group, pattern>>
    BY <1>2, <1>7 DEF MatchHits, InGroup, Decide, Hit, Patterns
  <2>2. group \in Hits /\ \A h \in Hits : group <= h
    BY <1>1, <1>2, <2>1 DEF Hits, Hit, Patterns, MatchAgrees
  <2>3. Hits' = Hits
    BY <2>1 DEF Hits
  <2> QED BY <2>1, <2>2, <2>3 DEF MatchAgrees, FirstMatchDecides
<1>8. CASE NothingMatches
  <2>1. /\ pc = "match" /\ group > Len(rules.groups) /\ verdict' = rules.default
        /\ pc' = "decided" /\ UNCHANGED <<rules, os>>
    BY <1>8 DEF NothingMatches, Decide
  <2>2. Hits = {} /\ Hits' = Hits
    BY <1>1, <1>2, <2>1 DEF Hits, Hit, MatchAgrees
  <2> QED BY <2>1, <2>2 DEF MatchAgrees, FirstMatchDecides
<1>9. CASE MatchMisses
  <2>1. /\ pc = "match" /\ group <= Len(rules.groups) /\ ~Hit(group, pattern)
        /\ pattern' = pattern + 1 /\ UNCHANGED <<pc, rules, os, group>>
    BY <1>9 DEF MatchMisses, InGroup, Hit, Patterns
  <2>2. \A p \in 1 .. Len(Patterns) : p < pattern + 1 => ~Hit(group, p)
    BY <1>1, <1>2, <2>1 DEF MatchAgrees
  <2> QED BY <1>1, <2>1, <2>2 DEF MatchAgrees, FirstMatchDecides, Hit, Patterns
<1>10. CASE NextGroup
  <2>1. /\ pc = "match" /\ group \in 1 .. Len(rules.groups) /\ pattern > Len(Patterns)
        /\ group' = group + 1 /\ pattern' = 1 /\ UNCHANGED <<pc, rules, os>>
    BY <1>2, <1>10 DEF NextGroup, InGroup
  <2>2. \A g \in 1 .. Len(rules.groups) : g < group + 1 =>
          \A p \in 1 .. Len(rules.groups[g].patterns) : ~Hit(g, p)
    BY <1>1, <1>2, <2>1 DEF MatchAgrees, Patterns
  <2> QED BY <2>1, <2>2 DEF MatchAgrees, FirstMatchDecides, Hit, Patterns
<1> QED BY <1>5, <1>6, <1>7, <1>8, <1>9, <1>10, <1>11 DEF Next, GetAction

-----------------------------------------------------------------------------
(***************************************************************************)
(* The theorems.                                                           *)
(***************************************************************************)
LEMMA Invariance == Spec => []IInv
<1>1. IInv /\ [Next]_vars => IInv'
  BY NextTypeOK, NextMapAgrees, NextTextAgrees, NextMatchAgrees DEF IInv
<1> QED BY <1>1, InitIInv, PTL DEF Spec

\* The positions of the two loops stay within the rules, and all that is printed
\* is made of tokens.
THEOREM TypeCorrect == Spec => []TypeOK
<1>1. IInv => TypeOK
  BY DEF IInv
<1> QED BY <1>1, Invariance, PTL

\* The action is that of the first group with a pattern that matches, however
\* many groups and patterns there are and whatever they match.
THEOREM FirstMatchDecidesHolds == Spec => []FirstMatchDecides
<1>1. IInv => FirstMatchDecides
  BY DEF IInv, MatchAgrees
<1> QED BY <1>1, Invariance, PTL

\* Calls are shown under the definition of their number, and never under that of
\* another one or, for a 32-bit call, under any.
THEOREM ShownAsDefinedHolds == Spec => []ShownAsDefined
<1>1. ASSUME IInv, Written
      PROVE  /\ \A i \in 1 .. Len(file) : file[i].number = call.number /\ ~call.int80 =>
                  /\ os.text[1] = <<Token(file[i].name, 0)>>
                  /\ Len(os.text) = 1 + Len(file[i].params)
             /\ ~IsNamed => ByNumber
  <2>1. TypeOK /\ MapAgrees /\ TextAgrees /\ loaded = Len(file)
    BY <1>1 DEF IInv, MapAgrees, Written
  <2>2. ASSUME NEW i \in 1 .. Len(file), file[i].number = call.number, ~call.int80
        PROVE  /\ os.text[1] = <<Token(file[i].name, 0)>>
               /\ Len(os.text) = 1 + Len(file[i].params)
    <3>1. ~Undefined /\ syscall_map_[call.number] = file[i]
      BY <2>1, <2>2 DEF Undefined, MapAgrees
    <3> QED BY <1>1, <2>1, <3>1, ParamTypes DEF TextAgrees, ByName, Params
  <2>3. ASSUME ~IsNamed
        PROVE  ByNumber
    <3>1. Undefined
      BY <2>1, <2>3 DEF Undefined, IsNamed, MapAgrees
    <3> QED BY <1>1, <2>1, <3>1 DEF TextAgrees
  <2> QED BY <2>2, <2>3
<1>2. IInv => ShownAsDefined
  BY <1>1 DEF ShownAsDefined, ByNumber
<1> QED BY <1>2, Invariance, PTL

\* What is shown for the arguments of a call that is shown by name.
LEMMA ArgsExact ==
  ASSUME IInv, Written, ~Undefined, NEW i \in 1 .. Len(Params), i <= NumArgs
  PROVE  ArgExact(i)
<1>1. ByName /\ Len(os.text) = Len(Params) + 1 /\ Len(Params) \in Nat
  BY ParamTypes DEF IInv, TextAgrees
<1> QED BY <1>1 DEF ByName

\* Numbers are shown with their value, for any width of the registers and of the
\* narrow types.
THEOREM NumbersAreExactHolds == Spec => []NumbersAreExact
<1>1. IInv => NumbersAreExact
  BY ArgsExact DEF NumbersAreExact, ArgExact
<1> QED BY <1>1, Invariance, PTL

\* Strings are shown as they are in the memory of the stopped task, wherever
\* they lie and wherever they cross a page or the end of the address space.
THEOREM StringsAreTheTasksHolds == Spec => []StringsAreTheTasks
<1>1. IInv => StringsAreTheTasks
  BY ArgsExact DEF StringsAreTheTasks, ArgExact
<1> QED BY <1>1, Invariance, PTL
=============================================================================
