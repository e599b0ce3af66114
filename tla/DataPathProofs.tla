--------------------------- MODULE DataPathProofs ---------------------------
(***************************************************************************)
(* Theorems about what the instructions compute, for every width the       *)
(* module allows, that of the code among them, and every word.  The only   *)
(* invariant needed is that registers hold words; the rest is arithmetic   *)
(* modulo a power of two, with the lemmas about bits of BinaryProofs.      *)
(***************************************************************************)
EXTENDS DataPath, BinaryProofs

-----------------------------------------------------------------------------
(* Widths.                                                                  *)

\* Words, halves and bytes fit together.
LEMMA Widths ==
    /\ Width \in Nat /\ Half \in Nat /\ ByteWidth \in Nat
    /\ Width >= 4 /\ Half >= 2 /\ ByteWidth >= 1
    /\ Width = Half + Half /\ Half = ByteWidth + ByteWidth
BY DataPathAssumption DEF Half, ByteWidth

\* A power of two is greater than its exponent.
LEMMA MoreThanItself == \A n \in Nat : n < TwoTo[n]
<1> DEFINE S == {n \in Nat : n < TwoTo[n]}
<1>1. 0 \in S
  BY TwoToSteps
<1>2. ASSUME NEW n \in Nat, n \in S PROVE n + 1 \in S
  <2>1. TwoTo[n] \in Nat /\ TwoTo[n + 1] = 2 * TwoTo[n] /\ n < TwoTo[n]
    BY <1>2, TwoToSteps
  <2> QED
    BY <2>1
<1> HIDE DEF S
<1>3. \A n \in Nat : n \in S
  BY <1>1, <1>2, NatSetInduction
<1> QED
  BY <1>3 DEF S

\* The word is twice its top bit, and holds every number of a bit.
LEMMA WordSize ==
    /\ TwoTo[Width] \in Nat /\ TopBit \in Nat /\ TopBit > 0
    /\ TwoTo[Width] = 2 * TopBit /\ Width <= TopBit
    /\ Width - 1 \in Nat /\ Width - 1 + 1 = Width
<1>1. Width - 1 \in Nat /\ Width - 1 + 1 = Width
  BY Widths
<1>2. TwoTo[Width - 1] \in Nat /\ TwoTo[Width - 1 + 1] = 2 * TwoTo[Width - 1]
  BY <1>1, TwoToSteps
<1>3. Width - 1 < TwoTo[Width - 1]
  BY <1>1, MoreThanItself
<1> QED
  BY <1>1, <1>2, <1>3 DEF TopBit

\* The same for a half.
LEMMA HalfSize ==
    /\ TwoTo[Half] \in Nat /\ TwoTo[Half] > 0
    /\ TwoTo[Half - 1] \in Nat /\ TwoTo[Half - 1] > 0
    /\ TwoTo[Half] = 2 * TwoTo[Half - 1]
    /\ TwoTo[Width] = TwoTo[Half] * TwoTo[Half]
    /\ TwoTo[Half] <= TopBit /\ TwoTo[Half] < TwoTo[Width]
<1>1. Half - 1 \in Nat /\ Half - 1 + 1 = Half /\ Half \in Nat
  BY Widths
<1>2. /\ TwoTo[Half] \in Nat /\ TwoTo[Half] > 0
      /\ TwoTo[Half - 1] \in Nat /\ TwoTo[Half - 1] > 0
  BY <1>1, TwoToSteps
<1>3. TwoTo[Half] = 2 * TwoTo[Half - 1]
  BY <1>1, TwoToSteps
<1>4. TwoTo[Width] = TwoTo[Half] * TwoTo[Half]
  BY <1>1, Widths, TwoToAdds
<1>5. Half <= Width - 1
  BY Widths
<1>6. TwoTo[Half] <= TopBit
  BY <1>1, <1>5, WordSize, TwoToDivides DEF TopBit
<1> QED
  BY <1>2, <1>3, <1>4, <1>6, WordSize

-----------------------------------------------------------------------------
(* Numbers that agree modulo a power of two.                                *)

\* Numbers are the same below e if their remainders are.
LEMMA SameBelowIs ==
    ASSUME NEW e \in Nat, NEW x \in Int, NEW y \in Int
    PROVE  SameBelow(e, x, y) <=> x % TwoTo[e] = y % TwoTo[e]
<1>1. TwoTo[e] \in Nat /\ TwoTo[e] > 0
  BY TwoToSteps
<1> DEFINE p == TwoTo[e]
<1>2. p \in Nat /\ p > 0
  BY <1>1
<1>3. ASSUME SameBelow(e, x, y) PROVE x % p = y % p
  <2>1. PICK k \in Int : y = x + p * k
    BY <1>3 DEF SameBelow
  <2> HIDE DEF p
  <2> QED
    BY <1>2, <2>1, MultipleMore
<1>4. ASSUME x % p = y % p PROVE SameBelow(e, x, y)
  <2> DEFINE a == x \div p
             b == y \div p
             r == x % p
  <2>1. a \in Int /\ b \in Int /\ r \in Int /\ x = p * a + r /\ y = p * b + r
    <3> HIDE DEF p
    <3> QED
      BY <1>2, <1>4, Divides
  <2> HIDE DEF p, a, b, r
  <2>2. b - a \in Int /\ y = x + p * (b - a)
    BY <1>2, <2>1
  <2> QED
    BY <2>2 DEF SameBelow, p
<1> QED
  BY <1>3, <1>4

\* Sums, differences and products of such numbers.
LEMMA SumsAgree ==
    ASSUME NEW e \in Nat, NEW x \in Int, NEW y \in Int, NEW u \in Int, NEW v \in Int,
           SameBelow(e, x, u), SameBelow(e, y, v)
    PROVE  SameBelow(e, x + y, u + v) /\ SameBelow(e, x - y, u - v) /\ SameBelow(e, x * y, u * v)
<1>1. TwoTo[e] \in Nat
  BY TwoToSteps
<1> DEFINE p == TwoTo[e]
<1>2. PICK k \in Int : u = x + p * k
  BY DEF SameBelow
<1>3. PICK j \in Int : v = y + p * j
  BY DEF SameBelow
<1>4. p \in Int
  BY <1>1
<1> HIDE DEF p
<1>5. /\ k + j \in Int /\ u + v = x + y + p * (k + j)
      /\ k - j \in Int /\ u - v = x - y + p * (k - j)
  BY <1>2, <1>3, <1>4
<1>6. /\ x * j + y * k + p * k * j \in Int
      /\ u * v = x * y + p * (x * j + y * k + p * k * j)
  BY <1>2, <1>3, <1>4
<1> QED
  BY <1>5, <1>6 DEF SameBelow, p

\* A number and its remainder.
LEMMA RemainderAgrees ==
    ASSUME NEW e \in Nat, NEW x \in Int
    PROVE  SameBelow(e, x, x % TwoTo[e]) /\ SameBelow(e, x % TwoTo[e], x) /\ SameBelow(e, x, x)
<1>1. TwoTo[e] \in Nat /\ TwoTo[e] > 0
  BY TwoToSteps
<1>2. x % TwoTo[e] \in 0 .. TwoTo[e] - 1 /\ x % TwoTo[e] \in Int
  <2> DEFINE p == TwoTo[e]
  <2>1. p \in Nat /\ p > 0
    BY <1>1
  <2> HIDE DEF p
  <2>2. x % p \in 0 .. p - 1 /\ x % p \in Int
    BY <2>1, Divides
  <2> QED
    BY <2>2 DEF p
<1>3. (x % TwoTo[e]) % TwoTo[e] = x % TwoTo[e]
  BY <1>2, BelowPower
<1> QED
  BY <1>2, <1>3, SameBelowIs

-----------------------------------------------------------------------------
(* Words and numbers.                                                       *)

\* Unsigned makes a word of any number, the one that agrees with it.
LEMMA UnsignedType == \A v \in Int : Unsigned(v) \in Value /\ Unsigned(v) \in Int
<1> DEFINE p == TwoTo[Width]
<1>1. p \in Nat /\ p > 0
  BY WordSize
<1> HIDE DEF p
<1>2. \A v \in Int : v % p \in 0 .. p - 1 /\ v % p \in Int
  BY <1>1, Divides
<1> QED
  BY <1>2 DEF p, Unsigned, Value

\* Numbers agree below the width if they make the same word.
LEMMA UnsignedAgrees ==
    ASSUME NEW u \in Int, NEW v \in Int
    PROVE  /\ SameBelow(Width, u, v) <=> Unsigned(u) = Unsigned(v)
           /\ SameBelow(Width, u, Unsigned(u)) /\ SameBelow(Width, Unsigned(u), u)
BY Widths, SameBelowIs, RemainderAgrees DEF Unsigned

\* The word of a number that is one, or of a negative one.
LEMMA UnsignedIs ==
    ASSUME NEW v \in Int
    PROVE  /\ v \in Value => Unsigned(v) = v
           /\ v \in -TwoTo[Width] .. -1 => Unsigned(v) = v + TwoTo[Width]
<1> DEFINE p == TwoTo[Width]
<1>1. p \in Nat /\ p > 0 /\ Width \in Nat
  BY WordSize, Widths
<1>2. \A u \in 0 .. p - 1 : u % p = u
  BY <1>1, BelowPower
<1>3. (v + p * 1) % p = v % p
  <2> HIDE DEF p
  <2>1. \A k \in Int : (v + p * k) % p = v % p
    BY <1>1, MultipleMore
  <2> QED
    BY <2>1
<1>4. p * 1 = p
  BY <1>1
<1> HIDE DEF p
<1>5. v \in 0 .. p - 1 => v % p = v
  BY <1>2
<1>6. v \in -p .. -1 => v % p = v + p
  <2>1. v \in -p .. -1 => v + p \in 0 .. p - 1
    BY <1>1
  <2> QED
    BY <1>2, <1>3, <1>4, <2>1
<1> QED
  BY <1>5, <1>6 DEF p, Unsigned, Value

\* Signed numbers of a word.
SignedWord == -TopBit .. TopBit - 1

\* The signed number of a word.
LEMMA AsIntIs ==
    ASSUME NEW v \in Value
    PROVE  /\ v \in Int
           /\ AsInt(v) = IF v < TopBit THEN v ELSE v - 2 * TopBit
           /\ AsInt(v) \in SignedWord /\ AsInt(v) \in Int
           /\ SameBelow(Width, v, AsInt(v))
<1>1. v \in Int /\ v <= 2 * TopBit - 1
  BY WordSize DEF Value
<1>2. AsInt(v) = IF v < TopBit THEN v ELSE v - 2 * TopBit
  BY WordSize DEF AsInt, Signed, TopBit
<1>3. AsInt(v) \in SignedWord /\ AsInt(v) \in Int
  BY <1>1, <1>2, WordSize DEF SignedWord, Value
<1>4. SameBelow(Width, v, AsInt(v))
  <2>1. CASE v < TopBit
    BY <1>1, <1>2, <2>1, RemainderAgrees, Widths
  <2>2. CASE ~(v < TopBit)
    <3>1. AsInt(v) = v + TwoTo[Width] * (-1) /\ -1 \in Int
      BY <1>1, <1>2, <2>2, WordSize
    <3> QED
      BY <3>1 DEF SameBelow
  <2> QED
    BY <2>1, <2>2
<1> QED
  BY <1>1, <1>2, <1>3, <1>4

\* The conversions are inverses of each other.
LEMMA AsIntOfUnsigned ==
    ASSUME NEW i \in SignedWord
    PROVE  i \in Int /\ AsInt(Unsigned(i)) = i
<1>1. i \in Int
  BY WordSize DEF SignedWord
<1>2. Unsigned(i) = IF i >= 0 THEN i ELSE i + 2 * TopBit
  <2>1. CASE i >= 0
    <3>1. i \in Value
      BY <1>1, <2>1, WordSize DEF SignedWord, Value
    <3> QED
      BY <1>1, <2>1, <3>1, UnsignedIs
  <2>2. CASE i < 0
    <3>1. i \in -TwoTo[Width] .. -1
      BY <1>1, <2>2, WordSize DEF SignedWord
    <3> QED
      BY <1>1, <2>2, <3>1, UnsignedIs, WordSize
  <2> QED
    BY <1>1, <2>1, <2>2
<1>3. Unsigned(i) \in Value
  BY <1>1, UnsignedType
<1> QED
  BY <1>1, <1>2, <1>3, AsIntIs, WordSize DEF SignedWord

-----------------------------------------------------------------------------
(* Bits of words.                                                           *)

\* And, or and xor make words of the bits they say.
LEMMA BitwiseType ==
    ASSUME NEW x, NEW y
    PROVE  /\ And(x, y) \in Value /\ Or(x, y) \in Value /\ Xor(x, y) \in Value
           /\ BitsOf(And(x, y)) = BitsOf(x) \cap BitsOf(y)
           /\ BitsOf(Or(x, y)) = BitsOf(x) \cup BitsOf(y)
           /\ BitsOf(Xor(x, y)) = (BitsOf(x) \ BitsOf(y)) \cup (BitsOf(y) \ BitsOf(x))
<1>1. BitsOf(x) \subseteq 0 .. Width - 1 /\ BitsOf(y) \subseteq 0 .. Width - 1
  BY DEF BitsOf, Bits
<1>2. \A B \in SUBSET (0 .. Width - 1) :
          Number(B, Width) \in Value /\ BitsOf(Number(B, Width)) = B
  BY Widths, NumberHasBits DEF Value, BitsOf
<1>3. /\ BitsOf(x) \cap BitsOf(y) \in SUBSET (0 .. Width - 1)
      /\ BitsOf(x) \cup BitsOf(y) \in SUBSET (0 .. Width - 1)
      /\ (BitsOf(x) \ BitsOf(y)) \cup (BitsOf(y) \ BitsOf(x)) \in SUBSET (0 .. Width - 1)
  BY <1>1
<1> QED
  BY <1>2, <1>3 DEF And, Or, Xor

\* A word is known by its bits.
LEMMA SameWord ==
    ASSUME NEW x \in Value, NEW y \in Value, BitsOf(x) = BitsOf(y)
    PROVE  x = y
BY Widths, BitsDetermine DEF Value, BitsOf

\* An and with the ones below a bit is a remainder.
LEMMA AndWithOnes ==
    ASSUME NEW x \in Value, NEW e \in 0 .. Width
    PROVE  And(x, TwoTo[e] - 1) = x % TwoTo[e] /\ x % TwoTo[e] \in Value
<1>1. x \in Int /\ e \in Nat /\ TwoTo[e] \in Nat /\ TwoTo[e] > 0
  BY WordSize, Widths, TwoToSteps DEF Value
<1>2. x % TwoTo[e] \in Value
  <2> DEFINE p == TwoTo[e]
  <2>1. p \in Nat /\ p > 0 /\ p <= TwoTo[Width]
    BY <1>1, Widths, TwoToDivides
  <2> HIDE DEF p
  <2>2. x % p \in 0 .. p - 1
    BY <1>1, <2>1, Divides
  <2> QED
    BY <2>1, <2>2, WordSize DEF p, Value
<1>3. BitsOf(x % TwoTo[e]) = BitsOf(x) \cap (0 .. e - 1)
  BY <1>1, Widths, RemainderBits DEF BitsOf
<1>4. BitsOf(TwoTo[e] - 1) = 0 .. e - 1
  BY Widths, OnesBits DEF BitsOf
<1>5. BitsOf(And(x, TwoTo[e] - 1)) = BitsOf(x) \cap (0 .. e - 1)
  BY <1>4, BitwiseType
<1> QED
  BY <1>2, <1>3, <1>5, BitwiseType, SameWord

\* An or of two parts that do not overlap is their sum.
LEMMA OrOfParts ==
    ASSUME NEW e \in 0 .. Width, NEW h \in Int, NEW l \in 0 .. TwoTo[e] - 1,
           h * TwoTo[e] + l \in Value
    PROVE  Or(h * TwoTo[e], l) = h * TwoTo[e] + l
<1>1. TwoTo[e] \in Nat
  BY Widths, TwoToSteps
<1>2. h * TwoTo[e] = TwoTo[e] * h
  BY <1>1
<1> DEFINE top == TwoTo[e] * h
           s   == top + l
<1>3. BitsOf(s) = BitsOf(top) \cup BitsOf(l)
  <2>1. e \in 0 .. Width /\ top = TwoTo[e] * h /\ s = top + l
    OBVIOUS
  <2> HIDE DEF top, s
  <2> QED
    BY <2>1, Widths, PartsBits DEF BitsOf
<1>4. s \in Value
  BY <1>2
<1> HIDE DEF top, s
<1>5. Or(top, l) \in Value /\ BitsOf(Or(top, l)) = BitsOf(top) \cup BitsOf(l)
  BY BitwiseType
<1>6. Or(top, l) = s
  BY <1>3, <1>4, <1>5, SameWord
<1> QED
  BY <1>2, <1>6 DEF top, s

\* An xor with the top bit turns that bit, one with all ones turns them all.
LEMMA XorWithTop ==
    ASSUME NEW x \in Value
    PROVE  Xor(x, TopBit) = IF x < TopBit THEN x + TopBit ELSE x - TopBit
<1> DEFINE e == Width - 1
           y == IF x < TopBit THEN x + TopBit ELSE x - TopBit
<1>1. x \in 0 .. TwoTo[e + 1] - 1 /\ e \in Nat /\ e + 1 = Width /\ TwoTo[e] = TopBit
  BY WordSize DEF Value, TopBit
<1> HIDE DEF e
<1>2. /\ y \in 0 .. TwoTo[e + 1] - 1
      /\ Bits(y, e + 1) = (Bits(x, e + 1) \ {e}) \cup ({e} \ Bits(x, e + 1))
      /\ Bits(TwoTo[e], e + 1) = {e}
  BY <1>1, TopBits
<1> HIDE DEF y
<1>3. y \in Value /\ BitsOf(y) = (BitsOf(x) \ BitsOf(TopBit)) \cup (BitsOf(TopBit) \ BitsOf(x))
  BY <1>1, <1>2 DEF BitsOf, Value
<1>4. Xor(x, TopBit) = y
  BY <1>3, BitwiseType, SameWord
<1> QED
  BY <1>4 DEF y

LEMMA XorWithOnes ==
    ASSUME NEW x \in Value
    PROVE  Xor(x, TwoTo[Width] - 1) = TwoTo[Width] - 1 - x
<1>1. x \in Int /\ TwoTo[Width] - 1 - x \in Value
  BY WordSize DEF Value
<1>2. BitsOf(TwoTo[Width] - 1) = 0 .. Width - 1
  BY Widths, OnesBits DEF BitsOf
<1>3. BitsOf(TwoTo[Width] - 1 - x) = (0 .. Width - 1) \ BitsOf(x)
  BY <1>1, Widths, ComplementBits DEF BitsOf
<1>4. BitsOf(x) \subseteq 0 .. Width - 1
  BY DEF BitsOf, Bits
<1> DEFINE ones == TwoTo[Width] - 1
           not  == ones - x
<1>5. not \in Value /\ BitsOf(not) = (BitsOf(x) \ BitsOf(ones)) \cup (BitsOf(ones) \ BitsOf(x))
  BY <1>1, <1>2, <1>3, <1>4
<1> HIDE DEF ones, not
<1>6. /\ Xor(x, ones) \in Value
      /\ BitsOf(Xor(x, ones)) = (BitsOf(x) \ BitsOf(ones)) \cup (BitsOf(ones) \ BitsOf(x))
  BY BitwiseType
<1>7. Xor(x, ones) = not
  BY <1>5, <1>6, SameWord
<1> QED
  BY <1>7 DEF ones, not

-----------------------------------------------------------------------------
(* What the operators return.                                               *)

\* Every case of RegResult, and the two shifts by a constant.
LEMMA Results ==
    ASSUME NEW x, NEW y
    PROVE  /\ RegResult("add", x, y) = Unsigned(x + y)
           /\ RegResult("sub", x, y) = Unsigned(x - y)
           /\ RegResult("and", x, y) = And(x, y)
           /\ RegResult("or", x, y) = Or(x, y)
           /\ RegResult("xor", x, y) = Xor(x, y)
           /\ RegResult("sll", x, y) = Unsigned(x * TwoTo[ShiftAmount(y)])
           /\ RegResult("srl", x, y) = x \div TwoTo[ShiftAmount(y)]
           /\ RegResult("sra", x, y) = ShiftArithmetic(x, ShiftAmount(y))
           /\ RegResult("ff1", x, y) = FindFirst(x)
           /\ RegResult("fl1", x, y) = FindLast(x)
           /\ RegResult("mul", x, y) = Unsigned(AsInt(x) * AsInt(y))
           /\ RegResult("div", x, y) =
                  IF y = 0 THEN 0 ELSE Unsigned(Quotient(AsInt(x), AsInt(y)))
           /\ RegResult("divu", x, y) = IF y = 0 THEN 0 ELSE x \div y
           /\ ShiftIResult("slli", x, y) = Unsigned(x * TwoTo[y])
           /\ ShiftIResult("srli", x, y) = x \div TwoTo[y]
           /\ ShiftIResult("srai", x, y) = ShiftArithmetic(x, y)
BY DEF RegResult, ShiftIResult

\* A set of numbers has a least one, and one that is bounded a greatest.
LEMMA LeastOf ==
    ASSUME NEW S, S \subseteq Nat, S # {}
    PROVE  \E n \in S : \A m \in S : n <= m
<1> SUFFICES ASSUME \A n \in S : \E m \in S : m < n PROVE FALSE
  OBVIOUS
<1> DEFINE T == {n \in Nat : \A k \in 0 .. n : k \notin S}
<1>1. 0 \in T
  OBVIOUS
<1>2. ASSUME NEW n \in Nat, n \in T PROVE n + 1 \in T
  <2>1. \A m \in S : ~(m < n + 1)
    BY <1>2
  <2>2. n + 1 \notin S
    BY <2>1
  <2>3. \A k \in 0 .. n + 1 : k = n + 1 \/ k \in 0 .. n
    OBVIOUS
  <2> QED
    BY <1>2, <2>2, <2>3
<1> HIDE DEF T
<1>3. \A n \in Nat : n \in T
  BY <1>1, <1>2, NatSetInduction
<1>4. \A n \in Nat : n \notin S
  BY <1>3 DEF T
<1> QED
  BY <1>4

\* The same for Min and Max of a set of bits.
LEMMA EndsOf ==
    ASSUME NEW w \in Nat, NEW S \in SUBSET (0 .. w - 1), S # {}
    PROVE  /\ Min(S) \in S /\ \A n \in S : Min(S) <= n
           /\ Max(S) \in S /\ \A n \in S : n <= Max(S)
<1>1. \E n \in S : \A m \in S : n <= m
  <2>1. S \subseteq Nat
    OBVIOUS
  <2> QED
    BY <2>1, LeastOf
<1>2. \E n \in S : \A m \in S : m <= n
  <2> DEFINE R == {w - 1 - n : n \in S}
  <2>1. R \subseteq Nat /\ R # {}
    <3>1. \A n \in S : w - 1 - n \in Nat
      OBVIOUS
    <3>2. PICK n : n \in S
      OBVIOUS
    <3>3. w - 1 - n \in R
      BY <3>2
    <3> QED
      BY <3>1, <3>3
  <2>2. PICK k \in R : \A m \in R : k <= m
    <3> HIDE DEF R
    <3> QED
      BY <2>1, LeastOf
  <2>3. PICK n \in S : k = w - 1 - n
    OBVIOUS
  <2>4. \A m \in S : w - 1 - n <= w - 1 - m
    BY <2>2, <2>3
  <2> QED
    BY <2>4
<1>3. Min(S) \in S /\ \A n \in S : Min(S) <= n
  BY <1>1 DEF Min
<1>4. Max(S) \in S /\ \A n \in S : n <= Max(S)
  BY <1>2 DEF Max
<1> QED
  BY <1>3, <1>4

\* A word that is not zero has a bit.
LEMMA SomeBit ==
    ASSUME NEW x \in Value, x # 0
    PROVE  BitsOf(x) # {}
<1>1. BitsOf(0) = {}
  BY ZeroBit DEF BitsOf, Bits
<1>2. 0 \in Value
  BY WordSize DEF Value
<1> QED
  BY <1>1, <1>2, SameWord

\* A shift is by less than the width.
LEMMA ShiftAmountType ==
    ASSUME NEW y \in Value
    PROVE  ShiftAmount(y) \in 0 .. Width - 1
BY Widths, WordSize, Divides DEF ShiftAmount, Value

\* A division of C++: what is left has the sign of the dividend.
LEMMA QuotientIs ==
    ASSUME NEW m \in Int, NEW n \in Int, n # 0
    PROVE  \E q, r \in Int :
               /\ Quotient(m, n) = q /\ m - q * n = r
               /\ r < IF n < 0 THEN -n ELSE n
               /\ -r < IF n < 0 THEN -n ELSE n
               /\ r # 0 => (r < 0 <=> m < 0)
<1> DEFINE a == IF m < 0 THEN -m ELSE m
           b == IF n < 0 THEN -n ELSE n
           k == a \div b
           l == a % b
<1>1. a \in Nat /\ b \in Nat /\ b > 0
  OBVIOUS
<1>2. k \in Int /\ l \in 0 .. b - 1 /\ a = b * k + l
  <2> HIDE DEF a, b
  <2> QED
    BY <1>1, Divides
<1>3. Quotient(m, n) = IF (m < 0) = (n < 0) THEN k ELSE -k
  BY DEF Quotient
<1> HIDE DEF k, l
<1> DEFINE q == IF (m < 0) = (n < 0) THEN k ELSE -k
           r == IF m < 0 THEN -l ELSE l
<1>4. m - q * n = r
  <2>1. CASE m < 0 /\ n < 0
    BY <1>2, <2>1
  <2>2. CASE m < 0 /\ n > 0
    BY <1>2, <2>2
  <2>3. CASE m >= 0 /\ n < 0
    BY <1>2, <2>3
  <2>4. CASE m >= 0 /\ n > 0
    BY <1>2, <2>4
  <2> QED
    BY <2>1, <2>2, <2>3, <2>4
<1>5. q \in Int /\ r \in Int
  BY <1>2
<1>6. r < b /\ -r < b /\ (r # 0 => (r < 0 <=> m < 0))
  BY <1>1, <1>2
<1> QED
  BY <1>3, <1>4, <1>5, <1>6

\* A quotient of words is a word.
LEMMA QuotientIsLess ==
    ASSUME NEW u \in Value, NEW p \in Nat, p > 0
    PROVE  u \div p \in Value
<1> u \in Nat
  BY WordSize DEF Value
<1>1. u \div p \in Int /\ u % p \in 0 .. p - 1 /\ u = p * (u \div p) + (u % p)
  BY Divides
<1> DEFINE q == u \div p
           r == u % p
<1> HIDE DEF q, r
<1>2. q \in Int /\ r \in 0 .. p - 1 /\ u = p * q + r
  BY <1>1 DEF q, r
<1>3. p * q \in Int /\ (q <= -1 => p * q <= -p)
  BY <1>2, ProductGrows
<1>4. q >= 0
  BY <1>2, <1>3
<1>5. p * q >= q
  <2>1. CASE q = 0
    BY <2>1
  <2>2. CASE q > 0
    <3>1. q * p >= q /\ q * p = p * q
      BY <1>2, <2>2, ProductGrows
    <3> QED
      BY <3>1
  <2> QED
    BY <1>2, <1>4, <2>1, <2>2
<1>6. q \in Nat /\ q <= u
  BY <1>2, <1>3, <1>4, <1>5
<1>7. q \in Value
  BY <1>6, WordSize DEF Value
<1> QED
  BY <1>7 DEF q

\* What RegResult returns is a word.
LEMMA ResultType ==
    ASSUME NEW op \in RegOps, NEW x \in Value, NEW y \in Value
    PROVE  RegResult(op, x, y) \in Value
<1>1. /\ x \in Int /\ y \in Int /\ 0 \in Value /\ AsInt(x) \in Int /\ AsInt(y) \in Int
      /\ y # 0 => AsInt(y) # 0
  BY AsIntIs, WordSize DEF Value
<1>2. CASE op \in {"add", "sub"}
  <2>1. x + y \in Int /\ x - y \in Int
    BY <1>1
  <2> QED
    BY <1>2, <2>1, Results, UnsignedType
<1>3. CASE op \in {"and", "or", "xor"}
  BY <1>3, Results, BitwiseType
<1> DEFINE p == TwoTo[ShiftAmount(y)]
<1>4. p \in Nat /\ p > 0
  BY ShiftAmountType, TwoToSteps, Widths
<1> HIDE DEF p
<1>5. \A u \in Int : u \div p \in Int
  BY <1>4, Divides
<1>6. CASE op = "sll"
  <2>1. x * p \in Int
    BY <1>1, <1>4
  <2> QED
    BY <1>6, <2>1, Results, UnsignedType DEF p
<1>7. CASE op = "srl"
  <2>1. x \div p \in Value
    BY <1>4, QuotientIsLess
  <2> QED
    BY <1>7, <2>1, Results DEF p
<1>8. CASE op = "sra"
  <2>1. AsInt(x) \div p \in Int
    BY <1>1, <1>5
  <2> QED
    BY <1>8, <2>1, Results, UnsignedType DEF p, ShiftArithmetic
<1>9. CASE op \in {"ff1", "fl1"}
  <2>1. ASSUME x # 0 PROVE Min(BitsOf(x)) \in 0 .. Width - 1 /\ Max(BitsOf(x)) \in 0 .. Width - 1
    <3>1. BitsOf(x) # {} /\ BitsOf(x) \in SUBSET (0 .. Width - 1)
      BY <2>1, SomeBit DEF BitsOf, Bits
    <3>2. Min(BitsOf(x)) \in BitsOf(x) /\ Max(BitsOf(x)) \in BitsOf(x)
      BY <3>1, EndsOf, Widths
    <3> QED
      BY <3>1, <3>2
  <2>2. FindFirst(x) \in Value /\ FindLast(x) \in Value
    BY <1>1, <2>1, WordSize, Widths DEF FindFirst, FindLast, Value
  <2> QED
    BY <1>9, <2>2, Results
<1>10. CASE op = "mul"
  <2>1. AsInt(x) * AsInt(y) \in Int
    BY <1>1
  <2> QED
    BY <1>10, <2>1, Results, UnsignedType
<1>11. CASE op = "div"
  <2>1. y # 0 => Quotient(AsInt(x), AsInt(y)) \in Int
    <3>1. \A m, n \in Int : n # 0 => Quotient(m, n) \in Int
      BY QuotientIs
    <3> QED
      BY <1>1, <3>1
  <2> QED
    BY <1>1, <1>11, <2>1, Results, UnsignedType
<1>12. CASE op = "divu"
  <2>1. y # 0 => x \div y \in Value
    <3> SUFFICES ASSUME y # 0 PROVE x \div y \in Value
      OBVIOUS
    <3>1. y \in Nat /\ y > 0
      BY WordSize DEF Value
    <3> QED
      BY <3>1, QuotientIsLess
  <2> QED
    BY <1>1, <1>12, <2>1, Results
<1> QED
  BY <1>2, <1>3, <1>6, <1>7, <1>8, <1>9, <1>10, <1>11, <1>12 DEF RegOps

-----------------------------------------------------------------------------
(* Comparisons.                                                             *)

\* Signed numbers are ordered as words are with their top bits turned.
LEMMA OrderWithTop ==
    ASSUME NEW x \in Value, NEW y \in Value
    PROVE  AsInt(x) < AsInt(y) <=> Xor(x, TopBit) < Xor(y, TopBit)
BY AsIntIs, XorWithTop, WordSize DEF Value

\* Of less, equal and greater one holds.
LEMMA OneOfThree ==
    ASSUME NEW a, NEW b, NEW c, a # b, b # c, a # c, NEW H \in SUBSET {a, b, c},
           \/ a \in H /\ b \notin H /\ c \notin H
           \/ a \notin H /\ b \in H /\ c \notin H
           \/ a \notin H /\ b \notin H /\ c \in H
    PROVE  Cardinality(H) = 1
<1>1. H = {a} \/ H = {b} \/ H = {c}
  OBVIOUS
<1> QED
  BY <1>1, FS_Singleton

\* The first half of ComparisonsAgree, for two words.
LEMMA RegisterComparisons ==
    ASSUME NEW x \in Value, NEW y \in Value
    PROVE  /\ Compare("sfeq", x, y) = ~Compare("sfne", x, y)
           /\ \A s \in {"u", "s"} :
                  LET lt == IF s = "u" THEN "sfltu" ELSE "sflts"
                      le == IF s = "u" THEN "sfleu" ELSE "sfles"
                      gt == IF s = "u" THEN "sfgtu" ELSE "sfgts"
                      ge == IF s = "u" THEN "sfgeu" ELSE "sfges"
                  IN  /\ Cardinality({op \in {lt, "sfeq", gt} : Compare(op, x, y)}) = 1
                      /\ Compare(lt, x, y) = ~Compare(ge, x, y)
                      /\ Compare(gt, x, y) = ~Compare(le, x, y)
                      /\ Compare(lt, x, y) = Compare(gt, y, x)
           /\ Compare("sflts", x, y) =
                  Compare("sfltu", RegResult("xor", x, TopBit), RegResult("xor", y, TopBit))
<1>1. /\ x \in Int /\ y \in Int /\ AsInt(x) \in Int /\ AsInt(y) \in Int
      /\ AsInt(x) = AsInt(y) <=> x = y
  BY AsIntIs, WordSize DEF Value
<1>2. Compare("sfeq", x, y) = ~Compare("sfne", x, y)
  BY DEF Compare
<1>3. Compare("sflts", x, y) =
          Compare("sfltu", RegResult("xor", x, TopBit), RegResult("xor", y, TopBit))
  <2>1. RegResult("xor", x, TopBit) = Xor(x, TopBit) /\ RegResult("xor", y, TopBit) = Xor(y, TopBit)
    BY Results
  <2>2. Compare("sflts", x, y) = Compare("sfltu", Xor(x, TopBit), Xor(y, TopBit))
    BY OrderWithTop DEF Compare
  <2> QED
    BY <2>1, <2>2
<1>4. /\ Cardinality({op \in {"sfltu", "sfeq", "sfgtu"} : Compare(op, x, y)}) = 1
      /\ Cardinality({op \in {"sflts", "sfeq", "sfgts"} : Compare(op, x, y)}) = 1
  <2>1. /\ Compare("sfeq", x, y) <=> x = y
        /\ (Compare("sfltu", x, y) <=> x < y) /\ (Compare("sfgtu", x, y) <=> x > y)
        /\ Compare("sflts", x, y) <=> AsInt(x) < AsInt(y)
        /\ Compare("sfgts", x, y) <=> AsInt(x) > AsInt(y)
    BY DEF Compare
  <2> DEFINE U == {op \in {"sfltu", "sfeq", "sfgtu"} : Compare(op, x, y)}
             S == {op \in {"sflts", "sfeq", "sfgts"} : Compare(op, x, y)}
  <2>2. /\ U \in SUBSET {"sfltu", "sfeq", "sfgtu"}
        /\ ("sfeq" \in U <=> x = y) /\ ("sfltu" \in U <=> x < y) /\ ("sfgtu" \in U <=> x > y)
    BY <2>1
  <2>3. /\ S \in SUBSET {"sflts", "sfeq", "sfgts"}
        /\ "sfeq" \in S <=> x = y
        /\ "sflts" \in S <=> AsInt(x) < AsInt(y)
        /\ "sfgts" \in S <=> AsInt(x) > AsInt(y)
    BY <2>1
  <2> HIDE DEF U, S
  <2>4. \/ "sfltu" \in U /\ "sfeq" \notin U /\ "sfgtu" \notin U
        \/ "sfltu" \notin U /\ "sfeq" \in U /\ "sfgtu" \notin U
        \/ "sfltu" \notin U /\ "sfeq" \notin U /\ "sfgtu" \in U
    BY <1>1, <2>2
  <2>5. \/ "sflts" \in S /\ "sfeq" \notin S /\ "sfgts" \notin S
        \/ "sflts" \notin S /\ "sfeq" \in S /\ "sfgts" \notin S
        \/ "sflts" \notin S /\ "sfeq" \notin S /\ "sfgts" \in S
    BY <1>1, <2>3
  <2>6. Cardinality(U) = 1
    <3> DEFINE a == "sfltu"
               b == "sfeq"
               c == "sfgtu"
    <3>1. /\ a # b /\ b # c /\ a # c /\ U \in SUBSET {a, b, c}
          /\ \/ a \in U /\ b \notin U /\ c \notin U
             \/ a \notin U /\ b \in U /\ c \notin U
             \/ a \notin U /\ b \notin U /\ c \in U
      BY <2>2, <2>4
    <3> HIDE DEF a, b, c
    <3> QED
      BY <3>1, OneOfThree
  <2>7. Cardinality(S) = 1
    <3> DEFINE a == "sflts"
               b == "sfeq"
               c == "sfgts"
    <3>1. /\ a # b /\ b # c /\ a # c /\ S \in SUBSET {a, b, c}
          /\ \/ a \in S /\ b \notin S /\ c \notin S
             \/ a \notin S /\ b \in S /\ c \notin S
             \/ a \notin S /\ b \notin S /\ c \in S
      BY <2>3, <2>5
    <3> HIDE DEF a, b, c
    <3> QED
      BY <3>1, OneOfThree
  <2> QED
    BY <2>6, <2>7 DEF U, S
<1>5. /\ Compare("sfltu", x, y) = ~Compare("sfgeu", x, y)
      /\ Compare("sfgtu", x, y) = ~Compare("sfleu", x, y)
      /\ Compare("sfltu", x, y) = Compare("sfgtu", y, x)
      /\ Compare("sflts", x, y) = ~Compare("sfges", x, y)
      /\ Compare("sfgts", x, y) = ~Compare("sfles", x, y)
      /\ Compare("sflts", x, y) = Compare("sfgts", y, x)
  BY <1>1 DEF Compare
<1> QED
  BY <1>2, <1>3, <1>4, <1>5

\* A comparison with a constant: the constant is a signed number of a word.
LEMMA ConstantComparisons ==
    ASSUME NEW x \in Value, NEW op \in CompareOps, NEW i \in SignedConstant
    PROVE  CompareI(op, x, i) = Compare(op, x, AddI(0, i))
<1>1. i \in SignedWord
  BY HalfSize, WordSize DEF SignedConstant, SignedWord
<1>2. i \in Int /\ AsInt(Unsigned(i)) = i /\ AddI(0, i) = Unsigned(i)
  <2>1. i \in Int /\ AsInt(Unsigned(i)) = i
    BY <1>1, AsIntOfUnsigned
  <2>2. 0 + i = i
    BY <2>1
  <2> QED
    BY <2>1, <2>2 DEF AddI
<1>3. AsInt(x) = i <=> x = Unsigned(i)
  <2> DEFINE u == Unsigned(i)
  <2>1. u \in Value /\ AsInt(u) = i
    BY <1>2, UnsignedType
  <2> HIDE DEF u
  <2>2. AsInt(x) = AsInt(u) <=> x = u
    BY <2>1, AsIntIs, WordSize DEF Value
  <2> QED
    BY <2>1, <2>2 DEF u
<1>4. Compare(op, x, Unsigned(i)) = CompareI(op, x, i)
  BY <1>2, <1>3 DEF Compare, CompareI, CompareOps
<1> QED
  BY <1>2, <1>4

-----------------------------------------------------------------------------
(* Arithmetic of words is arithmetic of any numbers that agree with them.   *)

\* Sums, differences and products depend on the words only.
LEMMA Modular ==
    ASSUME NEW x \in Int, NEW y \in Int, NEW u \in Int, NEW v \in Int,
           Unsigned(x) = Unsigned(u), Unsigned(y) = Unsigned(v)
    PROVE  /\ Unsigned(x + y) = Unsigned(u + v)
           /\ Unsigned(x - y) = Unsigned(u - v)
           /\ Unsigned(x * y) = Unsigned(u * v)
<1>1. SameBelow(Width, x, u) /\ SameBelow(Width, y, v)
  BY UnsignedAgrees
<1>2. /\ SameBelow(Width, x + y, u + v) /\ SameBelow(Width, x - y, u - v)
      /\ SameBelow(Width, x * y, u * v)
  BY <1>1, SumsAgree, Widths
<1> DEFINE a == x + y
           b == u + v
           c == x - y
           d == u - v
           m == x * y
           n == u * v
<1>3. a \in Int /\ b \in Int /\ c \in Int /\ d \in Int /\ m \in Int /\ n \in Int
  OBVIOUS
<1>4. SameBelow(Width, a, b) /\ SameBelow(Width, c, d) /\ SameBelow(Width, m, n)
  BY <1>2
<1> HIDE DEF a, b, c, d, m, n
<1>5. Unsigned(a) = Unsigned(b) /\ Unsigned(c) = Unsigned(d) /\ Unsigned(m) = Unsigned(n)
  BY <1>3, <1>4, UnsignedAgrees
<1> QED
  BY <1>5 DEF a, b, c, d, m, n

\* A number, its word and the signed number of that word.
LEMMA Conversions ==
    /\ \A v \in Int : Unsigned(v) \in Value /\ Unsigned(v) \in Int
                      /\ Unsigned(Unsigned(v)) = Unsigned(v)
    /\ \A v \in Value : v \in Int /\ Unsigned(v) = v
                        /\ AsInt(v) \in Int /\ Unsigned(AsInt(v)) = v
<1>1. \A v \in Value : v \in Int /\ Unsigned(v) = v
  BY AsIntIs, UnsignedIs
<1>2. \A v \in Int : Unsigned(v) \in Value /\ Unsigned(v) \in Int
                     /\ Unsigned(Unsigned(v)) = Unsigned(v)
  BY <1>1, UnsignedType
<1>3. ASSUME NEW v \in Value PROVE AsInt(v) \in Int /\ Unsigned(AsInt(v)) = v
  <2>1. AsInt(v) \in Int /\ SameBelow(Width, v, AsInt(v)) /\ v \in Int
    BY AsIntIs
  <2>2. Unsigned(v) = Unsigned(AsInt(v))
    BY <2>1, UnsignedAgrees
  <2> QED
    BY <1>1, <2>1, <2>2
<1> QED
  BY <1>1, <1>2, <1>3

\* l.mul multiplies whatever the words stand for.
LEMMA MulIs ==
    ASSUME NEW a \in Int, NEW b \in Int
    PROVE  RegResult("mul", Unsigned(a), Unsigned(b)) = Unsigned(a * b)
<1> DEFINE x == Unsigned(a)
           y == Unsigned(b)
<1>1. x \in Value /\ y \in Value /\ Unsigned(a) = x /\ Unsigned(b) = y
  BY Conversions
<1> HIDE DEF x, y
<1>2. AsInt(x) \in Int /\ AsInt(y) \in Int /\ Unsigned(AsInt(x)) = x /\ Unsigned(AsInt(y)) = y
  BY <1>1, Conversions
<1>3. Unsigned(AsInt(x) * AsInt(y)) = Unsigned(a * b)
  BY <1>1, <1>2, Modular
<1>4. RegResult("mul", x, y) = Unsigned(AsInt(x) * AsInt(y))
  BY Results
<1> QED
  BY <1>3, <1>4 DEF x, y

\* So does l.sub.
LEMMA SubIs ==
    ASSUME NEW a \in Int, NEW b \in Int
    PROVE  RegResult("sub", Unsigned(a), Unsigned(b)) = Unsigned(a - b)
<1> DEFINE x == Unsigned(a)
           y == Unsigned(b)
<1>1. /\ x \in Int /\ y \in Int /\ Unsigned(a) = Unsigned(x) /\ Unsigned(b) = Unsigned(y)
  BY Conversions
<1> HIDE DEF x, y
<1>2. Unsigned(x - y) = Unsigned(a - b)
  BY <1>1, Modular
<1>3. RegResult("sub", x, y) = Unsigned(x - y)
  BY Results
<1> QED
  BY <1>2, <1>3 DEF x, y

\* What is left after a division.
LEMMA LeftIs ==
    ASSUME NEW a \in Int, NEW b \in Int, NEW q \in Int
    PROVE  RegResult("sub", Unsigned(a), RegResult("mul", Unsigned(q), Unsigned(b)))
               = Unsigned(a - q * b)
<1> DEFINE m == q * b
<1>1. m \in Int /\ RegResult("mul", Unsigned(q), Unsigned(b)) = Unsigned(m)
  BY MulIs
<1> HIDE DEF m
<1>2. RegResult("sub", Unsigned(a), Unsigned(m)) = Unsigned(a - m)
  BY <1>1, SubIs
<1> QED
  BY <1>1, <1>2 DEF m

-----------------------------------------------------------------------------
(* Division.                                                                *)

\* What is left after l.divu is smaller than the divisor.
LEMMA UnsignedDivision ==
    ASSUME NEW x \in Value, NEW y \in Value, y # 0
    PROVE  RegResult("sub", x, RegResult("mul", RegResult("divu", x, y), y)) < y
<1>1. x \in Int /\ y \in Nat /\ y > 0 /\ Unsigned(x) = x /\ Unsigned(y) = y
  BY Conversions, WordSize DEF Value
<1> DEFINE q == x \div y
           r == x % y
<1>2. q \in Int /\ r \in 0 .. y - 1 /\ x = y * q + r
  BY <1>1, Divides
<1>3. RegResult("divu", x, y) = q /\ q \in Value
  BY <1>1, Results, QuotientIsLess
<1> HIDE DEF q, r
<1>4. Unsigned(q) = q
  BY <1>3, Conversions
<1>5. RegResult("sub", x, RegResult("mul", q, y)) = Unsigned(x - q * y)
  <2>1. RegResult("sub", Unsigned(x), RegResult("mul", Unsigned(q), Unsigned(y)))
            = Unsigned(x - q * y)
    BY <1>1, <1>2, LeftIs
  <2> QED
    BY <1>1, <1>4, <2>1
<1>6. x - q * y = r
  BY <1>1, <1>2
<1>7. r \in Value
  BY <1>1, <1>2, WordSize DEF Value
<1>8. Unsigned(r) = r
  BY <1>7, Conversions
<1> QED
  BY <1>2, <1>3, <1>5, <1>6, <1>8

\* The size of a word: what l.sub leaves of it, if it is negative.
LEMMA SizeIs ==
    ASSUME NEW i \in SignedWord
    PROVE  LET v == Unsigned(i) IN
           (IF Compare("sflts", v, 0) THEN RegResult("sub", 0, v) ELSE v)
               = IF i < 0 THEN -i ELSE i
<1> DEFINE v == Unsigned(i)
<1>1. i \in Int /\ AsInt(v) = i /\ v \in Value
  BY AsIntOfUnsigned, UnsignedType
<1>2. 0 \in Value /\ AsInt(0) = 0 /\ Unsigned(0) = 0 /\ 0 \in Int
  <2>1. 0 \in Value
    BY WordSize DEF Value
  <2> QED
    BY <2>1, AsIntIs, Conversions, WordSize
<1> HIDE DEF v
<1>3. Compare("sflts", v, 0) <=> i < 0
  BY <1>1, <1>2 DEF Compare
<1>4. CASE i < 0
  <2>1. RegResult("sub", 0, v) = Unsigned(0 - i)
    <3> DEFINE zero == 0
    <3>1. zero \in Int /\ Unsigned(zero) = zero
      BY <1>2
    <3> HIDE DEF zero
    <3>2. RegResult("sub", Unsigned(zero), Unsigned(i)) = Unsigned(zero - i)
      BY <1>1, <3>1, SubIs
    <3>3. RegResult("sub", zero, v) = Unsigned(zero - i)
      BY <3>1, <3>2 DEF v
    <3> QED
      BY <3>3 DEF zero
  <2>2. 0 - i = -i /\ -i \in Value
    BY <1>1, <1>4, WordSize DEF SignedWord, Value
  <2>3. Unsigned(-i) = -i
    BY <2>2, Conversions
  <2> QED
    BY <1>3, <1>4, <2>1, <2>2, <2>3 DEF v
<1>5. CASE i >= 0
  <2>1. i \in Value
    BY <1>1, <1>5, WordSize DEF SignedWord, Value
  <2>2. v = i
    BY <2>1, Conversions DEF v
  <2> QED
    BY <1>1, <1>3, <1>5, <2>2 DEF v
<1> QED
  BY <1>1, <1>4, <1>5

\* What is left after l.div is smaller, and has the sign of the dividend.
LEMMA SignedDivision ==
    ASSUME NEW x \in Value, NEW y \in Value, y # 0
    PROVE  LET left    == RegResult("sub", x, RegResult("mul", RegResult("div", x, y), y))
               Size(v) == IF Compare("sflts", v, 0) THEN RegResult("sub", 0, v) ELSE v
           IN  /\ Size(left) < Size(y)
               /\ left # 0 => (Compare("sflts", left, 0) = Compare("sflts", x, 0))
<1> DEFINE m == AsInt(x)
           n == AsInt(y)
<1>1. /\ m \in SignedWord /\ n \in SignedWord /\ m \in Int /\ n \in Int /\ n # 0
      /\ Unsigned(m) = x /\ Unsigned(n) = y
  BY AsIntIs, Conversions, WordSize DEF Value
<1>2. PICK q, r \in Int :
          /\ Quotient(m, n) = q /\ m - q * n = r
          /\ r < IF n < 0 THEN -n ELSE n
          /\ -r < IF n < 0 THEN -n ELSE n
          /\ r # 0 => (r < 0 <=> m < 0)
  <2> HIDE DEF m, n
  <2> QED
    BY <1>1, QuotientIs
<1> DEFINE left == RegResult("sub", x, RegResult("mul", RegResult("div", x, y), y))
<1>3. left = Unsigned(r)
  <2>1. RegResult("div", x, y) = Unsigned(q)
    BY <1>2, Results
  <2> HIDE DEF m, n
  <2>2. RegResult("sub", Unsigned(m), RegResult("mul", Unsigned(q), Unsigned(n)))
            = Unsigned(m - q * n)
    BY <1>1, LeftIs
  <2> QED
    BY <1>1, <1>2, <2>1, <2>2
<1>4. r \in SignedWord
  BY <1>1, <1>2, WordSize DEF SignedWord
<1>5. AsInt(left) = r
  BY <1>3, <1>4, AsIntOfUnsigned
<1> HIDE DEF left
<1> DEFINE Size(v) == IF Compare("sflts", v, 0) THEN RegResult("sub", 0, v) ELSE v
<1>6. Size(left) = IF r < 0 THEN -r ELSE r
  BY <1>3, <1>4, SizeIs
<1>7. Size(y) = IF n < 0 THEN -n ELSE n
  BY <1>1, SizeIs
<1> HIDE DEF Size
<1>8. Size(left) < Size(y)
  BY <1>1, <1>2, <1>6, <1>7
<1>9. left # 0 => (Compare("sflts", left, 0) = Compare("sflts", x, 0))
  <2>1. AsInt(0) = 0 /\ Unsigned(0) = 0
    <3>1. 0 \in Value
      BY WordSize DEF Value
    <3> QED
      BY <3>1, AsIntIs, Conversions, WordSize
  <2>2. left # 0 => r # 0
    BY <1>3, <2>1
  <2>3. Compare("sflts", left, 0) = (r < 0) /\ Compare("sflts", x, 0) = (m < 0)
    BY <1>5, <2>1 DEF Compare
  <2>4. left # 0 => (r < 0) = (m < 0)
    BY <1>2, <2>2
  <2> QED
    BY <2>3, <2>4
<1> QED
  BY <1>8, <1>9 DEF Size, left

-----------------------------------------------------------------------------
(* Shifts.                                                                  *)

\* The amount of a shift is what l.andi with the width less one leaves.
LEMMA AmountIs ==
    /\ \A y \in Value : /\ ShiftAmount(y) \in 0 .. Width - 1
                        /\ ShiftAmount(ShiftAmount(y)) = ShiftAmount(y)
                        /\ AndI(y, Width - 1) = ShiftAmount(y)
    /\ \A l \in 0 .. Width - 1 : ShiftAmount(l) = l /\ l \in Value
<1>1. \A l \in 0 .. Width - 1 : ShiftAmount(l) = l
  <2> DEFINE w == Width
  <2>1. w \in Nat /\ w > 0
    BY Widths
  <2> HIDE DEF w
  <2>2. \A l \in 0 .. w - 1 : l % w = l
    <3> TAKE l \in 0 .. w - 1
    <3>1. l = w * 0 + l /\ l \in Int
      BY <2>1
    <3> DEFINE zero == 0
    <3>2. zero \in Int /\ l = w * zero + l
      BY <3>1
    <3> HIDE DEF zero
    <3> QED
      BY <2>1, <3>1, <3>2, DivisionIsUnique
  <2> QED
    BY <2>2 DEF w, ShiftAmount
<1>2. \A l \in 0 .. Width - 1 : l \in Value
  BY WordSize DEF Value
<1>3. ASSUME NEW y \in Value PROVE AndI(y, Width - 1) = ShiftAmount(y)
  <2>1. \E e \in 0 .. Width : TwoTo[e] = Width
    <3>1. TwoTo[2] = 4 /\ TwoTo[3] = 8 /\ TwoTo[4] = 16 /\ TwoTo[5] = 32
      <4>1. TwoTo[0 + 1] = 2
        BY TwoToSteps
      <4>2. TwoTo[1 + 1] = 4
        BY <4>1, TwoToSteps
      <4>3. TwoTo[2 + 1] = 8
        BY <4>2, TwoToSteps
      <4>4. TwoTo[3 + 1] = 16
        BY <4>3, TwoToSteps
      <4>5. TwoTo[4 + 1] = 32
        BY <4>4, TwoToSteps
      <4> QED
        BY <4>2, <4>3, <4>4, <4>5
    <3>2. Width \in {4, 8, 16, 32}
      BY DataPathAssumption
    <3>3. CASE Width = 4
      BY <3>1, <3>3
    <3>4. CASE Width = 8
      BY <3>1, <3>4
    <3>5. CASE Width = 16
      BY <3>1, <3>5
    <3>6. CASE Width = 32
      BY <3>1, <3>6
    <3> QED
      BY <3>2, <3>3, <3>4, <3>5, <3>6
  <2>2. PICK e \in 0 .. Width : TwoTo[e] = Width
    BY <2>1
  <2>3. And(y, TwoTo[e] - 1) = y % TwoTo[e]
    BY AndWithOnes
  <2> QED
    BY <2>2, <2>3 DEF AndI, ShiftAmount
<1> QED
  BY <1>1, <1>2, <1>3, ShiftAmountType

\* An arithmetic shift, by whether the top bit is 1.
LEMMA ShiftArithmeticIs ==
    ASSUME NEW x \in Value, NEW s \in 0 .. Width - 1
    PROVE  ShiftArithmetic(x, s) =
               IF x < TopBit THEN x \div TwoTo[s]
               ELSE TwoTo[Width] - 1 - ((TwoTo[Width] - 1 - x) \div TwoTo[s])
<1> DEFINE p == TwoTo[s]
           w == TwoTo[Width]
<1>1. p \in Nat /\ p > 0 /\ w \in Nat /\ w = 2 * TopBit /\ x \in Int /\ TopBit \in Nat
  BY TwoToSteps, WordSize DEF Value
<1>2. CASE x < TopBit
  <2>1. x \div p \in Value
    BY <1>1, QuotientIsLess
  <2>2. AsInt(x) = x
    BY <1>2, AsIntIs
  <2> QED
    BY <1>2, <2>1, <2>2, Conversions DEF ShiftArithmetic
<1>3. CASE ~(x < TopBit)
  <2> DEFINE i == x - w
             a == i \div p
             b == i % p
             n == w - 1 - x
  <2>1. AsInt(x) = i /\ i \in Int
    BY <1>1, <1>3, AsIntIs
  <2>2. n \in Value /\ n = -i - 1 /\ n \in Int
    BY <1>1 DEF Value
  <2> HIDE DEF i, n, w
  <2>3. a \in Int /\ b \in 0 .. p - 1 /\ i = p * a + b
    <3> HIDE DEF p
    <3> QED
      BY <1>1, <2>1, Divides
  <2> HIDE DEF a, b, p
  <2>4. n \div p = -a - 1
    <3> DEFINE c == -a - 1
               r == p - 1 - b
    <3>1. c \in Int /\ r \in 0 .. p - 1
      BY <1>1, <2>3
    <3>2. n = p * c + r
      BY <1>1, <2>2, <2>3
    <3> HIDE DEF c, r
    <3>3. n \div p = c
      BY <1>1, <2>2, <3>1, <3>2, DivisionIsUnique
    <3> QED
      BY <3>3 DEF c
  <2>5. n \div p \in Value
    BY <1>1, <2>2, QuotientIsLess
  <2>6. a \in -TwoTo[Width] .. -1
    BY <1>1, <2>3, <2>4, <2>5 DEF Value, w
  <2>7. Unsigned(a) = a + TwoTo[Width]
    BY <2>3, <2>6, UnsignedIs
  <2>8. Unsigned(a) = w - 1 - (n \div p)
    BY <1>1, <2>3, <2>4, <2>7 DEF w
  <2>9. ShiftArithmetic(x, s) = Unsigned(a)
    BY <2>1 DEF ShiftArithmetic, a, p
  <2> QED
    BY <1>3, <2>8, <2>9 DEF n, p, w
<1> QED
  BY <1>2, <1>3

\* ShiftsScale, for two words.
LEMMA ShiftLaws ==
    ASSUME NEW x \in Value, NEW y \in Value
    PROVE  LET power    == RegResult("sll", 1, y)
               Not_(v)  == RegResult("xor", v, TwoTo[Width] - 1)
           IN  /\ RegResult("sll", x, y) = RegResult("mul", x, power)
               /\ RegResult("srl", x, y) = RegResult("divu", x, power)
               /\ RegResult("sra", x, y) =
                      IF Compare("sflts", x, 0) THEN Not_(RegResult("srl", Not_(x), y))
                                                ELSE RegResult("srl", x, y)
               /\ \A op \in {"sll", "srl", "sra"} :
                      RegResult(op, x, y) = RegResult(op, x, AndI(y, Width - 1))
               /\ \A l \in 0 .. Width - 1 :
                      /\ ShiftIResult("slli", x, l) = RegResult("sll", x, l)
                      /\ ShiftIResult("srli", x, l) = RegResult("srl", x, l)
                      /\ ShiftIResult("srai", x, l) = RegResult("sra", x, l)
<1> DEFINE s == ShiftAmount(y)
           p == TwoTo[s]
           power == RegResult("sll", 1, y)
           Not_(v) == RegResult("xor", v, TwoTo[Width] - 1)
<1>1. s \in 0 .. Width - 1 /\ s \in Nat
  BY ShiftAmountType
<1>2. p \in Nat /\ p > 0 /\ p \in Value /\ Unsigned(p) = p
  <2>1. s <= Width - 1 /\ Width - 1 \in Nat
    BY <1>1, WordSize
  <2>2. p \in Nat /\ p > 0 /\ p <= TopBit
    BY <1>1, <2>1, TwoToDivides DEF TopBit
  <2>3. p \in Value
    BY <2>2, WordSize DEF Value
  <2> QED
    BY <2>2, <2>3, Conversions
<1>3. x \in Int /\ Unsigned(x) = x
  BY Conversions
<1>4. power = p
  <2>1. power = Unsigned(1 * p)
    BY Results
  <2>2. 1 * p = p
    BY <1>2
  <2> QED
    BY <1>2, <2>1, <2>2
<1> HIDE DEF power
<1>5. RegResult("sll", x, y) = RegResult("mul", x, power)
  <2>1. RegResult("sll", x, y) = Unsigned(x * p)
    BY Results
  <2> HIDE DEF p
  <2>2. RegResult("mul", Unsigned(x), Unsigned(p)) = Unsigned(x * p)
    BY <1>2, <1>3, MulIs
  <2> QED
    BY <1>2, <1>3, <1>4, <2>1, <2>2
<1>6. RegResult("srl", x, y) = RegResult("divu", x, power)
  <2>1. RegResult("srl", x, y) = x \div p /\ RegResult("divu", x, p) = x \div p
    BY <1>2, Results
  <2> QED
    BY <1>4, <2>1
<1>7. RegResult("sra", x, y) =
          IF Compare("sflts", x, 0) THEN Not_(RegResult("srl", Not_(x), y))
                                    ELSE RegResult("srl", x, y)
  <2>1. Compare("sflts", x, 0) <=> ~(x < TopBit)
    <3>1. 0 \in Value
      BY WordSize DEF Value
    <3> QED
      BY <3>1, AsIntIs, WordSize DEF Compare, Value
  <2>2. RegResult("sra", x, y) = ShiftArithmetic(x, s)
    BY Results
  <2>3. \A v \in Value : Not_(v) = TwoTo[Width] - 1 - v
    BY Results, XorWithOnes
  <2>4. \A v \in Value : v \div p \in Value
    BY <1>2, QuotientIsLess
  <2>5. \A v \in Value : RegResult("srl", v, y) = v \div p
    BY Results
  <2>6. TwoTo[Width] - 1 - x \in Value
    BY <1>3, WordSize DEF Value
  <2> DEFINE n == TwoTo[Width] - 1 - x
             q == n \div p
  <2>7. n \in Value /\ q \in Value /\ Not_(x) = n /\ RegResult("srl", n, y) = q
        /\ Not_(q) = TwoTo[Width] - 1 - q
    <3>1. n \in Value /\ Not_(x) = n
      BY <2>3, <2>6
    <3> HIDE DEF n, Not_
    <3>2. q \in Value /\ RegResult("srl", n, y) = q
      BY <2>4, <2>5, <3>1
    <3> HIDE DEF q
    <3> QED
      BY <2>3, <3>1, <3>2
  <2>8. ShiftArithmetic(x, s) = IF x < TopBit THEN x \div p ELSE TwoTo[Width] - 1 - q
    BY <1>1, ShiftArithmeticIs
  <2> HIDE DEF n, q, Not_
  <2> QED
    BY <2>1, <2>2, <2>5, <2>7, <2>8
<1>8. \A op \in {"sll", "srl", "sra"} :
          RegResult(op, x, y) = RegResult(op, x, AndI(y, Width - 1))
  <2> DEFINE a == AndI(y, Width - 1)
  <2>1. ShiftAmount(a) = s /\ ShiftAmount(y) = s
    BY AmountIs
  <2> HIDE DEF a, s
  <2>2. /\ RegResult("sll", x, y) = RegResult("sll", x, a)
        /\ RegResult("srl", x, y) = RegResult("srl", x, a)
        /\ RegResult("sra", x, y) = RegResult("sra", x, a)
    BY <2>1 DEF RegResult
  <2> QED
    BY <2>2 DEF a
<1>9. \A l \in 0 .. Width - 1 :
          /\ ShiftIResult("slli", x, l) = RegResult("sll", x, l)
          /\ ShiftIResult("srli", x, l) = RegResult("srl", x, l)
          /\ ShiftIResult("srai", x, l) = RegResult("sra", x, l)
  BY AmountIs, Results
<1> QED
  BY <1>5, <1>6, <1>7, <1>8, <1>9 DEF power

-----------------------------------------------------------------------------
(* The ends of a word.                                                      *)

\* Below the first bit that is 1 there is nothing, and above the last.
LEMMA Ends ==
    ASSUME NEW x \in Value, x # 0
    PROVE  /\ LET f == Min(BitsOf(x)) IN
                  f \in 0 .. Width - 1 /\ Bit(x, f) = 1 /\ x % TwoTo[f] = 0
           /\ LET l == Max(BitsOf(x)) IN
                  l \in 0 .. Width - 1 /\ Bit(x, l) = 1 /\ x % TwoTo[l + 1] = x
<1> DEFINE f == Min(BitsOf(x))
           l == Max(BitsOf(x))
<1>1. /\ f \in BitsOf(x) /\ \A n \in BitsOf(x) : f <= n
      /\ l \in BitsOf(x) /\ \A n \in BitsOf(x) : n <= l
  <2>1. BitsOf(x) \in SUBSET (0 .. Width - 1) /\ BitsOf(x) # {}
    BY SomeBit DEF BitsOf, Bits
  <2> QED
    BY <2>1, Widths, EndsOf
<1> HIDE DEF f, l
<1>2. f \in 0 .. Width - 1 /\ Bit(x, f) = 1 /\ l \in 0 .. Width - 1 /\ Bit(x, l) = 1
  BY <1>1 DEF BitsOf, Bits
<1>3. BitsOf(x) \subseteq 0 .. Width - 1
  BY DEF BitsOf, Bits
<1>4. x \in Int
  BY Conversions
<1>5. x % TwoTo[f] = 0
  <2>1. f \in 0 .. Width
    BY <1>2, Widths
  <2>2. Bits(x % TwoTo[f], Width) = Bits(x, Width) \cap (0 .. f - 1)
    BY <1>4, <2>1, Widths, RemainderBits
  <2>3. BitsOf(x) \cap (0 .. f - 1) = {}
    BY <1>1, <1>2, <1>3
  <2>4. BitsOf(x % TwoTo[f]) = {}
    BY <2>2, <2>3 DEF BitsOf
  <2>5. x % TwoTo[f] \in Value
    BY <2>1, AndWithOnes
  <2> QED
    BY <2>4, <2>5, SomeBit
<1>6. x % TwoTo[l + 1] = x
  <2> DEFINE e == l + 1
  <2>1. e \in 0 .. Width
    BY <1>2, Widths
  <2>2. BitsOf(x) \cap (0 .. e - 1) = BitsOf(x)
    BY <1>1, <1>2, <1>3
  <2> HIDE DEF e
  <2>3. Bits(x % TwoTo[e], Width) = Bits(x, Width) \cap (0 .. e - 1)
    BY <1>4, <2>1, Widths, RemainderBits
  <2>4. BitsOf(x % TwoTo[e]) = BitsOf(x)
    BY <2>2, <2>3 DEF BitsOf
  <2>5. x % TwoTo[e] \in Value
    BY <2>1, AndWithOnes
  <2>6. x % TwoTo[e] = x
    BY <2>4, <2>5, SameWord
  <2> QED
    BY <2>6 DEF e
<1> QED
  BY <1>2, <1>5, <1>6 DEF f, l

\* FoundBitsAreEnds, for a word.
LEMMA FoundEnds ==
    ASSUME NEW x \in Value
    PROVE  LET first == RegResult("ff1", x, 0)
               last  == RegResult("fl1", x, 0)
           IN  IF x = 0
               THEN first = 0 /\ last = 0
               ELSE /\ ShiftIResult("srli", x, last - 1) = 1
                    /\ AndI(ShiftIResult("srli", x, first - 1), 1) = 1
                    /\ ShiftIResult("slli", ShiftIResult("srli", x, first - 1), first - 1) = x
<1>1. CASE x = 0
  BY <1>1, Results DEF FindFirst, FindLast
<1>2. CASE x # 0
  <2> DEFINE f == Min(BitsOf(x))
             l == Max(BitsOf(x))
             p == TwoTo[f]
             q == TwoTo[l]
  <2>1. /\ f \in 0 .. Width - 1 /\ Bit(x, f) = 1 /\ x % p = 0
        /\ l \in 0 .. Width - 1 /\ Bit(x, l) = 1 /\ x % TwoTo[l + 1] = x
    BY <1>2, Ends
  <2>2. RegResult("ff1", x, 0) - 1 = f /\ RegResult("fl1", x, 0) - 1 = l
    BY <1>2, <2>1, Results DEF FindFirst, FindLast
  <2> HIDE DEF f, l
  <2>3. x \in Int /\ Unsigned(x) = x
    BY Conversions
  <2>4. p \in Nat /\ p > 0 /\ q \in Nat /\ q > 0
    BY <2>1, TwoToSteps
  <2>5. (x \div p) % 2 = 1 /\ (x \div q) % 2 = 1
    BY <2>1 DEF Bit
  <2>6. x \div q = 1
    <3>1. x = (x % q) + q * 1
      <4>1. x % TwoTo[l + 1] = (x % TwoTo[l]) + TwoTo[l] * Bit(x, l)
        BY <2>1, <2>3, OneBitMore
      <4> QED
        BY <2>1, <4>1
    <3> DEFINE r == x % q
               one == 1
    <3>2. r \in 0 .. q - 1
      <4> HIDE DEF q
      <4> QED
        BY <2>3, <2>4, Divides
    <3>3. x = q * one + r /\ one \in Int
      BY <3>1, <3>2, <2>4
    <3> HIDE DEF r, one, q
    <3>4. x \div q = one
      BY <2>3, <2>4, <3>2, <3>3, DivisionIsUnique
    <3> QED
      BY <3>4 DEF one
  <2>7. x \div p \in Value
    BY <2>4, QuotientIsLess
  <2>8. And(x \div p, 1) = 1
    <3>1. TwoTo[1] = 2 /\ 1 \in 0 .. Width
      <4>1. TwoTo[0 + 1] = 2 * TwoTo[0] /\ TwoTo[0] = 1
        BY TwoToSteps
      <4> QED
        BY <4>1, Widths
    <3>2. And(x \div p, TwoTo[1] - 1) = (x \div p) % TwoTo[1]
      BY <2>7, <3>1, AndWithOnes
    <3> QED
      BY <2>5, <3>1, <3>2
  <2>9. Unsigned((x \div p) * p) = x
    <3> HIDE DEF p
    <3>1. x = p * (x \div p) + (x % p) /\ x \div p \in Int
      BY <2>3, <2>4, Divides
    <3> DEFINE k == x \div p
    <3>2. x = p * k + 0 /\ k \in Int
      BY <2>1, <3>1
    <3> HIDE DEF k
    <3>3. k * p = x
      BY <2>3, <2>4, <3>2
    <3> QED
      BY <2>3, <3>3 DEF k
  <2>10. /\ ShiftIResult("srli", x, l) = x \div q
         /\ ShiftIResult("srli", x, f) = x \div p
         /\ ShiftIResult("slli", x \div p, f) = Unsigned((x \div p) * p)
    BY Results
  <2> QED
    BY <1>2, <2>2, <2>6, <2>8, <2>9, <2>10 DEF AndI
<1> QED
  BY <1>1, <1>2

-----------------------------------------------------------------------------
(* Constants and loads.                                                     *)

\* ConstantsCompose, for a word.
LEMMA HalvesOf ==
    ASSUME NEW x \in Value
    PROVE  LET high  == x \div TwoTo[Half]
               low   == x % TwoTo[Half]
               carry == IF low < TwoTo[Half - 1] THEN 0 ELSE 1
           IN  /\ OrI(MovHi(high), low) = x
               /\ AddI(MovHi((high + carry) % TwoTo[Half]), Signed(low, Half)) = x
<1> DEFINE p == TwoTo[Half]
           h == TwoTo[Half - 1]
           w == TwoTo[Width]
           high == x \div p
           low == x % p
           carry == IF low < h THEN 0 ELSE 1
<1>1. /\ p \in Nat /\ p > 0 /\ h \in Nat /\ h > 0 /\ p = 2 * h /\ w = p * p
      /\ Half \in 0 .. Width /\ x \in Int /\ Unsigned(x) = x /\ w \in Nat /\ w > 0
  BY HalfSize, Widths, Conversions, WordSize
<1> HIDE DEF p
<1>2. high \in Int /\ low \in 0 .. p - 1 /\ x = p * high + low
  BY <1>1, Divides
<1> HIDE DEF high, low
<1>3. high * p + low = x /\ high * p = p * high
  BY <1>1, <1>2
<1>4. Or(high * p, low) = x
  <2>1. high * TwoTo[Half] + low \in Value /\ low \in 0 .. TwoTo[Half] - 1
    BY <1>2, <1>3 DEF p
  <2>2. Or(high * TwoTo[Half], low) = high * TwoTo[Half] + low
    BY <1>1, <1>2, <2>1, OrOfParts
  <2> QED
    BY <1>3, <2>2 DEF p
<1> DEFINE k == high + carry
           r == k % p
           s == Signed(low, Half)
<1>5. s = low - p * carry /\ carry \in 0 .. 1 /\ carry \in Int
  <2>1. s = IF low < h THEN low ELSE low - p
    BY DEF Signed, p
  <2>2. p * 0 = 0 /\ p * 1 = p
    BY <1>1
  <2> QED
    BY <1>1, <1>2, <2>1, <2>2
<1> HIDE DEF carry, s
<1>6. k \in Int
  BY <1>2, <1>5
<1> HIDE DEF k
<1> DEFINE c == k \div p
<1>7. c \in Int /\ r \in 0 .. p - 1 /\ k = p * c + r
  BY <1>1, <1>6, Divides
<1> HIDE DEF c, r
<1>8. r * p + s = x - w * c
  <2>1. r = high + carry - p * c /\ c \in Int /\ r \in Int
    <3>1. p * c \in Int /\ r \in Int
      BY <1>1, <1>7
    <3> QED
      BY <1>2, <1>5, <1>7, <3>1 DEF k
  <2>2. r * p = high * p + carry * p - p * c * p
    BY <1>1, <1>2, <1>5, <2>1
  <2>3. p * c * p = w * c /\ w * c \in Int
    BY <1>1, <2>1
  <2>4. carry * p = p * carry /\ p * carry \in Int
    BY <1>1, <1>5
  <2>5. high * p \in Int
    BY <1>1, <1>2
  <2> HIDE DEF w
  <2> QED
    BY <1>1, <1>2, <1>3, <1>5, <2>2, <2>3, <2>4, <2>5
<1>9. Unsigned(r * p + s) = x
  <2> DEFINE v == r * p + s
  <2>1. c \in Int /\ v = x + w * (-c) /\ -c \in Int
    <3>1. c \in Int
      BY <1>7
    <3> HIDE DEF w
    <3>2. w * (-c) = -(w * c) /\ w * c \in Int
      BY <1>1, <3>1
    <3> QED
      BY <1>1, <1>8, <3>1, <3>2
  <2>2. SameBelow(Width, x, v)
    BY <2>1 DEF SameBelow
  <2>3. v \in Int
    BY <1>1, <2>1
  <2> HIDE DEF v
  <2>4. Unsigned(v) = Unsigned(x)
    BY <1>1, <2>2, <2>3, UnsignedAgrees
  <2> QED
    BY <1>1, <2>4 DEF v
<1>10. OrI(MovHi(high), low) = x /\ AddI(MovHi(r), s) = x
  BY <1>4, <1>9 DEF OrI, MovHi, AddI, p
<1> QED
  BY <1>10 DEF k, r, s, carry, high, low, p

\* A number of `width' bits, with its sign, is shifted left and back.
LEMMA ExtensionIs ==
    ASSUME NEW width \in 1 .. Width - 1, NEW v \in 0 .. TwoTo[width] - 1
    PROVE  Extended(v, width) = Unsigned(Signed(v, width)) /\ Signed(v, width) \in Int
<1> DEFINE n == Width - width
           d == TwoTo[n]
           h == TwoTo[width - 1]
           s == Signed(v, width)
           u == v * d
<1>1. n \in 0 .. Width - 1 /\ n \in Nat /\ width - 1 \in Nat /\ width - 1 + 1 = width
      /\ width \in Nat /\ width + n = Width /\ width - 1 + n = Width - 1
  BY Widths
<1> HIDE DEF n
<1>2. d \in Nat /\ d > 0 /\ h \in Nat /\ h > 0 /\ TwoTo[width] = 2 * h
  BY <1>1, TwoToSteps
<1>3. TopBit = h * d /\ TwoTo[Width] = 2 * TopBit
  <2> DEFINE m == width - 1
  <2>1. m \in Nat /\ m + n = Width - 1
    BY <1>1
  <2> HIDE DEF m
  <2>2. TwoTo[m + n] = TwoTo[m] * TwoTo[n]
    BY <1>1, <2>1, TwoToAdds
  <2> QED
    BY <2>1, <2>2, WordSize DEF TopBit, m
<1> HIDE DEF d, h
<1>4. v \in Int /\ v >= 0 /\ v <= 2 * h - 1 /\ s = (IF v < h THEN v ELSE v - 2 * h) /\ s \in Int
  BY <1>2 DEF Signed, h
<1>5. u \in Int /\ u >= 0 /\ (v < h => u < TopBit) /\ (v >= h => u >= TopBit) /\ u < 2 * TopBit
  <2>1. /\ v * d \in Int /\ v * d >= 0
        /\ v < h => v * d < h * d
        /\ v >= h => v * d >= h * d
        /\ v * d < 2 * (h * d)
    <3>1. (h - v) * d = h * d - v * d /\ (2 * h - v) * d = 2 * (h * d) - v * d
      BY <1>2, <1>4
    <3>2. \A j \in Int : j > 0 => d * j > 0
      BY <1>2, ProductGrows
    <3>3. \A j \in Int : j >= 0 => d * j >= 0
      <4> TAKE j \in Int
      <4>1. CASE j = 0
        BY <1>2, <4>1
      <4>2. CASE j > 0
        BY <1>2, <3>2, <4>2
      <4> QED
        BY <4>1, <4>2
    <3>4. \A j \in Int : j * d = d * j
      BY <1>2
    <3> DEFINE a == h - v
               b == 2 * h - v
    <3>5. a \in Int /\ b \in Int /\ b > 0 /\ v - h \in Int
      BY <1>2, <1>4
    <3>6. (a > 0 => a * d > 0) /\ b * d > 0 /\ v * d >= 0
      <4> HIDE DEF a, b
      <4> QED
        BY <1>4, <3>2, <3>3, <3>4, <3>5
    <3>7. v >= h => (v - h) * d >= 0
      <4> DEFINE j == v - h
      <4>1. j \in Int /\ (v >= h => j >= 0)
        BY <1>2, <1>4
      <4> HIDE DEF j
      <4>2. v >= h => j * d >= 0
        BY <3>3, <3>4, <4>1
      <4> QED
        BY <4>2 DEF j
    <3>8. (v - h) * d = v * d - h * d
      BY <1>2, <1>4
    <3>9. v * d \in Int /\ h * d \in Int
      BY <1>2, <1>4
    <3> QED
      BY <1>2, <1>4, <3>1, <3>6, <3>7, <3>8, <3>9
  <2> QED
    BY <1>3, <2>1
<1> HIDE DEF u
<1>6. u \in Value /\ Unsigned(u) = u
  <2>1. u \in Value
    BY <1>3, <1>5, WordSize DEF Value
  <2> QED
    BY <2>1, Conversions
<1>7. AsInt(u) = s * d
  <2>1. AsInt(u) = IF u < TopBit THEN u ELSE u - 2 * TopBit
    BY <1>6, AsIntIs
  <2>2. (v - 2 * h) * d = v * d - 2 * (h * d)
    BY <1>2, <1>4
  <2>3. u - 2 * TopBit = (v - 2 * h) * d /\ u = v * d
    BY <1>3, <2>2 DEF u
  <2>4. CASE v < h
    BY <1>4, <1>5, <2>1, <2>3, <2>4
  <2>5. CASE v >= h
    <3>1. ~(u < TopBit)
      BY <1>5, <2>5, WordSize
    <3>2. s = v - 2 * h
      BY <1>2, <1>4, <2>5
    <3> QED
      BY <2>1, <2>3, <3>1, <3>2
  <2> QED
    BY <1>2, <1>4, <2>4, <2>5
<1> HIDE DEF s
<1>8. (s * d) \div d = s
  <2> DEFINE zero == 0
             m == s * d
  <2>1. m = d * s + zero /\ zero \in 0 .. d - 1 /\ m \in Int
    BY <1>2, <1>4
  <2> HIDE DEF zero, m
  <2>2. m \div d = s
    BY <1>2, <1>4, <2>1, DivisionIsUnique
  <2> QED
    BY <2>2 DEF m
<1>9. /\ ShiftIResult("slli", v, n) = Unsigned(u)
      /\ ShiftIResult("srai", u, n) = Unsigned(AsInt(u) \div d)
  <2>1. ShiftIResult("slli", v, n) = Unsigned(u)
    BY Results DEF u, d
  <2>2. ShiftIResult("srai", u, n) = Unsigned(AsInt(u) \div d)
    BY Results DEF d, ShiftArithmetic
  <2> QED
    BY <2>1, <2>2
<1> QED
  BY <1>4, <1>6, <1>7, <1>8, <1>9 DEF Extended, n, s

-----------------------------------------------------------------------------
(* The registers hold words, whatever runs.                                 *)

DataPathTypeOK ==
    /\ reg \in [Reg -> Value] /\ flag \in BOOLEAN
    /\ char_is_signed \in BOOLEAN

\* A shift by a constant makes a word.
LEMMA ShiftIType ==
    ASSUME NEW op \in ShiftIOps, NEW x \in Value, NEW l \in 0 .. Width - 1
    PROVE  ShiftIResult(op, x, l) \in Value
<1>1. ShiftAmount(l) = l /\ l \in Value
  BY AmountIs
<1>2. \A o \in RegOps : RegResult(o, x, l) \in Value
  BY <1>1, ResultType
<1>3. /\ ShiftIResult("slli", x, l) = RegResult("sll", x, l)
      /\ ShiftIResult("srli", x, l) = RegResult("srl", x, l)
      /\ ShiftIResult("srai", x, l) = RegResult("sra", x, l)
  BY <1>1, Results
<1> QED
  BY <1>2, <1>3 DEF ShiftIOps, RegOps

\* Bytes and halves are words, with or without their signs.
LEMMA LoadTypes ==
    /\ \A v \in ByteValue : v \in Value /\ v \in 0 .. TwoTo[ByteWidth] - 1
                            /\ Signed(v, ByteWidth) \in Int
    /\ \A v \in HalfValue : v \in Value /\ v \in 0 .. TwoTo[Half] - 1
                            /\ Signed(v, Half) \in Int
    /\ ByteWidth \in 1 .. Width - 1 /\ Half \in 1 .. Width - 1
<1>1. /\ ByteWidth \in 1 .. Width - 1 /\ Half \in 1 .. Width - 1 /\ ByteWidth \in Nat
      /\ Half \in Nat /\ Width \in Nat /\ ByteWidth <= Width
  BY Widths
<1>2. TwoTo[ByteWidth] \in Nat /\ TwoTo[ByteWidth] <= TwoTo[Width]
  BY <1>1, TwoToDivides
<1>3. TwoTo[Half] \in Nat /\ TwoTo[Half] <= TwoTo[Width] /\ TwoTo[Width] \in Nat
  BY HalfSize, WordSize
<1>4. /\ \A v \in ByteValue : Signed(v, ByteWidth) \in Int
      /\ \A v \in HalfValue : Signed(v, Half) \in Int
  BY <1>1, ExtensionIs DEF ByteValue, HalfValue
<1>5. /\ \A v \in ByteValue : v \in Value /\ v \in 0 .. TwoTo[ByteWidth] - 1
      /\ \A v \in HalfValue : v \in Value /\ v \in 0 .. TwoTo[Half] - 1
  BY <1>2, <1>3 DEF ByteValue, HalfValue, Value
<1> QED
  BY <1>1, <1>4, <1>5

\* Every step keeps the registers words.
LEMMA TypesStay ==
    ASSUME DataPathTypeOK, [DataPathNext]_dataPathVars
    PROVE  DataPathTypeOK'
<1> USE DEF DataPathTypeOK
<1>1. ASSUME NEW d \in Reg, NEW value \in Value, SetReg(d, value)
      PROVE  DataPathTypeOK'
  BY <1>1 DEF SetReg
<1>2. CASE DivideTraps \/ FindLastHangs
  BY <1>2 DEF DivideTraps, FindLastHangs
<1>3. CASE RegOp
  <2>1. PICK op \in RegOps, d, a, b \in Reg : SetReg(d, RegResult(op, reg[a], reg[b]))
    BY <1>3 DEF RegOp
  <2>2. RegResult(op, reg[a], reg[b]) \in Value
    BY ResultType
  <2> QED
    BY <1>1, <2>1, <2>2
<1>4. CASE ShiftI
  <2>1. PICK op \in ShiftIOps, d, a \in Reg, l \in 0 .. Width - 1 :
            SetReg(d, ShiftIResult(op, reg[a], l))
    BY <1>4 DEF ShiftI
  <2>2. ShiftIResult(op, reg[a], l) \in Value
    BY ShiftIType
  <2> QED
    BY <1>1, <2>1, <2>2
<1>5. CASE Constant
  <2>1. PICK d, a \in Reg :
            \/ \E k \in PlainConstant :
                   \/ SetReg(d, MovHi(k)) \/ SetReg(d, AndI(reg[a], k)) \/ SetReg(d, OrI(reg[a], k))
            \/ \E i \in SignedConstant :
                   SetReg(d, AddI(reg[a], i)) \/ SetReg(d, XorI(reg[a], i))
    BY <1>5 DEF Constant
  <2>2. \A k : AndI(reg[a], k) \in Value /\ OrI(reg[a], k) \in Value
    BY BitwiseType DEF AndI, OrI
  <2>3. \A k : XorI(reg[a], k) \in Value
    BY BitwiseType DEF XorI
  <2>4. ASSUME NEW k \in PlainConstant PROVE MovHi(k) \in Value
    <3> DEFINE p == TwoTo[Half]
    <3>1. p \in Nat /\ p > 0 /\ TwoTo[Width] = p * p /\ k \in 0 .. p - 1
      BY HalfSize DEF PlainConstant
    <3> HIDE DEF p
    <3>2. p * k \in Int /\ p * (p - k) = p * p - p * k /\ k * p = p * k
      BY <3>1
    <3>3. p * (p - k) >= p
      BY <3>1, ProductGrows
    <3>4. p * k >= 0
      <4>1. CASE k = 0
        BY <3>1, <4>1
      <4>2. CASE k > 0
        BY <3>1, <4>2, ProductGrows
      <4> QED
        BY <3>1, <4>1, <4>2
    <3>5. k * p \in 0 .. TwoTo[Width] - 1
      BY <3>1, <3>2, <3>3, <3>4, WordSize
    <3> QED
      BY <3>5 DEF MovHi, Value, p
  <2>5. ASSUME NEW i \in SignedConstant PROVE AddI(reg[a], i) \in Value
    <3>1. reg[a] \in Int /\ i \in Int
      BY Conversions, HalfSize DEF SignedConstant
    <3>2. reg[a] + i \in Int
      BY <3>1
    <3> QED
      BY <3>2, Conversions DEF AddI
  <2> QED
    BY <1>1, <2>1, <2>2, <2>3, <2>4, <2>5
<1>6. CASE SetFlag
  <2>1. PICK op \in CompareOps, a \in Reg :
            \/ \E b \in Reg : SetCompareFlag(Compare(op, reg[a], reg[b]))
            \/ \E i \in SignedConstant : SetCompareFlag(CompareI(op, reg[a], i))
    BY <1>6 DEF SetFlag
  <2>2. \A x, y : Compare(op, x, y) \in BOOLEAN
    <3> TAKE x, y
    <3>1. /\ Compare("sfeq", x, y) \in BOOLEAN
          /\ Compare("sfne", x, y) \in BOOLEAN
          /\ Compare("sfgtu", x, y) \in BOOLEAN
          /\ Compare("sfgeu", x, y) \in BOOLEAN
          /\ Compare("sfltu", x, y) \in BOOLEAN
          /\ Compare("sfleu", x, y) \in BOOLEAN
          /\ Compare("sfgts", x, y) \in BOOLEAN
          /\ Compare("sfges", x, y) \in BOOLEAN
          /\ Compare("sflts", x, y) \in BOOLEAN
          /\ Compare("sfles", x, y) \in BOOLEAN
      BY DEF Compare
    <3> QED
      BY <3>1 DEF CompareOps
  <2>3. \A x, i : CompareI(op, x, i) \in BOOLEAN
    <3> TAKE x, i
    <3>1. /\ CompareI("sfeq", x, i) \in BOOLEAN
          /\ CompareI("sfne", x, i) \in BOOLEAN
          /\ CompareI("sfgtu", x, i) \in BOOLEAN
          /\ CompareI("sfgeu", x, i) \in BOOLEAN
          /\ CompareI("sfltu", x, i) \in BOOLEAN
          /\ CompareI("sfleu", x, i) \in BOOLEAN
          /\ CompareI("sfgts", x, i) \in BOOLEAN
          /\ CompareI("sfges", x, i) \in BOOLEAN
          /\ CompareI("sflts", x, i) \in BOOLEAN
          /\ CompareI("sfles", x, i) \in BOOLEAN
      BY DEF CompareI
    <3> QED
      BY <3>1 DEF CompareOps
  <2> QED
    BY <2>1, <2>2, <2>3 DEF SetCompareFlag
<1>7. CASE Load
  <2>1. /\ \A v \in ByteValue : v \in Value /\ LoadedByteSigned(v) \in Value
        /\ \A v \in HalfValue : v \in Value /\ LoadedHalfSigned(v) \in Value
    BY LoadTypes, Conversions DEF LoadedByteSigned, LoadedHalfSigned
  <2> QED
    BY <1>1, <1>7, <2>1 DEF Load, Lbz, Lbs, Lhz, Lhs
<1>8. CASE UNCHANGED dataPathVars
  BY <1>8 DEF dataPathVars
<1> QED
  BY <1>2, <1>3, <1>4, <1>5, <1>6, <1>7, <1>8 DEF DataPathNext

\* Type correctness: every instruction leaves a word in its register.
THEOREM RegistersHoldWords == DataPathSpec => []DataPathTypeOK
<1>1. DataPathInit => DataPathTypeOK
  <2>1. 0 \in Value
    BY WordSize DEF Value
  <2> QED
    BY <2>1, DataPathAssumption DEF DataPathInit, DataPathTypeOK
<1> QED
  BY <1>1, TypesStay, PTL DEF DataPathSpec

-----------------------------------------------------------------------------
(* Theorems.                                                                *)

\* Comparisons: the orders they decide, and the forms with a constant.
THEOREM ComparisonsAlwaysAgree == DataPathSpec => []ComparisonsAgree
<1>1. DataPathTypeOK => ComparisonsAgree
  <2> SUFFICES ASSUME DataPathTypeOK PROVE ComparisonsAgree
    OBVIOUS
  <2>1. \A x \in Contents : x \in Value
    BY DEF DataPathTypeOK, Contents
  <2>2. \A a \in Reg : reg[a] \in Value
    BY DEF DataPathTypeOK
  <2> QED
    BY <2>1, <2>2, RegisterComparisons, ConstantComparisons DEF ComparisonsAgree
<1> QED
  BY <1>1, RegistersHoldWords, PTL

\* Division: what is left is smaller than the divisor.
THEOREM DivisionsLeaveRemainders == DataPathSpec => []DivisionLeavesRemainder
<1>1. DataPathTypeOK => DivisionLeavesRemainder
  <2> SUFFICES ASSUME DataPathTypeOK, NEW x \in Contents, NEW y \in Contents
               PROVE  LET Left(op) ==
                              RegResult("sub", x, RegResult("mul", RegResult(op, x, y), y))
                          Size(v)  == IF Compare("sflts", v, 0) THEN RegResult("sub", 0, v) ELSE v
                      IN  IF y = 0
                          THEN RegResult("div", x, y) = 0 /\ RegResult("divu", x, y) = 0
                          ELSE /\ Compare("sfltu", Left("divu"), y)
                               /\ ~QuotientOverflows(x, y) =>
                                      /\ Compare("sfltu", Size(Left("div")), Size(y))
                                      /\ Left("div") # 0 =>
                                             (Compare("sflts", Left("div"), 0)
                                                  = Compare("sflts", x, 0))
    BY DEF DivisionLeavesRemainder
  <2>1. x \in Value /\ y \in Value
    BY DEF DataPathTypeOK, Contents
  <2>2. CASE y = 0
    BY <2>2, Results
  <2>3. CASE y # 0
    <3> DEFINE Left(op) == RegResult("sub", x, RegResult("mul", RegResult(op, x, y), y))
               Size(v)  == IF Compare("sflts", v, 0) THEN RegResult("sub", 0, v) ELSE v
    <3>1. Left("divu") < y
      BY <2>1, <2>3, UnsignedDivision
    <3>2. /\ Size(Left("div")) < Size(y)
          /\ Left("div") # 0 => (Compare("sflts", Left("div"), 0) = Compare("sflts", x, 0))
      BY <2>1, <2>3, SignedDivision
    <3> HIDE DEF Left, Size
    <3>3. Compare("sfltu", Left("divu"), y) /\ Compare("sfltu", Size(Left("div")), Size(y))
      BY <3>1, <3>2 DEF Compare
    <3> QED
      BY <2>3, <3>2, <3>3 DEF Left, Size
  <2> QED
    BY <2>2, <2>3
<1> QED
  BY <1>1, RegistersHoldWords, PTL

\* Shifts: products, quotients, and the forms with a constant.
THEOREM ShiftsAlwaysScale == DataPathSpec => []ShiftsScale
<1>1. DataPathTypeOK => ShiftsScale
  <2> SUFFICES ASSUME DataPathTypeOK PROVE ShiftsScale
    OBVIOUS
  <2>1. \A x \in Contents : x \in Value
    BY DEF DataPathTypeOK, Contents
  <2> QED
    BY <2>1, ShiftLaws DEF ShiftsScale
<1> QED
  BY <1>1, RegistersHoldWords, PTL

\* l.ff1 and l.fl1 find the ends of a word.
THEOREM FoundBitsAreAlwaysEnds == DataPathSpec => []FoundBitsAreEnds
<1>1. DataPathTypeOK => FoundBitsAreEnds
  <2> SUFFICES ASSUME DataPathTypeOK PROVE FoundBitsAreEnds
    OBVIOUS
  <2>1. \A a \in Reg : reg[a] \in Value
    BY DEF DataPathTypeOK
  <2> QED
    BY <2>1, FoundEnds DEF FoundBitsAreEnds
<1> QED
  BY <1>1, RegistersHoldWords, PTL

\* Two instructions with constants make any word.
THEOREM ConstantsAlwaysCompose == DataPathSpec => []ConstantsCompose
<1>1. DataPathTypeOK => ConstantsCompose
  <2> SUFFICES ASSUME DataPathTypeOK PROVE ConstantsCompose
    OBVIOUS
  <2>1. \A a \in Reg : reg[a] \in Value
    BY DEF DataPathTypeOK
  <2> QED
    BY <2>1, HalvesOf DEF ConstantsCompose
<1> QED
  BY <1>1, RegistersHoldWords, PTL

\* Loads with a sign do what two shifts would.
THEOREM LoadsAlwaysExtendSign == DataPathSpec => LoadsExtendSign
<1>1. ASSUME DataPathTypeOK
      PROVE  [\A d \in Reg :
                 /\ char_is_signed =>
                        \A v \in ByteValue : Lbs(d, v) => reg'[d] = Extended(v, ByteWidth)
                 /\ \A v \in HalfValue : Lhs(d, v) => reg'[d] = Extended(v, Half)]_dataPathVars
  <2>1. \A d \in Reg : \A value : SetReg(d, value) => reg'[d] = value
    BY <1>1 DEF SetReg, DataPathTypeOK
  <2>2. /\ \A v \in ByteValue : Extended(v, ByteWidth) = Unsigned(Signed(v, ByteWidth))
        /\ \A v \in HalfValue : Extended(v, Half) = Unsigned(Signed(v, Half))
    BY LoadTypes, ExtensionIs
  <2> QED
    BY <2>1, <2>2 DEF Lbs, Lhs, LoadedByteSigned, LoadedHalfSigned
<1> QED
  BY <1>1, RegistersHoldWords, PTL DEF DataPathSpec, LoadsExtendSign
=============================================================================
