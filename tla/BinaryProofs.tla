---------------------------- MODULE BinaryProofs ----------------------------
(***************************************************************************)
(* Lemmas about powers of two and the bits of numbers.  They need          *)
(* induction, which is had without the library's theorems about it: their  *)
(* parameter is an operator, NatSetInduction's is a set.                   *)
(***************************************************************************)
EXTENDS Binary, FiniteSetTheorems, TLAPS

\* Induction, over a set of numbers: one that is not in it would leave room for
\* a chain of successors that a finite set has not.
LEMMA NatSetInduction ==
    ASSUME NEW S, 0 \in S, \A n \in Nat : n \in S => n + 1 \in S
    PROVE  \A m \in Nat : m \in S
<1> SUFFICES ASSUME NEW m \in Nat, m \notin S PROVE FALSE
  OBVIOUS
<1> DEFINE A == {k \in 0 .. m : \A j \in 0 .. k : j \in S}
           B == A \ {0}
           f == [k \in A |-> k + 1]
<1>1. 0 \in A
  OBVIOUS
<1>2. \A k \in A : k \in Nat /\ k + 1 \in B
  <2> SUFFICES ASSUME NEW k \in A PROVE k + 1 \in A
    OBVIOUS
  <2>1. k \in Nat /\ k \in S /\ k # m /\ k <= m
    OBVIOUS
  <2>2. k + 1 \in S
    BY <2>1
  <2>3. \A j \in 0 .. k + 1 : j \in 0 .. k \/ j = k + 1
    BY <2>1
  <2> QED
    BY <2>1, <2>2, <2>3
<1>3. IsFiniteSet(A)
  <2>1. 0 \in Int /\ m \in Int
    OBVIOUS
  <2>2. IsFiniteSet(0 .. m)
    BY <2>1, FS_Interval
  <2> QED
    BY <2>2, FS_Subset
<1>4. IsFiniteSet(B) /\ Cardinality(B) = Cardinality(A) - 1
  BY <1>1, <1>3, FS_RemoveElement
<1>5. f \in [A -> B]
  BY <1>2
<1>6. Cardinality(B) < Cardinality(A)
  BY <1>3, <1>4, FS_CardinalityType
<1> HIDE DEF A, B
<1>7. \E x, y \in A : x # y /\ f[x] = f[y]
  <2> HIDE DEF f
  <2> QED
    BY <1>3, <1>4, <1>5, <1>6, FS_PigeonHole
<1> QED
  BY <1>2, <1>7

\* The powers of two as far as the m-th.
Powers(m) == {g \in [0 .. m -> Nat] : g[0] = 1 /\ \A k \in 1 .. m : g[k] = 2 * g[k - 1]}

\* There are such powers, as far as any number.
LEMMA PowersExist == \A m \in Nat : Powers(m) # {}
<1> DEFINE S == {m \in Nat : Powers(m) # {}}
<1>1. 0 \in S
  <2>1. [k \in 0 .. 0 |-> 1] \in Powers(0)
    BY DEF Powers
  <2> QED
    BY <2>1
<1>2. ASSUME NEW m \in Nat, m \in S PROVE m + 1 \in S
  <2>1. PICK g : g \in Powers(m)
    BY <1>2
  <2> DEFINE h == [k \in 0 .. m + 1 |-> IF k = m + 1 THEN 2 * g[m] ELSE g[k]]
  <2>2. h \in Powers(m + 1)
    BY <2>1 DEF Powers
  <2> QED
    BY <2>2
<1> HIDE DEF S
<1>3. \A m \in Nat : m \in S
  BY <1>1, <1>2, NatSetInduction
<1> QED
  BY <1>3 DEF S

\* As far as both go, they are the same.
LEMMA PowersAgree ==
    ASSUME NEW m \in Nat, NEW n \in Nat, NEW g \in Powers(m), NEW h \in Powers(n)
    PROVE  \A k \in Nat : k <= m /\ k <= n => g[k] = h[k]
<1> DEFINE S == {k \in Nat : k <= m /\ k <= n => g[k] = h[k]}
<1>1. 0 \in S
  BY DEF Powers
<1>2. ASSUME NEW k \in Nat, k \in S PROVE k + 1 \in S
  BY <1>2 DEF Powers
<1> HIDE DEF S
<1>3. \A k \in Nat : k \in S
  BY <1>1, <1>2, NatSetInduction
<1> QED
  BY <1>3 DEF S

\* The recursion has a solution.
LEMMA TwoToDef == TwoTo = [n \in Nat |-> IF n = 0 THEN 1 ELSE 2 * TwoTo[n - 1]]
<1> DEFINE G(m) == CHOOSE g : g \in Powers(m)
           f == [n \in Nat |-> G(n)[n]]
<1>1. \A m \in Nat : G(m) \in Powers(m)
  BY PowersExist
<1> HIDE DEF G
<1>2. ASSUME NEW n \in Nat, n # 0 PROVE f[n] = 2 * f[n - 1]
  <2>1. G(n) \in Powers(n) /\ n - 1 \in Nat /\ G(n - 1) \in Powers(n - 1)
    BY <1>1, <1>2
  <2>2. G(n)[n] = 2 * G(n)[n - 1]
    BY <1>2, <2>1 DEF Powers
  <2>3. G(n)[n - 1] = G(n - 1)[n - 1]
    BY <2>1, PowersAgree
  <2> QED
    BY <2>1, <2>2, <2>3
<1>3. f[0] = 1
  BY <1>1 DEF Powers
<1>4. f = [n \in Nat |-> IF n = 0 THEN 1 ELSE 2 * f[n - 1]]
  <2> HIDE DEF f
  <2>1. \A n \in Nat : f[n] = IF n = 0 THEN 1 ELSE 2 * f[n - 1]
    BY <1>2, <1>3
  <2>2. f = [n \in Nat |-> f[n]]
    BY DEF f
  <2> QED
    BY <2>1, <2>2
<1>5. \E g : g = [n \in Nat |-> IF n = 0 THEN 1 ELSE 2 * g[n - 1]]
  <2> HIDE DEF f
  <2> QED
    BY <1>4
<1> QED
  BY <1>5 DEF TwoTo

\* What the provers need of the recursion, as facts about TwoTo.
LEMMA TwoToSteps ==
    /\ TwoTo[0] = 1
    /\ \A n \in Nat : TwoTo[n] \in Nat /\ TwoTo[n] > 0 /\ TwoTo[n + 1] = 2 * TwoTo[n]
<1>1. \A n \in Nat : TwoTo[n] = IF n = 0 THEN 1 ELSE 2 * TwoTo[n - 1]
  BY TwoToDef
<1>2. TwoTo[0] = 1
  BY <1>1
<1>3. \A n \in Nat : TwoTo[n + 1] = 2 * TwoTo[n]
  <2> SUFFICES ASSUME NEW n \in Nat PROVE TwoTo[n + 1] = 2 * TwoTo[n]
    OBVIOUS
  <2>1. n + 1 \in Nat /\ n + 1 # 0 /\ n + 1 - 1 = n
    OBVIOUS
  <2> QED
    BY <1>1, <2>1
<1> DEFINE S == {n \in Nat : TwoTo[n] \in Nat /\ TwoTo[n] > 0}
<1>4. 0 \in S
  BY <1>2
<1>5. ASSUME NEW n \in Nat, n \in S PROVE n + 1 \in S
  BY <1>3, <1>5
<1> HIDE DEF S
<1>6. \A n \in Nat : n \in S
  BY <1>4, <1>5, NatSetInduction
<1> QED
  BY <1>2, <1>3, <1>6 DEF S

-----------------------------------------------------------------------------
(* Division.                                                                *)

\* A product with a positive number is no smaller than that number in size.
LEMMA ProductGrows ==
    ASSUME NEW p \in Nat, p > 0, NEW d \in Int
    PROVE  /\ p * d \in Int
           /\ d >= 1 => p * d >= p
           /\ d <= -1 => p * d <= -p
OBVIOUS

\* What \div and % return.
LEMMA Divides ==
    ASSUME NEW p \in Nat, p > 0, NEW x \in Int
    PROVE  /\ x \div p \in Int /\ x % p \in 0 .. p - 1
           /\ x = p * (x \div p) + (x % p)
OBVIOUS

\* Any quotient and small enough remainder are those of the division.
LEMMA DivisionIsUnique ==
    ASSUME NEW p \in Nat, p > 0, NEW q \in Int, NEW r \in 0 .. p - 1, NEW x \in Int, x = p * q + r
    PROVE  x \div p = q /\ x % p = r
<1> DEFINE a == x \div p
           b == x % p
<1>1. a \in Int /\ b \in 0 .. p - 1 /\ x = p * a + b
  BY Divides
<1> HIDE DEF a, b
<1>2. p * (a - q) = r - b /\ a - q \in Int
  BY <1>1
<1>3. a - q = 0
  BY <1>1, <1>2, ProductGrows
<1>4. a = q
  BY <1>1, <1>3
<1> QED
  BY <1>1, <1>4 DEF a, b

\* What is a multiple more has the same remainder.
LEMMA MultipleMore ==
    ASSUME NEW p \in Nat, p > 0, NEW k \in Int, NEW x \in Int
    PROVE  (x + p * k) \div p = (x \div p) + k /\ (x + p * k) % p = x % p
<1>1. x \div p \in Int /\ x % p \in 0 .. p - 1 /\ x = p * (x \div p) + (x % p)
  BY Divides
<1> DEFINE q == x \div p
           r == x % p
<1> HIDE DEF q, r
<1>2. p * k \in Int /\ x + p * k \in Int /\ x + p * k = p * (q + k) + r /\ q + k \in Int
  BY <1>1 DEF q, r
<1> QED
  BY <1>1, <1>2, DivisionIsUnique DEF q, r

\* Dividing by two numbers is dividing by their product.
LEMMA DivideTwice ==
    ASSUME NEW p \in Nat, p > 0, NEW m \in Nat, m > 0, NEW x \in Int
    PROVE  /\ p * m \in Nat /\ p * m > 0
           /\ (x \div p) \div m = x \div (p * m)
           /\ x % (p * m) = (x % p) + p * ((x \div p) % m)
<1> DEFINE q == x \div p
           r == x % p
           a == q \div m
           b == q % m
<1>1. q \in Int /\ r \in 0 .. p - 1 /\ x = p * q + r
  BY Divides
<1>2. a \in Int /\ b \in 0 .. m - 1 /\ q = m * a + b
  BY <1>1, Divides
<1>3. p * m \in Nat /\ p * m > 0
  BY ProductGrows
<1> HIDE DEF q, r, a, b
<1>4. p * q = (p * m) * a + p * b
  BY <1>1, <1>2
<1>5. x = (p * m) * a + (p * b + r)
  BY <1>1, <1>2, <1>4
<1>6. p * b + r \in 0 .. p * m - 1
  <2>1. p * b \in Nat
    BY <1>2
  <2>2. p * (m - b) >= p
    BY <1>2, ProductGrows
  <2>3. p * (m - b) = p * m - p * b
    BY <1>2
  <2> QED
    BY <1>1, <1>3, <2>1, <2>2, <2>3
<1>7. x \div (p * m) = a /\ x % (p * m) = p * b + r
  <2> DEFINE pm == p * m
             s == p * b + r
  <2>1. pm \in Nat /\ pm > 0 /\ s \in 0 .. pm - 1 /\ x = pm * a + s
    BY <1>3, <1>5, <1>6
  <2> HIDE DEF pm, s
  <2>2. x \div pm = a /\ x % pm = s
    BY <1>2, <2>1, DivisionIsUnique
  <2> QED
    BY <2>2 DEF pm, s
<1> QED
  BY <1>1, <1>2, <1>3, <1>7 DEF q, r, a, b

-----------------------------------------------------------------------------
(* Powers of two.                                                           *)

\* Exponents add up.
LEMMA TwoToAdds == \A m, n \in Nat : TwoTo[m + n] = TwoTo[m] * TwoTo[n]
<1> SUFFICES ASSUME NEW m \in Nat PROVE \A n \in Nat : TwoTo[m + n] = TwoTo[m] * TwoTo[n]
  OBVIOUS
<1> DEFINE S == {n \in Nat : TwoTo[m + n] = TwoTo[m] * TwoTo[n]}
<1>1. 0 \in S
  BY TwoToSteps
<1>2. ASSUME NEW n \in Nat, n \in S PROVE n + 1 \in S
  <2>1. TwoTo[m + n + 1] = 2 * TwoTo[m + n] /\ m + n + 1 = m + (n + 1)
    BY TwoToSteps
  <2>2. TwoTo[n + 1] = 2 * TwoTo[n] /\ TwoTo[n] \in Nat /\ TwoTo[m] \in Nat
    BY TwoToSteps
  <2>3. TwoTo[m] * (2 * TwoTo[n]) = 2 * (TwoTo[m] * TwoTo[n])
    BY <2>2
  <2> QED
    BY <1>2, <2>1, <2>2, <2>3
<1> HIDE DEF S
<1>3. \A n \in Nat : n \in S
  BY <1>1, <1>2, NatSetInduction
<1> QED
  BY <1>3 DEF S

\* A power of two divides the greater ones, and the quotient is one too.
LEMMA TwoToDivides ==
    ASSUME NEW m \in Nat, NEW n \in Nat, m <= n
    PROVE  /\ n - m \in Nat /\ TwoTo[n - m] \in Nat /\ TwoTo[n - m] > 0
           /\ TwoTo[m] \in Nat /\ TwoTo[m] > 0
           /\ TwoTo[n] = TwoTo[m] * TwoTo[n - m] /\ TwoTo[m] <= TwoTo[n]
<1>1. n - m \in Nat /\ m + (n - m) = n
  OBVIOUS
<1>2. /\ TwoTo[n - m] \in Nat /\ TwoTo[n - m] > 0 /\ TwoTo[m] \in Nat /\ TwoTo[m] > 0
      /\ TwoTo[n] = TwoTo[m] * TwoTo[n - m]
  <2>1. TwoTo[m + (n - m)] = TwoTo[m] * TwoTo[n - m]
    BY <1>1, TwoToAdds
  <2> QED
    BY <1>1, <2>1, TwoToSteps
<1> QED
  BY <1>1, <1>2, ProductGrows

-----------------------------------------------------------------------------
(* Bits.                                                                    *)

\* One bit more of a number.
LEMMA OneBitMore ==
    ASSUME NEW x \in Int, NEW n \in Nat
    PROVE  x % TwoTo[n + 1] = (x % TwoTo[n]) + TwoTo[n] * Bit(x, n)
<1>1. TwoTo[n] \in Nat /\ TwoTo[n] > 0 /\ TwoTo[n + 1] = TwoTo[n] * 2
  BY TwoToSteps
<1> DEFINE p == TwoTo[n]
<1> HIDE DEF p
<1>2. x % (p * 2) = (x % p) + p * ((x \div p) % 2)
  <2>1. p \in Nat /\ p > 0
    BY <1>1 DEF p
  <2> QED
    BY <2>1, DivideTwice
<1> QED
  BY <1>1, <1>2 DEF p, Bit

\* A bit is 0 or 1.
LEMMA BitType == \A x \in Int : \A n \in Nat : Bit(x, n) \in 0 .. 1
<1> TAKE x \in Int
<1> TAKE n \in Nat
<1>1. TwoTo[n] \in Nat /\ TwoTo[n] > 0
  BY TwoToSteps
<1>2. x \div TwoTo[n] \in Int
  BY <1>1, Divides
<1>3. ASSUME NEW q \in Int PROVE q % 2 \in 0 .. 1
  OBVIOUS
<1> QED
  BY <1>2, <1>3 DEF Bit

\* A number below a power of two is its remainder, and has nothing above.
LEMMA BelowPower ==
    ASSUME NEW n \in Nat, NEW x \in 0 .. TwoTo[n] - 1
    PROVE  x % TwoTo[n] = x /\ x \div TwoTo[n] = 0
<1>1. TwoTo[n] \in Nat /\ TwoTo[n] > 0 /\ x \in Int /\ x = TwoTo[n] * 0 + x
  BY TwoToSteps
<1> DEFINE p == TwoTo[n]
<1> HIDE DEF p
<1>2. p \in Nat /\ p > 0 /\ x \in Int /\ x = p * 0 + x /\ x \in 0 .. p - 1
  BY <1>1 DEF p
<1>3. x % p = x /\ x \div p = 0
  BY <1>2, DivisionIsUnique
<1> QED
  BY <1>3 DEF p

\* Numbers with the same bits below n have the same remainder.
LEMMA BitsGiveRemainder ==
    ASSUME NEW x \in Int, NEW y \in Int, NEW w \in Nat, NEW m \in Nat, m <= w,
           x % TwoTo[m] = y % TwoTo[m],
           \A n \in m .. w - 1 : Bit(x, n) = Bit(y, n)
    PROVE  x % TwoTo[w] = y % TwoTo[w]
<1> DEFINE S == {n \in Nat : m <= n /\ n <= w => x % TwoTo[n] = y % TwoTo[n]}
<1>1. 0 \in S
  OBVIOUS
<1>2. ASSUME NEW n \in Nat, n \in S PROVE n + 1 \in S
  <2> SUFFICES ASSUME m <= n + 1, n + 1 <= w PROVE x % TwoTo[n + 1] = y % TwoTo[n + 1]
    OBVIOUS
  <2>1. CASE n + 1 = m
    BY <2>1
  <2>2. CASE n + 1 # m
    <3>1. m <= n /\ n <= w /\ n \in m .. w - 1
      BY <2>2
    <3>2. x % TwoTo[n] = y % TwoTo[n] /\ Bit(x, n) = Bit(y, n)
      BY <1>2, <3>1
    <3> QED
      BY <3>2, OneBitMore
  <2> QED
    BY <2>1, <2>2
<1> HIDE DEF S
<1>3. \A n \in Nat : n \in S
  BY <1>1, <1>2, NatSetInduction
<1>4. w \in S
  BY <1>3
<1> QED
  BY <1>4 DEF S

\* Remainders of one are 0.
LEMMA RemainderOfOne == \A x \in Int : x % TwoTo[0] = 0 /\ x \div TwoTo[0] = x
BY TwoToSteps

\* A number is known by its bits.
LEMMA BitsDetermine ==
    ASSUME NEW w \in Nat, NEW x \in 0 .. TwoTo[w] - 1, NEW y \in 0 .. TwoTo[w] - 1,
           Bits(x, w) = Bits(y, w)
    PROVE  x = y
<1>1. x \in Int /\ y \in Int
  BY TwoToSteps
<1>2. ASSUME NEW n \in 0 .. w - 1 PROVE Bit(x, n) = Bit(y, n)
  <2>1. Bit(x, n) \in 0 .. 1 /\ Bit(y, n) \in 0 .. 1
    BY <1>1, BitType
  <2>2. n \in Bits(x, w) <=> n \in Bits(y, w)
    OBVIOUS
  <2> QED
    BY <2>1, <2>2 DEF Bits
<1>3. x % TwoTo[w] = y % TwoTo[w]
  BY <1>1, <1>2, RemainderOfOne, BitsGiveRemainder
<1> QED
  BY <1>3, BelowPower

\* Numbers that differ in the bits from e on only, or not at all.
SameBelow(e, x, y) == \E k \in Int : y = x + TwoTo[e] * k

\* Numbers that are the same below e have the same bits there.
LEMMA HighPartIsAbove ==
    \A n, e \in Nat : \A x, y \in Int : n < e /\ SameBelow(e, x, y) => Bit(y, n) = Bit(x, n)
<1> TAKE n, e \in Nat
<1> TAKE x, y \in Int
<1> HAVE n < e /\ SameBelow(e, x, y)
<1> PICK k \in Int : y = x + TwoTo[e] * k
  BY DEF SameBelow
<1> DEFINE p == TwoTo[n]
           d == TwoTo[e - (n + 1)]
<1>1. n + 1 \in Nat /\ n + 1 <= e
  OBVIOUS
<1>2. d \in Nat /\ TwoTo[e] = TwoTo[n + 1] * d
  BY <1>1, TwoToDivides
<1>3. TwoTo[n + 1] = 2 * p /\ p \in Nat /\ p > 0
  BY TwoToSteps
<1> HIDE DEF p, d
<1> DEFINE j == d * k
<1>4. j \in Int /\ TwoTo[e] * k = p * (2 * j)
  BY <1>2, <1>3
<1> HIDE DEF j
<1>5. (x + p * (2 * j)) \div p = (x \div p) + 2 * j
  <2>1. 2 * j \in Int
    BY <1>4
  <2> QED
    BY <1>3, <2>1, MultipleMore
<1>6. x \div p \in Int
  BY <1>3, Divides
<1>7. ((x \div p) + 2 * j) % 2 = (x \div p) % 2
  BY <1>4, <1>6
<1> QED
  BY <1>4, <1>5, <1>7 DEF p, Bit

\* There is a number for every set of bits.
LEMMA BitsExist == \A w \in Nat : \A B \in SUBSET (0 .. w - 1) :
    \E x \in 0 .. TwoTo[w] - 1 : Bits(x, w) = B
<1> DEFINE Has(w) == \A B \in SUBSET (0 .. w - 1) : \E x \in 0 .. TwoTo[w] - 1 : Bits(x, w) = B
           S == {w \in Nat : Has(w)}
<1>1. 0 \in S
  <2>1. 0 .. 0 - 1 = {}
    OBVIOUS
  <2>2. 0 \in 0 .. TwoTo[0] - 1 /\ Bits(0, 0) = {}
    BY <2>1, TwoToSteps DEF Bits
  <2> QED
    BY <2>1, <2>2
<1>2. ASSUME NEW w \in Nat, w \in S PROVE w + 1 \in S
  <2> SUFFICES ASSUME NEW B \in SUBSET (0 .. w + 1 - 1)
               PROVE  \E x \in 0 .. TwoTo[w + 1] - 1 : Bits(x, w + 1) = B
    OBVIOUS
  <2> DEFINE b == IF w \in B THEN 1 ELSE 0
             p == TwoTo[w]
  <2>1. PICK y \in 0 .. TwoTo[w] - 1 : Bits(y, w) = B \ {w}
    <3>1. B \ {w} \in SUBSET (0 .. w - 1)
      OBVIOUS
    <3> QED
      BY <1>2, <3>1
  <2>2. p \in Nat /\ p > 0 /\ TwoTo[w + 1] = 2 * p /\ b \in 0 .. 1 /\ y \in 0 .. p - 1 /\ y \in Int
    BY TwoToSteps
  <2> DEFINE x == y + p * b
  <2>3. x \in 0 .. TwoTo[w + 1] - 1
    <3>1. p * 0 = 0 /\ p * 1 = p
      BY <2>2
    <3> QED
      BY <2>2, <3>1
  <2>4. ASSUME NEW n \in 0 .. w PROVE Bit(x, n) = 1 <=> n \in B
    <3>1. CASE n = w
      <4>1. y \div p = 0 /\ x \div p = (y \div p) + b
        <5> HIDE DEF b
        <5>1. x \div p = (y \div p) + b
          <6> HIDE DEF p
          <6> QED
            BY <2>2, MultipleMore
        <5> QED
          BY <5>1, BelowPower
      <4>2. Bit(x, w) = b % 2
        <5> HIDE DEF x, b
        <5> QED
          BY <2>2, <4>1 DEF Bit
      <4> HIDE DEF x
      <4> QED
        BY <3>1, <4>2
    <3>2. CASE n < w
      <4>1. Bit(x, n) = Bit(y, n)
        <5>1. n \in Nat /\ w \in Nat /\ b \in Int /\ x \in Int /\ y \in Int /\ x = y + TwoTo[w] * b
          BY <2>2
        <5>2. SameBelow(w, y, x)
          <6> HIDE DEF b, x
          <6> QED
            BY <5>1 DEF SameBelow
        <5> HIDE DEF b, x
        <5> QED
          BY <3>2, <5>1, <5>2, HighPartIsAbove
      <4>2. n \in 0 .. w - 1
        BY <3>2
      <4>3. n \in Bits(y, w) <=> n \in B
        BY <2>1, <3>2
      <4> QED
        BY <4>1, <4>2, <4>3 DEF Bits
    <3> QED
      BY <3>1, <3>2
  <2> HIDE DEF x
  <2>5. Bits(x, w + 1) = B
    <3>1. 0 .. w + 1 - 1 = 0 .. w /\ B \subseteq 0 .. w
      OBVIOUS
    <3>2. Bits(x, w + 1) = {n \in 0 .. w : Bit(x, n) = 1}
      BY <3>1 DEF Bits
    <3> QED
      BY <2>4, <3>1, <3>2
  <2> QED
    BY <2>3, <2>5
<1> HIDE DEF S
<1>3. \A w \in Nat : w \in S
  BY <1>1, <1>2, NatSetInduction
<1> QED
  BY <1>3 DEF S

\* The number with given bits has them, and is the only one.
LEMMA NumberHasBits ==
    ASSUME NEW w \in Nat, NEW B \in SUBSET (0 .. w - 1)
    PROVE  Number(B, w) \in 0 .. TwoTo[w] - 1 /\ Bits(Number(B, w), w) = B
BY BitsExist DEF Number

\* The bits of a number that is smaller than a power of two lie below it.
LEMMA NothingAbove ==
    ASSUME NEW e \in Nat, NEW x \in 0 .. TwoTo[e] - 1, NEW n \in Nat, e <= n
    PROVE  Bit(x, n) = 0
<1>1. TwoTo[e] \in Nat /\ TwoTo[n] \in Nat /\ TwoTo[e] <= TwoTo[n]
  BY TwoToDivides
<1>2. x \in 0 .. TwoTo[n] - 1
  BY <1>1
<1>3. x \div TwoTo[n] = 0
  BY <1>2, BelowPower
<1> QED
  BY <1>3 DEF Bit

\* Zero has no bits.
LEMMA ZeroBit == \A n \in Nat : Bit(0, n) = 0
<1> TAKE n \in Nat
<1>1. 0 \in 0 .. TwoTo[n] - 1
  BY TwoToSteps
<1>2. 0 \div TwoTo[n] = 0
  BY <1>1, BelowPower
<1> QED
  BY <1>2 DEF Bit

\* A multiple of a power of two has no bits below it.
LEMMA NoLowPart ==
    \A n, e \in Nat : \A y \in Int : n < e /\ SameBelow(e, 0, y) => Bit(y, n) = 0
<1> DEFINE zero == 0
<1>1. zero \in Int
  OBVIOUS
<1>2. \A n \in Nat : Bit(zero, n) = 0
  BY ZeroBit
<1> HIDE DEF zero
<1>3. \A n, e \in Nat : \A y \in Int : n < e /\ SameBelow(e, zero, y) => Bit(y, n) = 0
  BY <1>1, <1>2, HighPartIsAbove
<1> QED
  BY <1>3 DEF zero

\* All ones less a number: its bits are the others.
LEMMA ComplementBit ==
    ASSUME NEW n \in Nat, NEW e \in Nat, n < e, NEW x \in Int
    PROVE  Bit(TwoTo[e] - 1 - x, n) = 1 - Bit(x, n)
<1> DEFINE p == TwoTo[n]
           d == TwoTo[e - (n + 1)]
           q == x \div p
           r == x % p
<1>1. n + 1 \in Nat /\ n + 1 <= e
  OBVIOUS
<1>2. d \in Nat /\ TwoTo[e] = TwoTo[n + 1] * d
  BY <1>1, TwoToDivides
<1>3. TwoTo[n + 1] = 2 * p /\ p \in Nat /\ p > 0
  BY TwoToSteps
<1>4. q \in Int /\ r \in 0 .. p - 1 /\ x = p * q + r
  BY <1>3, Divides
<1> HIDE DEF p, d, q, r
<1> DEFINE m == 2 * d - 1 - q
           z == TwoTo[e] - 1 - x
<1>5. m \in Int /\ p * m = p * (2 * d) - p - p * q
  BY <1>2, <1>3, <1>4
<1>6. z = p * m + (p - 1 - r)
  <2>1. TwoTo[e] = p * (2 * d)
    BY <1>2, <1>3
  <2>2. TwoTo[e] \in Int /\ p * m \in Int /\ p * q \in Int
    BY <1>3, <1>4, <1>5, TwoToSteps
  <2>3. p * m = TwoTo[e] - p - p * q
    BY <1>5, <2>1
  <2> HIDE DEF m
  <2> QED
    BY <1>3, <1>4, <2>2, <2>3
<1>7. z \div p = m
  <2>1. p - 1 - r \in 0 .. p - 1
    BY <1>3, <1>4
  <2> DEFINE s == p - 1 - r
  <2> HIDE DEF m, z, s
  <2>2. s \in 0 .. p - 1 /\ z = p * m + s
    BY <1>6, <2>1 DEF s
  <2>3. z \in Int
    BY TwoToSteps DEF z
  <2> QED
    BY <1>3, <1>5, <2>2, <2>3, DivisionIsUnique
<1>8. m % 2 = 1 - (q % 2)
  BY <1>2, <1>4
<1> QED
  BY <1>7, <1>8 DEF p, q, Bit

\* The same for all bits below a width.
LEMMA ComplementBits ==
    ASSUME NEW w \in Nat, NEW x \in Int
    PROVE  Bits(TwoTo[w] - 1 - x, w) = (0 .. w - 1) \ Bits(x, w)
<1>1. ASSUME NEW n \in 0 .. w - 1
      PROVE Bit(TwoTo[w] - 1 - x, n) = 1 <=> Bit(x, n) # 1
  <2>1. Bit(TwoTo[w] - 1 - x, n) = 1 - Bit(x, n)
    BY ComplementBit
  <2>2. Bit(x, n) \in 0 .. 1
    BY BitType
  <2> QED
    BY <2>1, <2>2
<1> QED
  BY <1>1 DEF Bits

\* The bits of the number before a power of two are all those below it.
LEMMA OnesBits ==
    ASSUME NEW w \in Nat, NEW e \in 0 .. w
    PROVE  Bits(TwoTo[e] - 1, w) = 0 .. e - 1
<1>1. TwoTo[e] \in Nat /\ TwoTo[e] > 0
  BY TwoToSteps
<1>2. ASSUME NEW n \in 0 .. w - 1, n < e PROVE Bit(TwoTo[e] - 1, n) = 1
  <2>1. Bit(TwoTo[e] - 1 - 0, n) = 1 - Bit(0, n)
    BY <1>2, ComplementBit
  <2>2. Bit(0, n) = 0 /\ TwoTo[e] - 1 - 0 = TwoTo[e] - 1
    BY <1>1, ZeroBit
  <2> QED
    BY <2>1, <2>2
<1>3. ASSUME NEW n \in 0 .. w - 1, n >= e PROVE Bit(TwoTo[e] - 1, n) = 0
  BY <1>1, <1>3, NothingAbove
<1>4. \A n \in 0 .. w - 1 : n \in Bits(TwoTo[e] - 1, w) <=> n < e
  <2> SUFFICES ASSUME NEW n \in 0 .. w - 1 PROVE n \in Bits(TwoTo[e] - 1, w) <=> n < e
    OBVIOUS
  <2>1. CASE n < e
    BY <1>2, <2>1 DEF Bits
  <2>2. CASE n >= e
    BY <1>3, <2>2 DEF Bits
  <2> QED
    BY <2>1, <2>2
<1>5. Bits(TwoTo[e] - 1, w) \subseteq 0 .. w - 1
  BY DEF Bits
<1>6. 0 .. e - 1 \subseteq 0 .. w - 1 /\ \A n \in 0 .. w - 1 : n < e <=> n \in 0 .. e - 1
  OBVIOUS
<1> QED
  BY <1>4, <1>5, <1>6, Zenon

\* A remainder has the lower bits.
LEMMA RemainderBits ==
    ASSUME NEW w \in Nat, NEW e \in 0 .. w, NEW x \in Int
    PROVE  Bits(x % TwoTo[e], w) = Bits(x, w) \cap (0 .. e - 1)
<1> DEFINE q == x \div TwoTo[e]
           r == x % TwoTo[e]
<1>1. q \in Int /\ r \in 0 .. TwoTo[e] - 1 /\ x = r + TwoTo[e] * q /\ r \in Int
  <2>1. TwoTo[e] \in Nat /\ TwoTo[e] > 0
    BY TwoToSteps
  <2>2. q \in Int /\ r \in 0 .. TwoTo[e] - 1 /\ x = TwoTo[e] * q + r
    BY <2>1, Divides
  <2>3. TwoTo[e] * q \in Int
    BY <2>1, <2>2
  <2> HIDE DEF q, r
  <2> QED
    BY <2>1, <2>2, <2>3
<1> HIDE DEF q, r
<1>2. ASSUME NEW n \in 0 .. w - 1 PROVE n \in Bits(r, w) <=> n \in Bits(x, w) /\ n < e
  <2>1. CASE n < e
    <3>1. Bit(x, n) = Bit(r, n)
      <4>1. SameBelow(e, r, x) /\ n \in Nat /\ e \in Nat
        BY <1>1 DEF SameBelow
      <4> QED
        BY <1>1, <2>1, <4>1, HighPartIsAbove
    <3> QED
      BY <2>1, <3>1 DEF Bits
  <2>2. CASE n >= e
    BY <1>1, <2>2, NothingAbove DEF Bits
  <2> QED
    BY <2>1, <2>2
<1>3. Bits(r, w) \subseteq 0 .. w - 1 /\ Bits(x, w) \subseteq 0 .. w - 1
  BY DEF Bits
<1> QED
  BY <1>2, <1>3 DEF r

\* Two parts that do not overlap.
LEMMA PartsBits ==
    ASSUME NEW w \in Nat, NEW e \in 0 .. w, NEW l \in 0 .. TwoTo[e] - 1,
           NEW h \in Int, NEW top, top = TwoTo[e] * h, NEW s, s = top + l
    PROVE  Bits(s, w) = Bits(top, w) \cup Bits(l, w)
<1>1. TwoTo[e] \in Nat /\ TwoTo[e] > 0 /\ top \in Int /\ l \in Int /\ s \in Int
  BY TwoToSteps
<1>2. ASSUME NEW n \in 0 .. w - 1
      PROVE  n \in Bits(s, w) <=> n \in Bits(top, w) \/ n \in Bits(l, w)
  <2>1. TwoTo[n] \in Nat /\ TwoTo[n] > 0
    BY TwoToSteps
  <2>2. CASE n < e
    <3>1. n \in Nat /\ e \in Nat /\ s = l + TwoTo[e] * h /\ top = 0 + TwoTo[e] * h
      BY <1>1
    <3>2. SameBelow(e, l, s) /\ SameBelow(e, 0, top)
      BY <3>1 DEF SameBelow
    <3>3. Bit(s, n) = Bit(l, n)
      <4>1. n \in Nat /\ e \in Nat /\ s \in Int /\ l \in Int /\ n < e
        BY <1>1, <2>2, <3>1
      <4> QED
        BY <3>2, <4>1, HighPartIsAbove
    <3>4. Bit(top, n) = 0
      BY <1>1, <2>2, <3>1, <3>2, NoLowPart
    <3> QED
      BY <3>3, <3>4 DEF Bits
  <2>3. CASE n >= e
    <3>1. n - e \in Nat /\ TwoTo[n] = TwoTo[e] * TwoTo[n - e]
          /\ TwoTo[n - e] \in Nat /\ TwoTo[n - e] > 0
      BY <2>3, TwoToDivides
    <3>2. top \div TwoTo[e] = h /\ s \div TwoTo[e] = h
      <4> DEFINE zero == 0
                 p    == TwoTo[e]
      <4>1. top = p * h + zero /\ zero \in 0 .. p - 1 /\ s = p * h + l /\ l \in 0 .. p - 1
        BY <1>1
      <4>2. p \in Nat /\ p > 0
        BY <1>1
      <4> HIDE DEF zero, p
      <4>3. top \div p = h
        BY <1>1, <4>1, <4>2, DivisionIsUnique
      <4>4. s \div p = h
        BY <1>1, <4>1, <4>2, DivisionIsUnique
      <4> QED
        BY <4>3, <4>4 DEF p
    <3>3. top \div TwoTo[n] = h \div TwoTo[n - e]
      BY <1>1, <3>1, <3>2, DivideTwice
    <3>4. s \div TwoTo[n] = h \div TwoTo[n - e]
      BY <1>1, <3>1, <3>2, DivideTwice
    <3>5. Bit(l, n) = 0
      BY <2>3, NothingAbove
    <3>6. Bit(s, n) = Bit(top, n)
      BY <3>3, <3>4 DEF Bit
    <3> QED
      BY <3>5, <3>6 DEF Bits
  <2> QED
    BY <2>2, <2>3
<1>3. /\ Bits(s, w) \subseteq 0 .. w - 1 /\ Bits(top, w) \subseteq 0 .. w - 1
      /\ Bits(l, w) \subseteq 0 .. w - 1
  BY DEF Bits
<1> QED
  BY <1>2, <1>3

\* Adding or taking away the highest bit.
LEMMA TopBits ==
    ASSUME NEW e \in Nat, NEW x \in 0 .. TwoTo[e + 1] - 1
    PROVE  LET y == IF x < TwoTo[e] THEN x + TwoTo[e] ELSE x - TwoTo[e]
               X == Bits(x, e + 1)
           IN  /\ y \in 0 .. TwoTo[e + 1] - 1
               /\ Bits(y, e + 1) = (X \ {e}) \cup ({e} \ X)
               /\ Bits(TwoTo[e], e + 1) = {e}
<1> DEFINE p == TwoTo[e]
           k == IF x < p THEN 1 ELSE -1
           y == x + p * k
           X == Bits(x, e + 1)
<1>1. p \in Nat /\ p > 0 /\ TwoTo[e + 1] = 2 * p /\ k \in Int /\ x \in Int
  BY TwoToSteps
<1>2. p * k = IF x < p THEN p ELSE -p
  BY <1>1
<1>3. y = (IF x < p THEN x + p ELSE x - p) /\ y \in 0 .. TwoTo[e + 1] - 1 /\ y \in Int
  BY <1>1, <1>2
<1>4. e \in Bits(y, e + 1) <=> e \notin X
  <2>1. x \div p = IF x < p THEN 0 ELSE 1
    <3>1. CASE x < p
      BY <1>1, <3>1, BelowPower
    <3>2. CASE x >= p
      <4>1. x = p * 1 + (x - p) /\ x - p \in 0 .. p - 1
        BY <1>1, <3>2
      <4> HIDE DEF p
      <4>2. x \div p = 1
        BY <1>1, <4>1, DivisionIsUnique
      <4> QED
        BY <1>1, <3>2, <4>2
    <3> QED
      BY <1>1, <3>1, <3>2
  <2>2. y \div p = (x \div p) + k
    <3> HIDE DEF p, k
    <3> QED
      BY <1>1, MultipleMore
  <2>3. y \div p = IF x < p THEN 1 ELSE 0
    <3> HIDE DEF y, p
    <3> QED
      BY <1>1, <2>1, <2>2
  <2>4. (e \in Bits(y, e + 1) <=> (y \div p) % 2 = 1) /\ (e \in X <=> (x \div p) % 2 = 1)
    <3> HIDE DEF y
    <3> QED
      BY DEF Bits, Bit
  <2> HIDE DEF p, y, X
  <2> QED
    BY <2>1, <2>3, <2>4
<1>5. ASSUME NEW n \in 0 .. e - 1 PROVE n \in Bits(y, e + 1) <=> n \in X
  <2>1. Bit(y, n) = Bit(x, n)
    <3>1. n \in Nat /\ y = x + TwoTo[e] * k /\ n < e
      OBVIOUS
    <3> HIDE DEF k, y
    <3>2. SameBelow(e, x, y)
      BY <1>1, <3>1 DEF SameBelow
    <3> QED
      BY <1>1, <1>3, <3>1, <3>2, HighPartIsAbove
  <2> HIDE DEF y
  <2> QED
    BY <2>1 DEF Bits
<1>6. Bits(p, e + 1) = {e}
  <2>1. p \div p = 1
    <3>1. p = p * 1 + 0 /\ 0 \in 0 .. p - 1
      BY <1>1
    <3> HIDE DEF p
    <3> QED
      BY <1>1, <3>1, DivisionIsUnique
  <2>2. ASSUME NEW n \in 0 .. e - 1 PROVE Bit(p, n) = 0
    <3>1. n \in Nat /\ p = 0 + TwoTo[e] * 1 /\ n < e
      BY <1>1
    <3> HIDE DEF p
    <3>2. SameBelow(e, 0, p)
      BY <3>1 DEF SameBelow
    <3> QED
      BY <1>1, <3>1, <3>2, NoLowPart
  <2> HIDE DEF p
  <2>3. \A n \in 0 .. e + 1 - 1 : n = e \/ n \in 0 .. e - 1
    OBVIOUS
  <2>4. e \in 0 .. e + 1 - 1
    OBVIOUS
  <2>5. \A n \in 0 .. e + 1 - 1 : Bit(p, n) = 1 <=> n = e
    <3>1. Bit(p, e) = 1
      BY <2>1 DEF p, Bit
    <3> QED
      BY <2>2, <2>3, <3>1
  <2> QED
    BY <2>4, <2>5 DEF Bits
<1>7. Bits(y, e + 1) \subseteq (0 .. e - 1) \cup {e} /\ X \subseteq (0 .. e - 1) \cup {e}
  <2> HIDE DEF y
  <2> QED
    BY DEF Bits
<1>8. Bits(y, e + 1) = (X \ {e}) \cup ({e} \ X)
  <2> HIDE DEF X, y
  <2> QED
    BY <1>4, <1>5, <1>7
<1> QED
  BY <1>3, <1>6, <1>8
=============================================================================
