------------------------------ MODULE DataPath ------------------------------
(***************************************************************************)
(* What the instructions of CPU::RunInstruction, simctty/cpu.cc, compute:  *)
(* arithmetic, logic, shifts, comparisons, constants and the extension of  *)
(* loaded bytes and halves, on the general registers and the flag F.       *)
(* Control flow is in module Cpu, decoding in module Assembler.            *)
(*                                                                         *)
(* A word has Width bits where the code has 32, a constant half and a byte *)
(* a quarter of them; the C++ conversions between signed and unsigned are  *)
(* Signed and Unsigned.  Two things the language leaves to the build: the  *)
(* quotient that does not fit, and whether char, which int8 is, has a sign.*)
(***************************************************************************)
EXTENDS Binary, FiniteSetsExt

CONSTANTS
    Width,          \* bits of a word: 32
    Reg,            \* general registers
    Mnemonics,      \* the instructions that guests use
    Builds          \* of the simulator: whether the plain char has a sign

ASSUME DataPathAssumption == Width \in {4, 8, 16, 32} /\ Builds \subseteq BOOLEAN

VARIABLES
    reg,            \* reg_
    flag,           \* the bit F of sr_
    host,           \* the simulator: "up", "trapped" or "hung"
    char_is_signed  \* the build

dataPathVars == <<reg, flag, host, char_is_signed>>

Value     == 0 .. TwoTo[Width] - 1
Half      == Width \div 2
ByteWidth == Width \div 4

Signed(v, width) == IF v < TwoTo[width - 1] THEN v ELSE v - TwoTo[width]
Unsigned(v)      == v % TwoTo[Width]
AsIntUncast(v)   == v                                       \* variant
AsInt(v)         == Signed(v, Width)

PlainConstant  == 0 .. TwoTo[Half] - 1
SignedConstant == -TwoTo[Half - 1] .. TwoTo[Half - 1] - 1

-----------------------------------------------------------------------------
(* Results.                                                                 *)

BitsOf(x) == Bits(x, Width)
And(x, y) == Number(BitsOf(x) \cap BitsOf(y), Width)
Or(x, y)  == Number(BitsOf(x) \cup BitsOf(y), Width)
Xor(x, y) == Number((BitsOf(x) \ BitsOf(y)) \cup (BitsOf(y) \ BitsOf(x)), Width)

\* The number of the first and the last bit that is 1, counted from one.
FindFirst(x) == IF x = 0 THEN 0 ELSE Min(BitsOf(x)) + 1
FindLastUpwards(x) == FindFirst(x)                          \* variant
FindLast(x)  == IF x = 0 THEN 0 ELSE Max(BitsOf(x)) + 1

\* The quotient of C++, truncated towards zero.
QuotientFloored(m, n) == IF n > 0 THEN m \div n ELSE (-m) \div (-n)     \* variant
Quotient(m, n) ==
    LET Size(i) == IF i < 0 THEN -i ELSE i
        q == Size(m) \div Size(n)
    IN  IF (m < 0) = (n < 0) THEN q ELSE -q

QuotientOverflows(x, y) == AsInt(x) = -TwoTo[Width - 1] /\ AsInt(y) = -1

\* >> of a signed number repeats its sign.
ShiftUncast(x, n)     == x \div TwoTo[n]                     \* variant
ShiftArithmetic(x, n) == Unsigned(AsInt(x) \div TwoTo[n])
ShiftAmount(y)        == y % Width                              \* & 0x1f

RegOps == {"add", "sub", "and", "or", "xor", "sll", "srl", "sra", "ff1", "fl1",
           "mul", "div", "divu"}

\* reg_[d], from reg_[a] and reg_[b].
RegResult(op, x, y) ==
    CASE op = "add"  -> Unsigned(x + y)
      [] op = "sub"  -> Unsigned(x - y)
      [] op = "and"  -> And(x, y)
      [] op = "or"   -> Or(x, y)
      [] op = "xor"  -> Xor(x, y)
      [] op = "sll"  -> Unsigned(x * TwoTo[ShiftAmount(y)])
      [] op = "srl"  -> x \div TwoTo[ShiftAmount(y)]
      [] op = "sra"  -> ShiftArithmetic(x, ShiftAmount(y))
      [] op = "ff1"  -> FindFirst(x)
      [] op = "fl1"  -> FindLast(x)
      [] op = "mul"  -> Unsigned(AsInt(x) * AsInt(y))
      [] op = "div"  -> IF y = 0 THEN 0 ELSE Unsigned(Quotient(AsInt(x), AsInt(y)))
      [] op = "divu" -> IF y = 0 THEN 0 ELSE x \div y

ShiftIOps == {"slli", "srli", "srai"}

ShiftIResult(op, x, l) ==
    CASE op = "slli" -> Unsigned(x * TwoTo[l])
      [] op = "srli" -> x \div TwoTo[l]
      [] op = "srai" -> ShiftArithmetic(x, l)

\* The constant of addi and xori has a sign, that of andi and ori none.
AddIZeroExtended(x, i) == Unsigned(x + (i % TwoTo[Half]))       \* variant
AddI(x, i) == Unsigned(x + i)
AndI(x, k) == And(x, k)
OrI(x, k)  == Or(x, k)
XorI(x, i) == Xor(x, Unsigned(i))
MovHi(k)   == k * TwoTo[Half]

CompareOps == {"sfeq", "sfne", "sfgtu", "sfgeu", "sfltu", "sfleu",
               "sfgts", "sfges", "sflts", "sfles"}

Compare(op, x, y) ==
    CASE op = "sfeq"  -> x = y
      [] op = "sfne"  -> x # y
      [] op = "sfgtu" -> x > y
      [] op = "sfgeu" -> x >= y
      [] op = "sfltu" -> x < y
      [] op = "sfleu" -> x <= y
      [] op = "sfgts" -> AsInt(x) > AsInt(y)
      [] op = "sfges" -> AsInt(x) >= AsInt(y)
      [] op = "sflts" -> AsInt(x) < AsInt(y)
      [] op = "sfles" -> AsInt(x) <= AsInt(y)

CompareIZeroExtended(op, x, i) ==       \* variant: static_cast<uint16>(i)
    LET k == i % TwoTo[Half] IN
    CASE op = "sfeq"  -> x = k
      [] op = "sfne"  -> x # k
      [] op = "sfgtu" -> x > k
      [] op = "sfgeu" -> x >= k
      [] op = "sfltu" -> x < k
      [] op = "sfleu" -> x <= k
      [] OTHER        -> Compare(op, x, Unsigned(i))

\* sfeqi and the others, by the name without its i.  Equality compares as
\* signed numbers here; the constant is extended by its sign in every case.
CompareI(op, x, i) ==
    CASE op = "sfeq"  -> AsInt(x) = i
      [] op = "sfne"  -> AsInt(x) # i
      [] op = "sfgtu" -> x > Unsigned(i)
      [] op = "sfgeu" -> x >= Unsigned(i)
      [] op = "sfltu" -> x < Unsigned(i)
      [] op = "sfleu" -> x <= Unsigned(i)
      [] op = "sfgts" -> AsInt(x) > i
      [] op = "sfges" -> AsInt(x) >= i
      [] op = "sflts" -> AsInt(x) < i
      [] op = "sfles" -> AsInt(x) <= i

\* The register, from the byte or half in memory: int8 is char.
LoadedByteSigned(v) == IF char_is_signed THEN Unsigned(Signed(v, ByteWidth)) ELSE v
LoadedHalfPlain(v)  == v                                    \* variant
LoadedHalfSigned(v) == Unsigned(Signed(v, Half))

-----------------------------------------------------------------------------
(* Steps: one instruction.                                                  *)

Runs(op) == host = "up" /\ op \in Mnemonics

SetReg(d, value) ==
    /\ reg' = [reg EXCEPT ![d] = value]
    /\ UNCHANGED <<flag, host, char_is_signed>>

SetCompareFlag(value) ==
    /\ flag' = value
    /\ UNCHANGED <<reg, host, char_is_signed>>

\* INT_MIN / -1 has no value: the processor of the host may stop the program.
DivideTraps ==
    /\ Runs("div")
    /\ \E a, b \in Reg : QuotientOverflows(reg[a], reg[b])
    /\ host' = "trapped"
    /\ UNCHANGED <<reg, flag, char_is_signed>>

\* for (int8 i = 31; i >= 0; i--) does not end if char has no sign and no bit
\* of the register is 1.
FindLastHangs ==
    /\ Runs("fl1") /\ ~char_is_signed
    /\ \E a \in Reg : reg[a] = 0
    /\ host' = "hung"
    /\ UNCHANGED <<reg, flag, char_is_signed>>

RegOp ==
    \E op \in RegOps, d, a, b \in Reg :
        /\ Runs(op)
        /\ op = "fl1" => char_is_signed \/ reg[a] # 0
        /\ SetReg(d, RegResult(op, reg[a], reg[b]))

ShiftI ==
    \E op \in ShiftIOps, d, a \in Reg, l \in 0 .. Width - 1 :
        Runs(op) /\ SetReg(d, ShiftIResult(op, reg[a], l))

Constant ==
    \E d, a \in Reg :
        \/ \E k \in PlainConstant :
               \/ Runs("movhi") /\ SetReg(d, MovHi(k))
               \/ Runs("andi")  /\ SetReg(d, AndI(reg[a], k))
               \/ Runs("ori")   /\ SetReg(d, OrI(reg[a], k))
        \/ \E i \in SignedConstant :
               \/ Runs("addi")  /\ SetReg(d, AddI(reg[a], i))
               \/ Runs("xori")  /\ SetReg(d, XorI(reg[a], i))

SetFlag ==
    \E op \in CompareOps, a \in Reg :
        /\ Runs(op)
        /\ \/ \E b \in Reg : SetCompareFlag(Compare(op, reg[a], reg[b]))
           \/ \E i \in SignedConstant : SetCompareFlag(CompareI(op, reg[a], i))

ByteValue == 0 .. TwoTo[ByteWidth] - 1
HalfValue == 0 .. TwoTo[Half] - 1

Lbz(d, v) == Runs("lbz") /\ SetReg(d, v)
Lbs(d, v) == Runs("lbs") /\ SetReg(d, LoadedByteSigned(v))
Lhz(d, v) == Runs("lhz") /\ SetReg(d, v)
Lhs(d, v) == Runs("lhs") /\ SetReg(d, LoadedHalfSigned(v))

Load ==
    \E d \in Reg :
        \/ \E v \in ByteValue : Lbz(d, v) \/ Lbs(d, v)
        \/ \E v \in HalfValue : Lhz(d, v) \/ Lhs(d, v)

DataPathInit ==
    /\ reg = [r \in Reg |-> 0] /\ flag = FALSE
    /\ host = "up" /\ char_is_signed \in Builds

DataPathNext == DivideTraps \/ FindLastHangs \/ RegOp \/ ShiftI \/ Constant \/ SetFlag \/ Load

DataPathSpec == DataPathInit /\ [][DataPathNext]_dataPathVars

-----------------------------------------------------------------------------
(* Properties: what one instruction computes, in terms of what others do.   *)

\* What an instruction finds in its registers.
Contents == {reg[a] : a \in Reg}

TopBit == TwoTo[Width - 1]

\* The comparisons are the six relations of two orders: exactly one of less,
\* equal and greater holds, the others are their negations, and the signed
\* order is the unsigned one after an xor with the top bit.  A comparison with
\* a constant is the one with a register that addi gave the constant, as
\* compilers assume when they choose one or the other.
ComparisonsAgree ==
    /\ \A x, y \in Contents :
           /\ Compare("sfeq", x, y) = ~Compare("sfne", x, y)
           /\ \A s \in {"u", "s"} :
                  LET lt == IF s = "u" THEN "sfltu" ELSE "sflts"
                      le == IF s = "u" THEN "sfleu" ELSE "sfles"
                      gt == IF s = "u" THEN "sfgtu" ELSE "sfgts"
                      ge == IF s = "u" THEN "sfgeu" ELSE "sfges"
                  IN  /\ Cardinality({op \in {lt, "sfeq", gt} : Compare(op, x, y)}) = 1
                      /\ Compare(lt, x, y) = ~Compare(ge, x, y)
                      /\ Compare(gt, x, y) = ~Compare(le, x, y)
                      /\ Compare(lt, x, y) = Compare(gt, y, x)
           /\ Compare("sflts", x, y) =
                  Compare("sfltu", RegResult("xor", x, TopBit), RegResult("xor", y, TopBit))
    /\ \A a \in Reg, op \in CompareOps, i \in SignedConstant :
           CompareI(op, reg[a], i) = Compare(op, reg[a], AddI(0, i))

\* Quotient, product and difference fit together: what is left after a
\* division is smaller than the divisor and has the sign of the dividend.  A
\* division by zero gives zero.
DivisionLeavesRemainder ==
    \A x, y \in Contents :
        LET Left(op) == RegResult("sub", x, RegResult("mul", RegResult(op, x, y), y))
            Size(v)  == IF Compare("sflts", v, 0) THEN RegResult("sub", 0, v) ELSE v
        IN  IF y = 0
            THEN RegResult("div", x, y) = 0 /\ RegResult("divu", x, y) = 0
            ELSE /\ Compare("sfltu", Left("divu"), y)
                 /\ ~QuotientOverflows(x, y) =>
                        /\ Compare("sfltu", Size(Left("div")), Size(y))
                        /\ Left("div") # 0 =>
                               (Compare("sflts", Left("div"), 0) = Compare("sflts", x, 0))

\* A shift multiplies or divides by a power of two, by the amount modulo the
\* width; an arithmetic one of a negative number is a logical one between two
\* complements.  The forms with a constant agree.
ShiftsScale ==
    \A x, y \in Contents :
        LET power    == RegResult("sll", 1, y)
            Not_(v)  == RegResult("xor", v, TwoTo[Width] - 1)
        IN  /\ RegResult("sll", x, y) = RegResult("mul", x, power)
            /\ RegResult("srl", x, y) = RegResult("divu", x, power)
            /\ RegResult("sra", x, y) =
                   IF Compare("sflts", x, 0) THEN Not_(RegResult("srl", Not_(x), y))
                                             ELSE RegResult("srl", x, y)
            /\ \A op \in {"sll", "srl", "sra"} :
                   RegResult(op, x, y) = RegResult(op, x, AndI(y, Width - 1))
            /\ \A l \in 0 .. Width - 1 :
                   /\ ShiftIResult("slli", x, l) = RegResult("sll", x, l)
                   /\ ShiftIResult("srli", x, l) = RegResult("srl", x, l)
                   /\ ShiftIResult("srai", x, l) = RegResult("sra", x, l)

\* l.fl1 and l.ff1 count from one to the highest and to the lowest bit that is
\* 1: shifting the one away leaves 1, the other an odd number and no loss.
FoundBitsAreEnds ==
    \A a \in Reg :
        LET x     == reg[a]
            first == RegResult("ff1", x, 0)
            last  == RegResult("fl1", x, 0)
        IN  IF x = 0
            THEN first = 0 /\ last = 0
            ELSE /\ ShiftIResult("srli", x, last - 1) = 1
                 /\ AndI(ShiftIResult("srli", x, first - 1), 1) = 1
                 /\ ShiftIResult("slli", ShiftIResult("srli", x, first - 1), first - 1) = x

\* Any word is movhi and ori of its halves; it is also movhi and addi, with one
\* more in the upper half if the lower one is negative.
ConstantsCompose ==
    \A a \in Reg :
        LET high == reg[a] \div TwoTo[Half]
            low  == reg[a] % TwoTo[Half]
            carry == IF low < TwoTo[Half - 1] THEN 0 ELSE 1
        IN  /\ OrI(MovHi(high), low) = reg[a]
            /\ AddI(MovHi((high + carry) % TwoTo[Half]), Signed(low, Half)) = reg[a]

\* l.lbs and l.lhs extend the sign, as shifting left and back does; cpu_test.cc
\* expects it of a loaded 0xff: ASSERT_EQ(-0x1U, cpu_->Reg(4)).  A plain char
\* without a sign makes l.lbs the same as l.lbz.
Extended(v, width) ==
    ShiftIResult("srai", ShiftIResult("slli", v, Width - width), Width - width)

LoadsExtendSign ==
    [][\A d \in Reg :
           /\ char_is_signed =>
                  \A v \in ByteValue : Lbs(d, v) => reg'[d] = Extended(v, ByteWidth)
           /\ \A v \in HalfValue : Lhs(d, v) => reg'[d] = Extended(v, Half)]_dataPathVars

=============================================================================
