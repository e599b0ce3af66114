---------------------------- MODULE MCAssembler ----------------------------
(* Instances of Assembler: operands at the ends of their ranges, and with a  *)
(* pattern of bits that a shifted or shortened field does not keep.          *)
EXTENDS Assembler

\* The bits of a number, which may be negative.
Bits32(v) ==
    {p \in 0 .. 30 : (v \div 2^p) % 2 = 1} \cup (IF v < 0 THEN {31} ELSE {})
BitsOfAll(S) == {Bits32(v) : v \in S}

Registers == BitsOfAll({0, 9, 21, 31})
Signed16  == BitsOfAll({0, 1, -1, -32768, 32767, -19661, 13107})
Plain16   == BitsOfAll({0, 1, 65535, 32768, 2048, 45875, 13107})
Signed26  == BitsOfAll({0, 1, -1, -33554432, 33554431, 22369621})

InstructionsWith(N, D0, A0, B0, I, K, L) ==
    [op : DOMAIN TypeN, n : N]
    \cup [op : {"nop"} \cup DOMAIN TypeK, k : K]
    \cup [op : {"movhi"}, d : D0, k : K]
    \cup [op : {"rfe"}]
    \cup [op : DOMAIN TypeB, b : B0]
    \cup [op : DOMAIN TypeDAI, d : D0, a : A0, i : I]
    \cup [op : DOMAIN TypeDAK, d : D0, a : A0, k : K]
    \cup [op : DOMAIN TypeDAFL, d : D0, a : A0, l : L]
    \cup [op : DOMAIN TypeAI, a : A0, i : I]
    \cup [op : {"mtspr"}, a : A0, b : B0, k : K]
    \cup [op : DOMAIN TypeABI, a : A0, b : B0, i : I]
    \cup [op : DOMAIN TypeDABFF1, d : D0, a : A0, b : B0]
    \cup [op : DOMAIN TypeAB, a : A0, b : B0]

EveryInstruction ==
    InstructionsWith(Signed26, Registers, Registers, Registers, Signed16, Plain16,
                     BitsOfAll({0, 1, 21, 31, 32, 53, 201, 255}))

\* One instruction of each mnemonic, with operands that differ.
OneOfEach ==
    InstructionsWith(BitsOfAll({22369621}), BitsOfAll({21}), BitsOfAll({9}),
                     BitsOfAll({31}), BitsOfAll({-19661}), BitsOfAll({45875}),
                     BitsOfAll({21}))

\* Every word that differs from one of those in one bit, and words that differ
\* in two: an end of a sub-opcode or of the opcode, and any other.
Flip(word, bits) == (word \ bits) \cup (bits \ word)
FewBitsAway ==
    LET words == {Encode(in) : in \in OneOfEach} IN
    {Flip(word, {p, q}) : word \in words, p \in 0 .. 31, q \in {3, 6, 9, 26, 29}}
    \cup {Flip(word, {p}) : word \in words, p \in 0 .. 31}

TestData == {{}, 0 .. 31, {0, 9, 18, 27}}      \* 0, 0xffffffff and 0x08040201
MCWords  == FewBitsAway \cup TestData

\* What longer images are made of.
MCCommon ==
    {in \in OneOfEach : in.op \in {"addi", "mtspr", "j", "trap"}} \cup {Nop}
    \cup [op : {"data"}, word : TestData]
=============================================================================
