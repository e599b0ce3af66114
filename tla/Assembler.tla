----------------------------- MODULE Assembler -----------------------------
(***************************************************************************)
(* The encoding of instructions: class Assembler, simctty/assembler.cc,    *)
(* which the unit tests write guest programs with, and the decoding that   *)
(* CPU::RunInstruction does, simctty/cpu.cc.  The two were written apart   *)
(* and meet only in the words of the image.                                *)
(*                                                                         *)
(* A word, like each operand, is the set of its bits that are 1, so that | *)
(* is \cup and no number exceeds the field it stands for; image is         *)
(* instructions_, its bytes in the order of the guest.  An instruction is  *)
(* a record: its mnemonic op and its operands, named as in the code.       *)
(***************************************************************************)
EXTENDS Integers, Sequences

CONSTANTS
    Instructions,   \* the calls the test makes: instructions it asks for
    Words,          \* the words it gives to Data
    Addresses,      \* the addresses it gives to SetAddress
    Common,         \* bound: instructions and data that longer images are made
                    \* of; the others stand alone in theirs
    MaxWords        \* bound on the length of the image, in words

VARIABLES
    image,          \* instructions_: the bytes, in big-endian order
    asked           \* history: what each word of the image was asked to be

assemblerVars == <<image, asked>>

-----------------------------------------------------------------------------
(* Words and their fields.                                                  *)

Word == SUBSET (0 .. 31)
Byte == SUBSET (0 .. 7)

\* value << lo, for a value truncated to the given width.
At(value, lo, width) == {p \in lo .. lo + width - 1 : p - lo \in value}

\* (word >> lo) & (2^width - 1)
Field(word, lo, width) == {p \in 0 .. width - 1 : p + lo \in word}

\* The conversion of a signed number of the given width to one of 32 bits: the
\* sign is repeated.
Extended(value, width) == IF width - 1 \in value THEN value \cup (width .. 31) ELSE value

\* The bits of a number the code writes in hexadecimal, and of a table of them.
Weight == <<1, 2, 4, 8, 16, 32, 64, 128, 256, 512, 1024, 2048, 4096, 8192, 16384, 32768>>
Bits(v) == {p \in 0 .. 15 : (v \div Weight[p + 1]) % 2 = 1}
Coded(table) == [op \in DOMAIN table |-> Bits(table[op])]

-----------------------------------------------------------------------------
(* class Assembler: the opcodes each mnemonic passes on, by type.            *)

TypeN   == Coded([j |-> \h0, jal |-> \h1, bnf |-> \h3, bf |-> \h4])
TypeB   == Coded([jr |-> \h11, jalr |-> \h12])
TypeK   == Coded([sys |-> \h2000, trap |-> \h2100])
TypeDAI == Coded([lwz |-> \h21, lbz |-> \h23, lbs |-> \h24, lhz |-> \h25, lhs |-> \h26,
                  addi |-> \h27, xori |-> \h2b])
TypeDAK == Coded([andi |-> \h29, ori |-> \h2a, mfspr |-> \h2d])
TypeDAFL == Coded([slli |-> 0, srli |-> 1, srai |-> 2])
TypeAI  == Coded([sfeqi |-> \h5e0, sfnei |-> \h5e1, sfgtui |-> \h5e2, sfgeui |-> \h5e3,
                  sfltui |-> \h5e4, sfleui |-> \h5e5, sfgtsi |-> \h5ea, sfgesi |-> \h5eb,
                  sfltsi |-> \h5ec, sflesi |-> \h5ed])
TypeABI == Coded([sw |-> \h35, sb |-> \h36, sh |-> \h37])
TypeAB  == Coded([sfeq |-> \h720, sfne |-> \h721, sfgtu |-> \h722, sfgeu |-> \h723,
                  sfltu |-> \h724, sfleu |-> \h725, sfgts |-> \h72a, sfges |-> \h72b,
                  sflts |-> \h72c, sfles |-> \h72d])

\* Two sub-opcodes, f1 and f2.
TypeDABFF1 == Coded([add |-> 0, sub |-> 0, and |-> 0, or |-> 0, xor |-> 0, ff1 |-> 0,
                     sll |-> 0, srl |-> 1, sra |-> 2, fl1 |-> 4, mul |-> \hc,
                     div |-> \hc, divu |-> \hc])
TypeDABFF2 == Coded([add |-> \h0, sub |-> \h2, and |-> \h3, or |-> \h4, xor |-> \h5,
                     ff1 |-> \hf, sll |-> \h8, srl |-> \h8, sra |-> \h8, fl1 |-> \hf,
                     mul |-> \h6, div |-> \h9, divu |-> \ha])

\* The registers of an instruction: & kRegMask, then each to its place.
D(r) == At(r, 21, 5)
A(r) == At(r, 16, 5)
B(r) == At(r, 11, 5)

SplitWhole(i) == At(i, 0, 11) \cup At(Field(i, 12, 5), 21, 5)  \* variant: loses a bit

\* A 16-bit constant split around two registers: i_bottom and i_top.
Split(i) == At(i, 0, 11) \cup At(Field(i, 11, 5), 21, 5)

\* The AppendInstructionType methods: the word of an instruction.
Encode(in) ==
    CASE in.op \in DOMAIN TypeN   -> At(TypeN[in.op], 26, 6) \cup At(in.n, 0, 26)
      [] in.op = "nop"            -> At(Bits(\h15), 24, 8) \cup At(in.k, 0, 16)
      [] in.op = "movhi"          -> At(Bits(\h6), 26, 6) \cup At(in.d, 21, 11) \cup At(in.k, 0, 16)
      [] in.op \in DOMAIN TypeK   -> At(TypeK[in.op], 16, 16) \cup At(in.k, 0, 16)
      [] in.op = "rfe"            -> At(Bits(\h9), 26, 6)
      [] in.op \in DOMAIN TypeB   -> At(TypeB[in.op], 26, 6) \cup B(in.b)
      [] in.op \in DOMAIN TypeDAI ->
             At(TypeDAI[in.op], 26, 6) \cup D(in.d) \cup A(in.a) \cup At(in.i, 0, 16)
      [] in.op \in DOMAIN TypeDAK ->
             At(TypeDAK[in.op], 26, 6) \cup D(in.d) \cup A(in.a) \cup At(in.k, 0, 16)
      [] in.op \in DOMAIN TypeDAFL ->
             At(Bits(\h2e), 26, 6) \cup D(in.d) \cup A(in.a)
                 \cup At(TypeDAFL[in.op], 6, 2) \cup At(in.l, 0, 6)
      [] in.op \in DOMAIN TypeAI  -> At(TypeAI[in.op], 21, 11) \cup A(in.a) \cup At(in.i, 0, 16)
      [] in.op = "mtspr"          ->
             At(Bits(\h30), 26, 6) \cup A(in.a) \cup B(in.b) \cup Split(in.k)
      [] in.op \in DOMAIN TypeABI ->
             At(TypeABI[in.op], 26, 6) \cup A(in.a) \cup B(in.b) \cup Split(in.i)
      [] in.op \in DOMAIN TypeDABFF1 ->
             At(Bits(\h38), 26, 6) \cup D(in.d) \cup A(in.a) \cup B(in.b)
                 \cup At(TypeDABFF1[in.op], 6, 4) \cup At(TypeDABFF2[in.op], 0, 4)
      [] in.op \in DOMAIN TypeAB  -> At(TypeAB[in.op], 21, 11) \cup A(in.a) \cup B(in.b)

-----------------------------------------------------------------------------
(* CPU::RunInstruction: the case labels, and the DECODE macros.             *)

JumpCase  == Coded([j |-> 0, jal |-> 1, bnf |-> 3, bf |-> 4])
JumpRCase == Coded([jr |-> \h11, jalr |-> \h12])
TrapCase  == Coded([sys |-> \h2000, trap |-> \h2100])
LoadCase  == Coded([lwz |-> \h21, lbz |-> \h23, lbs |-> \h24, lhz |-> \h25, lhs |-> \h26,
                    addi |-> \h27, xori |-> \h2b])
LogicCase == Coded([andi |-> \h29, ori |-> \h2a, mfspr |-> \h2d])
ShiftCase == Coded([slli |-> 0, srli |-> 1, srai |-> 2])
CompareICase == Coded([sfeqi |-> \h5e0, sfnei |-> \h5e1, sfgtui |-> \h5e2, sfgeui |-> \h5e3,
                       sfltui |-> \h5e4, sfleui |-> \h5e5, sfgtsi |-> \h5ea,
                       sfgesi |-> \h5eb, sfltsi |-> \h5ec, sflesi |-> \h5ed])
StoreCase == Coded([sw |-> \h35, sb |-> \h36, sh |-> \h37])
RegCase   == Coded([add |-> \h00, sub |-> \h02, and |-> \h03, or |-> \h04, xor |-> \h05,
                    sll |-> \h08, ff1 |-> \h0f, srl |-> \h18, sra |-> \h28, fl1 |-> \h4f,
                    mul |-> \hc6, div |-> \hc9, divu |-> \hca])
CompareCase == Coded([sfeq |-> \h720, sfne |-> \h721, sfgtu |-> \h722, sfgeu |-> \h723,
                      sfltu |-> \h724, sfleu |-> \h725, sfgts |-> \h72a, sfges |-> \h72b,
                      sflts |-> \h72c, sfles |-> \h72d])

Labels(table) == {table[op] : op \in DOMAIN table}
Named(table, code) == CHOOSE op \in DOMAIN table : table[op] = code

DecodeD(word) == Field(word, 21, 5)
DecodeA(word) == Field(word, 16, 5)
DecodeB(word) == Field(word, 11, 5)
DecodeK(word) == Field(word, 0, 16)
DecodeI(word) == Extended(DecodeK(word), 16)
DecodeSplitK(word) == Field(word, 0, 11) \cup At(Field(word, 21, 5), 11, 5)
DecodeSplitI(word) == Extended(DecodeSplitK(word), 16)
DecodeOpcode11(word) == Field(word, 21, 11)
DecodeN(word) == Extended(Field(At(word, 6, 26), 4, 28), 28)   \* << 6, then >> 4, signed
DecodeL(word) == Field(word, 0, 5)
DecodeF(word) == Field(word, 6, 2)
DecodeFFLow(word) == Field(word, 0, 4) \cup At(Field(word, 6, 3), 4, 3)    \* variant: 0x1c0
DecodeFF(word) == Field(word, 0, 4) \cup At(Field(word, 6, 4), 4, 4)

\* What the core takes a word for.
Decode(word) ==
    LET opcode == Field(word, 26, 6)
        trap   == Field(word, 16, 16)
    IN
    CASE opcode \in Labels(JumpCase)  ->
             [op |-> Named(JumpCase, opcode), n |-> DecodeN(word)]
      [] opcode = Bits(\h05)          -> [op |-> "nop", k |-> DecodeK(word)]
      [] opcode = Bits(\h06)          ->
             [op |-> "movhi", d |-> DecodeD(word), k |-> DecodeK(word)]
      [] opcode = Bits(\h08) /\ trap \in Labels(TrapCase) ->
             [op |-> Named(TrapCase, trap), k |-> DecodeK(word)]
      [] opcode = Bits(\h09)          -> [op |-> "rfe"]
      [] opcode \in Labels(JumpRCase) ->
             [op |-> Named(JumpRCase, opcode), b |-> DecodeB(word)]
      [] opcode \in Labels(LoadCase)  ->
             [op |-> Named(LoadCase, opcode), d |-> DecodeD(word), a |-> DecodeA(word),
              i |-> DecodeI(word)]
      [] opcode \in Labels(LogicCase) ->
             [op |-> Named(LogicCase, opcode), d |-> DecodeD(word), a |-> DecodeA(word),
              k |-> DecodeK(word)]
      [] opcode = Bits(\h2e) /\ DecodeF(word) \in Labels(ShiftCase) ->
             [op |-> Named(ShiftCase, DecodeF(word)), d |-> DecodeD(word),
              a |-> DecodeA(word), l |-> DecodeL(word)]
      [] opcode = Bits(\h2f) /\ DecodeOpcode11(word) \in Labels(CompareICase) ->
             [op |-> Named(CompareICase, DecodeOpcode11(word)), a |-> DecodeA(word),
              i |-> DecodeI(word)]
      [] opcode = Bits(\h30)          ->
             [op |-> "mtspr", a |-> DecodeA(word), b |-> DecodeB(word),
              k |-> DecodeSplitK(word)]
      [] opcode \in Labels(StoreCase) ->
             [op |-> Named(StoreCase, opcode), a |-> DecodeA(word), b |-> DecodeB(word),
              i |-> DecodeSplitI(word)]
      [] opcode = Bits(\h38) /\ DecodeFF(word) \in Labels(RegCase) ->
             [op |-> Named(RegCase, DecodeFF(word)), d |-> DecodeD(word),
              a |-> DecodeA(word), b |-> DecodeB(word)]
      [] opcode = Bits(\h39) /\ DecodeOpcode11(word) \in Labels(CompareCase) ->
             [op |-> Named(CompareCase, DecodeOpcode11(word)), a |-> DecodeA(word),
              b |-> DecodeB(word)]
      [] OTHER                        -> [op |-> "illegal"]

-----------------------------------------------------------------------------
(* The operands of the l_ methods, as the types of their parameters have     *)
(* them; registers are the 32 there are.                                     *)

Reg    == SUBSET (0 .. 4)
Amount == Byte                  \* of a shift, uint8
Short  == SUBSET (0 .. 15)
SignedOf(width) ==
    {i \in Word : \A p \in width .. 31 : p \in i <=> width - 1 \in i}

IsInstruction(in) ==
    \/ in \in [op : DOMAIN TypeN, n : SignedOf(26)]
    \/ in \in [op : {"nop"} \cup DOMAIN TypeK, k : Short]
    \/ in \in [op : {"movhi"}, d : Reg, k : Short]
    \/ in \in [op : {"rfe"}]
    \/ in \in [op : DOMAIN TypeB, b : Reg]
    \/ in \in [op : DOMAIN TypeDAI, d : Reg, a : Reg, i : SignedOf(16)]
    \/ in \in [op : DOMAIN TypeDAK, d : Reg, a : Reg, k : Short]
    \/ in \in [op : DOMAIN TypeDAFL, d : Reg, a : Reg, l : Amount]
    \/ in \in [op : DOMAIN TypeAI, a : Reg, i : SignedOf(16)]
    \/ in \in [op : {"mtspr"}, a : Reg, b : Reg, k : Short]
    \/ in \in [op : DOMAIN TypeABI, a : Reg, b : Reg, i : SignedOf(16)]
    \/ in \in [op : DOMAIN TypeDABFF1, d : Reg, a : Reg, b : Reg]
    \/ in \in [op : DOMAIN TypeAB, a : Reg, b : Reg]

ASSUME InstructionsAssumption == \A in \in Instructions : IsInstruction(in)
ASSUME WordsAssumption == Words \subseteq Word
ASSUME AddressesAssumption == Addresses \subseteq Nat

-----------------------------------------------------------------------------
(* The calls a test makes while it writes an image.                         *)

Bytes(word) ==                          \* B32ENDIANSWAP, then byte by byte
    [n \in 1 .. 4 |-> {p \in 0 .. 7 : p + 8 * (4 - n) \in word}]

\* The word the core fetches: memory is big-endian (module Ram).
WordAt(n) == {p \in 0 .. 31 : p % 8 \in image[4 * n - p \div 8]}

Size == Len(image)
InstructionCount == Size \div 4

\* Bound: longer images are made of the common instructions and data.
MayGrow == InstructionCount < MaxWords /\ \A n \in 1 .. Len(asked) : asked[n] \in Common

\* AppendInstruction, of words in a row.
Append4(words, asks) ==
    /\ InstructionCount + Len(words) <= MaxWords
    /\ InstructionCount + Len(words) > 1 => \A n \in 1 .. Len(asks) : asks[n] \in Common
    /\ image' = image \o [n \in 1 .. 4 * Len(words) |->
                             Bytes(words[(n + 3) \div 4])[1 + ((n - 1) % 4)]]
    /\ asked' = asked \o asks

AssemblerInit == image = <<>> /\ asked = <<>>

\* One of the l_ methods.
Assemble == MayGrow /\ \E in \in Instructions : Append4(<<Encode(in)>>, <<in>>)

Data ==
    MayGrow /\ \E word \in Words : Append4(<<word>>, <<[op |-> "data", word |-> word]>>)

Nop == [op |-> "nop", k |-> {}]

\* while (Size() < address) l_nop();
Padding(address) == IF Size < address THEN (address - Size + 3) \div 4 ELSE 0

SetAddress ==
    /\ MayGrow
    /\ \E address \in Addresses :
           LET count == Padding(address) IN
           Append4([n \in 1 .. count |-> Encode(Nop)], [n \in 1 .. count |-> Nop])

Clear == image' = <<>> /\ asked' = <<>>

AssemblerNext == Assemble \/ Data \/ SetAddress \/ Clear

AssemblerSpec == AssemblerInit /\ [][AssemblerNext]_assemblerVars

-----------------------------------------------------------------------------
(* Properties.                                                              *)

\* How the core should take an instruction: offsets of branches are in bytes,
\* << 2, and a word is shifted by an amount modulo 32.
Meaning(in) ==
    CASE in.op \in DOMAIN TypeN    -> [in EXCEPT !.n = At(@, 2, 30)]
      [] in.op \in DOMAIN TypeDAFL -> [in EXCEPT !.l = Field(@, 0, 5)]
      [] OTHER                     -> in

\* The image is whole words, one for each call, and the core takes each word the
\* assembler wrote for the instruction that was asked, with the same registers
\* and the same value of the constant: the bits of split constants meet again,
\* and negative ones keep their sign.
AssembledIsDecoded ==
    /\ Size = 4 * Len(asked)
    /\ \A n \in 1 .. Len(asked) :
           IF asked[n].op = "data" THEN WordAt(n) = asked[n].word
                                   ELSE Decode(WordAt(n)) = Meaning(asked[n])

\* What the core does not look at, by instruction.  The patterns in the comments
\* of cpu.cc say otherwise in three places: they fix bit 16 of l.movhi (line 446,
\* `---0') and bits 25 and 24 of l.nop (line 438, `0001 0101'), which the core
\* takes with any value, and they give a shift by a constant an amount of six bits
\* (line 588, `00LL LLLL'), of which the core drops bit 5.
Ignored(op) ==
    CASE op = "nop"                                 -> 16 .. 25
      [] op = "movhi"                               -> 16 .. 20
      [] op = "rfe"                                 -> 0 .. 25
      [] op \in DOMAIN TypeB                        -> (16 .. 25) \cup (0 .. 10)
      [] op \in DOMAIN TypeDAFL                     -> (8 .. 15) \cup {5}
      [] op \in DOMAIN TypeDABFF1                   -> {4, 5, 10}
      [] op \in DOMAIN TypeAB                       -> 0 .. 10
      [] OTHER                                      -> {}

\* How an instruction is asked for that the core reports: >> 2, signed.
Asking(in) == IF in.op \in DOMAIN TypeN THEN [in EXCEPT !.n = Extended(Field(@, 2, 30), 30)] ELSE in

\* What the core takes the word for is all that is in it: but for the bits it
\* ignores, which may have any value, it is the word the assembler writes.
ReadInFull(word) ==
    LET taken   == Decode(word)
        ignored == Ignored(taken.op)
    IN  taken.op # "illegal" =>
            /\ Encode(Asking(taken)) \ ignored = word \ ignored
            /\ \A bits \in {{}, ignored} : Decode((word \ ignored) \cup bits) = taken

\* A word the core does not refuse is, but for the bits it ignores, the one the
\* assembler writes for what the core takes it for; and the ignored bits may
\* have any value.  So two encodings never name one instruction by accident,
\* and no bit of an operand is dropped.
WordsAreReadInFull == \A n \in 1 .. Len(asked) : ReadInFull(WordAt(n))

=============================================================================
