-------------------------- MODULE AssemblerProofs --------------------------
(***************************************************************************)
(* The assembler and the decoder of the core agree, for all operands, all  *)
(* words and images of every length.                                       *)
(***************************************************************************)
EXTENDS Assembler, TLAPS

-----------------------------------------------------------------------------
(* The opcodes, their names and their bits.                                 *)

\* The number with the given bits, of 16.
Value(f, p, weight) == IF p \in f THEN weight ELSE 0
Number(f) ==
    Value(f, 0, 1) + Value(f, 1, 2) + Value(f, 2, 4) + Value(f, 3, 8)
    + Value(f, 4, 16) + Value(f, 5, 32) + Value(f, 6, 64) + Value(f, 7, 128)
    + Value(f, 8, 256) + Value(f, 9, 512) + Value(f, 10, 1024) + Value(f, 11, 2048)
    + Value(f, 12, 4096) + Value(f, 13, 8192) + Value(f, 14, 16384) + Value(f, 15, 32768)

\* Names of opcodes are not shared.
Injective(table) == \A p, q \in DOMAIN table : table[p] = table[q] => p = q

\* The bits of a number below 2^width.
Is(x, v, width) == x \subseteq 0 .. width - 1 /\ Number(x) = v

\* A table is read the way it was written: a name by its code, a code by its name.
LEMMA NamedIs ==
    ASSUME NEW table, Injective(table)
    PROVE  /\ \A op \in DOMAIN table : /\ table[op] \in Labels(table)
                                      /\ Named(table, table[op]) = op
           /\ \A c \in Labels(table) : /\ Named(table, c) \in DOMAIN table
                                       /\ table[Named(table, c)] = c
BY DEF Injective, Labels, Named

\* Branches: the two tables agree.
LEMMA TypeNTable ==
    /\ JumpCase = TypeN /\ Injective(TypeN)
    /\ \A op \in DOMAIN TypeN : /\ TypeN[op] \subseteq 0 .. 5
                          /\ Number(TypeN[op]) \in {\h0, \h1, \h3, \h4}
<1>1. DOMAIN TypeN = {"j", "jal", "bnf", "bf"}
  BY DEF TypeN, Coded
<1>2. /\ TypeN["j"] = Bits(\h0)
      /\ TypeN["jal"] = Bits(\h1)
      /\ TypeN["bnf"] = Bits(\h3)
      /\ TypeN["bf"] = Bits(\h4)
  BY DEF TypeN, Coded
<1>3. /\ Is(Bits(\h0), \h0, 6)
      /\ Is(Bits(\h1), \h1, 6)
      /\ Is(Bits(\h3), \h3, 6)
      /\ Is(Bits(\h4), \h4, 6)
  BY DEF Is, Number, Value, Bits, Weight
<1>4. TypeN = JumpCase
  BY DEF TypeN, JumpCase
<1> QED
  BY <1>1, <1>2, <1>3, <1>4 DEF Injective, Is

\* Jumps to a register: the two tables agree.
LEMMA TypeBTable ==
    /\ JumpRCase = TypeB /\ Injective(TypeB)
    /\ \A op \in DOMAIN TypeB : /\ TypeB[op] \subseteq 0 .. 5
                          /\ Number(TypeB[op]) \in {\h11, \h12}
<1>1. DOMAIN TypeB = {"jr", "jalr"}
  BY DEF TypeB, Coded
<1>2. /\ TypeB["jr"] = Bits(\h11)
      /\ TypeB["jalr"] = Bits(\h12)
  BY DEF TypeB, Coded
<1>3. /\ Is(Bits(\h11), \h11, 6)
      /\ Is(Bits(\h12), \h12, 6)
  BY DEF Is, Number, Value, Bits, Weight
<1>4. TypeB = JumpRCase
  BY DEF TypeB, JumpRCase
<1> QED
  BY <1>1, <1>2, <1>3, <1>4 DEF Injective, Is

\* Traps: the two tables agree.
LEMMA TypeKTable ==
    /\ TrapCase = TypeK /\ Injective(TypeK)
    /\ \A op \in DOMAIN TypeK : /\ TypeK[op] \subseteq 0 .. 15
                          /\ Number(TypeK[op]) \in {\h2000, \h2100}
<1>1. DOMAIN TypeK = {"sys", "trap"}
  BY DEF TypeK, Coded
<1>2. /\ TypeK["sys"] = Bits(\h2000)
      /\ TypeK["trap"] = Bits(\h2100)
  BY DEF TypeK, Coded
<1>3. /\ Is(Bits(\h2000), \h2000, 16)
      /\ Is(Bits(\h2100), \h2100, 16)
  BY DEF Is, Number, Value, Bits, Weight
<1>4. TypeK = TrapCase
  BY DEF TypeK, TrapCase
<1> QED
  BY <1>1, <1>2, <1>3, <1>4 DEF Injective, Is

\* Loads and arithmetic with a signed constant: the two tables agree.
LEMMA TypeDAITable ==
    /\ LoadCase = TypeDAI /\ Injective(TypeDAI)
    /\ \A op \in DOMAIN TypeDAI : /\ TypeDAI[op] \subseteq 0 .. 5
                          /\ Number(TypeDAI[op]) \in {\h21, \h23, \h24, \h25, \h26,
                                             \h27, \h2b}
<1>1. DOMAIN TypeDAI = {"lwz", "lbz", "lbs", "lhz", "lhs", "addi",
                               "xori"}
  BY DEF TypeDAI, Coded
<1>2. /\ TypeDAI["lwz"] = Bits(\h21)
      /\ TypeDAI["lbz"] = Bits(\h23)
      /\ TypeDAI["lbs"] = Bits(\h24)
      /\ TypeDAI["lhz"] = Bits(\h25)
      /\ TypeDAI["lhs"] = Bits(\h26)
      /\ TypeDAI["addi"] = Bits(\h27)
      /\ TypeDAI["xori"] = Bits(\h2b)
  BY DEF TypeDAI, Coded
<1>3. /\ Is(Bits(\h21), \h21, 6)
      /\ Is(Bits(\h23), \h23, 6)
      /\ Is(Bits(\h24), \h24, 6)
      /\ Is(Bits(\h25), \h25, 6)
      /\ Is(Bits(\h26), \h26, 6)
  BY DEF Is, Number, Value, Bits, Weight
<1>4. /\ Is(Bits(\h27), \h27, 6)
      /\ Is(Bits(\h2b), \h2b, 6)
  BY DEF Is, Number, Value, Bits, Weight
<1>5. TypeDAI = LoadCase
  BY DEF TypeDAI, LoadCase
<1> QED
  BY <1>1, <1>2, <1>3, <1>4, <1>5 DEF Injective, Is

\* Logic with a constant, and l.mfspr: the two tables agree.
LEMMA TypeDAKTable ==
    /\ LogicCase = TypeDAK /\ Injective(TypeDAK)
    /\ \A op \in DOMAIN TypeDAK : /\ TypeDAK[op] \subseteq 0 .. 5
                          /\ Number(TypeDAK[op]) \in {\h29, \h2a, \h2d}
<1>1. DOMAIN TypeDAK = {"andi", "ori", "mfspr"}
  BY DEF TypeDAK, Coded
<1>2. /\ TypeDAK["andi"] = Bits(\h29)
      /\ TypeDAK["ori"] = Bits(\h2a)
      /\ TypeDAK["mfspr"] = Bits(\h2d)
  BY DEF TypeDAK, Coded
<1>3. /\ Is(Bits(\h29), \h29, 6)
      /\ Is(Bits(\h2a), \h2a, 6)
      /\ Is(Bits(\h2d), \h2d, 6)
  BY DEF Is, Number, Value, Bits, Weight
<1>4. TypeDAK = LogicCase
  BY DEF TypeDAK, LogicCase
<1> QED
  BY <1>1, <1>2, <1>3, <1>4 DEF Injective, Is

\* Shifts by a constant: the two tables agree.
LEMMA TypeDAFLTable ==
    /\ ShiftCase = TypeDAFL /\ Injective(TypeDAFL)
    /\ \A op \in DOMAIN TypeDAFL : /\ TypeDAFL[op] \subseteq 0 .. 1
                          /\ Number(TypeDAFL[op]) \in {0, 1, 2}
<1>1. DOMAIN TypeDAFL = {"slli", "srli", "srai"}
  BY DEF TypeDAFL, Coded
<1>2. /\ TypeDAFL["slli"] = Bits(0)
      /\ TypeDAFL["srli"] = Bits(1)
      /\ TypeDAFL["srai"] = Bits(2)
  BY DEF TypeDAFL, Coded
<1>3. /\ Is(Bits(0), 0, 2)
      /\ Is(Bits(1), 1, 2)
      /\ Is(Bits(2), 2, 2)
  BY DEF Is, Number, Value, Bits, Weight
<1>4. TypeDAFL = ShiftCase
  BY DEF TypeDAFL, ShiftCase
<1> QED
  BY <1>1, <1>2, <1>3, <1>4 DEF Injective, Is

\* Comparisons with a constant: the two tables agree.
LEMMA TypeAITable ==
    /\ CompareICase = TypeAI /\ Injective(TypeAI)
    /\ \A op \in DOMAIN TypeAI : /\ TypeAI[op] \subseteq 0 .. 10
                          /\ Number(TypeAI[op]) \in {\h5e0, \h5e1, \h5e2, \h5e3,
                                             \h5e4, \h5e5, \h5ea, \h5eb,
                                             \h5ec, \h5ed}
<1>1. DOMAIN TypeAI = {"sfeqi", "sfnei", "sfgtui", "sfgeui", "sfltui",
                              "sfleui", "sfgtsi", "sfgesi", "sfltsi", "sflesi"}
  BY DEF TypeAI, Coded
<1>2. /\ TypeAI["sfeqi"] = Bits(\h5e0)
      /\ TypeAI["sfnei"] = Bits(\h5e1)
      /\ TypeAI["sfgtui"] = Bits(\h5e2)
      /\ TypeAI["sfgeui"] = Bits(\h5e3)
      /\ TypeAI["sfltui"] = Bits(\h5e4)
      /\ TypeAI["sfleui"] = Bits(\h5e5)
      /\ TypeAI["sfgtsi"] = Bits(\h5ea)
      /\ TypeAI["sfgesi"] = Bits(\h5eb)
      /\ TypeAI["sfltsi"] = Bits(\h5ec)
      /\ TypeAI["sflesi"] = Bits(\h5ed)
  BY DEF TypeAI, Coded
<1>3. /\ Is(Bits(\h5e0), \h5e0, 11)
      /\ Is(Bits(\h5e1), \h5e1, 11)
      /\ Is(Bits(\h5e2), \h5e2, 11)
      /\ Is(Bits(\h5e3), \h5e3, 11)
      /\ Is(Bits(\h5e4), \h5e4, 11)
  BY DEF Is, Number, Value, Bits, Weight
<1>4. /\ Is(Bits(\h5e5), \h5e5, 11)
      /\ Is(Bits(\h5ea), \h5ea, 11)
      /\ Is(Bits(\h5eb), \h5eb, 11)
      /\ Is(Bits(\h5ec), \h5ec, 11)
      /\ Is(Bits(\h5ed), \h5ed, 11)
  BY DEF Is, Number, Value, Bits, Weight
<1>5. TypeAI = CompareICase
  BY DEF TypeAI, CompareICase
<1> QED
  BY <1>1, <1>2, <1>3, <1>4, <1>5 DEF Injective, Is

\* Stores: the two tables agree.
LEMMA TypeABITable ==
    /\ StoreCase = TypeABI /\ Injective(TypeABI)
    /\ \A op \in DOMAIN TypeABI : /\ TypeABI[op] \subseteq 0 .. 5
                          /\ Number(TypeABI[op]) \in {\h35, \h36, \h37}
<1>1. DOMAIN TypeABI = {"sw", "sb", "sh"}
  BY DEF TypeABI, Coded
<1>2. /\ TypeABI["sw"] = Bits(\h35)
      /\ TypeABI["sb"] = Bits(\h36)
      /\ TypeABI["sh"] = Bits(\h37)
  BY DEF TypeABI, Coded
<1>3. /\ Is(Bits(\h35), \h35, 6)
      /\ Is(Bits(\h36), \h36, 6)
      /\ Is(Bits(\h37), \h37, 6)
  BY DEF Is, Number, Value, Bits, Weight
<1>4. TypeABI = StoreCase
  BY DEF TypeABI, StoreCase
<1> QED
  BY <1>1, <1>2, <1>3, <1>4 DEF Injective, Is

\* Comparisons of registers: the two tables agree.
LEMMA TypeABTable ==
    /\ CompareCase = TypeAB /\ Injective(TypeAB)
    /\ \A op \in DOMAIN TypeAB : /\ TypeAB[op] \subseteq 0 .. 10
                          /\ Number(TypeAB[op]) \in {\h720, \h721, \h722, \h723,
                                             \h724, \h725, \h72a, \h72b,
                                             \h72c, \h72d}
<1>1. DOMAIN TypeAB = {"sfeq", "sfne", "sfgtu", "sfgeu", "sfltu",
                              "sfleu", "sfgts", "sfges", "sflts", "sfles"}
  BY DEF TypeAB, Coded
<1>2. /\ TypeAB["sfeq"] = Bits(\h720)
      /\ TypeAB["sfne"] = Bits(\h721)
      /\ TypeAB["sfgtu"] = Bits(\h722)
      /\ TypeAB["sfgeu"] = Bits(\h723)
      /\ TypeAB["sfltu"] = Bits(\h724)
      /\ TypeAB["sfleu"] = Bits(\h725)
      /\ TypeAB["sfgts"] = Bits(\h72a)
      /\ TypeAB["sfges"] = Bits(\h72b)
      /\ TypeAB["sflts"] = Bits(\h72c)
      /\ TypeAB["sfles"] = Bits(\h72d)
  BY DEF TypeAB, Coded
<1>3. /\ Is(Bits(\h720), \h720, 11)
      /\ Is(Bits(\h721), \h721, 11)
      /\ Is(Bits(\h722), \h722, 11)
      /\ Is(Bits(\h723), \h723, 11)
      /\ Is(Bits(\h724), \h724, 11)
  BY DEF Is, Number, Value, Bits, Weight
<1>4. /\ Is(Bits(\h725), \h725, 11)
      /\ Is(Bits(\h72a), \h72a, 11)
      /\ Is(Bits(\h72b), \h72b, 11)
      /\ Is(Bits(\h72c), \h72c, 11)
      /\ Is(Bits(\h72d), \h72d, 11)
  BY DEF Is, Number, Value, Bits, Weight
<1>5. TypeAB = CompareCase
  BY DEF TypeAB, CompareCase
<1> QED
  BY <1>1, <1>2, <1>3, <1>4, <1>5 DEF Injective, Is

\* Arithmetic of registers: the two sub-opcodes of the assembler are the two
\* parts of the one the core makes of them.
LEMMA RegTable ==
    /\ DOMAIN TypeDABFF1 = DOMAIN RegCase /\ Injective(RegCase)
    /\ \A op \in DOMAIN RegCase :
           /\ TypeDABFF1[op] \subseteq 0 .. 3 /\ TypeDABFF2[op] \subseteq 0 .. 3
           /\ RegCase[op] = TypeDABFF2[op] \cup At(TypeDABFF1[op], 4, 4)
<1>1. DOMAIN RegCase = {"add", "sub", "and", "or", "xor", "sll", "ff1",
                        "srl", "sra", "fl1", "mul", "div", "divu"}
  BY DEF RegCase, Coded
<1>2. DOMAIN TypeDABFF1 = DOMAIN RegCase
  BY <1>1 DEF TypeDABFF1, Coded
<1>3. /\ RegCase["add"] = Bits(\h00)
      /\ RegCase["sub"] = Bits(\h02)
      /\ RegCase["and"] = Bits(\h03)
      /\ RegCase["or"] = Bits(\h04)
      /\ RegCase["xor"] = Bits(\h05)
      /\ RegCase["sll"] = Bits(\h08)
      /\ RegCase["ff1"] = Bits(\h0f)
      /\ RegCase["srl"] = Bits(\h18)
      /\ RegCase["sra"] = Bits(\h28)
      /\ RegCase["fl1"] = Bits(\h4f)
      /\ RegCase["mul"] = Bits(\hc6)
      /\ RegCase["div"] = Bits(\hc9)
      /\ RegCase["divu"] = Bits(\hca)
  BY DEF RegCase, Coded
<1>4. /\ Is(Bits(\h00), \h00, 8)
      /\ Is(Bits(\h02), \h02, 8)
      /\ Is(Bits(\h03), \h03, 8)
      /\ Is(Bits(\h04), \h04, 8)
      /\ Is(Bits(\h05), \h05, 8)
  BY DEF Is, Number, Value, Bits, Weight
<1>5. /\ Is(Bits(\h08), \h08, 8)
      /\ Is(Bits(\h0f), \h0f, 8)
      /\ Is(Bits(\h18), \h18, 8)
      /\ Is(Bits(\h28), \h28, 8)
      /\ Is(Bits(\h4f), \h4f, 8)
  BY DEF Is, Number, Value, Bits, Weight
<1>6. /\ Is(Bits(\hc6), \hc6, 8)
      /\ Is(Bits(\hc9), \hc9, 8)
      /\ Is(Bits(\hca), \hca, 8)
  BY DEF Is, Number, Value, Bits, Weight
<1>7. Injective(RegCase)
  BY <1>1, <1>3, <1>4, <1>5, <1>6 DEF Injective, Is
<1>8. /\ TypeDABFF1["add"] = Bits(0)
      /\ TypeDABFF1["sub"] = Bits(0)
      /\ TypeDABFF1["and"] = Bits(0)
      /\ TypeDABFF1["or"] = Bits(0)
      /\ TypeDABFF1["xor"] = Bits(0)
      /\ TypeDABFF1["sll"] = Bits(0)
      /\ TypeDABFF1["ff1"] = Bits(0)
      /\ TypeDABFF1["srl"] = Bits(1)
      /\ TypeDABFF1["sra"] = Bits(2)
      /\ TypeDABFF1["fl1"] = Bits(4)
      /\ TypeDABFF1["mul"] = Bits(\hc)
      /\ TypeDABFF1["div"] = Bits(\hc)
      /\ TypeDABFF1["divu"] = Bits(\hc)
  BY DEF TypeDABFF1, Coded
<1>9. /\ Is(Bits(0), 0, 4)
      /\ Is(Bits(1), 1, 4)
      /\ Is(Bits(2), 2, 4)
      /\ Is(Bits(4), 4, 4)
      /\ Is(Bits(\hc), \hc, 4)
  BY DEF Is, Number, Value, Bits, Weight
<1>10. /\ TypeDABFF2["add"] = Bits(\h0)
      /\ TypeDABFF2["sub"] = Bits(\h2)
      /\ TypeDABFF2["and"] = Bits(\h3)
      /\ TypeDABFF2["or"] = Bits(\h4)
      /\ TypeDABFF2["xor"] = Bits(\h5)
      /\ TypeDABFF2["sll"] = Bits(\h8)
      /\ TypeDABFF2["ff1"] = Bits(\hf)
      /\ TypeDABFF2["srl"] = Bits(\h8)
      /\ TypeDABFF2["sra"] = Bits(\h8)
      /\ TypeDABFF2["fl1"] = Bits(\hf)
      /\ TypeDABFF2["mul"] = Bits(\h6)
      /\ TypeDABFF2["div"] = Bits(\h9)
      /\ TypeDABFF2["divu"] = Bits(\ha)
  BY DEF TypeDABFF2, Coded
<1>11. /\ Is(Bits(\h0), \h0, 4)
      /\ Is(Bits(\h2), \h2, 4)
      /\ Is(Bits(\h3), \h3, 4)
      /\ Is(Bits(\h4), \h4, 4)
      /\ Is(Bits(\h5), \h5, 4)
  BY DEF Is, Number, Value, Bits, Weight
<1>12. /\ Is(Bits(\h8), \h8, 4)
      /\ Is(Bits(\hf), \hf, 4)
      /\ Is(Bits(\h6), \h6, 4)
      /\ Is(Bits(\h9), \h9, 4)
      /\ Is(Bits(\ha), \ha, 4)
  BY DEF Is, Number, Value, Bits, Weight
<1>13. ASSUME NEW op \in DOMAIN RegCase
      PROVE  RegCase[op] = TypeDABFF2[op] \cup At(TypeDABFF1[op], 4, 4)
  <2>1. CASE op = "add"
    <3>1. RegCase[op] = Bits(\h00) /\ TypeDABFF1[op] = Bits(0) /\ TypeDABFF2[op] = Bits(\h0)
      BY <2>1 DEF RegCase, TypeDABFF1, TypeDABFF2, Coded
    <3>2. Bits(\h00) = Bits(\h0) \cup At(Bits(0), 4, 4)
      BY DEF Bits, Weight, At
    <3> QED
      BY <3>1, <3>2
  <2>2. CASE op = "sub"
    <3>1. RegCase[op] = Bits(\h02) /\ TypeDABFF1[op] = Bits(0) /\ TypeDABFF2[op] = Bits(\h2)
      BY <2>2 DEF RegCase, TypeDABFF1, TypeDABFF2, Coded
    <3>2. Bits(\h02) = Bits(\h2) \cup At(Bits(0), 4, 4)
      BY DEF Bits, Weight, At
    <3> QED
      BY <3>1, <3>2
  <2>3. CASE op = "and"
    <3>1. RegCase[op] = Bits(\h03) /\ TypeDABFF1[op] = Bits(0) /\ TypeDABFF2[op] = Bits(\h3)
      BY <2>3 DEF RegCase, TypeDABFF1, TypeDABFF2, Coded
    <3>2. Bits(\h03) = Bits(\h3) \cup At(Bits(0), 4, 4)
      BY DEF Bits, Weight, At
    <3> QED
      BY <3>1, <3>2
  <2>4. CASE op = "or"
    <3>1. RegCase[op] = Bits(\h04) /\ TypeDABFF1[op] = Bits(0) /\ TypeDABFF2[op] = Bits(\h4)
      BY <2>4 DEF RegCase, TypeDABFF1, TypeDABFF2, Coded
    <3>2. Bits(\h04) = Bits(\h4) \cup At(Bits(0), 4, 4)
      BY DEF Bits, Weight, At
    <3> QED
      BY <3>1, <3>2
  <2>5. CASE op = "xor"
    <3>1. RegCase[op] = Bits(\h05) /\ TypeDABFF1[op] = Bits(0) /\ TypeDABFF2[op] = Bits(\h5)
      BY <2>5 DEF RegCase, TypeDABFF1, TypeDABFF2, Coded
    <3>2. Bits(\h05) = Bits(\h5) \cup At(Bits(0), 4, 4)
      BY DEF Bits, Weight, At
    <3> QED
      BY <3>1, <3>2
  <2>6. CASE op = "sll"
    <3>1. RegCase[op] = Bits(\h08) /\ TypeDABFF1[op] = Bits(0) /\ TypeDABFF2[op] = Bits(\h8)
      BY <2>6 DEF RegCase, TypeDABFF1, TypeDABFF2, Coded
    <3>2. Bits(\h08) = Bits(\h8) \cup At(Bits(0), 4, 4)
      BY DEF Bits, Weight, At
    <3> QED
      BY <3>1, <3>2
  <2>7. CASE op = "ff1"
    <3>1. RegCase[op] = Bits(\h0f) /\ TypeDABFF1[op] = Bits(0) /\ TypeDABFF2[op] = Bits(\hf)
      BY <2>7 DEF RegCase, TypeDABFF1, TypeDABFF2, Coded
    <3>2. Bits(\h0f) = Bits(\hf) \cup At(Bits(0), 4, 4)
      BY DEF Bits, Weight, At
    <3> QED
      BY <3>1, <3>2
  <2>8. CASE op = "srl"
    <3>1. RegCase[op] = Bits(\h18) /\ TypeDABFF1[op] = Bits(1) /\ TypeDABFF2[op] = Bits(\h8)
      BY <2>8 DEF RegCase, TypeDABFF1, TypeDABFF2, Coded
    <3>2. Bits(\h18) = Bits(\h8) \cup At(Bits(1), 4, 4)
      BY DEF Bits, Weight, At
    <3> QED
      BY <3>1, <3>2
  <2>9. CASE op = "sra"
    <3>1. RegCase[op] = Bits(\h28) /\ TypeDABFF1[op] = Bits(2) /\ TypeDABFF2[op] = Bits(\h8)
      BY <2>9 DEF RegCase, TypeDABFF1, TypeDABFF2, Coded
    <3>2. Bits(\h28) = Bits(\h8) \cup At(Bits(2), 4, 4)
      BY DEF Bits, Weight, At
    <3> QED
      BY <3>1, <3>2
  <2>10. CASE op = "fl1"
    <3>1. RegCase[op] = Bits(\h4f) /\ TypeDABFF1[op] = Bits(4) /\ TypeDABFF2[op] = Bits(\hf)
      BY <2>10 DEF RegCase, TypeDABFF1, TypeDABFF2, Coded
    <3>2. Bits(\h4f) = Bits(\hf) \cup At(Bits(4), 4, 4)
      BY DEF Bits, Weight, At
    <3> QED
      BY <3>1, <3>2
  <2>11. CASE op = "mul"
    <3>1. RegCase[op] = Bits(\hc6) /\ TypeDABFF1[op] = Bits(\hc) /\ TypeDABFF2[op] = Bits(\h6)
      BY <2>11 DEF RegCase, TypeDABFF1, TypeDABFF2, Coded
    <3>2. Bits(\hc6) = Bits(\h6) \cup At(Bits(\hc), 4, 4)
      BY DEF Bits, Weight, At
    <3> QED
      BY <3>1, <3>2
  <2>12. CASE op = "div"
    <3>1. RegCase[op] = Bits(\hc9) /\ TypeDABFF1[op] = Bits(\hc) /\ TypeDABFF2[op] = Bits(\h9)
      BY <2>12 DEF RegCase, TypeDABFF1, TypeDABFF2, Coded
    <3>2. Bits(\hc9) = Bits(\h9) \cup At(Bits(\hc), 4, 4)
      BY DEF Bits, Weight, At
    <3> QED
      BY <3>1, <3>2
  <2>13. CASE op = "divu"
    <3>1. RegCase[op] = Bits(\hca) /\ TypeDABFF1[op] = Bits(\hc) /\ TypeDABFF2[op] = Bits(\ha)
      BY <2>13 DEF RegCase, TypeDABFF1, TypeDABFF2, Coded
    <3>2. Bits(\hca) = Bits(\ha) \cup At(Bits(\hc), 4, 4)
      BY DEF Bits, Weight, At
    <3> QED
      BY <3>1, <3>2
  <2> QED
    BY <1>1, <2>1, <2>2, <2>3, <2>4, <2>5, <2>6, <2>7, <2>8, <2>9, <2>10, <2>11, <2>12, <2>13
<1> QED
  BY <1>1, <1>2, <1>7, <1>13, <1>8, <1>9, <1>10, <1>11, <1>12 DEF Is

-----------------------------------------------------------------------------
(* The cases of the core.                                                   *)

\* The opcodes of the cases are apart.
LEMMA CasesApart ==
    /\ \A x \in Labels(JumpCase) : Number(x) \in {0, 1, 3, 4}
    /\ \A x \in Labels(JumpRCase) : Number(x) \in {\h11, \h12}
    /\ \A x \in Labels(LoadCase) : Number(x) \in {\h21, \h23, \h24, \h25, \h26, \h27, \h2b}
    /\ \A x \in Labels(LogicCase) : Number(x) \in {\h29, \h2a, \h2d}
    /\ \A x \in Labels(StoreCase) : Number(x) \in {\h35, \h36, \h37}
    /\ Number(Bits(\h05)) = \h05 /\ Number(Bits(\h06)) = \h06 /\ Number(Bits(\h08)) = \h08
    /\ Number(Bits(\h09)) = \h09 /\ Number(Bits(\h2e)) = \h2e /\ Number(Bits(\h2f)) = \h2f
    /\ Number(Bits(\h30)) = \h30 /\ Number(Bits(\h38)) = \h38 /\ Number(Bits(\h39)) = \h39
<1>1. /\ Number(Bits(\h05)) = \h05 /\ Number(Bits(\h06)) = \h06 /\ Number(Bits(\h08)) = \h08
      /\ Number(Bits(\h09)) = \h09 /\ Number(Bits(\h2e)) = \h2e
  BY DEF Number, Value, Bits, Weight
<1>2. /\ Number(Bits(\h2f)) = \h2f
      /\ Number(Bits(\h30)) = \h30 /\ Number(Bits(\h38)) = \h38 /\ Number(Bits(\h39)) = \h39
  BY DEF Number, Value, Bits, Weight
<1>3. \A x \in Labels(JumpCase) : Number(x) \in {0, 1, 3, 4}
  BY TypeNTable DEF Labels
<1>4. \A x \in Labels(JumpRCase) : Number(x) \in {\h11, \h12}
  BY TypeBTable DEF Labels
<1>5. \A x \in Labels(LoadCase) : Number(x) \in {\h21, \h23, \h24, \h25, \h26, \h27, \h2b}
  BY TypeDAITable DEF Labels
<1>6. \A x \in Labels(LogicCase) : Number(x) \in {\h29, \h2a, \h2d}
  BY TypeDAKTable DEF Labels
<1>7. \A x \in Labels(StoreCase) : Number(x) \in {\h35, \h36, \h37}
  BY TypeABITable DEF Labels
<1> QED
  BY <1>1, <1>2, <1>3, <1>4, <1>5, <1>6, <1>7

\* A word whose opcode is that of a case is decoded by that case, and any other is
\* refused.
LEMMA DecodeCases ==
    ASSUME NEW word
    PROVE  LET opcode == Field(word, 26, 6)
               trap   == Field(word, 16, 16)
           IN
           /\ opcode \in Labels(JumpCase) =>
                  Decode(word) = [op |-> Named(JumpCase, opcode), n |-> DecodeN(word)]
           /\ opcode = Bits(\h05) => Decode(word) = [op |-> "nop", k |-> DecodeK(word)]
           /\ opcode = Bits(\h06) =>
                  Decode(word) = [op |-> "movhi", d |-> DecodeD(word), k |-> DecodeK(word)]
           /\ opcode = Bits(\h08) /\ trap \in Labels(TrapCase) =>
                  Decode(word) = [op |-> Named(TrapCase, trap), k |-> DecodeK(word)]
           /\ opcode = Bits(\h09) => Decode(word) = [op |-> "rfe"]
           /\ opcode \in Labels(JumpRCase) =>
                  Decode(word) = [op |-> Named(JumpRCase, opcode), b |-> DecodeB(word)]
           /\ opcode \in Labels(LoadCase) =>
                  Decode(word) = [op |-> Named(LoadCase, opcode), d |-> DecodeD(word),
                                  a |-> DecodeA(word), i |-> DecodeI(word)]
           /\ opcode \in Labels(LogicCase) =>
                  Decode(word) = [op |-> Named(LogicCase, opcode), d |-> DecodeD(word),
                                  a |-> DecodeA(word), k |-> DecodeK(word)]
           /\ opcode = Bits(\h2e) /\ DecodeF(word) \in Labels(ShiftCase) =>
                  Decode(word) = [op |-> Named(ShiftCase, DecodeF(word)), d |-> DecodeD(word),
                                  a |-> DecodeA(word), l |-> DecodeL(word)]
           /\ opcode = Bits(\h2f) /\ DecodeOpcode11(word) \in Labels(CompareICase) =>
                  Decode(word) = [op |-> Named(CompareICase, DecodeOpcode11(word)),
                                  a |-> DecodeA(word), i |-> DecodeI(word)]
           /\ opcode = Bits(\h30) =>
                  Decode(word) = [op |-> "mtspr", a |-> DecodeA(word), b |-> DecodeB(word),
                                  k |-> DecodeSplitK(word)]
           /\ opcode \in Labels(StoreCase) =>
                  Decode(word) = [op |-> Named(StoreCase, opcode), a |-> DecodeA(word),
                                  b |-> DecodeB(word), i |-> DecodeSplitI(word)]
           /\ opcode = Bits(\h38) /\ DecodeFF(word) \in Labels(RegCase) =>
                  Decode(word) = [op |-> Named(RegCase, DecodeFF(word)), d |-> DecodeD(word),
                                  a |-> DecodeA(word), b |-> DecodeB(word)]
           /\ opcode = Bits(\h39) /\ DecodeOpcode11(word) \in Labels(CompareCase) =>
                  Decode(word) = [op |-> Named(CompareCase, DecodeOpcode11(word)),
                                  a |-> DecodeA(word), b |-> DecodeB(word)]
           /\ Decode(word).op # "illegal" =>
                  \/ opcode \in Labels(JumpCase)
                  \/ opcode = Bits(\h05)
                  \/ opcode = Bits(\h06)
                  \/ opcode = Bits(\h08) /\ trap \in Labels(TrapCase)
                  \/ opcode = Bits(\h09)
                  \/ opcode \in Labels(JumpRCase)
                  \/ opcode \in Labels(LoadCase)
                  \/ opcode \in Labels(LogicCase)
                  \/ opcode = Bits(\h2e) /\ DecodeF(word) \in Labels(ShiftCase)
                  \/ opcode = Bits(\h2f) /\ DecodeOpcode11(word) \in Labels(CompareICase)
                  \/ opcode = Bits(\h30)
                  \/ opcode \in Labels(StoreCase)
                  \/ opcode = Bits(\h38) /\ DecodeFF(word) \in Labels(RegCase)
                  \/ opcode = Bits(\h39) /\ DecodeOpcode11(word) \in Labels(CompareCase)
BY CasesApart DEF Decode

-----------------------------------------------------------------------------
(* The methods of the assembler.                                            *)

\* The names of the instructions, by type.
LEMMA Names ==
    /\ DOMAIN TypeN = {"j", "jal", "bnf", "bf"}
    /\ DOMAIN TypeB = {"jr", "jalr"}
    /\ DOMAIN TypeK = {"sys", "trap"}
    /\ DOMAIN TypeDAI = {"lwz", "lbz", "lbs", "lhz", "lhs", "addi", "xori"}
    /\ DOMAIN TypeDAK = {"andi", "ori", "mfspr"}
    /\ DOMAIN TypeDAFL = {"slli", "srli", "srai"}
    /\ DOMAIN TypeAI = {"sfeqi", "sfnei", "sfgtui", "sfgeui", "sfltui",
                         "sfleui", "sfgtsi", "sfgesi", "sfltsi", "sflesi"}
    /\ DOMAIN TypeABI = {"sw", "sb", "sh"}
    /\ DOMAIN TypeDABFF1 = {"add", "sub", "and", "or", "xor", "ff1", "sll",
                             "srl", "sra", "fl1", "mul", "div", "divu"}
    /\ DOMAIN TypeAB = {"sfeq", "sfne", "sfgtu", "sfgeu", "sfltu", "sfleu",
                         "sfgts", "sfges", "sflts", "sfles"}
<1>1. DOMAIN TypeN = {"j", "jal", "bnf", "bf"}
  BY DEF TypeN, Coded
<1>2. DOMAIN TypeB = {"jr", "jalr"}
  BY DEF TypeB, Coded
<1>3. DOMAIN TypeK = {"sys", "trap"}
  BY DEF TypeK, Coded
<1>4. DOMAIN TypeDAI = {"lwz", "lbz", "lbs", "lhz", "lhs", "addi", "xori"}
  BY DEF TypeDAI, Coded
<1>5. DOMAIN TypeDAK = {"andi", "ori", "mfspr"}
  BY DEF TypeDAK, Coded
<1>6. DOMAIN TypeDAFL = {"slli", "srli", "srai"}
  BY DEF TypeDAFL, Coded
<1>7. DOMAIN TypeAI = {"sfeqi", "sfnei", "sfgtui", "sfgeui", "sfltui",
                        "sfleui", "sfgtsi", "sfgesi", "sfltsi", "sflesi"}
  BY DEF TypeAI, Coded
<1>8. DOMAIN TypeABI = {"sw", "sb", "sh"}
  BY DEF TypeABI, Coded
<1>9. DOMAIN TypeDABFF1 = {"add", "sub", "and", "or", "xor", "ff1", "sll",
                            "srl", "sra", "fl1", "mul", "div", "divu"}
  BY DEF TypeDABFF1, Coded
<1>10. DOMAIN TypeAB = {"sfeq", "sfne", "sfgtu", "sfgeu", "sfltu", "sfleu",
                        "sfgts", "sfges", "sflts", "sfles"}
  BY DEF TypeAB, Coded
<1> QED
  BY <1>1, <1>2, <1>3, <1>4, <1>5, <1>6, <1>7, <1>8, <1>9, <1>10

\* An instruction is written by the method of its type.
LEMMA EncodeCases ==
    ASSUME NEW in
    PROVE  /\ in.op \in DOMAIN TypeN =>
                  Encode(in) = At(TypeN[in.op], 26, 6) \cup At(in.n, 0, 26)
           /\ in.op = "nop" =>
                  Encode(in) = At(Bits(\h15), 24, 8) \cup At(in.k, 0, 16)
           /\ in.op = "movhi" =>
                  Encode(in) = At(Bits(\h6), 26, 6) \cup At(in.d, 21, 11)
                               \cup At(in.k, 0, 16)
           /\ in.op \in DOMAIN TypeK =>
                  Encode(in) = At(TypeK[in.op], 16, 16) \cup At(in.k, 0, 16)
           /\ in.op = "rfe" =>
                  Encode(in) = At(Bits(\h9), 26, 6)
           /\ in.op \in DOMAIN TypeB =>
                  Encode(in) = At(TypeB[in.op], 26, 6) \cup B(in.b)
           /\ in.op \in DOMAIN TypeDAI =>
                  Encode(in) = At(TypeDAI[in.op], 26, 6) \cup D(in.d) \cup A(in.a)
                               \cup At(in.i, 0, 16)
           /\ in.op \in DOMAIN TypeDAK =>
                  Encode(in) = At(TypeDAK[in.op], 26, 6) \cup D(in.d) \cup A(in.a)
                               \cup At(in.k, 0, 16)
           /\ in.op \in DOMAIN TypeDAFL =>
                  Encode(in) = At(Bits(\h2e), 26, 6) \cup D(in.d) \cup A(in.a)
                               \cup At(TypeDAFL[in.op], 6, 2) \cup At(in.l, 0, 6)
           /\ in.op \in DOMAIN TypeAI =>
                  Encode(in) = At(TypeAI[in.op], 21, 11) \cup A(in.a) \cup At(in.i, 0, 16)
           /\ in.op = "mtspr" =>
                  Encode(in) = At(Bits(\h30), 26, 6) \cup A(in.a) \cup B(in.b)
                               \cup Split(in.k)
           /\ in.op \in DOMAIN TypeABI =>
                  Encode(in) = At(TypeABI[in.op], 26, 6) \cup A(in.a) \cup B(in.b)
                               \cup Split(in.i)
           /\ in.op \in DOMAIN TypeDABFF1 =>
                  Encode(in) = At(Bits(\h38), 26, 6) \cup D(in.d) \cup A(in.a)
                               \cup B(in.b) \cup At(TypeDABFF1[in.op], 6, 4)
                               \cup At(TypeDABFF2[in.op], 0, 4)
           /\ in.op \in DOMAIN TypeAB =>
                  Encode(in) = At(TypeAB[in.op], 21, 11) \cup A(in.a) \cup B(in.b)
BY Names DEF Encode


-----------------------------------------------------------------------------
(* What is assembled is decoded.                                            *)

\* The opcode of an instruction that has a longer one is its upper part.
LEMMA UpperParts ==
    /\ \A op \in DOMAIN TypeK : Field(TypeK[op], 10, 6) = Bits(\h08)
    /\ \A op \in DOMAIN TypeAI : Field(TypeAI[op], 5, 6) = Bits(\h2f)
    /\ \A op \in DOMAIN TypeAB : Field(TypeAB[op], 5, 6) = Bits(\h39)
    /\ Field(Bits(\h15), 2, 6) = Bits(\h05)
<1>1. ASSUME NEW op \in DOMAIN TypeK PROVE Field(TypeK[op], 10, 6) = Bits(\h08)
  <2>1. /\ TypeK["sys"] = Bits(\h2000)
        /\ TypeK["trap"] = Bits(\h2100)
    BY DEF TypeK, Coded
  <2>2. /\ Field(Bits(\h2000), 10, 6) = Bits(\h08)
        /\ Field(Bits(\h2100), 10, 6) = Bits(\h08)
    BY DEF Field, Bits, Weight
  <2> QED
    BY <2>1, <2>2, Names
<1>2. ASSUME NEW op \in DOMAIN TypeAI PROVE Field(TypeAI[op], 5, 6) = Bits(\h2f)
  <2>1. /\ TypeAI["sfeqi"] = Bits(\h5e0)
        /\ TypeAI["sfnei"] = Bits(\h5e1)
        /\ TypeAI["sfgtui"] = Bits(\h5e2)
        /\ TypeAI["sfgeui"] = Bits(\h5e3)
        /\ TypeAI["sfltui"] = Bits(\h5e4)
        /\ TypeAI["sfleui"] = Bits(\h5e5)
        /\ TypeAI["sfgtsi"] = Bits(\h5ea)
        /\ TypeAI["sfgesi"] = Bits(\h5eb)
        /\ TypeAI["sfltsi"] = Bits(\h5ec)
        /\ TypeAI["sflesi"] = Bits(\h5ed)
    BY DEF TypeAI, Coded
  <2>2. /\ Field(Bits(\h5e0), 5, 6) = Bits(\h2f)
        /\ Field(Bits(\h5e1), 5, 6) = Bits(\h2f)
        /\ Field(Bits(\h5e2), 5, 6) = Bits(\h2f)
        /\ Field(Bits(\h5e3), 5, 6) = Bits(\h2f)
        /\ Field(Bits(\h5e4), 5, 6) = Bits(\h2f)
    BY DEF Field, Bits, Weight
  <2>3. /\ Field(Bits(\h5e5), 5, 6) = Bits(\h2f)
        /\ Field(Bits(\h5ea), 5, 6) = Bits(\h2f)
        /\ Field(Bits(\h5eb), 5, 6) = Bits(\h2f)
        /\ Field(Bits(\h5ec), 5, 6) = Bits(\h2f)
        /\ Field(Bits(\h5ed), 5, 6) = Bits(\h2f)
    BY DEF Field, Bits, Weight
  <2> QED
    BY <2>1, <2>2, <2>3, Names
<1>3. ASSUME NEW op \in DOMAIN TypeAB PROVE Field(TypeAB[op], 5, 6) = Bits(\h39)
  <2>1. /\ TypeAB["sfeq"] = Bits(\h720)
        /\ TypeAB["sfne"] = Bits(\h721)
        /\ TypeAB["sfgtu"] = Bits(\h722)
        /\ TypeAB["sfgeu"] = Bits(\h723)
        /\ TypeAB["sfltu"] = Bits(\h724)
        /\ TypeAB["sfleu"] = Bits(\h725)
        /\ TypeAB["sfgts"] = Bits(\h72a)
        /\ TypeAB["sfges"] = Bits(\h72b)
        /\ TypeAB["sflts"] = Bits(\h72c)
        /\ TypeAB["sfles"] = Bits(\h72d)
    BY DEF TypeAB, Coded
  <2>2. /\ Field(Bits(\h720), 5, 6) = Bits(\h39)
        /\ Field(Bits(\h721), 5, 6) = Bits(\h39)
        /\ Field(Bits(\h722), 5, 6) = Bits(\h39)
        /\ Field(Bits(\h723), 5, 6) = Bits(\h39)
        /\ Field(Bits(\h724), 5, 6) = Bits(\h39)
    BY DEF Field, Bits, Weight
  <2>3. /\ Field(Bits(\h725), 5, 6) = Bits(\h39)
        /\ Field(Bits(\h72a), 5, 6) = Bits(\h39)
        /\ Field(Bits(\h72b), 5, 6) = Bits(\h39)
        /\ Field(Bits(\h72c), 5, 6) = Bits(\h39)
        /\ Field(Bits(\h72d), 5, 6) = Bits(\h39)
    BY DEF Field, Bits, Weight
  <2> QED
    BY <2>1, <2>2, <2>3, Names
<1>4. Field(Bits(\h15), 2, 6) = Bits(\h05)
  BY DEF Field, Bits, Weight
<1> QED
  BY <1>1, <1>2, <1>3, <1>4

\* A signed operand is its low bits and their sign.
LEMMA SignIsKept ==
    /\ \A i \in SignedOf(16) : Extended(i \cap (0 .. 15), 16) = i
    /\ \A n \in SignedOf(26) : Extended(n \cap (0 .. 25), 26) = n
<1>1. ASSUME NEW width \in 1 .. 31, NEW i \in SignedOf(width)
      PROVE  Extended(i \cap (0 .. width - 1), width) = i
  <2>1. i \in SUBSET (0 .. 31) /\ \A p \in width .. 31 : p \in i <=> width - 1 \in i
    BY DEF SignedOf, Word
  <2> DEFINE low == i \cap (0 .. width - 1)
  <2>2. width - 1 \in low <=> width - 1 \in i
    OBVIOUS
  <2>3. CASE width - 1 \in i
    <3>1. \A x \in i : x \in low \/ x \in width .. 31
      BY <2>1
    <3>2. i = low \cup (width .. 31)
      BY <2>1, <2>3, <3>1
    <3> QED
      BY <2>2, <2>3, <3>2 DEF Extended
  <2>4. CASE width - 1 \notin i
    <3>1. \A x \in i : x \in low
      BY <2>1, <2>4
    <3>2. i = low
      BY <3>1
    <3> QED
      BY <2>2, <2>4, <3>2 DEF Extended
  <2> QED
    BY <2>3, <2>4
<1>2. \A i \in SignedOf(16) : Extended(i \cap (0 .. 15), 16) = i
  BY <1>1
<1>3. \A n \in SignedOf(26) : Extended(n \cap (0 .. 25), 26) = n
  BY <1>1
<1> QED
  BY <1>2, <1>3

\* Branches.
LEMMA DecodedN ==
    ASSUME NEW in \in [op : DOMAIN TypeN, n : SignedOf(26)]
    PROVE  Encode(in) \in Word /\ Decode(Encode(in)) = Meaning(in)
<1> DEFINE word == Encode(in)
<1>1. word = At(TypeN[in.op], 26, 6) \cup At(in.n, 0, 26)
  BY EncodeCases
<1>2. word \in Word
  BY <1>1 DEF Word, At
<1>3. Field(word, 26, 6) = TypeN[in.op]
  BY <1>1, TypeNTable DEF Field, At
<1>4. \A p \in 0 .. 25 : p \in word <=> p \in in.n
  BY <1>1 DEF At
<1>5. DecodeN(word) = At(in.n, 2, 30)
  BY <1>4 DEF DecodeN, Field, At, Extended, SignedOf, Word
<1> HIDE DEF word
<1>6. Decode(word) = [op |-> in.op, n |-> At(in.n, 2, 30)]
  BY <1>3, <1>5, TypeNTable, NamedIs, DecodeCases
<1> QED
  BY <1>2, <1>6, Names DEF word, Meaning

\* l.nop and the traps.
LEMMA DecodedK ==
    ASSUME NEW in \in [op : {"nop"} \cup DOMAIN TypeK, k : Short]
    PROVE  Encode(in) \in Word /\ Decode(Encode(in)) = Meaning(in)
<1> DEFINE word == Encode(in)
<1>1. CASE in.op = "nop"
  <2>1. word = At(Bits(\h15), 24, 8) \cup At(in.k, 0, 16)
    BY <1>1, EncodeCases
  <2>2. word \in Word /\ DecodeK(word) = in.k
    BY <2>1 DEF Word, Short, At, DecodeK, Field
  <2>3. Field(word, 26, 6) = Field(Bits(\h15), 2, 6)
    BY <2>1 DEF Field, At
  <2> HIDE DEF word
  <2>4. Decode(word) = [op |-> "nop", k |-> in.k]
    BY <2>2, <2>3, UpperParts, DecodeCases
  <2> QED
    BY <1>1, <2>2, <2>4, Names DEF word, Meaning
<1>2. CASE in.op \in DOMAIN TypeK
  <2>1. word = At(TypeK[in.op], 16, 16) \cup At(in.k, 0, 16)
    BY <1>2, EncodeCases
  <2>2. word \in Word /\ DecodeK(word) = in.k
    BY <2>1 DEF Word, Short, At, DecodeK, Field
  <2>3. Field(word, 26, 6) = Field(TypeK[in.op], 10, 6)
    BY <2>1 DEF Field, At
  <2>4. Field(word, 16, 16) = TypeK[in.op]
    BY <1>2, <2>1, TypeKTable DEF Field, At
  <2> HIDE DEF word
  <2>5. Decode(word) = [op |-> in.op, k |-> in.k]
    BY <1>2, <2>2, <2>3, <2>4, TypeKTable, NamedIs, UpperParts, DecodeCases
  <2> QED
    BY <1>2, <2>2, <2>5, Names DEF word, Meaning
<1> QED
  BY <1>1, <1>2

\* l.movhi.
LEMMA DecodedDFK ==
    ASSUME NEW in \in [op : {"movhi"}, d : Reg, k : Short]
    PROVE  Encode(in) \in Word /\ Decode(Encode(in)) = Meaning(in)
<1> DEFINE word == Encode(in)
<1>1. word = At(Bits(\h6), 26, 6) \cup At(in.d, 21, 11) \cup At(in.k, 0, 16)
  BY EncodeCases
<1>2. word \in Word /\ DecodeK(word) = in.k /\ DecodeD(word) = in.d
  BY <1>1 DEF Word, Short, Reg, At, DecodeK, DecodeD, Field
<1>3. Bits(\h6) \subseteq 0 .. 5
  BY DEF Bits, Weight
<1>4. Field(word, 26, 6) = Bits(\h6)
  BY <1>1, <1>3 DEF Field, At, Reg
<1> HIDE DEF word
<1>5. Decode(word) = [op |-> "movhi", d |-> in.d, k |-> in.k]
  BY <1>2, <1>4, DecodeCases
<1> QED
  BY <1>2, <1>5, Names DEF word, Meaning

\* l.rfe.
LEMMA DecodedX ==
    ASSUME NEW in \in [op : {"rfe"}]
    PROVE  Encode(in) \in Word /\ Decode(Encode(in)) = Meaning(in)
<1> DEFINE word == Encode(in)
<1>1. word = At(Bits(\h9), 26, 6)
  BY EncodeCases
<1>2. word \in Word
  BY <1>1 DEF Word, At
<1>3. Bits(\h9) \subseteq 0 .. 5
  BY DEF Bits, Weight
<1>4. Field(word, 26, 6) = Bits(\h9)
  BY <1>1, <1>3 DEF Field, At
<1> HIDE DEF word
<1>5. Decode(word) = [op |-> "rfe"]
  BY <1>2, <1>4, DecodeCases
<1> QED
  BY <1>2, <1>5, Names DEF word, Meaning

\* Jumps to a register.
LEMMA DecodedB ==
    ASSUME NEW in \in [op : DOMAIN TypeB, b : Reg]
    PROVE  Encode(in) \in Word /\ Decode(Encode(in)) = Meaning(in)
<1> DEFINE word == Encode(in)
<1>1. word = At(TypeB[in.op], 26, 6) \cup B(in.b)
  BY EncodeCases
<1>2. word \in Word /\ DecodeB(word) = in.b
  BY <1>1 DEF Word, Reg, At, B, DecodeB, Field
<1>3. Field(word, 26, 6) = TypeB[in.op]
  BY <1>1, TypeBTable DEF Field, At, B
<1> HIDE DEF word
<1>4. Decode(word) = [op |-> in.op, b |-> in.b]
  BY <1>2, <1>3, TypeBTable, NamedIs, DecodeCases
<1> QED
  BY <1>2, <1>4, Names DEF word, Meaning

\* Loads and arithmetic with a signed constant.
LEMMA DecodedDAI ==
    ASSUME NEW in \in [op : DOMAIN TypeDAI, d : Reg, a : Reg, i : SignedOf(16)]
    PROVE  Encode(in) \in Word /\ Decode(Encode(in)) = Meaning(in)
<1> DEFINE word == Encode(in)
<1>1. word = At(TypeDAI[in.op], 26, 6) \cup D(in.d) \cup A(in.a) \cup At(in.i, 0, 16)
  BY EncodeCases
<1>2. word \in Word /\ DecodeD(word) = in.d /\ DecodeA(word) = in.a
  BY <1>1 DEF Word, Reg, At, D, A, DecodeD, DecodeA, Field
<1>3. DecodeK(word) = in.i \cap (0 .. 15)
  BY <1>1 DEF At, D, A, DecodeK, Field
<1>4. Field(word, 26, 6) = TypeDAI[in.op]
  BY <1>1, TypeDAITable DEF Field, At, D, A
<1> HIDE DEF word
<1>5. DecodeI(word) = in.i
  BY <1>3, SignIsKept DEF DecodeI
<1>6. Decode(word) = [op |-> in.op, d |-> in.d, a |-> in.a, i |-> in.i]
  BY <1>2, <1>4, <1>5, TypeDAITable, NamedIs, DecodeCases
<1> QED
  BY <1>2, <1>6, Names DEF word, Meaning

\* Logic with a constant, and l.mfspr.
LEMMA DecodedDAK ==
    ASSUME NEW in \in [op : DOMAIN TypeDAK, d : Reg, a : Reg, k : Short]
    PROVE  Encode(in) \in Word /\ Decode(Encode(in)) = Meaning(in)
<1> DEFINE word == Encode(in)
<1>1. word = At(TypeDAK[in.op], 26, 6) \cup D(in.d) \cup A(in.a) \cup At(in.k, 0, 16)
  BY EncodeCases
<1>2. word \in Word /\ DecodeD(word) = in.d /\ DecodeA(word) = in.a
  BY <1>1 DEF Word, Reg, At, D, A, DecodeD, DecodeA, Field
<1>3. DecodeK(word) = in.k
  BY <1>1 DEF Short, At, D, A, DecodeK, Field
<1>4. Field(word, 26, 6) = TypeDAK[in.op]
  BY <1>1, TypeDAKTable DEF Field, At, D, A
<1> HIDE DEF word
<1>5. Decode(word) = [op |-> in.op, d |-> in.d, a |-> in.a, k |-> in.k]
  BY <1>2, <1>3, <1>4, TypeDAKTable, NamedIs, DecodeCases
<1> QED
  BY <1>2, <1>5, Names DEF word, Meaning

\* Shifts by a constant.
LEMMA DecodedDAFL ==
    ASSUME NEW in \in [op : DOMAIN TypeDAFL, d : Reg, a : Reg, l : Amount]
    PROVE  Encode(in) \in Word /\ Decode(Encode(in)) = Meaning(in)
<1> DEFINE word == Encode(in)
<1>1. word = At(Bits(\h2e), 26, 6) \cup D(in.d) \cup A(in.a)
             \cup At(TypeDAFL[in.op], 6, 2) \cup At(in.l, 0, 6)
  BY EncodeCases
<1>2. word \in Word /\ DecodeD(word) = in.d /\ DecodeA(word) = in.a
  BY <1>1 DEF Word, Reg, At, D, A, DecodeD, DecodeA, Field
<1>3. DecodeL(word) = Field(in.l, 0, 5)
  BY <1>1 DEF Reg, At, D, A, DecodeL, Field
<1>4. Bits(\h2e) \subseteq 0 .. 5
  BY DEF Bits, Weight
<1>5. Field(word, 26, 6) = Bits(\h2e)
  BY <1>1, <1>4 DEF Field, At, D, A
<1>6. DecodeF(word) = TypeDAFL[in.op]
  BY <1>1, TypeDAFLTable DEF DecodeF, Field, At, D, A, Reg
<1> HIDE DEF word
<1>7. Decode(word) = [op |-> in.op, d |-> in.d, a |-> in.a, l |-> Field(in.l, 0, 5)]
  BY <1>2, <1>3, <1>5, <1>6, TypeDAFLTable, NamedIs, DecodeCases
<1> QED
  BY <1>2, <1>7, Names DEF word, Meaning

\* Comparisons with a constant.
LEMMA DecodedAI ==
    ASSUME NEW in \in [op : DOMAIN TypeAI, a : Reg, i : SignedOf(16)]
    PROVE  Encode(in) \in Word /\ Decode(Encode(in)) = Meaning(in)
<1> DEFINE word == Encode(in)
<1>1. word = At(TypeAI[in.op], 21, 11) \cup A(in.a) \cup At(in.i, 0, 16)
  BY EncodeCases
<1>2. word \in Word /\ DecodeA(word) = in.a
  BY <1>1 DEF Word, Reg, At, A, DecodeA, Field
<1>3. DecodeK(word) = in.i \cap (0 .. 15)
  BY <1>1 DEF At, A, DecodeK, Field
<1>4. Field(word, 26, 6) = Field(TypeAI[in.op], 5, 6)
  BY <1>1 DEF Field, At, A
<1>5. DecodeOpcode11(word) = TypeAI[in.op]
  BY <1>1, TypeAITable DEF DecodeOpcode11, Field, At, A
<1> HIDE DEF word
<1>6. DecodeI(word) = in.i
  BY <1>3, SignIsKept DEF DecodeI
<1>7. Decode(word) = [op |-> in.op, a |-> in.a, i |-> in.i]
  BY <1>2, <1>4, <1>5, <1>6, TypeAITable, NamedIs, UpperParts, DecodeCases
<1> QED
  BY <1>2, <1>7, Names DEF word, Meaning

\* The bits of a constant that is split around two registers meet again.
LEMMA SplitMeets ==
    ASSUME NEW rest, NEW k, NEW a, NEW b,
           NEW word, word = At(rest, 26, 6) \cup A(a) \cup B(b) \cup Split(k)
    PROVE  DecodeSplitK(word) = k \cap (0 .. 15)
<1>1. Field(word, 0, 11) = k \cap (0 .. 10)
  BY DEF Field, At, A, B, Split
<1>2. Field(word, 21, 5) = Field(k, 11, 5)
  BY DEF Field, At, A, B, Split
<1>3. At(Field(k, 11, 5), 11, 5) = k \cap (11 .. 15)
  BY DEF Field, At
<1> QED
  BY <1>1, <1>2, <1>3 DEF DecodeSplitK

\* l.mtspr.
LEMMA DecodedABK ==
    ASSUME NEW in \in [op : {"mtspr"}, a : Reg, b : Reg, k : Short]
    PROVE  Encode(in) \in Word /\ Decode(Encode(in)) = Meaning(in)
<1> DEFINE word == Encode(in)
<1>1. word = At(Bits(\h30), 26, 6) \cup A(in.a) \cup B(in.b) \cup Split(in.k)
  BY EncodeCases
<1>2. word \in Word /\ DecodeA(word) = in.a /\ DecodeB(word) = in.b
  BY <1>1 DEF Word, Reg, At, A, B, Split, DecodeA, DecodeB, Field
<1>3. DecodeSplitK(word) = in.k
  <2>1. in.k \cap (0 .. 15) = in.k
    BY DEF Short
  <2>2. DecodeSplitK(word) = in.k \cap (0 .. 15)
    BY <1>1, SplitMeets
  <2> QED
    BY <2>1, <2>2
<1>4. Bits(\h30) \subseteq 0 .. 5
  BY DEF Bits, Weight
<1>5. Field(word, 26, 6) = Bits(\h30)
  BY <1>1, <1>4 DEF Field, At, A, B, Split
<1> HIDE DEF word
<1>6. Decode(word) = [op |-> "mtspr", a |-> in.a, b |-> in.b, k |-> in.k]
  BY <1>2, <1>3, <1>5, DecodeCases
<1> QED
  BY <1>2, <1>6, Names DEF word, Meaning

\* Stores.
LEMMA DecodedABI ==
    ASSUME NEW in \in [op : DOMAIN TypeABI, a : Reg, b : Reg, i : SignedOf(16)]
    PROVE  Encode(in) \in Word /\ Decode(Encode(in)) = Meaning(in)
<1> DEFINE word == Encode(in)
<1>1. word = At(TypeABI[in.op], 26, 6) \cup A(in.a) \cup B(in.b) \cup Split(in.i)
  BY EncodeCases
<1>2. word \in Word /\ DecodeA(word) = in.a /\ DecodeB(word) = in.b
  BY <1>1 DEF Word, Reg, At, A, B, Split, DecodeA, DecodeB, Field
<1>3. DecodeSplitK(word) = in.i \cap (0 .. 15)
  BY <1>1, SplitMeets
<1>4. Field(word, 26, 6) = TypeABI[in.op]
  BY <1>1, TypeABITable DEF Field, At, A, B, Split
<1> HIDE DEF word
<1>5. DecodeSplitI(word) = in.i
  BY <1>3, SignIsKept DEF DecodeSplitI
<1>6. Decode(word) = [op |-> in.op, a |-> in.a, b |-> in.b, i |-> in.i]
  BY <1>2, <1>4, <1>5, TypeABITable, NamedIs, DecodeCases
<1> QED
  BY <1>2, <1>6, Names DEF word, Meaning

\* Arithmetic of registers.
LEMMA DecodedDABFF ==
    ASSUME NEW in \in [op : DOMAIN TypeDABFF1, d : Reg, a : Reg, b : Reg]
    PROVE  Encode(in) \in Word /\ Decode(Encode(in)) = Meaning(in)
<1> DEFINE word == Encode(in)
<1>1. word = At(Bits(\h38), 26, 6) \cup D(in.d) \cup A(in.a) \cup B(in.b)
             \cup At(TypeDABFF1[in.op], 6, 4) \cup At(TypeDABFF2[in.op], 0, 4)
  BY EncodeCases
<1>2. word \in Word
  BY <1>1 DEF Word, At, D, A, B
<1>3. DecodeD(word) = in.d /\ DecodeA(word) = in.a /\ DecodeB(word) = in.b
  BY <1>1 DEF Reg, At, D, A, B, DecodeD, DecodeA, DecodeB, Field
<1>4. Bits(\h38) \subseteq 0 .. 5
  BY DEF Bits, Weight
<1>5. Field(word, 26, 6) = Bits(\h38)
  BY <1>1, <1>4 DEF Field, At, D, A, B
<1>6. /\ TypeDABFF1[in.op] \subseteq 0 .. 3 /\ TypeDABFF2[in.op] \subseteq 0 .. 3
      /\ RegCase[in.op] = TypeDABFF2[in.op] \cup At(TypeDABFF1[in.op], 4, 4)
  BY RegTable
<1>7. Field(word, 0, 4) = TypeDABFF2[in.op] /\ Field(word, 6, 4) = TypeDABFF1[in.op]
  BY <1>1, <1>6 DEF Field, At, D, A, B
<1> HIDE DEF word
<1>8. DecodeFF(word) = RegCase[in.op]
  BY <1>6, <1>7 DEF DecodeFF
<1>9. Decode(word) = [op |-> in.op, d |-> in.d, a |-> in.a, b |-> in.b]
  BY <1>3, <1>5, <1>8, RegTable, NamedIs, DecodeCases
<1> QED
  BY <1>2, <1>9, Names DEF word, Meaning

\* Comparisons of registers.
LEMMA DecodedAB ==
    ASSUME NEW in \in [op : DOMAIN TypeAB, a : Reg, b : Reg]
    PROVE  Encode(in) \in Word /\ Decode(Encode(in)) = Meaning(in)
<1> DEFINE word == Encode(in)
<1>1. word = At(TypeAB[in.op], 21, 11) \cup A(in.a) \cup B(in.b)
  BY EncodeCases
<1>2. word \in Word /\ DecodeA(word) = in.a /\ DecodeB(word) = in.b
  BY <1>1 DEF Word, Reg, At, A, B, DecodeA, DecodeB, Field
<1>3. Field(word, 26, 6) = Field(TypeAB[in.op], 5, 6)
  BY <1>1 DEF Field, At, A, B
<1>4. DecodeOpcode11(word) = TypeAB[in.op]
  BY <1>1, TypeABTable DEF DecodeOpcode11, Field, At, A, B
<1> HIDE DEF word
<1>5. Decode(word) = [op |-> in.op, a |-> in.a, b |-> in.b]
  BY <1>2, <1>3, <1>4, TypeABTable, NamedIs, UpperParts, DecodeCases
<1> QED
  BY <1>2, <1>5, Names DEF word, Meaning

\* Every instruction is decoded to what was asked for: no two instructions, with
\* whatever operands, are written as one word.
LEMMA InstructionIsDecoded ==
    ASSUME NEW in, IsInstruction(in)
    PROVE  Encode(in) \in Word /\ Decode(Encode(in)) = Meaning(in)
BY DecodedN, DecodedK, DecodedDFK, DecodedX, DecodedB, DecodedDAI, DecodedDAK, DecodedDAFL,
   DecodedAI, DecodedABK, DecodedABI, DecodedDABFF, DecodedAB DEF IsInstruction

-----------------------------------------------------------------------------
(* What is decoded is what would be assembled.                              *)

\* What the core does not look at, by type.
LEMMA IgnoredCases ==
    ASSUME NEW op
    PROVE  /\ op \in DOMAIN TypeN \cup DOMAIN TypeK => Ignored(op) = {}
           /\ op = "nop" => Ignored(op) = 16 .. 25
           /\ op = "movhi" => Ignored(op) = 16 .. 20
           /\ op = "rfe" => Ignored(op) = 0 .. 25
           /\ op \in DOMAIN TypeB => Ignored(op) = (16 .. 25) \cup (0 .. 10)
           /\ op \in DOMAIN TypeDAI \cup DOMAIN TypeDAK => Ignored(op) = {}
           /\ op \in DOMAIN TypeDAFL => Ignored(op) = (8 .. 15) \cup {5}
           /\ op \in DOMAIN TypeAI => Ignored(op) = {}
           /\ op = "mtspr" => Ignored(op) = {}
           /\ op \in DOMAIN TypeABI => Ignored(op) = {}
           /\ op \in DOMAIN TypeDABFF1 => Ignored(op) = {4, 5, 10}
           /\ op \in DOMAIN TypeAB => Ignored(op) = 0 .. 10
BY Names DEF Ignored

\* A field that is read and written again is that part of the word.
LEMMA Parts ==
    ASSUME NEW word \in Word
    PROVE  /\ At(Field(word, 26, 6), 26, 6) = word \cap (26 .. 31)
           /\ D(DecodeD(word)) = word \cap (21 .. 25)
           /\ At(DecodeD(word), 21, 11) = word \cap (21 .. 25)
           /\ A(DecodeA(word)) = word \cap (16 .. 20)
           /\ B(DecodeB(word)) = word \cap (11 .. 15)
           /\ At(DecodeK(word), 0, 16) = word \cap (0 .. 15)
           /\ At(DecodeI(word), 0, 16) = word \cap (0 .. 15)
           /\ At(Extended(Field(DecodeN(word), 2, 30), 30), 0, 26) = word \cap (0 .. 25)
           /\ At(Field(word, 16, 16), 16, 16) = word \cap (16 .. 31)
           /\ At(DecodeL(word), 0, 6) = word \cap (0 .. 4)
           /\ At(DecodeF(word), 6, 2) = word \cap (6 .. 7)
           /\ At(DecodeOpcode11(word), 21, 11) = word \cap (21 .. 31)
           /\ Split(DecodeSplitK(word)) = word \cap ((21 .. 25) \cup (0 .. 10))
           /\ Split(DecodeSplitI(word)) = word \cap ((21 .. 25) \cup (0 .. 10))
<1>1. At(Field(word, 26, 6), 26, 6) = word \cap (26 .. 31)
  BY DEF At, Field
<1>2. /\ D(DecodeD(word)) = word \cap (21 .. 25)
      /\ At(DecodeD(word), 21, 11) = word \cap (21 .. 25)
      /\ A(DecodeA(word)) = word \cap (16 .. 20)
      /\ B(DecodeB(word)) = word \cap (11 .. 15)
  BY DEF At, Field, D, A, B, DecodeD, DecodeA, DecodeB
<1>3. At(DecodeK(word), 0, 16) = word \cap (0 .. 15)
  BY DEF At, Field, DecodeK
<1>4. At(DecodeI(word), 0, 16) = word \cap (0 .. 15)
  BY DEF At, Field, DecodeK, DecodeI, Extended
<1>5. \A p \in 0 .. 25 : p + 2 \in DecodeN(word) <=> p \in word
  BY DEF At, Field, DecodeN, Extended
<1>6. At(Extended(Field(DecodeN(word), 2, 30), 30), 0, 26) = word \cap (0 .. 25)
  BY <1>5 DEF At, Field, Extended
<1>7. At(Field(word, 16, 16), 16, 16) = word \cap (16 .. 31)
  BY DEF At, Field
<1>8. /\ At(DecodeL(word), 0, 6) = word \cap (0 .. 4)
      /\ At(DecodeF(word), 6, 2) = word \cap (6 .. 7)
      /\ At(DecodeOpcode11(word), 21, 11) = word \cap (21 .. 31)
  BY DEF At, Field, DecodeL, DecodeF, DecodeOpcode11
<1>9. Split(DecodeSplitK(word)) = word \cap ((21 .. 25) \cup (0 .. 10))
  BY DEF At, Field, DecodeSplitK, Split
<1>10. Split(DecodeSplitI(word)) = Split(DecodeSplitK(word))
  BY DEF At, Field, DecodeSplitI, Extended, Split
<1> QED
  BY <1>1, <1>2, <1>3, <1>4, <1>6, <1>7, <1>8, <1>9, <1>10

\* A word is read in full if the core looks at all of it.
LEMMA WholeIsRead ==
    ASSUME NEW word, Ignored(Decode(word).op) = {}, Encode(Asking(Decode(word))) = word
    PROVE  ReadInFull(word)
<1>1. \A bits \in {{}, {}} : (word \ {}) \cup bits = word
  OBVIOUS
<1> QED
  BY <1>1 DEF ReadInFull

\* Branches.
LEMMA ReadN ==
    ASSUME NEW word \in Word, Field(word, 26, 6) \in Labels(JumpCase)
    PROVE  ReadInFull(word)
<1> DEFINE op == Named(JumpCase, Field(word, 26, 6))
           n  == Extended(Field(DecodeN(word), 2, 30), 30)
           in == [op |-> op, n |-> n]
<1>1. op \in DOMAIN TypeN /\ TypeN[op] = Field(word, 26, 6)
  BY TypeNTable, NamedIs
<1> HIDE DEF op
<1>2. Decode(word) = [op |-> op, n |-> DecodeN(word)]
  BY DecodeCases DEF op
<1>3. Ignored(Decode(word).op) = {}
  BY <1>1, <1>2, IgnoredCases
<1>4. Asking(Decode(word)) = in
  BY <1>1, <1>2 DEF Asking
<1>5. Encode(in) = At(TypeN[op], 26, 6) \cup At(n, 0, 26)
  BY <1>1, EncodeCases
<1>6. Encode(in) = word
  <2>1. Encode(in) = (word \cap (26 .. 31)) \cup (word \cap (0 .. 25))
    BY <1>1, <1>5, Parts
  <2>2. \A p \in word : p \in 0 .. 31
    BY DEF Word
  <2>3. word
          = (word \cap (26 .. 31)) \cup (word \cap (0 .. 25))
    BY <2>2
  <2> QED
    BY <2>1, <2>3
<1> QED
  BY <1>3, <1>4, <1>6, WholeIsRead

\* Traps.
LEMMA ReadK ==
    ASSUME NEW word \in Word,
           Field(word, 26, 6) = Bits(\h08), Field(word, 16, 16) \in Labels(TrapCase)
    PROVE  ReadInFull(word)
<1> DEFINE op == Named(TrapCase, Field(word, 16, 16))
           in == [op |-> op, k |-> DecodeK(word)]
<1>1. op \in DOMAIN TypeK /\ TypeK[op] = Field(word, 16, 16)
  BY TypeKTable, NamedIs
<1> HIDE DEF op
<1>2. Decode(word) = in
  BY DecodeCases DEF op
<1>3. Ignored(Decode(word).op) = {}
  BY <1>1, <1>2, IgnoredCases
<1>4. Asking(Decode(word)) = in
  BY <1>1, <1>2, Names DEF Asking
<1>5. Encode(in) = At(TypeK[op], 16, 16) \cup At(DecodeK(word), 0, 16)
  BY <1>1, EncodeCases
<1>6. Encode(in) = word
  <2>1. Encode(in) = (word \cap (16 .. 31)) \cup (word \cap (0 .. 15))
    BY <1>1, <1>5, Parts
  <2>2. \A p \in word : p \in 0 .. 31
    BY DEF Word
  <2>3. word
          = (word \cap (16 .. 31)) \cup (word \cap (0 .. 15))
    BY <2>2
  <2> QED
    BY <2>1, <2>3
<1> QED
  BY <1>3, <1>4, <1>6, WholeIsRead

\* Loads and arithmetic with a signed constant.
LEMMA ReadDAI ==
    ASSUME NEW word \in Word, Field(word, 26, 6) \in Labels(LoadCase)
    PROVE  ReadInFull(word)
<1> DEFINE op == Named(LoadCase, Field(word, 26, 6))
           in == [op |-> op, d |-> DecodeD(word), a |-> DecodeA(word), i |-> DecodeI(word)]
<1>1. op \in DOMAIN TypeDAI /\ TypeDAI[op] = Field(word, 26, 6)
  BY TypeDAITable, NamedIs
<1> HIDE DEF op
<1>2. Decode(word) = in
  BY DecodeCases DEF op
<1>3. Ignored(Decode(word).op) = {}
  BY <1>1, <1>2, IgnoredCases
<1>4. Asking(Decode(word)) = in
  BY <1>1, <1>2, Names DEF Asking
<1>5. Encode(in) = At(TypeDAI[op], 26, 6) \cup D(DecodeD(word)) \cup A(DecodeA(word))
                   \cup At(DecodeI(word), 0, 16)
  BY <1>1, EncodeCases
<1>6. Encode(in) = word
  <2>1. Encode(in) = (word \cap (26 .. 31)) \cup (word \cap (21 .. 25))
                     \cup (word \cap (16 .. 20)) \cup (word \cap (0 .. 15))
    BY <1>1, <1>5, Parts
  <2>2. \A p \in word : p \in 0 .. 31
    BY DEF Word
  <2>3. word
          = (word \cap (26 .. 31)) \cup (word \cap (21 .. 25))
            \cup (word \cap (16 .. 20)) \cup (word \cap (0 .. 15))
    BY <2>2
  <2> QED
    BY <2>1, <2>3
<1> QED
  BY <1>3, <1>4, <1>6, WholeIsRead

\* Logic with a constant, and l.mfspr.
LEMMA ReadDAK ==
    ASSUME NEW word \in Word, Field(word, 26, 6) \in Labels(LogicCase)
    PROVE  ReadInFull(word)
<1> DEFINE op == Named(LogicCase, Field(word, 26, 6))
           in == [op |-> op, d |-> DecodeD(word), a |-> DecodeA(word), k |-> DecodeK(word)]
<1>1. op \in DOMAIN TypeDAK /\ TypeDAK[op] = Field(word, 26, 6)
  BY TypeDAKTable, NamedIs
<1> HIDE DEF op
<1>2. Decode(word) = in
  BY DecodeCases DEF op
<1>3. Ignored(Decode(word).op) = {}
  BY <1>1, <1>2, IgnoredCases
<1>4. Asking(Decode(word)) = in
  BY <1>1, <1>2, Names DEF Asking
<1>5. Encode(in) = At(TypeDAK[op], 26, 6) \cup D(DecodeD(word)) \cup A(DecodeA(word))
                   \cup At(DecodeK(word), 0, 16)
  BY <1>1, EncodeCases
<1>6. Encode(in) = word
  <2>1. Encode(in) = (word \cap (26 .. 31)) \cup (word \cap (21 .. 25))
                     \cup (word \cap (16 .. 20)) \cup (word \cap (0 .. 15))
    BY <1>1, <1>5, Parts
  <2>2. \A p \in word : p \in 0 .. 31
    BY DEF Word
  <2>3. word
          = (word \cap (26 .. 31)) \cup (word \cap (21 .. 25))
            \cup (word \cap (16 .. 20)) \cup (word \cap (0 .. 15))
    BY <2>2
  <2> QED
    BY <2>1, <2>3
<1> QED
  BY <1>3, <1>4, <1>6, WholeIsRead

\* Comparisons with a constant.
LEMMA ReadAI ==
    ASSUME NEW word \in Word,
           Field(word, 26, 6) = Bits(\h2f), DecodeOpcode11(word) \in Labels(CompareICase)
    PROVE  ReadInFull(word)
<1> DEFINE op == Named(CompareICase, DecodeOpcode11(word))
           in == [op |-> op, a |-> DecodeA(word), i |-> DecodeI(word)]
<1>1. op \in DOMAIN TypeAI /\ TypeAI[op] = DecodeOpcode11(word)
  BY TypeAITable, NamedIs
<1> HIDE DEF op
<1>2. Decode(word) = in
  BY DecodeCases DEF op
<1>3. Ignored(Decode(word).op) = {}
  BY <1>1, <1>2, IgnoredCases
<1>4. Asking(Decode(word)) = in
  BY <1>1, <1>2, Names DEF Asking
<1>5. Encode(in) = At(TypeAI[op], 21, 11) \cup A(DecodeA(word)) \cup At(DecodeI(word), 0, 16)
  BY <1>1, EncodeCases
<1>6. Encode(in) = word
  <2>1. Encode(in) = (word \cap (21 .. 31)) \cup (word \cap (16 .. 20))
                     \cup (word \cap (0 .. 15))
    BY <1>1, <1>5, Parts
  <2>2. \A p \in word : p \in 0 .. 31
    BY DEF Word
  <2>3. word
          = (word \cap (21 .. 31)) \cup (word \cap (16 .. 20))
            \cup (word \cap (0 .. 15))
    BY <2>2
  <2> QED
    BY <2>1, <2>3
<1> QED
  BY <1>3, <1>4, <1>6, WholeIsRead

\* l.mtspr.
LEMMA ReadABK ==
    ASSUME NEW word \in Word, Field(word, 26, 6) = Bits(\h30)
    PROVE  ReadInFull(word)
<1> DEFINE in == [op |-> "mtspr", a |-> DecodeA(word), b |-> DecodeB(word),
                  k |-> DecodeSplitK(word)]
<1>1. Decode(word) = in
  BY DecodeCases
<1>2. Ignored(Decode(word).op) = {}
  BY <1>1, IgnoredCases
<1>3. Asking(Decode(word)) = in
  BY <1>1, Names DEF Asking
<1>4. Encode(in) = At(Bits(\h30), 26, 6) \cup A(DecodeA(word)) \cup B(DecodeB(word))
                   \cup Split(DecodeSplitK(word))
  BY EncodeCases
<1>5. Encode(in) = word
  <2>1. Encode(in) = (word \cap (26 .. 31)) \cup (word \cap (16 .. 20))
                     \cup (word \cap (11 .. 15))
                     \cup (word \cap ((21 .. 25) \cup (0 .. 10)))
    BY <1>4, Parts
  <2>2. \A p \in word : p \in 0 .. 31
    BY DEF Word
  <2>3. word
          = (word \cap (26 .. 31)) \cup (word \cap (16 .. 20))
            \cup (word \cap (11 .. 15))
            \cup (word \cap ((21 .. 25) \cup (0 .. 10)))
    BY <2>2
  <2> QED
    BY <2>1, <2>3
<1> QED
  BY <1>2, <1>3, <1>5, WholeIsRead

\* Stores.
LEMMA ReadABI ==
    ASSUME NEW word \in Word, Field(word, 26, 6) \in Labels(StoreCase)
    PROVE  ReadInFull(word)
<1> DEFINE op == Named(StoreCase, Field(word, 26, 6))
           in == [op |-> op, a |-> DecodeA(word), b |-> DecodeB(word),
                  i |-> DecodeSplitI(word)]
<1>1. op \in DOMAIN TypeABI /\ TypeABI[op] = Field(word, 26, 6)
  BY TypeABITable, NamedIs
<1> HIDE DEF op
<1>2. Decode(word) = in
  BY DecodeCases DEF op
<1>3. Ignored(Decode(word).op) = {}
  BY <1>1, <1>2, IgnoredCases
<1>4. Asking(Decode(word)) = in
  BY <1>1, <1>2, Names DEF Asking
<1>5. Encode(in) = At(TypeABI[op], 26, 6) \cup A(DecodeA(word)) \cup B(DecodeB(word))
                   \cup Split(DecodeSplitI(word))
  BY <1>1, EncodeCases
<1>6. Encode(in) = word
  <2>1. Encode(in) = (word \cap (26 .. 31)) \cup (word \cap (16 .. 20))
                     \cup (word \cap (11 .. 15))
                     \cup (word \cap ((21 .. 25) \cup (0 .. 10)))
    BY <1>1, <1>5, Parts
  <2>2. \A p \in word : p \in 0 .. 31
    BY DEF Word
  <2>3. word
          = (word \cap (26 .. 31)) \cup (word \cap (16 .. 20))
            \cup (word \cap (11 .. 15))
            \cup (word \cap ((21 .. 25) \cup (0 .. 10)))
    BY <2>2
  <2> QED
    BY <2>1, <2>3
<1> QED
  BY <1>3, <1>4, <1>6, WholeIsRead

\* l.nop: the core does not look at the lower bits of its opcode.
LEMMA ReadEXK ==
    ASSUME NEW word \in Word, Field(word, 26, 6) = Bits(\h05)
    PROVE  ReadInFull(word)
<1> DEFINE in == [op |-> "nop", k |-> DecodeK(word)]
           ignored == 16 .. 25
<1>1. Decode(word) = in
  BY DecodeCases
<1>2. Ignored(Decode(word).op) = ignored
  BY <1>1, IgnoredCases
<1>3. Asking(Decode(word)) = in
  BY <1>1, Names DEF Asking
<1>4. Encode(in) = At(Bits(\h15), 24, 8) \cup At(DecodeK(word), 0, 16)
  BY EncodeCases
<1>5. At(Bits(\h15), 24, 8) \ ignored = At(Field(Bits(\h15), 2, 6), 26, 6)
  BY DEF At, Field
<1>6. Encode(in) \ ignored = word \ ignored
  <2>1. At(Bits(\h15), 24, 8) \ ignored = word \cap (26 .. 31)
    BY <1>5, UpperParts, Parts
  <2>2. At(DecodeK(word), 0, 16) = word \cap (0 .. 15)
    BY Parts
  <2>3. \A p \in word : p \in 0 .. 31
    BY DEF Word
  <2>4. word \ ignored = (word \cap (26 .. 31)) \cup ((word \cap (0 .. 15)) \ ignored)
    BY <2>3
  <2>5. Encode(in) \ ignored
            = (At(Bits(\h15), 24, 8) \ ignored) \cup (At(DecodeK(word), 0, 16) \ ignored)
    BY <1>4
  <2> QED
    BY <2>1, <2>2, <2>4, <2>5
<1>7. ASSUME NEW bits \in {{}, ignored}
      PROVE  Decode((word \ ignored) \cup bits) = in
  <2> DEFINE other == (word \ ignored) \cup bits
  <2>1. Field(other, 26, 6) = Field(word, 26, 6) /\ DecodeK(other) = DecodeK(word)
    BY DEF Field, DecodeK
  <2> HIDE DEF other
  <2>2. Decode(other) = in
    BY <2>1, DecodeCases
  <2> QED
    BY <2>2 DEF other
<1> QED
  BY <1>1, <1>2, <1>3, <1>6, <1>7 DEF ReadInFull

\* l.movhi.
LEMMA ReadDFK ==
    ASSUME NEW word \in Word, Field(word, 26, 6) = Bits(\h06)
    PROVE  ReadInFull(word)
<1> DEFINE in == [op |-> "movhi", d |-> DecodeD(word), k |-> DecodeK(word)]
           ignored == 16 .. 20
<1>1. Decode(word) = in
  BY DecodeCases
<1>2. Ignored(Decode(word).op) = ignored
  BY <1>1, IgnoredCases
<1>3. Asking(Decode(word)) = in
  BY <1>1, Names DEF Asking
<1>4. Encode(in) = At(Bits(\h06), 26, 6) \cup At(DecodeD(word), 21, 11)
                   \cup At(DecodeK(word), 0, 16)
  BY EncodeCases
<1>5. Encode(in) \ ignored = word \ ignored
  <2>1. Encode(in) = (word \cap (26 .. 31)) \cup (word \cap (21 .. 25))
                     \cup (word \cap (0 .. 15))
    BY <1>4, Parts
  <2>2. \A p \in word : p \in 0 .. 31
    BY DEF Word
  <2>3. word \ ignored
          = ((word \cap (26 .. 31)) \cup (word \cap (21 .. 25))
            \cup (word \cap (0 .. 15))) \ ignored
    BY <2>2
  <2> QED
    BY <2>1, <2>3
<1>6. ASSUME NEW bits \in {{}, ignored}
      PROVE  Decode((word \ ignored) \cup bits) = in
  <2> DEFINE other == (word \ ignored) \cup bits
  <2>1. /\ Field(other, 26, 6) = Field(word, 26, 6) /\ DecodeK(other) = DecodeK(word)
        /\ DecodeD(other) = DecodeD(word)
    BY DEF Field, DecodeK, DecodeD
  <2> HIDE DEF other
  <2>2. Decode(other) = in
    BY <2>1, DecodeCases
  <2> QED
    BY <2>2 DEF other
<1> QED
  BY <1>1, <1>2, <1>3, <1>5, <1>6 DEF ReadInFull

\* l.rfe.
LEMMA ReadX ==
    ASSUME NEW word \in Word, Field(word, 26, 6) = Bits(\h09)
    PROVE  ReadInFull(word)
<1> DEFINE in == [op |-> "rfe"]
           ignored == 0 .. 25
<1>1. Decode(word) = in
  BY DecodeCases
<1>2. Ignored(Decode(word).op) = ignored
  BY <1>1, IgnoredCases
<1>3. Asking(Decode(word)) = in
  BY <1>1, Names DEF Asking
<1>4. Encode(in) = At(Bits(\h09), 26, 6)
  BY EncodeCases
<1>5. Encode(in) \ ignored = word \ ignored
  <2>1. Encode(in) = (word \cap (26 .. 31))
    BY <1>4, Parts
  <2>2. \A p \in word : p \in 0 .. 31
    BY DEF Word
  <2>3. word \ ignored
          = ((word \cap (26 .. 31))) \ ignored
    BY <2>2
  <2> QED
    BY <2>1, <2>3
<1>6. ASSUME NEW bits \in {{}, ignored}
      PROVE  Decode((word \ ignored) \cup bits) = in
  <2> DEFINE other == (word \ ignored) \cup bits
  <2>1. Field(other, 26, 6) = Field(word, 26, 6)
    BY DEF Field
  <2> HIDE DEF other
  <2>2. Decode(other) = in
    BY <2>1, DecodeCases
  <2> QED
    BY <2>2 DEF other
<1> QED
  BY <1>1, <1>2, <1>3, <1>5, <1>6 DEF ReadInFull

\* Jumps to a register.
LEMMA ReadB ==
    ASSUME NEW word \in Word, Field(word, 26, 6) \in Labels(JumpRCase)
    PROVE  ReadInFull(word)
<1> DEFINE op == Named(JumpRCase, Field(word, 26, 6))
           in == [op |-> op, b |-> DecodeB(word)]
           ignored == (16 .. 25) \cup (0 .. 10)
<1>1. op \in DOMAIN TypeB /\ TypeB[op] = Field(word, 26, 6)
  BY TypeBTable, NamedIs
<1>2. ASSUME NEW bits \in {{}, ignored}
      PROVE  Decode((word \ ignored) \cup bits) = in
  <2> DEFINE other == (word \ ignored) \cup bits
  <2>1. Field(other, 26, 6) = Field(word, 26, 6) /\ DecodeB(other) = DecodeB(word)
    BY DEF Field, DecodeB
  <2> HIDE DEF other
  <2>2. Decode(other) = in
    BY <2>1, DecodeCases
  <2> QED
    BY <2>2 DEF other
<1>3. Decode(word) = in
  BY DecodeCases
<1> HIDE DEF op
<1>4. Ignored(Decode(word).op) = ignored
  BY <1>1, <1>3, IgnoredCases
<1>5. Asking(Decode(word)) = in
  BY <1>1, <1>3, Names DEF Asking
<1>6. Encode(in) = At(TypeB[op], 26, 6) \cup B(DecodeB(word))
  BY <1>1, EncodeCases
<1>7. Encode(in) \ ignored = word \ ignored
  <2>1. Encode(in) = (word \cap (26 .. 31)) \cup (word \cap (11 .. 15))
    BY <1>1, <1>6, Parts
  <2>2. \A p \in word : p \in 0 .. 31
    BY DEF Word
  <2>3. word \ ignored
          = ((word \cap (26 .. 31)) \cup (word \cap (11 .. 15))) \ ignored
    BY <2>2
  <2> QED
    BY <2>1, <2>3
<1> QED
  BY <1>2, <1>3, <1>4, <1>5, <1>7 DEF ReadInFull

\* Shifts by a constant: the core has five bits for the amount, the assembler six.
LEMMA ReadDAFL ==
    ASSUME NEW word \in Word,
           Field(word, 26, 6) = Bits(\h2e), DecodeF(word) \in Labels(ShiftCase)
    PROVE  ReadInFull(word)
<1> DEFINE op == Named(ShiftCase, DecodeF(word))
           in == [op |-> op, d |-> DecodeD(word), a |-> DecodeA(word), l |-> DecodeL(word)]
           ignored == (8 .. 15) \cup {5}
<1>1. op \in DOMAIN TypeDAFL /\ TypeDAFL[op] = DecodeF(word)
  BY TypeDAFLTable, NamedIs
<1>2. ASSUME NEW bits \in {{}, ignored}
      PROVE  Decode((word \ ignored) \cup bits) = in
  <2> DEFINE other == (word \ ignored) \cup bits
  <2>1. /\ Field(other, 26, 6) = Field(word, 26, 6) /\ DecodeF(other) = DecodeF(word)
        /\ DecodeD(other) = DecodeD(word) /\ DecodeA(other) = DecodeA(word)
        /\ DecodeL(other) = DecodeL(word)
    BY DEF Field, DecodeF, DecodeD, DecodeA, DecodeL
  <2> HIDE DEF other
  <2>2. Decode(other) = in
    BY <2>1, DecodeCases
  <2> QED
    BY <2>2 DEF other
<1>3. Decode(word) = in
  BY DecodeCases
<1> HIDE DEF op
<1>4. Ignored(Decode(word).op) = ignored
  BY <1>1, <1>3, IgnoredCases
<1>5. Asking(Decode(word)) = in
  BY <1>1, <1>3, Names DEF Asking
<1>6. Encode(in) = At(Bits(\h2e), 26, 6) \cup D(DecodeD(word)) \cup A(DecodeA(word))
                   \cup At(TypeDAFL[op], 6, 2) \cup At(DecodeL(word), 0, 6)
  BY <1>1, EncodeCases
<1>7. Encode(in) \ ignored = word \ ignored
  <2>1. Encode(in) = (word \cap (26 .. 31)) \cup (word \cap (21 .. 25))
                     \cup (word \cap (16 .. 20)) \cup (word \cap (6 .. 7))
                     \cup (word \cap (0 .. 4))
    BY <1>1, <1>6, Parts
  <2>2. \A p \in word : p \in 0 .. 31
    BY DEF Word
  <2>3. word \ ignored
          = ((word \cap (26 .. 31)) \cup (word \cap (21 .. 25))
            \cup (word \cap (16 .. 20)) \cup (word \cap (6 .. 7))
            \cup (word \cap (0 .. 4))) \ ignored
    BY <2>2
  <2> QED
    BY <2>1, <2>3
<1> QED
  BY <1>2, <1>3, <1>4, <1>5, <1>7 DEF ReadInFull

\* Arithmetic of registers.
LEMMA ReadDABFF ==
    ASSUME NEW word \in Word,
           Field(word, 26, 6) = Bits(\h38), DecodeFF(word) \in Labels(RegCase)
    PROVE  ReadInFull(word)
<1> DEFINE op == Named(RegCase, DecodeFF(word))
           in == [op |-> op, d |-> DecodeD(word), a |-> DecodeA(word), b |-> DecodeB(word)]
           ignored == {4, 5, 10}
<1>1. op \in DOMAIN RegCase /\ RegCase[op] = DecodeFF(word)
  BY RegTable, NamedIs
<1>2. ASSUME NEW bits \in {{}, ignored}
      PROVE  Decode((word \ ignored) \cup bits) = in
  <2> DEFINE other == (word \ ignored) \cup bits
  <2>1. /\ Field(other, 26, 6) = Field(word, 26, 6) /\ DecodeFF(other) = DecodeFF(word)
        /\ DecodeD(other) = DecodeD(word) /\ DecodeA(other) = DecodeA(word)
        /\ DecodeB(other) = DecodeB(word)
    BY DEF Field, At, DecodeFF, DecodeD, DecodeA, DecodeB
  <2> HIDE DEF other
  <2>2. Decode(other) = in
    BY <2>1, DecodeCases
  <2> QED
    BY <2>2 DEF other
<1>3. Decode(word) = in
  BY DecodeCases
<1> HIDE DEF op
<1>4. Ignored(Decode(word).op) = ignored
  BY <1>1, <1>3, RegTable, IgnoredCases
<1>5. Asking(Decode(word)) = in
  BY <1>1, <1>3, RegTable, Names DEF Asking
<1>6. Encode(in) = At(Bits(\h38), 26, 6) \cup D(DecodeD(word)) \cup A(DecodeA(word))
                   \cup B(DecodeB(word)) \cup At(TypeDABFF1[op], 6, 4)
                   \cup At(TypeDABFF2[op], 0, 4)
  BY <1>1, RegTable, EncodeCases
<1>7. TypeDABFF1[op] = Field(word, 6, 4) /\ TypeDABFF2[op] = Field(word, 0, 4)
  <2>1. /\ TypeDABFF1[op] \subseteq 0 .. 3 /\ TypeDABFF2[op] \subseteq 0 .. 3
        /\ DecodeFF(word) = TypeDABFF2[op] \cup At(TypeDABFF1[op], 4, 4)
    BY <1>1, RegTable
  <2>2. DecodeFF(word) = Field(word, 0, 4) \cup At(Field(word, 6, 4), 4, 4)
    BY DEF DecodeFF
  <2>3. Field(word, 0, 4) \subseteq 0 .. 3 /\ Field(word, 6, 4) \subseteq 0 .. 3
    BY DEF Field
  <2>4. \A p \in 0 .. 3 : p \in TypeDABFF2[op] <=> p \in Field(word, 0, 4)
    BY <2>1, <2>2 DEF At
  <2>5. \A p \in 0 .. 3 : p \in TypeDABFF1[op] <=> p \in Field(word, 6, 4)
    <3> TAKE p \in 0 .. 3
    <3>1. p + 4 \in DecodeFF(word) <=> p \in TypeDABFF1[op]
      BY <2>1 DEF At
    <3>2. p + 4 \in DecodeFF(word) <=> p \in Field(word, 6, 4)
      BY <2>2, <2>3 DEF At
    <3> QED
      BY <3>1, <3>2
  <2> QED
    BY <2>1, <2>3, <2>4, <2>5
<1>8. /\ At(Field(word, 6, 4), 6, 4) = word \cap (6 .. 9)
      /\ At(Field(word, 0, 4), 0, 4) = word \cap (0 .. 3)
  BY DEF At, Field
<1>9. Encode(in) \ ignored = word \ ignored
  <2>1. Encode(in) = (word \cap (26 .. 31)) \cup (word \cap (21 .. 25))
                     \cup (word \cap (16 .. 20)) \cup (word \cap (11 .. 15))
                     \cup (word \cap (6 .. 9)) \cup (word \cap (0 .. 3))
    BY <1>6, <1>7, <1>8, Parts
  <2>2. \A p \in word : p \in 0 .. 31
    BY DEF Word
  <2>3. word \ ignored
          = ((word \cap (26 .. 31)) \cup (word \cap (21 .. 25))
            \cup (word \cap (16 .. 20)) \cup (word \cap (11 .. 15))
            \cup (word \cap (6 .. 9)) \cup (word \cap (0 .. 3))) \ ignored
    BY <2>2
  <2> QED
    BY <2>1, <2>3
<1> QED
  BY <1>2, <1>3, <1>4, <1>5, <1>9 DEF ReadInFull

\* Comparisons of registers.
LEMMA ReadAB ==
    ASSUME NEW word \in Word,
           Field(word, 26, 6) = Bits(\h39), DecodeOpcode11(word) \in Labels(CompareCase)
    PROVE  ReadInFull(word)
<1> DEFINE op == Named(CompareCase, DecodeOpcode11(word))
           in == [op |-> op, a |-> DecodeA(word), b |-> DecodeB(word)]
           ignored == 0 .. 10
<1>1. op \in DOMAIN TypeAB /\ TypeAB[op] = DecodeOpcode11(word)
  BY TypeABTable, NamedIs
<1>2. ASSUME NEW bits \in {{}, ignored}
      PROVE  Decode((word \ ignored) \cup bits) = in
  <2> DEFINE other == (word \ ignored) \cup bits
  <2>1. /\ Field(other, 26, 6) = Field(word, 26, 6)
        /\ DecodeOpcode11(other) = DecodeOpcode11(word)
        /\ DecodeA(other) = DecodeA(word) /\ DecodeB(other) = DecodeB(word)
    BY DEF Field, DecodeOpcode11, DecodeA, DecodeB
  <2> HIDE DEF other
  <2>2. Decode(other) = in
    BY <2>1, DecodeCases
  <2> QED
    BY <2>2 DEF other
<1>3. Decode(word) = in
  BY DecodeCases
<1> HIDE DEF op
<1>4. Ignored(Decode(word).op) = ignored
  BY <1>1, <1>3, IgnoredCases
<1>5. Asking(Decode(word)) = in
  BY <1>1, <1>3, Names DEF Asking
<1>6. Encode(in) = At(TypeAB[op], 21, 11) \cup A(DecodeA(word)) \cup B(DecodeB(word))
  BY <1>1, EncodeCases
<1>7. Encode(in) \ ignored = word \ ignored
  <2>1. Encode(in) = (word \cap (21 .. 31)) \cup (word \cap (16 .. 20))
                     \cup (word \cap (11 .. 15))
    BY <1>1, <1>6, Parts
  <2>2. \A p \in word : p \in 0 .. 31
    BY DEF Word
  <2>3. word \ ignored
          = ((word \cap (21 .. 31)) \cup (word \cap (16 .. 20))
            \cup (word \cap (11 .. 15))) \ ignored
    BY <2>2
  <2> QED
    BY <2>1, <2>3
<1> QED
  BY <1>2, <1>3, <1>4, <1>5, <1>7 DEF ReadInFull

\* Every word is refused or read in full.
LEMMA WordIsReadInFull == ASSUME NEW word \in Word PROVE ReadInFull(word)
<1>1. CASE Decode(word).op = "illegal"
  BY <1>1 DEF ReadInFull
<1>2. CASE Decode(word).op # "illegal"
  BY <1>2, DecodeCases, ReadN, ReadEXK, ReadDFK, ReadK, ReadX, ReadB, ReadDAI, ReadDAK,
     ReadDAFL, ReadAI, ReadABK, ReadABI, ReadDABFF, ReadAB
<1> QED
  BY <1>1, <1>2

-----------------------------------------------------------------------------
(* The image.                                                               *)

\* What a test can ask for, and the word that is.
Asks == Instructions \cup {Nop} \cup [op : {"data"}, word : Words]
Written(ask) == IF ask.op = "data" THEN ask.word ELSE Encode(ask)

\* The inductive invariant: the image is the words that were asked for, in order.
AssemblerInv ==
    /\ image \in Seq(Byte) /\ asked \in Seq(Asks)
    /\ Len(image) = 4 * Len(asked)
    /\ \A n \in 1 .. Len(asked) : WordAt(n) = Written(asked[n])

\* An instruction is not data.
LEMMA InstructionIsNoData == ASSUME NEW in, IsInstruction(in) PROVE in.op # "data"
BY Names DEF IsInstruction

\* l.nop is an instruction.
LEMMA NopIsInstruction == IsInstruction(Nop)
<1>1. Nop \in [op : {"nop"} \cup DOMAIN TypeK, k : Short]
  BY DEF Nop, Short
<1> QED
  BY <1>1 DEF IsInstruction

\* What is asked for is an instruction or data, and a word either way.
LEMMA AsksAreWritten ==
    ASSUME NEW ask \in Asks
    PROVE  /\ Written(ask) \in Word
           /\ \/ ask.op = "data" /\ Written(ask) = ask.word
              \/ ask.op # "data" /\ Written(ask) = Encode(ask) /\ IsInstruction(ask)
<1>1. CASE ask \in [op : {"data"}, word : Words]
  BY <1>1, WordsAssumption DEF Written
<1>2. CASE ask \in Instructions \cup {Nop}
  <2>1. IsInstruction(ask)
    BY <1>2, InstructionsAssumption, NopIsInstruction
  <2> QED
    BY <2>1, InstructionIsNoData, InstructionIsDecoded DEF Written
<1> QED
  BY <1>1, <1>2 DEF Asks

\* The four bytes of a word are what the core reads it from.
LEMMA BytesMakeWord ==
    ASSUME NEW word \in Word, NEW bytes,
           \A j \in 1 .. 4 : bytes[j] = Bytes(word)[j]
    PROVE  {p \in 0 .. 31 : p % 8 \in bytes[4 - p \div 8]} = word
<1>1. ASSUME NEW p \in 0 .. 31
      PROVE  p % 8 \in bytes[4 - p \div 8] <=> p \in word
  <2> DEFINE j == 4 - p \div 8
             q == p % 8
  <2>1. j \in 1 .. 4 /\ q \in 0 .. 7 /\ q + 8 * (4 - j) = p
    OBVIOUS
  <2> HIDE DEF j, q
  <2>2. bytes[j] = {r \in 0 .. 7 : r + 8 * (4 - j) \in word}
    BY <2>1 DEF Bytes
  <2>3. q \in bytes[j] <=> p \in word
    BY <2>1, <2>2
  <2> QED
    BY <2>3 DEF j, q
<1>2. \A p \in word : p \in 0 .. 31
  BY DEF Word
<1> QED
  BY <1>1, <1>2

\* The bytes of words in a row, four by four.
LEMMA BytesInARow ==
    ASSUME NEW words \in Seq(Word)
    PROVE  LET bytes == [n \in 1 .. 4 * Len(words) |->
                            Bytes(words[(n + 3) \div 4])[1 + ((n - 1) % 4)]]
           IN  /\ bytes \in Seq(Byte) /\ Len(bytes) = 4 * Len(words)
               /\ \A m \in 1 .. Len(words), j \in 1 .. 4 :
                      bytes[4 * (m - 1) + j] = Bytes(words[m])[j]
<1> DEFINE bytes == [n \in 1 .. 4 * Len(words) |->
                        Bytes(words[(n + 3) \div 4])[1 + ((n - 1) % 4)]]
<1>1. \A word : \A j \in 1 .. 4 : Bytes(word)[j] \in Byte
  BY DEF Bytes, Byte
<1>2. \A n \in 1 .. 4 * Len(words) : 1 + ((n - 1) % 4) \in 1 .. 4
  OBVIOUS
<1>3. bytes \in [1 .. 4 * Len(words) -> Byte]
  <2> SUFFICES ASSUME NEW n \in 1 .. 4 * Len(words)
               PROVE  Bytes(words[(n + 3) \div 4])[1 + ((n - 1) % 4)] \in Byte
    OBVIOUS
  <2> DEFINE word == words[(n + 3) \div 4]
             j    == 1 + ((n - 1) % 4)
  <2>1. j \in 1 .. 4
    BY <1>2
  <2> HIDE DEF word, j
  <2>2. Bytes(word)[j] \in Byte
    BY <1>1, <2>1
  <2> QED
    BY <2>2 DEF word, j
<1>4. 4 * Len(words) \in Nat
  OBVIOUS
<1>5. bytes \in Seq(Byte) /\ Len(bytes) = 4 * Len(words)
  BY <1>3, <1>4
<1>6. ASSUME NEW m \in 1 .. Len(words), NEW j \in 1 .. 4
      PROVE  bytes[4 * (m - 1) + j] = Bytes(words[m])[j]
  <2> DEFINE n == 4 * (m - 1) + j
  <2>1. m \in Int /\ j \in {1, 2, 3, 4}
    OBVIOUS
  <2>2. n \in 1 .. 4 * Len(words)
    OBVIOUS
  <2>3. (n + 3) \div 4 = m
    BY <2>1
  <2>4. 1 + ((n - 1) % 4) = j
    BY <2>1
  <2> HIDE DEF n
  <2>5. bytes[n] = Bytes(words[(n + 3) \div 4])[1 + ((n - 1) % 4)]
    BY <2>2
  <2> QED
    BY <2>3, <2>4, <2>5 DEF n
<1> QED
  BY <1>5, <1>6

\* Words that are appended as they were asked for keep the invariant.
LEMMA AppendKeeps ==
    ASSUME AssemblerInv, NEW words \in Seq(Word), NEW asks \in Seq(Asks),
           Len(words) = Len(asks), \A m \in 1 .. Len(asks) : words[m] = Written(asks[m]),
           Append4(words, asks)
    PROVE  AssemblerInv'
<1> DEFINE bytes == [n \in 1 .. 4 * Len(words) |->
                        Bytes(words[(n + 3) \div 4])[1 + ((n - 1) % 4)]]
<1>1. /\ bytes \in Seq(Byte) /\ Len(bytes) = 4 * Len(words)
      /\ \A m \in 1 .. Len(words), j \in 1 .. 4 :
             bytes[4 * (m - 1) + j] = Bytes(words[m])[j]
  BY BytesInARow
<1>2. image' = image \o bytes /\ asked' = asked \o asks
  BY DEF Append4
<1> HIDE DEF bytes
<1>3. image \in Seq(Byte) /\ asked \in Seq(Asks) /\ Len(image) = 4 * Len(asked)
  BY DEF AssemblerInv
<1>4. ASSUME NEW s \in Seq(Byte), NEW t \in Seq(Byte)
      PROVE  /\ Len(s \o t) = Len(s) + Len(t)
             /\ \A k \in 1 .. Len(t) : (s \o t)[Len(s) + k] = t[k]
  OBVIOUS
<1>5. image' \in Seq(Byte) /\ asked' \in Seq(Asks)
  BY <1>1, <1>2, <1>3
<1>6. Len(asked') = Len(asked) + Len(asks) /\ Len(image') = 4 * Len(asked')
  <2>1. Len(asked') = Len(asked) + Len(asks)
    BY <1>2, <1>3
  <2>2. Len(image') = Len(image) + Len(bytes)
    BY <1>1, <1>2, <1>3, <1>4
  <2>3. Len(asked) \in Nat /\ Len(asks) \in Nat
    BY <1>3
  <2> QED
    BY <2>1, <2>2, <2>3, <1>1, <1>3
<1>7. ASSUME NEW n \in 1 .. Len(asked)
      PROVE  WordAt(n)' = Written(asked'[n])
  <2>1. \A p \in 0 .. 31 : 4 * n - p \div 8 \in 1 .. Len(image)
    BY <1>3
  <2>2. \A k \in 1 .. Len(image) : image'[k] = image[k]
    BY <1>1, <1>2, <1>3
  <2>3. WordAt(n)' = WordAt(n)
    BY <2>1, <2>2 DEF WordAt
  <2>4. asked'[n] = asked[n]
    BY <1>2, <1>3
  <2> QED
    BY <2>3, <2>4 DEF AssemblerInv
<1>8. ASSUME NEW n \in 1 .. Len(asked'), n \notin 1 .. Len(asked)
      PROVE  WordAt(n)' = Written(asked'[n])
  <2>1. PICK m \in 1 .. Len(asks) : n = Len(asked) + m
    <3>1. n - Len(asked) \in 1 .. Len(asks)
      BY <1>3, <1>6, <1>8
    <3>2. n = Len(asked) + (n - Len(asked))
      BY <1>3
    <3> QED
      BY <3>1, <3>2
  <2> DEFINE here == [j \in 1 .. 4 |-> bytes[4 * (m - 1) + j]]
  <2>2. {p \in 0 .. 31 : p % 8 \in here[4 - p \div 8]} = words[m]
    <3>1. words[m] \in Word
      OBVIOUS
    <3>2. \A j \in 1 .. 4 : here[j] = Bytes(words[m])[j]
      BY <1>1
    <3> HIDE DEF here
    <3> QED
      BY <3>1, <3>2, BytesMakeWord
  <2>3. ASSUME NEW p \in 0 .. 31
        PROVE  image'[4 * n - p \div 8] = here[4 - p \div 8]
    <3> DEFINE j == 4 - p \div 8
               k == 4 * (m - 1) + j
    <3>1. j \in 1 .. 4
      OBVIOUS
    <3>2. 4 * n - p \div 8 = Len(image) + k
      BY <1>3, <2>1
    <3>3. here[j] = bytes[k]
      BY <3>1
    <3> HIDE DEF j
    <3>4. k \in 1 .. Len(bytes)
      BY <1>1, <3>1
    <3> HIDE DEF k
    <3>5. image'[Len(image) + k] = bytes[k]
      BY <1>1, <1>2, <1>3, <1>4, <3>4
    <3> QED
      BY <3>2, <3>3, <3>5 DEF j
  <2> HIDE DEF here
  <2>4. WordAt(n)' = {p \in 0 .. 31 : p % 8 \in here[4 - p \div 8]}
    BY <2>3 DEF WordAt
  <2>5. asked'[n] = asks[m]
    BY <1>2, <1>3, <2>1
  <2> QED
    BY <2>2, <2>4, <2>5
<1>9. \A n \in 1 .. Len(asked') : WordAt(n)' = Written(asked'[n])
  BY <1>7, <1>8
<1> QED
  BY <1>5, <1>6, <1>9 DEF AssemblerInv, Written

\* The invariant holds.
LEMMA AssemblerIsInductive == AssemblerSpec => []AssemblerInv
<1>1. AssemblerInit => AssemblerInv
  BY DEF AssemblerInit, AssemblerInv
<1>2. AssemblerInv /\ [AssemblerNext]_assemblerVars => AssemblerInv'
  <2> SUFFICES ASSUME AssemblerInv, [AssemblerNext]_assemblerVars
               PROVE  AssemblerInv'
    OBVIOUS
  <2>1. ASSUME NEW ask \in Asks, Append4(<<Written(ask)>>, <<ask>>)
        PROVE  AssemblerInv'
    <3>1. <<Written(ask)>> \in Seq(Word) /\ <<ask>> \in Seq(Asks)
      BY AsksAreWritten
    <3>2. \A m \in 1 .. Len(<<ask>>) : <<Written(ask)>>[m] = Written(<<ask>>[m])
      OBVIOUS
    <3>3. Len(<<Written(ask)>>) = Len(<<ask>>)
      OBVIOUS
    <3> QED
      BY <2>1, <3>1, <3>2, <3>3, AppendKeeps
  <2>2. CASE Assemble
    <3>1. PICK in \in Instructions : Append4(<<Encode(in)>>, <<in>>)
      BY <2>2 DEF Assemble
    <3>2. in \in Asks /\ Written(in) = Encode(in)
      BY InstructionsAssumption, InstructionIsNoData DEF Asks, Written
    <3> QED
      BY <2>1, <3>1, <3>2
  <2>3. CASE Data
    <3>1. PICK word \in Words : Append4(<<word>>, <<[op |-> "data", word |-> word]>>)
      BY <2>3 DEF Data
    <3> DEFINE ask == [op |-> "data", word |-> word]
    <3>2. ask \in Asks /\ Written(ask) = word
      BY DEF Asks, Written
    <3> QED
      BY <2>1, <3>1, <3>2
  <2>4. CASE SetAddress
    <3>1. PICK address \in Addresses :
              Append4([n \in 1 .. Padding(address) |-> Encode(Nop)],
                      [n \in 1 .. Padding(address) |-> Nop])
      BY <2>4 DEF SetAddress
    <3> DEFINE words == [n \in 1 .. Padding(address) |-> Encode(Nop)]
               asks  == [n \in 1 .. Padding(address) |-> Nop]
    <3>2. Padding(address) \in Nat
      <4>1. address \in Nat /\ Size \in Nat
        BY AddressesAssumption DEF Size, AssemblerInv
      <4> QED
        BY <4>1 DEF Padding
    <3>3. Nop \in Asks /\ Written(Nop) = Encode(Nop) /\ Encode(Nop) \in Word
      <4>1. Nop \in Asks
        BY DEF Asks
      <4>2. Nop.op # "data"
        BY DEF Nop
      <4> QED
        BY <4>1, <4>2, AsksAreWritten DEF Written
    <3>4. words \in Seq(Word) /\ asks \in Seq(Asks) /\ Len(words) = Len(asks)
      BY <3>2, <3>3
    <3>5. \A m \in 1 .. Len(asks) : words[m] = Written(asks[m])
      BY <3>2, <3>3
    <3> HIDE DEF words, asks
    <3> QED
      BY <3>1, <3>4, <3>5, AppendKeeps DEF words, asks
  <2>5. CASE Clear
    BY <2>5 DEF Clear, AssemblerInv
  <2>6. CASE UNCHANGED assemblerVars
    BY <2>6 DEF assemblerVars, AssemblerInv, WordAt
  <2> QED
    BY <2>2, <2>3, <2>4, <2>5, <2>6 DEF AssemblerNext
<1> QED
  BY <1>1, <1>2, PTL DEF AssemblerSpec

\* What the core takes a word of the image for is what the test asked the
\* assembler for: class Assembler and CPU::RunInstruction agree on every
\* instruction with every operand, wherever in the image it is.
THEOREM AssembledAsAsked == AssemblerSpec => []AssembledIsDecoded
<1>1. AssemblerInv => AssembledIsDecoded
  <2> SUFFICES ASSUME AssemblerInv, NEW n \in 1 .. Len(asked)
               PROVE  IF asked[n].op = "data" THEN WordAt(n) = asked[n].word
                                              ELSE Decode(WordAt(n)) = Meaning(asked[n])
    BY DEF AssembledIsDecoded, AssemblerInv, Size
  <2>1. asked[n] \in Asks /\ WordAt(n) = Written(asked[n])
    BY DEF AssemblerInv
  <2>2. CASE asked[n].op = "data"
    BY <2>1, <2>2, AsksAreWritten
  <2>3. CASE asked[n].op # "data"
    BY <2>1, <2>3, AsksAreWritten, InstructionIsDecoded
  <2> QED
    BY <2>2, <2>3
<1> QED
  BY <1>1, AssemblerIsInductive, PTL

\* Every word of an image, of instructions or of data, is refused by the core or
\* is, but for the bits the core ignores, the encoding of what it is taken for:
\* CPU::RunInstruction drops no bit of an operand and no two encodings are one
\* instruction by accident.
THEOREM WordsAreRead == AssemblerSpec => []WordsAreReadInFull
<1>1. AssemblerInv => WordsAreReadInFull
  <2> SUFFICES ASSUME AssemblerInv, NEW n \in 1 .. Len(asked)
               PROVE  ReadInFull(WordAt(n))
    BY DEF WordsAreReadInFull
  <2>1. WordAt(n) \in Word
    BY DEF WordAt, Word
  <2> QED
    BY <2>1, WordIsReadInFull
<1> QED
  BY <1>1, AssemblerIsInductive, PTL
=============================================================================
