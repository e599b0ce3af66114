----------------------------- MODULE CpuProofs -----------------------------
(***************************************************************************)
(* Theorems about the control of the core, for every set of images, every  *)
(* number of registers and lines, and every slice.                         *)
(***************************************************************************)
EXTENDS Cpu, TLAPS

-----------------------------------------------------------------------------
(* What the methods of the core return.                                     *)

\* Every handler has an address.
LEMMA HandlersAreTyped ==
    \A e \in Exception : /\ exceptionHandlers[e].pc \in Nat
                         /\ exceptionHandlers[e].setsEEAR \in BOOLEAN
<1>1. Exception = {"BusError", "DataPageFault", "InstructionPageFault", "TickTimerInterrupt",
                   "Alignment", "IllegalInstruction", "ExternalInterrupt",
                   "DTLBMiss", "ITLBMiss", "SystemCall"}
  BY DEF Exception, exceptionHandlers
<1>2. \A e \in Exception : exceptionHandlers[e] \in [pc : Nat, setsEEAR : BOOLEAN]
  <2> SUFFICES ASSUME NEW e \in Exception
               PROVE  exceptionHandlers[e] \in [pc : Nat, setsEEAR : BOOLEAN]
    OBVIOUS
  <2>1. CASE e = "BusError"
    BY <2>1 DEF exceptionHandlers
  <2>2. CASE e = "DataPageFault"
    BY <2>2 DEF exceptionHandlers
  <2>3. CASE e = "InstructionPageFault"
    BY <2>3 DEF exceptionHandlers
  <2>4. CASE e = "TickTimerInterrupt"
    BY <2>4 DEF exceptionHandlers
  <2>5. CASE e = "Alignment"
    BY <2>5 DEF exceptionHandlers
  <2>6. CASE e = "IllegalInstruction"
    BY <2>6 DEF exceptionHandlers
  <2>7. CASE e = "ExternalInterrupt"
    BY <2>7 DEF exceptionHandlers
  <2>8. CASE e = "DTLBMiss"
    BY <2>8 DEF exceptionHandlers
  <2>9. CASE e = "ITLBMiss"
    BY <2>9 DEF exceptionHandlers
  <2>10. CASE e = "SystemCall"
    BY <2>10 DEF exceptionHandlers
  <2> QED
    BY <1>1, <2>1, <2>2, <2>3, <2>4, <2>5, <2>6, <2>7, <2>8, <2>9, <2>10
<1> QED
  BY <1>2

\* The state after Reset and SetPC is a state of the core.
LEMMA ResetType == ResetState \in CpuState
BY CpuAssumption
   DEF ResetState, CpuState, ResetVector, ResetSR, SRBit, TimerOff, TimerMode

\* A special register takes the values of its type.
LEMMA SetSpRegType ==
    ASSUME NEW s \in CpuState, NEW spr, NEW value \in SprValues(spr)
    PROVE  SetSpReg(s, spr, value) \in CpuState
<1>1. CASE spr = "SR"
  BY <1>1 DEF SetSpReg, SprValues, CpuState
<1>2. CASE spr = "EPCR0"
  BY <1>2 DEF SetSpReg, SprValues, CpuState
<1>3. CASE spr = "EEAR0"
  BY <1>3 DEF SetSpReg, SprValues, CpuState
<1>4. CASE spr = "ESR0"
  BY <1>4 DEF SetSpReg, SprValues, CpuState
<1>5. CASE spr = "PICMR"
  BY <1>5 DEF SetSpReg, SprValues, CpuState
<1>6. CASE spr = "PICSR"
  BY <1>6 DEF SetSpReg, SprValues, CpuState
<1>7. CASE spr = "TTMR"
  BY <1>7 DEF SetSpReg, SprValues, CpuState
<1>8. CASE spr = "TTCR"
  BY <1>8 DEF SetSpReg, SprValues, CpuState
<1>9. CASE spr \notin {"SR", "EPCR0", "EEAR0", "ESR0", "PICMR", "PICSR", "TTMR", "TTCR"}
  BY <1>9 DEF SetSpReg
<1> QED
  BY <1>1, <1>2, <1>3, <1>4, <1>5, <1>6, <1>7, <1>8, <1>9

\* An exception needs a branch one back, if it hits a delay slot.
LEMMA ThrowType ==
    ASSUME NEW s \in CpuState, NEW e \in Exception, NEW ea \in Nat,
           s.in_delay_slot => s.pc > 0
    PROVE  ThrowException(s, e, ea) \in CpuState
<1>1. ResumePC(s) \in Nat
  BY DEF ResumePC, CpuState
<1>2. ResetSR \in SUBSET SRBit /\ "DSX" \in SRBit
  BY DEF ResetSR, SRBit
<1> QED
  BY <1>1, <1>2, HandlersAreTyped DEF ThrowException, CpuState

\* Going on gives a state of the core.
LEMMA IncrementPCType == ASSUME NEW s \in CpuState PROVE IncrementPC(s) \in CpuState
<1>1. (IF s.in_delay_slot THEN s.delayed_next_pc ELSE s.pc + 1) \in Nat
  BY DEF CpuState
<1> QED
  BY <1>1 DEF IncrementPC, CpuState

\* So does a branch.
LEMMA JumpType ==
    ASSUME NEW s \in CpuState, NEW target \in Nat PROVE Jump(s, target) \in CpuState
<1>1. s.pc + 1 \in Nat
  BY DEF CpuState
<1> QED
  BY <1>1 DEF Jump, CpuState

\* So does a comparison.
LEMMA SetCompareFlagType ==
    ASSUME NEW s \in CpuState, NEW flag \in BOOLEAN PROVE SetCompareFlag(s, flag) \in CpuState
<1>1. s.sr \cup {"F"} \in SUBSET SRBit /\ s.sr \ {"F"} \in SUBSET SRBit
  BY DEF CpuState, SRBit
<1> QED
  BY <1>1 DEF SetCompareFlag, CpuState

\* So does writing a general register.
LEMMA SetRegType ==
    ASSUME NEW s \in CpuState, NEW d \in Reg, NEW value \in Nat
    PROVE  SetReg(s, d, value) \in CpuState
<1>1. [s.reg EXCEPT ![d] = value] \in [Reg -> Nat]
  BY DEF CpuState
<1>2. SetReg(s, d, value) = [s EXCEPT !.reg = [s.reg EXCEPT ![d] = value]]
  BY DEF SetReg, CpuState
<1> QED
  BY <1>1, <1>2 DEF CpuState

\* So does a cycle of the timer, whose count wraps.
LEMMA TickTimerType ==
    ASSUME NEW s \in CpuState PROVE TickTimer(s) \in CpuState
<1>1. (s.ttcr + 1) % TickMod \in 0 .. TickMod - 1
  BY CpuAssumption DEF CpuState
<1>2. [s.ttmr EXCEPT !.ip = @ \/ TimerMatches(s)] \in TimerMode
  BY DEF CpuState, TimerMode, TimerMatches
<1>3. TickTimer(s) = [s EXCEPT !.ttcr = (s.ttcr + 1) % TickMod,
                               !.ttmr = [s.ttmr EXCEPT !.ip = @ \/ TimerMatches(s)]]
  BY DEF TickTimer, CpuState
<1> QED
  BY <1>1, <1>2, <1>3 DEF CpuState

\* So does latching the interrupt lines.
LEMMA SampleType ==
    ASSUME NEW s \in CpuState, NEW lines \in SUBSET Lines
    PROVE  SampleLines(s, lines) \in CpuState
BY DEF SampleLines, CpuState

\* So does the look at the lines, an interrupt taken in a slot included.
LEMMA CheckType ==
    ASSUME NEW s \in CpuState, NEW lines \in SUBSET Lines, s.in_delay_slot => s.pc > 0
    PROVE  CheckInterrupts(s, lines) \in CpuState
<1> DEFINE sampled == SampleLines(s, lines)
           thrown  == ThrowException(sampled, "ExternalInterrupt", 0)
<1>1. sampled \in CpuState /\ (sampled.in_delay_slot => sampled.pc > 0)
  BY SampleType DEF SampleLines, CpuState
<1>2. thrown \in CpuState
  BY <1>1, ThrowType DEF Exception, exceptionHandlers
<1>3. [thrown EXCEPT !.pending_interrupt = FALSE] \in CpuState
  <2> HIDE DEF thrown
  <2> QED
    BY <1>2 DEF CpuState
<1>4. CheckInterrupts(s, lines) \in {sampled, [thrown EXCEPT !.pending_interrupt = FALSE]}
  BY DEF CheckInterrupts
<1> QED
  BY <1>1, <1>3, <1>4

\* What the flow of control and the program depend on, between two states.
SameControl(s, t) ==
    /\ t.pc = s.pc /\ t.in_delay_slot = s.in_delay_slot
    /\ t.delayed_next_pc = s.delayed_next_pc
    /\ t.sr = s.sr /\ t.epcr0 = s.epcr0 /\ t.esr0 = s.esr0
    /\ t.serving = s.serving

\* CheckInterrupts enters the handler of an interrupt that is enabled and has
\* a line, or leaves the control alone.
LEMMA CheckCases ==
    ASSUME NEW s \in CpuState, NEW lines \in SUBSET Lines
    PROVE  \/ SameControl(s, CheckInterrupts(s, lines))
           \/ /\ "IEE" \in s.sr /\ lines \cap s.picmr # {}
              /\ ~CheckInterrupts(s, lines).in_delay_slot
              /\ CheckInterrupts(s, lines).pc = exceptionHandlers["ExternalInterrupt"].pc
              /\ CheckInterrupts(s, lines).sr = ResetSR
              /\ CheckInterrupts(s, lines).serving = "ExternalInterrupt"
<1> DEFINE sampled == SampleLines(s, lines)
           thrown  == ThrowException(sampled, "ExternalInterrupt", 0)
           taken   == "IEE" \in sampled.sr /\ sampled.pending_interrupt
                      /\ sampled.picsr \cap sampled.picmr # {}
<1>1. sampled \in CpuState
  BY SampleType
<1>2. SameControl(s, sampled) /\ sampled.picsr = lines /\ sampled.picmr = s.picmr
  BY DEF SampleLines, CpuState, SameControl
<1>3. CASE ~taken
  <2>1. CheckInterrupts(s, lines) = sampled
    BY <1>3 DEF CheckInterrupts
  <2> QED
    BY <1>2, <2>1
<1>4. CASE taken
  <2>1. CheckInterrupts(s, lines) = [thrown EXCEPT !.pending_interrupt = FALSE]
    BY <1>4 DEF CheckInterrupts
  <2> HIDE DEF sampled
  <2>2. /\ ~thrown.in_delay_slot /\ thrown.sr = ResetSR
        /\ thrown.pc = exceptionHandlers["ExternalInterrupt"].pc
        /\ thrown.serving = "ExternalInterrupt"
        /\ DOMAIN thrown = DOMAIN sampled
    BY <1>1 DEF ThrowException, CpuState
  <2>3. [thrown EXCEPT !.pending_interrupt = FALSE].in_delay_slot = thrown.in_delay_slot
        /\ [thrown EXCEPT !.pending_interrupt = FALSE].sr = thrown.sr
        /\ [thrown EXCEPT !.pending_interrupt = FALSE].pc = thrown.pc
        /\ [thrown EXCEPT !.pending_interrupt = FALSE].serving = thrown.serving
    BY <1>1 DEF ThrowException, CpuState
  <2> HIDE DEF thrown
  <2> QED
    BY <1>2, <1>4, <2>1, <2>2, <2>3 DEF SameControl
<1> QED
  BY <1>3, <1>4

-----------------------------------------------------------------------------
(* Types, and the delay slot.                                               *)

\* A state in which in_delay_slot_ is set behind a branch only.  The type
\* needs it: ResumePC takes one from the program counter.
SlotOK(s) ==
    s.in_delay_slot => s.pc > 0 /\ InstructionAt(s.pc - 1).op \in Branches
Good(s) == s \in CpuState /\ SlotOK(s)

CpuInv ==
    /\ CpuTypeOK
    /\ DelaySlotFollowsBranch

\* The invariant is about the state of the core and what is around it.
LEMMA GoodIsInv ==
    ASSUME CpuInv, Good(cpu)', code' = code, irq' \subseteq Lines, left' \in Nat,
           running' \in BOOLEAN
    PROVE  CpuInv'
BY DEF CpuInv, CpuTypeOK, DelaySlotFollowsBranch, Good, SlotOK

\* Whatever the program counter says, what is fetched is an instruction.
LEMMA InstructionType == ASSUME CpuTypeOK PROVE IsInstruction(Instruction)
<1>1. CASE cpu.pc \in DOMAIN code
  BY <1>1, ProgramsAssumption DEF CpuTypeOK, Instruction, InstructionAt
<1>2. CASE cpu.pc \notin DOMAIN code
  <2>1. Instruction = [op |-> "j", k |-> cpu.pc] /\ cpu.pc \in Nat
    BY <1>2 DEF Instruction, InstructionAt, CpuTypeOK, CpuState
  <2> QED
    BY <2>1 DEF IsInstruction, Opcode
<1> QED
  BY <1>1, <1>2

\* The timer leaves the rest of the core alone.
LEMMA TickedOK ==
    ASSUME CpuInv
    PROVE  /\ Good(Ticked)
           /\ Ticked.pc = cpu.pc /\ Ticked.in_delay_slot = cpu.in_delay_slot
           /\ Ticked.sr = cpu.sr /\ Ticked.serving = cpu.serving
           /\ Ticked.epcr0 = cpu.epcr0 /\ Ticked.esr0 = cpu.esr0
           /\ Ticked.delayed_next_pc = cpu.delayed_next_pc /\ Ticked.reg = cpu.reg
<1>1. cpu \in CpuState /\ SlotOK(cpu)
  BY DEF CpuInv, CpuTypeOK, DelaySlotFollowsBranch, SlotOK
<1>2. Ticked \in CpuState
  BY <1>1, TickTimerType DEF Ticked
<1>3. /\ Ticked.pc = cpu.pc /\ Ticked.in_delay_slot = cpu.in_delay_slot
      /\ Ticked.sr = cpu.sr /\ Ticked.serving = cpu.serving
      /\ Ticked.epcr0 = cpu.epcr0 /\ Ticked.esr0 = cpu.esr0
      /\ Ticked.delayed_next_pc = cpu.delayed_next_pc /\ Ticked.reg = cpu.reg
  BY <1>1 DEF Ticked, TickTimer, CpuState
<1> HIDE DEF Ticked
<1> QED
  BY <1>1, <1>2, <1>3 DEF Good, SlotOK

\* An exception leaves no delay slot behind.
LEMMA ThrowGood ==
    ASSUME NEW s \in CpuState, NEW e \in Exception, NEW ea \in Nat,
           s.in_delay_slot => s.pc > 0
    PROVE  Good(ThrowException(s, e, ea)) /\ ~ThrowException(s, e, ea).in_delay_slot
<1>1. ThrowException(s, e, ea) \in CpuState
  BY ThrowType
<1>2. ~ThrowException(s, e, ea).in_delay_slot
  BY DEF ThrowException, CpuState
<1> QED
  BY <1>1, <1>2 DEF Good, SlotOK

\* Nor does an instruction in sequence.
LEMMA IncrementGood ==
    ASSUME NEW s \in CpuState PROVE Good(IncrementPC(s))
<1>1. ~IncrementPC(s).in_delay_slot
  BY DEF IncrementPC, CpuState
<1> QED
  BY <1>1, IncrementPCType DEF Good, SlotOK

\* A branch leaves the delay slot behind itself.
LEMMA JumpGood ==
    ASSUME NEW s \in CpuState, NEW target \in Nat, InstructionAt(s.pc).op \in Branches
    PROVE  Good(Jump(s, target))
<1>1. Jump(s, target).pc = s.pc + 1 /\ s.pc \in Nat
  BY DEF Jump, CpuState
<1>2. Jump(s, target).pc > 0 /\ Jump(s, target).pc - 1 = s.pc
  BY <1>1
<1> QED
  BY <1>2, JumpType DEF Good, SlotOK

\* Every instruction that retires in a good state keeps the invariant.
LEMMA RetireHolds ==
    ASSUME CpuInv, NEW s, Good(s), left > 0,
           cpu' = s, left' = left - 1, code' = code, irq' \subseteq Lines, running' = running
    PROVE  CpuInv'
<1>1. Good(cpu)'
  BY DEF Good, SlotOK, InstructionAt
<1>2. left' \in Nat /\ running' \in BOOLEAN
  BY DEF CpuInv, CpuTypeOK
<1> QED
  BY <1>1, <1>2, GoodIsInv

\* So does everything that ends the slice.
LEMMA SliceEndHolds ==
    ASSUME CpuInv, NEW s, Good(s),
           cpu' = s, left' = 0, code' = code, irq' = irq, running' \in BOOLEAN
    PROVE  CpuInv'
<1>1. Good(cpu)'
  BY DEF Good, SlotOK, InstructionAt
<1>2. irq' \subseteq Lines
  BY DEF CpuInv, CpuTypeOK
<1> QED
  BY <1>1, <1>2, GoodIsInv

\* The constructor and SetPC establish the invariant.
LEMMA CpuInitHolds == CpuInit => CpuInv
<1> SUFFICES ASSUME CpuInit PROVE CpuInv
  OBVIOUS
<1>1. cpu \in CpuState
  BY ResetType DEF CpuInit
<1>2. ~cpu.in_delay_slot
  BY DEF CpuInit, ResetState
<1> QED
  BY <1>1, <1>2 DEF CpuInit, CpuInv, CpuTypeOK, DelaySlotFollowsBranch

\* A reload leaves a core like the constructed one.
LEMMA ReloadHolds ==
    ASSUME CpuInv, Reload
    PROVE  /\ CpuInv'
           /\ cpu'.serving = "none" /\ cpu'.picsr = {}
           /\ ~cpu'.in_delay_slot
<1>1. cpu.delayed_next_pc \in Nat
  BY DEF CpuInv, CpuTypeOK, CpuState
<1> DEFINE reset == ResetState
<1>2. reset \in CpuState
  BY ResetType
<1>3. reset.serving = "none" /\ reset.picsr = {} /\ ~reset.in_delay_slot
  BY DEF ResetState
<1> HIDE DEF reset
<1>4. cpu' = [reset EXCEPT !.delayed_next_pc = cpu.delayed_next_pc]
  BY DEF Reload, reset
<1>5. /\ cpu' \in CpuState
      /\ cpu'.serving = "none" /\ cpu'.picsr = {} /\ ~cpu'.in_delay_slot
  BY <1>1, <1>2, <1>3, <1>4 DEF CpuState
<1> QED
  BY <1>5 DEF Reload, CpuInv, CpuTypeOK, DelaySlotFollowsBranch

\* The look at the lines keeps it (CheckInterrupts).
LEMMA StartRunHolds == ASSUME CpuInv, StartRun PROVE CpuInv'
<1>1. cpu \in CpuState /\ (cpu.in_delay_slot => cpu.pc > 0) /\ irq \in SUBSET Lines
  BY DEF CpuInv, CpuTypeOK, DelaySlotFollowsBranch
<1>2. CheckInterrupts(cpu, irq) \in CpuState
  BY <1>1, CheckType
<1>3. DelaySlotFollowsBranch'
  <2>1. \/ cpu'.pc = cpu.pc /\ cpu'.in_delay_slot = cpu.in_delay_slot
        \/ ~cpu'.in_delay_slot
    BY <1>1, CheckCases DEF StartRun, SameControl
  <2> QED
    BY <2>1 DEF StartRun, CpuInv, DelaySlotFollowsBranch, InstructionAt
<1>4. left' \in Nat
  BY CpuAssumption DEF StartRun
<1> QED
  BY <1>2, <1>3, <1>4 DEF StartRun, CpuInv, CpuTypeOK

\* The tick and a refused fetch keep it.
LEMMA InterruptionHolds == ASSUME CpuInv, TickInterrupt \/ FetchFault PROVE CpuInv'
<1>1. Ticked \in CpuState /\ (Ticked.in_delay_slot => Ticked.pc > 0) /\ cpu.pc \in Nat
  BY TickedOK DEF Good, SlotOK, CpuInv, CpuTypeOK, CpuState
<1>2. /\ {"TickTimerInterrupt", "ITLBMiss", "InstructionPageFault"} \subseteq Exception
      /\ 0 \in Nat
  BY DEF Exception, exceptionHandlers
<1>3. running \in BOOLEAN
  BY DEF CpuInv, CpuTypeOK
<1>4. CASE TickInterrupt
  BY <1>1, <1>2, <1>3, <1>4, ThrowGood, SliceEndHolds DEF TickInterrupt
<1>5. CASE FetchFault
  BY <1>1, <1>2, <1>3, <1>5, ThrowGood, SliceEndHolds DEF FetchFault
<1> QED
  BY <1>4, <1>5

\* The instructions that branch.
LEMMA BranchHolds ==
    ASSUME CpuInv, J \/ Jal \/ Jr \/ Jalr \/ Bf \/ Bnf
    PROVE  CpuInv'
<1>1. Ticked \in CpuState /\ Ticked.pc = cpu.pc /\ cpu \in CpuState
  BY TickedOK DEF Good, CpuInv, CpuTypeOK
<1>2. left > 0 /\ irq \subseteq Lines
  BY DEF J, Jal, Jr, Jalr, Bf, Bnf, ConditionalBranch, Runs, Fetching, CpuInv, CpuTypeOK
<1>3. Instruction.op \in Branches /\ InstructionAt(Ticked.pc) = Instruction
  BY <1>1 DEF J, Jal, Jr, Jalr, Bf, Bnf, ConditionalBranch, Runs, Branches, Instruction
<1>4. IsInstruction(Instruction)
  BY InstructionType DEF CpuInv
<1>5. Link(Ticked) \in CpuState /\ Link(Ticked).pc = cpu.pc
  <2>1. Ticked.pc + 2 \in Nat
    BY <1>1 DEF CpuState
  <2>2. Link(Ticked) \in CpuState
    BY <1>1, <2>1, SetRegType, CpuAssumption DEF Link
  <2> QED
    BY <1>1, <2>2 DEF Link, SetReg, CpuState
<1>6. Link(cpu) \in CpuState
  <2>1. cpu.pc + 2 \in Nat
    BY <1>1 DEF CpuState
  <2> QED
    BY <1>1, <2>1, SetRegType, CpuAssumption DEF Link
<1>7. ASSUME NEW s \in CpuState, s.pc = cpu.pc, NEW target \in Nat, Retire(Jump(s, target))
      PROVE  CpuInv'
  BY <1>1, <1>2, <1>3, <1>7, JumpGood, RetireHolds DEF Retire
<1>8. ASSUME Retire(IncrementPC(Ticked)) PROVE CpuInv'
  BY <1>1, <1>2, <1>8, IncrementGood, RetireHolds DEF Retire
<1>9. CASE J
  BY <1>1, <1>4, <1>7, <1>9 DEF J, Runs, IsInstruction
<1>10. CASE Jal
  BY <1>4, <1>5, <1>7, <1>10 DEF Jal, Runs, IsInstruction
<1>11. CASE Jr
  <2>1. cpu.reg[Instruction.a] \in Nat
    BY <1>1, <1>4, <1>11 DEF Jr, Runs, IsInstruction, CpuState
  <2> QED
    BY <1>1, <1>7, <1>11, <2>1 DEF Jr
<1>12. CASE Jalr
  <2>1. Link(cpu).reg[Instruction.a] \in Nat
    BY <1>4, <1>6, <1>12 DEF Jalr, Runs, IsInstruction, CpuState
  <2> QED
    BY <1>5, <1>7, <1>12, <2>1 DEF Jalr
<1>13. CASE Bf \/ Bnf
  <2>1. Instruction.k \in Nat
    BY <1>4, <1>13 DEF Bf, Bnf, ConditionalBranch, Runs, IsInstruction
  <2> QED
    BY <1>1, <1>7, <1>8, <1>13, <2>1 DEF Bf, Bnf, ConditionalBranch
<1> QED
  BY <1>9, <1>10, <1>11, <1>12, <1>13

\* The instructions that go on to the next.
LEMMA SequenceHolds ==
    ASSUME CpuInv, Set \/ Inc \/ Compare \/ Nop \/ Mfspr \/ Load \/ Store
    PROVE  CpuInv'
<1>1. Ticked \in CpuState /\ cpu \in CpuState
  BY TickedOK DEF Good, CpuInv, CpuTypeOK
<1>2. left > 0 /\ irq \subseteq Lines
  BY DEF Set, Inc, Compare, Nop, Mfspr, Load, Store, Runs, Fetching, CpuInv, CpuTypeOK
<1>3. IsInstruction(Instruction)
  BY InstructionType DEF CpuInv
<1>4. ASSUME NEW s \in CpuState, Retire(IncrementPC(s)) PROVE CpuInv'
  BY <1>2, <1>4, IncrementGood, RetireHolds DEF Retire
<1>5. ASSUME NEW s \in CpuState, Access(s) PROVE CpuInv'
  BY <1>2, <1>5, IncrementGood, RetireHolds DEF Access
<1>6. CASE Set
  <2>1. Instruction.d \in Reg /\ Instruction.k \in Nat
    BY <1>3, <1>6 DEF Set, Runs, IsInstruction
  <2> QED
    BY <1>1, <1>4, <1>6, <2>1, SetRegType DEF Set
<1>7. CASE Inc
  <2>1. Instruction.d \in Reg
    BY <1>3, <1>7 DEF Inc, Runs, IsInstruction
  <2>2. (cpu.reg[Instruction.d] + 1) % WordMod \in Nat
    BY <1>1, <2>1, CpuAssumption DEF CpuState
  <2> QED
    BY <1>1, <1>4, <1>7, <2>1, <2>2, SetRegType DEF Inc
<1>8. CASE Compare
  BY <1>1, <1>4, <1>8, SetCompareFlagType DEF Compare
<1>9. CASE Nop
  BY <1>1, <1>4, <1>9 DEF Nop
<1>10. CASE Mfspr
  <2>1. Instruction.d \in Reg /\ Instruction.spr \in {"EPCR0", "EEAR0", "TTCR"}
    BY <1>3, <1>10 DEF Mfspr, Runs, IsInstruction
  <2>2. SpReg(Ticked, Instruction.spr) \in Nat
    BY <1>1, <2>1, CpuAssumption DEF SpReg, CpuState
  <2> QED
    BY <1>1, <1>4, <1>10, <2>1, <2>2, SetRegType DEF Mfspr
<1>11. CASE Load
  <2>1. Instruction.d \in Reg
    BY <1>3, <1>11 DEF Load, Runs, IsInstruction
  <2>2. PICK value \in 0 .. WordMod - 1 : Access(SetReg(Ticked, Instruction.d, value))
    BY <1>11 DEF Load
  <2>3. value \in Nat
    BY CpuAssumption
  <2> QED
    BY <1>1, <1>5, <2>1, <2>2, <2>3, SetRegType
<1>12. CASE Store
  BY <1>1, <1>5, <1>12 DEF Store
<1> QED
  BY <1>6, <1>7, <1>8, <1>9, <1>10, <1>11, <1>12

\* The instructions that raise an exception, return from one, write a special
\* register or stop the simulator.
LEMMA SystemHolds ==
    ASSUME CpuInv, Sys \/ Illegal \/ Rfe \/ Mtspr \/ DataFault \/ Halt \/ Trap
    PROVE  CpuInv'
<1>1. /\ Ticked \in CpuState /\ cpu \in CpuState /\ Good(Ticked)
      /\ Ticked.in_delay_slot => Ticked.pc > 0
  BY TickedOK DEF Good, SlotOK, CpuInv, CpuTypeOK
<1>2. left > 0 /\ irq \subseteq Lines
  BY DEF Sys, Illegal, Rfe, Mtspr, DataFault, Halt, Trap, Runs, Fetching, CpuInv, CpuTypeOK
<1>3. IsInstruction(Instruction)
  BY InstructionType DEF CpuInv
<1>4. ASSUME NEW s, Good(s), Retire(s) PROVE CpuInv'
  BY <1>2, <1>4, RetireHolds DEF Retire
<1>5. ASSUME NEW s, Good(s), Stop(s) PROVE CpuInv'
  BY <1>5, SliceEndHolds DEF Stop
<1>6. /\ {"SystemCall", "IllegalInstruction", "TickTimerInterrupt", "BusError", "Alignment",
           "DTLBMiss", "DataPageFault"} \subseteq Exception
      /\ 0 \in Nat /\ cpu.pc \in Nat
  BY <1>1 DEF Exception, exceptionHandlers, CpuState
<1>7. CASE Sys
  <2> DEFINE s == [Ticked EXCEPT !.pc = @ + 1]
  <2>1. s \in CpuState /\ s.pc > 0
    BY <1>1 DEF CpuState
  <2> HIDE DEF s
  <2>2. Good(ThrowException(s, "SystemCall", 0))
    BY <1>6, <2>1, ThrowGood
  <2>3. Retire(ThrowException(s, "SystemCall", 0))
    BY <1>7 DEF Sys, s
  <2> QED
    BY <1>4, <2>2, <2>3
<1>8. CASE Illegal
  BY <1>1, <1>4, <1>6, <1>8, ThrowGood DEF Illegal
<1>9. CASE Rfe
  <2> DEFINE s == [Ticked EXCEPT !.pc = cpu.epcr0, !.sr = cpu.esr0,
                                 !.in_delay_slot = FALSE, !.serving = "none"]
  <2>1. s \in CpuState /\ ~s.in_delay_slot
    BY <1>1 DEF CpuState
  <2>2. Retire(s)
    BY <1>9 DEF Rfe
  <2> HIDE DEF s
  <2> QED
    BY <1>4, <2>1, <2>2 DEF Good, SlotOK
<1>10. CASE Mtspr
  <2> DEFINE s == SetSpReg(Ticked, Instruction.spr, Instruction.value)
  <2>1. s \in CpuState
    BY <1>1, <1>3, <1>10, SetSpRegType DEF Mtspr, Runs, IsInstruction
  <2>2. s.pc = Ticked.pc /\ s.in_delay_slot = Ticked.in_delay_slot
    BY <1>1 DEF SetSpReg, CpuState
  <2>3. Retire(IF s.ttmr.ip /\ "TEE" \in s.sr
               THEN ThrowException(s, "TickTimerInterrupt", 0) ELSE IncrementPC(s))
    BY <1>10 DEF Mtspr
  <2> HIDE DEF s
  <2> QED
    BY <1>1, <1>4, <1>6, <2>1, <2>2, <2>3, ThrowGood, IncrementGood
<1>11. CASE DataFault
  <2>1. Instruction.ea \in Nat /\ DataFaults \subseteq Exception
    BY <1>3, <1>6, <1>11 DEF DataFault, DataFaults, Runs, IsInstruction
  <2> QED
    BY <1>1, <1>4, <1>11, <2>1, ThrowGood DEF DataFault
<1>12. CASE Halt
  BY <1>1, <1>4, <1>5, <1>12, IncrementGood DEF Halt
<1>13. CASE Trap
  BY <1>1, <1>5, <1>13, IncrementGood DEF Trap
<1> QED
  BY <1>7, <1>8, <1>9, <1>10, <1>11, <1>12, <1>13

\* Every step of core and host keeps the invariant.
LEMMA CpuStepHolds == CpuInv /\ [CpuNext]_cpuVars => CpuInv'
<1> SUFFICES ASSUME CpuInv, [CpuNext]_cpuVars PROVE CpuInv'
  OBVIOUS
<1>1. CASE HostInput
  BY <1>1 DEF HostInput, CpuInv, CpuTypeOK, DelaySlotFollowsBranch, InstructionAt
<1>2. CASE UNCHANGED cpuVars
  BY <1>2 DEF cpuVars, CpuInv, CpuTypeOK, DelaySlotFollowsBranch, InstructionAt
<1>3. CASE StartRun \/ Cycle
  BY <1>3, StartRunHolds, InterruptionHolds, BranchHolds, SequenceHolds, SystemHolds
     DEF Cycle, RunInstruction
<1> QED
  BY <1>1, <1>2, <1>3, ReloadHolds DEF CpuNext

\* The invariant of the core.
THEOREM CpuInvariant == CpuSpec => []CpuInv
BY CpuInitHolds, CpuStepHolds, PTL DEF CpuSpec

\* Type correctness of the core and the slice, whatever the guest runs.
THEOREM CpuTypeCorrect == CpuSpec => []CpuTypeOK
<1>1. CpuInv => CpuTypeOK
  BY DEF CpuInv
<1> QED
  BY <1>1, CpuInvariant, PTL

\* The core is in a delay slot behind branches only, so that an exception
\* never resumes one instruction before the one it hit for no reason.
THEOREM SlotIsBehindBranch == CpuSpec => []DelaySlotFollowsBranch
<1>1. CpuInv => DelaySlotFollowsBranch
  BY DEF CpuInv
<1> QED
  BY <1>1, CpuInvariant, PTL

-----------------------------------------------------------------------------
(* Who raises what.                                                         *)

\* A state in which the core has just entered the handler of an exception.
Enters(t, e) ==
    /\ e \in Exception
    /\ t.serving = e /\ t.pc = exceptionHandlers[e].pc
    /\ t.sr = ResetSR /\ ~t.in_delay_slot

\* What a method does to the saved state of the interrupted program.
KeepsSaved(s, t) ==
    t.serving = s.serving /\ t.epcr0 = s.epcr0 /\ t.esr0 = s.esr0

\* ThrowException enters the handler.
LEMMA ThrowEnters ==
    ASSUME NEW s \in CpuState, NEW e \in Exception, NEW ea
    PROVE  Enters(ThrowException(s, e, ea), e)
BY DEF ThrowException, Enters, CpuState

\* Going on, and branching, keep SR and the saved state.
LEMMA MovesKeepSaved ==
    ASSUME NEW s \in CpuState, NEW target
    PROVE  /\ KeepsSaved(s, IncrementPC(s)) /\ IncrementPC(s).sr = s.sr
           /\ KeepsSaved(s, Jump(s, target)) /\ Jump(s, target).sr = s.sr
BY DEF IncrementPC, Jump, KeepsSaved, CpuState

\* Writing a general register keeps the control and the saved state.
LEMMA SetRegKeeps ==
    ASSUME NEW s \in CpuState, NEW d, NEW value
    PROVE  SameControl(s, SetReg(s, d, value))
BY DEF SetReg, SameControl, CpuState

\* So does a comparison, but for the flag.
LEMMA SetCompareFlagKeeps ==
    ASSUME NEW s \in CpuState, NEW flag \in BOOLEAN
    PROVE  LET t == SetCompareFlag(s, flag) IN
           /\ KeepsSaved(s, t)
           /\ t.pc = s.pc /\ t.in_delay_slot = s.in_delay_slot
           /\ t.delayed_next_pc = s.delayed_next_pc
           /\ t.sr \subseteq s.sr \cup {"F"}
BY DEF SetCompareFlag, KeepsSaved, CpuState

\* A cycle keeps the exception being served, returns from it, or enters the
\* handler of one that is not the external interrupt.
LEMMA CycleServes ==
    ASSUME CpuInv, Cycle
    PROVE  \/ cpu'.serving \in {cpu.serving, "none"}
           \/ \E e \in Exception \ {"ExternalInterrupt"} : Enters(cpu', e)
<1>1. Ticked \in CpuState /\ cpu \in CpuState /\ Ticked.serving = cpu.serving
  BY TickedOK DEF Good, CpuInv, CpuTypeOK
<1>2. IsInstruction(Instruction)
  BY InstructionType DEF CpuInv
<1>3. /\ {"SystemCall", "IllegalInstruction", "TickTimerInterrupt", "BusError", "Alignment",
           "DTLBMiss", "DataPageFault", "ITLBMiss", "InstructionPageFault"}
             \subseteq Exception \ {"ExternalInterrupt"}
      /\ cpu.pc \in Nat
  BY <1>1 DEF Exception, exceptionHandlers, CpuState
<1>4. ASSUME NEW s \in CpuState, NEW e \in Exception \ {"ExternalInterrupt"}, NEW ea,
             cpu' = ThrowException(s, e, ea)
      PROVE  \E x \in Exception \ {"ExternalInterrupt"} : Enters(cpu', x)
  BY <1>4, ThrowEnters
<1>5. ASSUME NEW s \in CpuState, s.serving = cpu.serving, NEW target,
             cpu' \in {IncrementPC(s), Jump(s, target)}
      PROVE  cpu'.serving = cpu.serving
  BY <1>5, MovesKeepSaved DEF KeepsSaved
<1>6. CASE TickInterrupt \/ FetchFault
  BY <1>1, <1>3, <1>4, <1>6 DEF TickInterrupt, FetchFault
<1>7. CASE J \/ Jr \/ Bf \/ Bnf \/ Nop \/ Trap \/ Store
  BY <1>1, <1>5, <1>7
     DEF J, Jr, Bf, Bnf, Nop, Trap, Store, ConditionalBranch, Retire, Stop, Access
<1>8. CASE Halt
  BY <1>1, <1>5, <1>8 DEF Halt, Retire, Stop
<1>9. CASE Jal \/ Jalr
  <2>1. Ticked.pc + 2 \in Nat
    BY <1>1 DEF CpuState
  <2>2. Link(Ticked) \in CpuState /\ Link(Ticked).serving = cpu.serving
    BY <1>1, <2>1, SetRegType, SetRegKeeps, CpuAssumption DEF Link, SameControl
  <2> QED
    BY <1>5, <1>9, <2>2 DEF Jal, Jalr, Retire
<1>10. ASSUME NEW d \in Reg, NEW value \in Nat, cpu' = IncrementPC(SetReg(Ticked, d, value))
       PROVE  cpu'.serving = cpu.serving
  BY <1>1, <1>5, <1>10, SetRegType, SetRegKeeps DEF SameControl
<1>11. CASE Set
  BY <1>2, <1>10, <1>11 DEF Set, Runs, Retire, IsInstruction
<1>12. CASE Inc
  <2>1. Instruction.d \in Reg
    BY <1>2, <1>12 DEF Inc, Runs, IsInstruction
  <2>2. (cpu.reg[Instruction.d] + 1) % WordMod \in Nat
    BY <1>1, <2>1, CpuAssumption DEF CpuState
  <2> QED
    BY <1>10, <1>12, <2>1, <2>2 DEF Inc, Retire
<1>13. CASE Mfspr
  <2>1. Instruction.d \in Reg /\ Instruction.spr \in {"EPCR0", "EEAR0", "TTCR"}
    BY <1>2, <1>13 DEF Mfspr, Runs, IsInstruction
  <2>2. SpReg(Ticked, Instruction.spr) \in Nat
    BY <1>1, <2>1, CpuAssumption DEF SpReg, CpuState
  <2> QED
    BY <1>10, <1>13, <2>1, <2>2 DEF Mfspr, Retire
<1>14. CASE Load
  <2>1. Instruction.d \in Reg
    BY <1>2, <1>14 DEF Load, Runs, IsInstruction
  <2>2. PICK value \in 0 .. WordMod - 1 : Access(SetReg(Ticked, Instruction.d, value))
    BY <1>14 DEF Load
  <2>3. value \in Nat
    BY CpuAssumption
  <2> QED
    BY <1>10, <2>1, <2>2, <2>3 DEF Access
<1>15. CASE Compare
  <2> DEFINE s == SetCompareFlag(Ticked, cpu.reg[Instruction.a] = Instruction.k)
  <2>1. s \in CpuState /\ s.serving = cpu.serving
    BY <1>1, SetCompareFlagType, SetCompareFlagKeeps DEF KeepsSaved
  <2> HIDE DEF s
  <2>2. cpu' = IncrementPC(s)
    BY <1>15 DEF Compare, Retire, s
  <2> QED
    BY <1>5, <2>1, <2>2
<1>16. CASE Sys
  <2> DEFINE s == [Ticked EXCEPT !.pc = @ + 1]
  <2>1. s \in CpuState
    BY <1>1 DEF CpuState
  <2> HIDE DEF s
  <2>2. cpu' = ThrowException(s, "SystemCall", 0)
    BY <1>16 DEF Sys, Retire, s
  <2> QED
    BY <1>3, <1>4, <2>1, <2>2
<1>17. CASE Illegal
  BY <1>1, <1>3, <1>4, <1>17 DEF Illegal, Retire
<1>18. CASE Rfe
  BY <1>1, <1>18 DEF Rfe, Retire, CpuState
<1>19. CASE Mtspr
  <2> DEFINE s == SetSpReg(Ticked, Instruction.spr, Instruction.value)
  <2>1. s \in CpuState
    BY <1>1, <1>2, <1>19, SetSpRegType DEF Mtspr, Runs, IsInstruction
  <2>2. s.serving = cpu.serving
    BY <1>1 DEF SetSpReg, CpuState
  <2>3. cpu' = IF s.ttmr.ip /\ "TEE" \in s.sr
               THEN ThrowException(s, "TickTimerInterrupt", 0) ELSE IncrementPC(s)
    BY <1>19 DEF Mtspr, Retire
  <2> HIDE DEF s
  <2> QED
    BY <1>3, <1>4, <1>5, <2>1, <2>2, <2>3
<1>20. CASE DataFault
  <2>1. DataFaults \subseteq Exception \ {"ExternalInterrupt"}
    BY <1>2, <1>3, <1>20 DEF DataFault, DataFaults, Runs, IsInstruction
  <2> QED
    BY <1>1, <1>4, <1>20, <2>1 DEF DataFault, Retire
<1> QED
  BY <1>6, <1>7, <1>8, <1>9, <1>11, <1>12, <1>13, <1>14, <1>15, <1>16, <1>17, <1>18, <1>19,
     <1>20 DEF Cycle, RunInstruction

\* An external interrupt is taken between two slices, for a line that is
\* asserted and unmasked (CheckInterrupts samples before it decides).
THEOREM InterruptsHaveSource == CpuSpec => InterruptHasSource
<1>1. ASSUME CpuInv, [CpuNext]_cpuVars,
             cpu'.serving = "ExternalInterrupt", cpu.serving # "ExternalInterrupt"
      PROVE  left = 0 /\ irq \cap cpu.picmr # {}
  <2>1. CASE StartRun
    <3>1. cpu \in CpuState /\ irq \in SUBSET Lines
      BY <1>1 DEF CpuInv, CpuTypeOK
    <3>2. ~SameControl(cpu, CheckInterrupts(cpu, irq))
      BY <1>1, <2>1 DEF StartRun, SameControl
    <3> QED
      BY <2>1, <3>1, <3>2, CheckCases DEF StartRun
  <2>2. CASE Cycle
    BY <1>1, <2>2, CycleServes DEF Enters
  <2>3. CASE HostInput \/ UNCHANGED cpuVars
    BY <1>1, <2>3 DEF HostInput, cpuVars
  <2>4. CASE Reload
    BY <1>1, <2>4, ReloadHolds
  <2> QED
    BY <1>1, <2>1, <2>2, <2>3, <2>4 DEF CpuNext
<1>2. CpuInv /\ [CpuNext]_cpuVars =>
        [cpu'.serving = "ExternalInterrupt" /\ cpu.serving # "ExternalInterrupt" =>
           left = 0 /\ irq \cap cpu.picmr # {}]_cpuVars
  BY <1>1
<1> QED
  BY <1>2, CpuInvariant, PTL DEF CpuSpec, InterruptHasSource
-----------------------------------------------------------------------------
(* A handler runs to its rfe.                                               *)

\* Code of a handler that is in memory.
HandlerCode(a) == InHandlers(a) /\ a \in DOMAIN code

\* While an exception is handled the core is in a handler, with everything
\* that could raise another exception switched off.
InHandler(s) ==
    /\ s.sr \cap {"TEE", "IEE", "DME", "IME"} = {}
    /\ HandlerCode(s.pc)
    /\ s.in_delay_slot => HandlerCode(s.delayed_next_pc)

HandlerInv ==
    /\ CpuInv
    /\ Handling => InHandler(cpu)

\* A state entered through ThrowException is one of those.
LEMMA EntersHandler ==
    ASSUME WellFormed(code), NEW t, NEW e, Enters(t, e)
    PROVE  InHandler(t)
<1>1. exceptionHandlers[e].pc \in DOMAIN code
  BY DEF WellFormed, Enters
<1>2. exceptionHandlers[e].pc >= FirstVector
  <2>1. Exception = {"BusError", "DataPageFault", "InstructionPageFault", "TickTimerInterrupt",
                     "Alignment", "IllegalInstruction", "ExternalInterrupt",
                     "DTLBMiss", "ITLBMiss", "SystemCall"}
    BY DEF Exception, exceptionHandlers
  <2>2. FirstVector = 128
    BY DEF FirstVector, exceptionHandlers
  <2>3. CASE e \in {"BusError", "DataPageFault", "InstructionPageFault"}
    BY <2>2, <2>3 DEF exceptionHandlers
  <2>4. CASE e \in {"TickTimerInterrupt", "Alignment", "IllegalInstruction"}
    BY <2>2, <2>4 DEF exceptionHandlers
  <2>5. CASE e \in {"ExternalInterrupt", "DTLBMiss"}
    BY <2>2, <2>5 DEF exceptionHandlers
  <2>6. CASE e \in {"ITLBMiss", "SystemCall"}
    BY <2>2, <2>6 DEF exceptionHandlers
  <2> QED
    BY <2>1, <2>3, <2>4, <2>5, <2>6 DEF Enters
<1>3. ResetSR \cap {"TEE", "IEE", "DME", "IME"} = {}
  BY DEF ResetSR
<1> QED
  BY <1>1, <1>2, <1>3 DEF InHandler, HandlerCode, InHandlers, Enters

\* What an instruction of a handler may be.
LEMMA HandlerInstruction ==
    ASSUME WellFormed(code), HandlerInv, Handling
    PROVE  /\ Instruction.op \in {"nop", "sf", "store", "mtspr", "rfe", "j", "bf", "bnf"}
           /\ Instruction.op = "store" =>
                  Instruction.faults \subseteq {"DTLBMiss", "DataPageFault"}
           /\ Instruction.op = "mtspr" => Instruction.spr \in {"PICMR", "PICSR", "TTMR", "TTCR"}
           /\ Instruction.op \in {"j", "bf", "bnf"} => HandlerCode(Instruction.k)
           /\ Instruction.op # "rfe" => HandlerCode(cpu.pc + 1)
<1>1. cpu.pc \in DOMAIN code /\ InHandlers(cpu.pc) /\ HandlerKeepsState(code)
  BY DEF HandlerInv, InHandler, HandlerCode, WellFormed
<1>2. Instruction = code[cpu.pc]
  BY <1>1 DEF Instruction, InstructionAt
<1>3. InHandlers(cpu.pc + 1)
  <2>1. cpu.pc \in Nat /\ FirstVector = 128
    BY DEF HandlerInv, CpuInv, CpuTypeOK, CpuState, FirstVector, exceptionHandlers
  <2> QED
    BY <1>1, <2>1 DEF InHandlers
<1> QED
  BY <1>1, <1>2, <1>3 DEF HandlerKeepsState, HandlerCode

\* Going on, or branching, inside a handler stays inside.
LEMMA MovesStay ==
    ASSUME NEW s \in CpuState, InHandler(s), HandlerCode(s.pc + 1), NEW target
    PROVE  /\ InHandler(IncrementPC(s))
           /\ HandlerCode(target) => InHandler(Jump(s, target))
BY DEF InHandler, IncrementPC, Jump, CpuState

\* A cycle inside a handler returns from it, or stays inside and keeps the
\* saved state of the program.
LEMMA HandlerCycle ==
    ASSUME WellFormed(code), HandlerInv, Handling, Cycle
    PROVE  cpu'.serving = "none" \/ (KeepsSaved(cpu, cpu') /\ InHandler(cpu'))
<1>1. CpuInv /\ InHandler(cpu) /\ cpu \in CpuState
  BY DEF HandlerInv, CpuInv, CpuTypeOK
<1>2. /\ Ticked \in CpuState /\ KeepsSaved(cpu, Ticked) /\ InHandler(Ticked)
      /\ Ticked.pc = cpu.pc /\ Ticked.sr = cpu.sr
  BY <1>1, TickedOK DEF Good, KeepsSaved, InHandler
<1>3. "TEE" \notin cpu.sr /\ "DME" \notin cpu.sr /\ "IME" \notin cpu.sr
  BY <1>1 DEF InHandler
<1>4. /\ Instruction.op \in {"nop", "sf", "store", "mtspr", "rfe", "j", "bf", "bnf"}
      /\ Instruction.op = "store" => Instruction.faults \subseteq {"DTLBMiss", "DataPageFault"}
      /\ Instruction.op = "mtspr" => Instruction.spr \in {"PICMR", "PICSR", "TTMR", "TTCR"}
      /\ Instruction.op \in {"j", "bf", "bnf"} => HandlerCode(Instruction.k)
      /\ Instruction.op # "rfe" => HandlerCode(cpu.pc + 1)
  BY HandlerInstruction
<1>5. ASSUME NEW s \in CpuState, KeepsSaved(cpu, s), InHandler(s), s.pc = cpu.pc,
             Instruction.op # "rfe",
             \/ cpu' = IncrementPC(s)
             \/ \E target : HandlerCode(target) /\ cpu' = Jump(s, target)
      PROVE  KeepsSaved(cpu, cpu') /\ InHandler(cpu')
  <2>1. HandlerCode(s.pc + 1)
    BY <1>4, <1>5
  <2>2. CASE cpu' = IncrementPC(s)
    BY <1>5, <2>1, <2>2, MovesStay, MovesKeepSaved DEF KeepsSaved
  <2>3. ASSUME NEW target, HandlerCode(target), cpu' = Jump(s, target)
        PROVE  KeepsSaved(cpu, cpu') /\ InHandler(cpu')
    BY <1>5, <2>1, <2>3, MovesStay, MovesKeepSaved DEF KeepsSaved
  <2> QED
    BY <1>5, <2>2, <2>3
<1>6. ~TickInterrupt /\ ~FetchFault
  BY <1>3 DEF TickInterrupt, FetchFault
<1>7. CASE J \/ Bf \/ Bnf
  BY <1>2, <1>4, <1>5, <1>7 DEF J, Bf, Bnf, ConditionalBranch, Runs, Retire
<1>8. CASE Nop \/ Store
  BY <1>2, <1>5, <1>8 DEF Nop, Store, Runs, Retire, Access
<1>9. CASE Compare
  <2> DEFINE s == SetCompareFlag(Ticked, cpu.reg[Instruction.a] = Instruction.k)
  <2>1. /\ KeepsSaved(Ticked, s) /\ s \in CpuState
        /\ s.pc = Ticked.pc /\ s.in_delay_slot = Ticked.in_delay_slot
        /\ s.delayed_next_pc = Ticked.delayed_next_pc
        /\ s.sr \subseteq Ticked.sr \cup {"F"}
    BY <1>2, SetCompareFlagType, SetCompareFlagKeeps
  <2>2. cpu' = IncrementPC(s) /\ Instruction.op # "rfe"
    BY <1>9 DEF Compare, Runs, Retire, s
  <2> HIDE DEF s
  <2>3. KeepsSaved(cpu, s) /\ InHandler(s)
    BY <1>2, <2>1 DEF KeepsSaved, InHandler
  <2> QED
    BY <1>2, <1>5, <2>1, <2>2, <2>3
<1>10. CASE Rfe
  BY <1>2, <1>10 DEF Rfe, Retire, CpuState
<1>11. CASE Mtspr
  <2> DEFINE s == SetSpReg(Ticked, Instruction.spr, Instruction.value)
  <2>1. Instruction.op = "mtspr" /\ Instruction.spr \in {"PICMR", "PICSR", "TTMR", "TTCR"}
    BY <1>4, <1>11 DEF Mtspr, Runs
  <2>2. s \in CpuState
    BY <1>1, <1>2, <2>1, InstructionType, SetSpRegType DEF CpuInv, IsInstruction
  <2>3. SameControl(Ticked, s)
    BY <1>2, <2>1 DEF SetSpReg, SameControl, CpuState
  <2>4. cpu' = IF s.ttmr.ip /\ "TEE" \in s.sr
               THEN ThrowException(s, "TickTimerInterrupt", 0) ELSE IncrementPC(s)
    BY <1>11 DEF Mtspr, Retire
  <2> HIDE DEF s
  <2>5. cpu' = IncrementPC(s)
    BY <1>2, <1>3, <2>3, <2>4 DEF SameControl
  <2>6. KeepsSaved(cpu, s) /\ InHandler(s) /\ s.pc = cpu.pc
    BY <1>2, <2>3 DEF SameControl, KeepsSaved, InHandler
  <2> QED
    BY <1>5, <2>1, <2>2, <2>5, <2>6
<1>12. ~DataFault
  BY <1>3, <1>4 DEF DataFault, DataFaults, Runs
<1>13. ~(Set \/ Inc \/ Jal \/ Jr \/ Jalr \/ Halt \/ Trap \/ Sys \/ Illegal \/ Mfspr \/ Load)
  BY <1>4 DEF Set, Inc, Jal, Jr, Jalr, Halt, Trap, Sys, Illegal, Mfspr, Load, Runs
<1> QED
  BY <1>6, <1>7, <1>8, <1>9, <1>10, <1>11, <1>12, <1>13 DEF Cycle, RunInstruction

\* The look at the lines finds interrupts disabled in a handler, and enters
\* one from the program only.
LEMMA HandlerStartRun ==
    ASSUME WellFormed(code), HandlerInv, StartRun
    PROVE  /\ Handling => SameControl(cpu, cpu')
           /\ \/ SameControl(cpu, cpu')
              \/ Enters(cpu', "ExternalInterrupt")
<1>1. cpu \in CpuState /\ irq \in SUBSET Lines
  BY DEF HandlerInv, CpuInv, CpuTypeOK
<1>2. "ExternalInterrupt" \in Exception
  BY DEF Exception, exceptionHandlers
<1>3. Handling => "IEE" \notin cpu.sr
  BY DEF HandlerInv, InHandler
<1> QED
  BY <1>1, <1>2, <1>3, CheckCases DEF StartRun, Enters

\* Every step keeps the program and the handlers apart.
LEMMA HandlerStepHolds ==
    ASSUME WellFormed(code), HandlerInv, [CpuNext]_cpuVars
    PROVE  HandlerInv'
<1>1. CpuInv'
  BY CpuStepHolds DEF HandlerInv
<1>2. CASE Reload
  BY <1>1, <1>2, ReloadHolds DEF HandlerInv, Handling
<1>3. ASSUME ~Reload PROVE code' = code
  BY <1>3 DEF CpuNext, Cycle, RunInstruction, HostInput, StartRun, TickInterrupt, FetchFault, Set,
         Inc, Compare, J, Jal, Jr, Jalr, Bf, Bnf, ConditionalBranch, Nop, Halt, Trap, Sys,
         Illegal, Rfe, Mtspr, Mfspr, Load, Store, DataFault, Access, Retire, Stop, cpuVars
<1>4. ASSUME ~Reload PROVE InHandler(cpu') => InHandler(cpu)'
  BY <1>3, <1>4 DEF InHandler, HandlerCode
<1>5. CASE ~Reload /\ (HostInput \/ UNCHANGED cpuVars)
  BY <1>1, <1>4, <1>5 DEF HostInput, cpuVars, HandlerInv, Handling
<1>6. CASE ~Reload /\ StartRun
  <2>1. CASE SameControl(cpu, cpu')
    BY <1>1, <1>4, <1>6, <2>1 DEF SameControl, HandlerInv, Handling, InHandler
  <2>2. CASE Enters(cpu', "ExternalInterrupt")
    BY <1>1, <1>4, <1>6, <2>2, EntersHandler DEF HandlerInv
  <2> QED
    BY <1>6, <2>1, <2>2, HandlerStartRun
<1>7. CASE ~Reload /\ Cycle
  <2>1. CASE Handling
    BY <1>1, <1>4, <1>7, <2>1, HandlerCycle DEF HandlerInv, Handling
  <2>2. CASE ~Handling
    <3>1. cpu'.serving = "none" \/ \E e \in Exception : Enters(cpu', e)
      BY <1>7, <2>2, CycleServes DEF HandlerInv, Handling
    <3> QED
      BY <1>1, <1>4, <1>7, <3>1, EntersHandler DEF HandlerInv, Handling
  <2> QED
    BY <2>1, <2>2
<1> QED
  BY <1>2, <1>5, <1>6, <1>7 DEF CpuNext

\* With a kernel that keeps the conventions, a handler runs to its rfe: no
\* exception reaches it, and its exception registers keep naming the program.
THEOREM HandlersRunAlone ==
    ASSUME \A image \in Programs : WellFormed(image)
    PROVE  CpuSpec => HandlerRunsAlone
<1>1. CpuInit => HandlerInv
  BY CpuInitHolds DEF HandlerInv, CpuInit, ResetState, Handling
<1>2. HandlerInv => WellFormed(code)
  BY DEF HandlerInv, CpuInv, CpuTypeOK
<1>3. HandlerInv /\ [CpuNext]_cpuVars => HandlerInv'
  BY <1>2, HandlerStepHolds
<1>4. HandlerInv /\ [CpuNext]_cpuVars =>
        [Handling => /\ cpu'.serving \in {cpu.serving, "none"}
                     /\ Handling' => /\ cpu'.epcr0 = cpu.epcr0
                                     /\ cpu'.esr0 = cpu.esr0]_cpuVars
  <2> SUFFICES ASSUME HandlerInv, [CpuNext]_cpuVars, Handling
               PROVE  /\ cpu'.serving \in {cpu.serving, "none"}
                      /\ Handling' => cpu'.epcr0 = cpu.epcr0 /\ cpu'.esr0 = cpu.esr0
    OBVIOUS
  <2>1. CASE HostInput \/ UNCHANGED cpuVars
    BY <2>1 DEF HostInput, cpuVars
  <2>2. CASE StartRun
    BY <1>2, <2>2, HandlerStartRun DEF SameControl
  <2>3. CASE Cycle
    BY <1>2, <2>3, HandlerCycle DEF KeepsSaved, Handling
  <2>4. CASE Reload
    BY <2>4, ReloadHolds DEF HandlerInv, Handling
  <2> QED
    BY <2>1, <2>2, <2>3, <2>4 DEF CpuNext
<1> QED
  BY <1>1, <1>3, <1>4, PTL DEF CpuSpec, HandlerRunsAlone
-----------------------------------------------------------------------------
(* No interrupt is lost.                                                    *)

\* What the interrupt controller holds.
SameController(s, t) ==
    t.picsr = s.picsr /\ t.pending_interrupt = s.pending_interrupt

\* The methods a cycle is made of leave the controller alone.
LEMMA MethodsKeepController ==
    ASSUME NEW s \in CpuState, NEW e, NEW ea, NEW target, NEW d, NEW value, NEW flag
    PROVE  /\ SameController(s, ThrowException(s, e, ea))
           /\ SameController(s, IncrementPC(s))
           /\ SameController(s, Jump(s, target))
           /\ SameController(s, SetReg(s, d, value))
           /\ SameController(s, SetCompareFlag(s, flag))
           /\ SameController(s, TickTimer(s))
<1>1. SameController(s, ThrowException(s, e, ea))
  BY DEF SameController, ThrowException, CpuState
<1>2. SameController(s, IncrementPC(s)) /\ SameController(s, Jump(s, target))
  BY DEF SameController, IncrementPC, Jump, CpuState
<1>3. SameController(s, SetReg(s, d, value)) /\ SameController(s, SetCompareFlag(s, flag))
  BY DEF SameController, SetReg, SetCompareFlag, CpuState
<1>4. SameController(s, TickTimer(s))
  BY DEF SameController, TickTimer, CpuState
<1> QED
  BY <1>1, <1>2, <1>3, <1>4

\* A cycle changes the controller only by a write of its status.
LEMMA CycleKeepsController ==
    ASSUME CpuInv, Cycle
    PROVE  SameController(cpu, cpu') \/ (Mtspr /\ Instruction.spr = "PICSR")
<1>1. Ticked \in CpuState /\ cpu \in CpuState /\ SameController(cpu, Ticked)
  BY TickedOK, MethodsKeepController DEF Good, CpuInv, CpuTypeOK, Ticked
<1>2. IsInstruction(Instruction)
  BY InstructionType DEF CpuInv
<1>3. ASSUME NEW s \in CpuState, SameController(cpu, s), NEW e, NEW ea, NEW target,
             cpu' \in {s, IncrementPC(s), Jump(s, target), ThrowException(s, e, ea)}
      PROVE  SameController(cpu, cpu')
  BY <1>3, MethodsKeepController DEF SameController
<1>4. CASE TickInterrupt \/ FetchFault \/ Illegal \/ DataFault
  BY <1>1, <1>3, <1>4 DEF TickInterrupt, FetchFault, Illegal, DataFault, Retire
<1>5. CASE J \/ Jr \/ Bf \/ Bnf \/ Nop \/ Store \/ Halt
  BY <1>1, <1>3, <1>5
     DEF J, Jr, Bf, Bnf, Nop, Store, Halt, ConditionalBranch, Retire, Stop, Access
<1>6. CASE Trap
  BY <1>1, <1>3, <1>6 DEF Trap, Stop
<1>7. ASSUME NEW d \in Reg, NEW value \in Nat, NEW target,
             \/ cpu' = IncrementPC(SetReg(Ticked, d, value))
             \/ cpu' = Jump(SetReg(Ticked, d, value), target)
      PROVE  SameController(cpu, cpu')
  <2> DEFINE s == SetReg(Ticked, d, value)
  <2>1. s \in CpuState /\ SameController(cpu, s)
    BY <1>1, <1>7, SetRegType, MethodsKeepController DEF SameController
  <2>2. cpu' = IncrementPC(s) \/ cpu' = Jump(s, target)
    BY <1>7
  <2> HIDE DEF s
  <2> QED
    BY <1>3, <2>1, <2>2
<1>8. CASE Jal \/ Jalr
  <2>1. Ticked.pc + 2 \in Nat /\ 9 \in Reg
    BY <1>1, CpuAssumption DEF CpuState
  <2> QED
    BY <1>7, <1>8, <2>1 DEF Jal, Jalr, Link, Retire
<1>9. CASE Set
  <2>1. Instruction.d \in Reg /\ Instruction.k \in Nat
    BY <1>2, <1>9 DEF Set, Runs, IsInstruction
  <2> QED
    BY <1>7, <1>9, <2>1 DEF Set, Retire
<1>10. CASE Inc
  <2>1. Instruction.d \in Reg
    BY <1>2, <1>10 DEF Inc, Runs, IsInstruction
  <2>2. (cpu.reg[Instruction.d] + 1) % WordMod \in Nat
    BY <1>1, <2>1, CpuAssumption DEF CpuState
  <2> QED
    BY <1>7, <1>10, <2>1, <2>2 DEF Inc, Retire
<1>11. CASE Mfspr
  <2>1. Instruction.d \in Reg /\ Instruction.spr \in {"EPCR0", "EEAR0", "TTCR"}
    BY <1>2, <1>11 DEF Mfspr, Runs, IsInstruction
  <2>2. SpReg(Ticked, Instruction.spr) \in Nat
    BY <1>1, <2>1, CpuAssumption DEF SpReg, CpuState
  <2> QED
    BY <1>7, <1>11, <2>1, <2>2 DEF Mfspr, Retire
<1>12. CASE Load
  <2>1. Instruction.d \in Reg
    BY <1>2, <1>12 DEF Load, Runs, IsInstruction
  <2>2. PICK value \in 0 .. WordMod - 1 : Access(SetReg(Ticked, Instruction.d, value))
    BY <1>12 DEF Load
  <2>3. value \in Nat
    BY CpuAssumption
  <2> QED
    BY <1>7, <2>1, <2>2, <2>3 DEF Access
<1>13. CASE Compare
  <2> DEFINE s == SetCompareFlag(Ticked, cpu.reg[Instruction.a] = Instruction.k)
  <2>1. s \in CpuState
    BY <1>1, SetCompareFlagType
  <2>2. SameController(Ticked, s)
    BY <1>1, MethodsKeepController
  <2>3. cpu' = IncrementPC(s)
    BY <1>13 DEF Compare, Retire
  <2> HIDE DEF s
  <2>4. SameController(cpu, s)
    BY <1>1, <2>2 DEF SameController
  <2> QED
    BY <1>3, <2>1, <2>3, <2>4
<1>14. CASE Sys
  <2> DEFINE s == [Ticked EXCEPT !.pc = @ + 1]
  <2>1. s \in CpuState /\ SameController(cpu, s)
    BY <1>1 DEF CpuState, SameController
  <2>2. cpu' = ThrowException(s, "SystemCall", 0)
    BY <1>14 DEF Sys, Retire
  <2> HIDE DEF s
  <2> QED
    BY <1>3, <2>1, <2>2
<1>15. CASE Rfe
  BY <1>1, <1>15 DEF Rfe, Retire, CpuState, SameController
<1>16. CASE Mtspr /\ Instruction.spr # "PICSR"
  <2> DEFINE s == SetSpReg(Ticked, Instruction.spr, Instruction.value)
  <2>1. s \in CpuState
    BY <1>1, <1>2, <1>16, SetSpRegType DEF Mtspr, Runs, IsInstruction
  <2>2. SameController(cpu, s)
    BY <1>1, <1>16 DEF SetSpReg, CpuState, SameController
  <2>3. cpu' = IF s.ttmr.ip /\ "TEE" \in s.sr
               THEN ThrowException(s, "TickTimerInterrupt", 0) ELSE IncrementPC(s)
    BY <1>16 DEF Mtspr, Retire
  <2> HIDE DEF s
  <2> QED
    BY <1>3, <2>1, <2>2, <2>3
<1> QED
  BY <1>4, <1>5, <1>6, <1>8, <1>9, <1>10, <1>11, <1>12, <1>13, <1>14, <1>15, <1>16
     DEF Cycle, RunInstruction

\* A write of the status writes the status.
LEMMA WriteOfStatus ==
    ASSUME CpuInv, Mtspr, Instruction.spr = "PICSR"
    PROVE  cpu'.picsr = Instruction.value
<1>1. Ticked \in CpuState
  BY TickedOK DEF Good
<1>2. IsInstruction(Instruction)
  BY InstructionType DEF CpuInv
<1> DEFINE s == SetSpReg(Ticked, Instruction.spr, Instruction.value)
<1>3. s \in CpuState
  BY <1>1, <1>2, SetSpRegType DEF Mtspr, Runs, IsInstruction
<1>4. s.picsr = Instruction.value
  BY <1>1 DEF SetSpReg, CpuState
<1>5. cpu' = IF s.ttmr.ip /\ "TEE" \in s.sr
             THEN ThrowException(s, "TickTimerInterrupt", 0) ELSE IncrementPC(s)
  BY DEF Mtspr, Retire
<1> HIDE DEF s
<1> QED
  BY <1>3, <1>4, <1>5, MethodsKeepController DEF SameController

\* The controller has nothing to remember, or remembers it.
Told(s) == s.picsr = {} \/ s.pending_interrupt

\* The controller forgets an interrupt only when it is taken, and what it was
\* told is told again until the handler clears it.
AckInv(handler) ==
    /\ HandlerInv
    /\ cpu.serving # "ExternalInterrupt" => Told(cpu)
    /\ cpu.serving = "ExternalInterrupt" =>
           /\ cpu.pc \in handler
           /\ cpu.in_delay_slot => /\ cpu.delayed_next_pc \in handler
                                   /\ code[cpu.delayed_next_pc].op # "rfe"
           /\ code[cpu.pc].op = "rfe" => Told(cpu)

\* A look at the lines leaves them remembered, or enters the handler.
LEMMA CheckTells ==
    ASSUME NEW s \in CpuState, NEW lines \in SUBSET Lines
    PROVE  LET t == CheckInterrupts(s, lines) IN
           \/ SameControl(s, t) /\ (Told(s) => Told(t))
           \/ Enters(t, "ExternalInterrupt")
<1> DEFINE sampled == SampleLines(s, lines)
           thrown  == ThrowException(sampled, "ExternalInterrupt", 0)
<1>1. sampled \in CpuState
  BY SampleType
<1>2. SameControl(s, sampled) /\ (Told(s) => Told(sampled))
  BY DEF SampleLines, CpuState, SameControl, Told
<1>3. CheckInterrupts(s, lines) \in {sampled, [thrown EXCEPT !.pending_interrupt = FALSE]}
  BY DEF CheckInterrupts
<1> HIDE DEF sampled
<1>4. Enters(thrown, "ExternalInterrupt")
  <2>1. "ExternalInterrupt" \in Exception
    BY DEF Exception, exceptionHandlers
  <2> QED
    BY <1>1, <2>1, ThrowEnters
<1>5. DOMAIN thrown = DOMAIN sampled
  BY DEF ThrowException
<1> HIDE DEF thrown
<1>6. Enters([thrown EXCEPT !.pending_interrupt = FALSE], "ExternalInterrupt")
  BY <1>1, <1>4, <1>5 DEF Enters, CpuState
<1> QED
  BY <1>2, <1>3, <1>6

\* Inside a handler a cycle goes on, or branches, or returns.
LEMMA HandlerMoves ==
    ASSUME WellFormed(code), HandlerInv, Handling, Cycle
    PROVE  \/ Instruction.op = "rfe" /\ cpu'.serving = "none"
           \/ /\ Instruction.op # "rfe" /\ cpu'.serving = cpu.serving
              /\ ~cpu'.in_delay_slot
              /\ cpu'.pc = IF cpu.in_delay_slot THEN cpu.delayed_next_pc ELSE cpu.pc + 1
              /\ Instruction.op = "mtspr" => Mtspr
           \/ /\ Instruction.op \in {"j", "bf", "bnf"} /\ cpu'.serving = cpu.serving
              /\ cpu'.in_delay_slot
              /\ cpu'.pc = cpu.pc + 1 /\ cpu'.delayed_next_pc = Instruction.k
<1>1. CpuInv /\ InHandler(cpu) /\ cpu \in CpuState
  BY DEF HandlerInv, CpuInv, CpuTypeOK
<1>2. /\ Ticked \in CpuState
      /\ Ticked.pc = cpu.pc /\ Ticked.sr = cpu.sr
      /\ Ticked.in_delay_slot = cpu.in_delay_slot
      /\ Ticked.delayed_next_pc = cpu.delayed_next_pc /\ Ticked.serving = cpu.serving
  BY <1>1, TickedOK DEF Good
<1>3. "TEE" \notin cpu.sr /\ "DME" \notin cpu.sr /\ "IME" \notin cpu.sr
  BY <1>1 DEF InHandler
<1>4. /\ Instruction.op \in {"nop", "sf", "store", "mtspr", "rfe", "j", "bf", "bnf"}
      /\ Instruction.op = "store" => Instruction.faults \subseteq {"DTLBMiss", "DataPageFault"}
      /\ Instruction.op = "mtspr" => Instruction.spr \in {"PICMR", "PICSR", "TTMR", "TTCR"}
  BY HandlerInstruction
<1>5. ASSUME NEW s \in CpuState, s.pc = cpu.pc, s.in_delay_slot = cpu.in_delay_slot,
             s.delayed_next_pc = cpu.delayed_next_pc, s.serving = cpu.serving,
             cpu' = IncrementPC(s)
      PROVE  /\ ~cpu'.in_delay_slot /\ cpu'.serving = cpu.serving
             /\ cpu'.pc = IF cpu.in_delay_slot THEN cpu.delayed_next_pc ELSE cpu.pc + 1
  BY <1>5 DEF IncrementPC, CpuState
<1>6. ~TickInterrupt /\ ~FetchFault /\ ~DataFault
  BY <1>3, <1>4 DEF TickInterrupt, FetchFault, DataFault, DataFaults, Runs
<1>7. CASE J \/ Bf \/ Bnf
  <2>1. cpu' = Jump(Ticked, Instruction.k) \/ cpu' = IncrementPC(Ticked)
    BY <1>7 DEF J, Bf, Bnf, ConditionalBranch, Retire
  <2>2. Instruction.op \in {"j", "bf", "bnf"}
    BY <1>7 DEF J, Bf, Bnf, ConditionalBranch, Runs
  <2>3. CASE cpu' = Jump(Ticked, Instruction.k)
    <3>1. /\ cpu'.in_delay_slot /\ cpu'.pc = cpu.pc + 1 /\ cpu'.serving = cpu.serving
          /\ cpu'.delayed_next_pc = Instruction.k
      BY <1>2, <2>3 DEF Jump, CpuState
    <3> QED
      BY <2>2, <3>1
  <2>4. CASE cpu' = IncrementPC(Ticked)
    BY <1>2, <1>5, <2>2, <2>4
  <2> QED
    BY <2>1, <2>3, <2>4
<1>8. CASE Nop \/ Store
  <2>1. cpu' = IncrementPC(Ticked) /\ Instruction.op \in {"nop", "store"}
    BY <1>8 DEF Nop, Store, Runs, Retire, Access
  <2> QED
    BY <1>2, <1>5, <2>1
<1>9. CASE Compare
  <2> DEFINE s == SetCompareFlag(Ticked, cpu.reg[Instruction.a] = Instruction.k)
  <2>1. s \in CpuState /\ s.pc = cpu.pc /\ s.in_delay_slot = cpu.in_delay_slot
        /\ s.delayed_next_pc = cpu.delayed_next_pc /\ s.serving = cpu.serving
    BY <1>2, SetCompareFlagType, SetCompareFlagKeeps DEF KeepsSaved
  <2>2. cpu' = IncrementPC(s) /\ Instruction.op = "sf"
    BY <1>9 DEF Compare, Runs, Retire
  <2> HIDE DEF s
  <2> QED
    BY <1>5, <2>1, <2>2
<1>10. CASE Rfe
  BY <1>2, <1>10 DEF Rfe, Retire, Runs, CpuState
<1>11. CASE Mtspr
  <2> DEFINE s == SetSpReg(Ticked, Instruction.spr, Instruction.value)
  <2>1. Instruction.op = "mtspr" /\ Instruction.spr \in {"PICMR", "PICSR", "TTMR", "TTCR"}
    BY <1>4, <1>11 DEF Mtspr, Runs
  <2>2. s \in CpuState
    BY <1>1, <1>2, <2>1, InstructionType, SetSpRegType DEF CpuInv, IsInstruction
  <2>3. SameControl(Ticked, s)
    BY <1>2, <2>1 DEF SetSpReg, SameControl, CpuState
  <2>4. cpu' = IF s.ttmr.ip /\ "TEE" \in s.sr
               THEN ThrowException(s, "TickTimerInterrupt", 0) ELSE IncrementPC(s)
    BY <1>11 DEF Mtspr, Retire
  <2> HIDE DEF s
  <2>5. cpu' = IncrementPC(s)
    BY <1>2, <1>3, <2>3, <2>4 DEF SameControl
  <2> QED
    BY <1>2, <1>5, <1>11, <2>1, <2>2, <2>3, <2>5 DEF SameControl
<1>12. ~(Set \/ Inc \/ Jal \/ Jr \/ Jalr \/ Halt \/ Trap \/ Sys \/ Illegal \/ Mfspr \/ Load)
  BY <1>4 DEF Set, Inc, Jal, Jr, Jalr, Halt, Trap, Sys, Illegal, Mfspr, Load, Runs
<1> QED
  BY <1>6, <1>7, <1>8, <1>9, <1>10, <1>11, <1>12 DEF Cycle, RunInstruction

\* A cycle of the interrupt's handler ends at its rfe with the status cleared.
LEMMA AckCycle ==
    ASSUME NEW handler, WellFormed(code), AcknowledgesLast(code, handler), AckInv(handler),
           cpu.serving = "ExternalInterrupt", Cycle, code' = code, HandlerInv'
    PROVE  AckInv(handler)'
<1>1. CpuInv /\ Handling /\ HandlerInv
  BY DEF AckInv, HandlerInv, Handling
<1>2. cpu.pc \in handler /\ cpu.pc \in DOMAIN code /\ Instruction = code[cpu.pc]
  BY DEF AckInv, AcknowledgesLast, Instruction, InstructionAt
<1>3. cpu'.serving \in {"ExternalInterrupt", "none"}
  <2>1. cpu'.serving = "none" \/ KeepsSaved(cpu, cpu')
    BY <1>1, HandlerCycle
  <2> QED
    BY <2>1 DEF KeepsSaved
<1>4. Mtspr /\ Instruction.spr = "PICSR" => Told(cpu')
  <2>1. Mtspr /\ Instruction.spr = "PICSR" => Instruction.value = {}
    BY <1>2 DEF AcknowledgesLast, Mtspr, Runs
  <2> QED
    BY <1>1, <2>1, WriteOfStatus DEF Told
<1>5. Told(cpu) => Told(cpu')
  BY <1>1, <1>4, CycleKeepsController DEF SameController, Told
<1>6. CASE Instruction.op = "rfe" /\ cpu'.serving = "none"
  BY <1>2, <1>5, <1>6 DEF AckInv, Told
<1>7. CASE /\ Instruction.op # "rfe" /\ cpu'.serving = cpu.serving
           /\ ~cpu'.in_delay_slot
           /\ cpu'.pc = IF cpu.in_delay_slot THEN cpu.delayed_next_pc ELSE cpu.pc + 1
           /\ Instruction.op = "mtspr" => Mtspr
  <2>1. cpu'.pc \in handler /\ (code[cpu'.pc].op = "rfe" => Told(cpu'))
    BY <1>2, <1>4, <1>7 DEF AcknowledgesLast, AckInv
  <2> QED
    BY <1>7, <2>1 DEF AckInv, Told
<1>8. CASE /\ Instruction.op \in {"j", "bf", "bnf"} /\ cpu'.serving = cpu.serving
           /\ cpu'.in_delay_slot
           /\ cpu'.pc = cpu.pc + 1 /\ cpu'.delayed_next_pc = Instruction.k
  <2>1. /\ cpu'.pc \in handler /\ code[cpu'.pc].op # "rfe"
        /\ cpu'.delayed_next_pc \in handler /\ code[cpu'.delayed_next_pc].op # "rfe"
    BY <1>2, <1>8 DEF AcknowledgesLast
  <2> QED
    BY <1>8, <2>1 DEF AckInv
<1> QED
  BY <1>1, <1>6, <1>7, <1>8, HandlerMoves DEF AckInv

\* Outside the interrupt's handler a cycle keeps what the controller was told.
LEMMA ToldCycle ==
    ASSUME NEW handler, AcknowledgesLast(code, handler), AckInv(handler),
           cpu.serving # "ExternalInterrupt", Cycle, code' = code, HandlerInv'
    PROVE  AckInv(handler)'
<1>1. CpuInv /\ Told(cpu)
  BY DEF AckInv, HandlerInv
<1>2. cpu'.serving # "ExternalInterrupt"
  BY <1>1, CycleServes DEF Enters
<1>3. Mtspr /\ Instruction.spr = "PICSR" => Instruction.value = {}
  <2>1. CASE cpu.pc \in DOMAIN code
    BY <2>1 DEF AcknowledgesLast, Mtspr, Runs, Instruction, InstructionAt
  <2>2. CASE cpu.pc \notin DOMAIN code
    BY <2>2 DEF Mtspr, Runs, Instruction, InstructionAt
  <2> QED
    BY <2>1, <2>2
<1>4. Told(cpu')
  BY <1>1, <1>3, CycleKeepsController, WriteOfStatus DEF SameController, Told
<1> QED
  BY <1>2, <1>4 DEF AckInv, Told

\* Every step keeps what the controller was told.
LEMMA AckStepHolds ==
    ASSUME NEW handler, WellFormed(code), AcknowledgesLast(code, handler[code]),
           AckInv(handler[code]), [CpuNext]_cpuVars
    PROVE  AckInv(handler[code])'
<1>1. HandlerInv'
  BY HandlerStepHolds DEF AckInv
<1>2. CASE Reload
  <2>1. cpu'.serving = "none" /\ cpu'.picsr = {}
    BY <1>2, ReloadHolds DEF AckInv, HandlerInv
  <2> QED
    BY <1>1, <2>1 DEF AckInv, Told
<1>3. CASE HostInput \/ UNCHANGED cpuVars
  BY <1>1, <1>3 DEF HostInput, cpuVars, AckInv, Told
<1>4. CASE StartRun
  <2>1. cpu \in CpuState /\ irq \in SUBSET Lines
    BY DEF AckInv, HandlerInv, CpuInv, CpuTypeOK
  <2>2. cpu' = CheckInterrupts(cpu, irq) /\ code' = code
    BY <1>4 DEF StartRun
  <2>3. CASE SameControl(cpu, cpu') /\ (Told(cpu) => Told(cpu'))
    BY <1>1, <2>2, <2>3 DEF SameControl, AckInv, Told
  <2>4. CASE Enters(cpu', "ExternalInterrupt")
    BY <1>1, <2>2, <2>4 DEF Enters, AckInv, AcknowledgesLast
  <2> QED
    BY <2>1, <2>2, <2>3, <2>4, CheckTells
<1>5. CASE Cycle
  <2>1. code' = code
    BY <1>5 DEF Cycle, RunInstruction, TickInterrupt, FetchFault, Set, Inc, Compare, J, Jal,
                Jr, Jalr, Bf, Bnf, ConditionalBranch, Nop, Halt, Trap, Sys, Illegal, Rfe,
                Mtspr, Mfspr, Load, Store, DataFault, Access, Retire, Stop
  <2> DEFINE own == handler[code]
  <2>2. AckInv(own)'
    BY <1>1, <1>5, <2>1, AckCycle, ToldCycle
  <2> QED
    BY <2>1, <2>2
<1> QED
  BY <1>2, <1>3, <1>4, <1>5 DEF CpuNext

\* No edge is lost between the devices and the program, for kernels that end
\* the interrupt's handler by clearing the status of the controller: a line
\* that is asserted is remembered, or will be at the next look
\* (CheckInterrupts and the acknowledgement together).
THEOREM NoInterruptIsLost ==
    ASSUME NEW handler,
           \A image \in Programs :
               WellFormed(image) /\ AcknowledgesLast(image, handler[image])
    PROVE  CpuSpec => []NoInterruptLost
<1>1. CpuInit => AckInv(handler[code])
  <2> SUFFICES ASSUME CpuInit PROVE AckInv(handler[code])
    OBVIOUS
  <2>1. HandlerInv
    BY CpuInitHolds DEF HandlerInv, CpuInit, ResetState, Handling
  <2>2. cpu.serving = "none" /\ cpu.picsr = {}
    BY DEF CpuInit, ResetState
  <2> QED
    BY <2>1, <2>2 DEF AckInv, Told
<1>2. AckInv(handler[code]) /\ [CpuNext]_cpuVars => AckInv(handler[code])'
  <2>1. AckInv(handler[code]) => code \in Programs
    BY DEF AckInv, HandlerInv, CpuInv, CpuTypeOK
  <2> QED
    BY <2>1, AckStepHolds
<1>3. AckInv(handler[code]) => NoInterruptLost
  BY DEF AckInv, Told, NoInterruptLost
<1> QED
  BY <1>1, <1>2, <1>3, PTL DEF CpuSpec

(***************************************************************************)
(* Exceptions are invisible to the interrupted program: the core           *)
(* implements UserProgram, for every image that keeps the conventions of   *)
(* the architecture (WellFormed) and whose program stays in its own code.  *)
(***************************************************************************)
-----------------------------------------------------------------------------
(* The program the core runs, in a state of the core.                       *)

\* What the methods that are no exception leave to the program.
SameProgram(s, t) == SameControl(s, t) /\ t.reg = s.reg

\* The position of the program, as UserProgram has it.
UserAt     == IF Handling THEN cpu.epcr0 ELSE cpu.pc
UserSlot   == ~Handling /\ cpu.in_delay_slot
UserTarget == IF UserSlot THEN cpu.delayed_next_pc ELSE 0

\* The flag the program has.
UserFlag == "F" \in (IF Handling THEN cpu.esr0 ELSE cpu.sr)

\* Nothing the program sees has changed.
Stutters == UNCHANGED <<code, IF Handling THEN cpu.epcr0 ELSE cpu.pc,
                        ~Handling /\ cpu.in_delay_slot,
                        IF ~Handling /\ cpu.in_delay_slot THEN cpu.delayed_next_pc ELSE 0,
                        UserFlag, cpu.reg>>

\* A branch in memory is behind the delay slot of the program.
SlotKnown == ~Handling /\ cpu.in_delay_slot => cpu.pc - 1 \in DOMAIN code

\* Only a simulator that was not stopped is within a slice.
ProgramInv == HandlerInv /\ SlotKnown /\ (left > 0 => running)

\* The program is about to run an instruction of its own.
InProgram ==
    /\ WellFormed(code) /\ ProgramInv
    /\ ~Handling
    /\ cpu.pc \in DOMAIN code /\ ~InHandlers(cpu.pc)

\* What a step has to be.
Follows == (User!UserNext \/ Stutters) /\ SlotKnown'

\* The program has not gone on, unless it is in a slot.
Stays == UserSlot \/ UserAt' = UserAt

\* An unchanged program is an unchanged state of UserProgram.
LEMMA StutterIsStutter == Stutters => UNCHANGED User!userVars /\ Stays
BY DEF Stutters, Stays, UserFlag, UserAt, User!userVars

-----------------------------------------------------------------------------
(* The methods of the core, as the program sees them.                       *)

\* The timer is nothing the program sees.
LEMMA TickedSame == ASSUME CpuInv PROVE Ticked \in CpuState /\ SameProgram(cpu, Ticked)
BY TickedOK DEF Good, SameProgram, SameControl

\* An exception saves where the program is, in a slot its branch, and its flag.
LEMMA ThrowSaves ==
    ASSUME NEW s \in CpuState, NEW e \in Exception, NEW ea
    PROVE  LET t == ThrowException(s, e, ea) IN
           /\ t.serving = e /\ t.serving # "none"
           /\ t.epcr0 = IF s.in_delay_slot THEN s.pc - 1 ELSE s.pc
           /\ ("F" \in t.esr0) = ("F" \in s.sr)
           /\ t.reg = s.reg
<1>1. "none" \notin Exception
  BY DEF Exception, exceptionHandlers
<1>2. ThrowException(s, e, ea).serving = e
  BY DEF ThrowException, CpuState
<1>3. ThrowException(s, e, ea).epcr0 = IF s.in_delay_slot THEN s.pc - 1 ELSE s.pc
  BY DEF ThrowException, ResumePC, CpuState
<1>4. ("F" \in ThrowException(s, e, ea).esr0) = ("F" \in s.sr)
  BY DEF ThrowException, CpuState
<1>5. ThrowException(s, e, ea).reg = s.reg
  BY DEF ThrowException, CpuState
<1> QED
  BY <1>1, <1>2, <1>3, <1>4, <1>5

\* The program is where it was, or at the branch of its slot (ThrowException).
LEMMA ThrowIsInvisible ==
    ASSUME ~Handling, code' = code, NEW s \in CpuState, SameProgram(cpu, s),
           NEW e \in Exception, NEW ea, NEW t,
           t = ThrowException(s, e, ea),
           /\ cpu'.serving = t.serving /\ cpu'.epcr0 = t.epcr0
           /\ cpu'.esr0 = t.esr0 /\ cpu'.reg = t.reg
    PROVE  Follows /\ Stays
<1>1. /\ Handling'
      /\ cpu'.epcr0 = IF cpu.in_delay_slot THEN cpu.pc - 1 ELSE cpu.pc
      /\ ("F" \in cpu'.esr0) = ("F" \in cpu.sr)
      /\ cpu'.reg = cpu.reg
  BY ThrowSaves DEF SameProgram, SameControl, Handling
<1>2. SlotKnown'
  BY <1>1 DEF SlotKnown
<1>3. CASE cpu.in_delay_slot
  <2>1. User!RestartBranch
    BY <1>1, <1>3 DEF User!RestartBranch
  <2> QED
    BY <1>2, <1>3, <2>1 DEF Follows, User!UserNext, Stays, UserSlot
<1>4. CASE ~cpu.in_delay_slot
  <2>1. Stutters
    BY <1>1, <1>4 DEF Stutters, UserFlag
  <2> QED
    BY <1>2, <2>1, StutterIsStutter DEF Follows
<1> QED
  BY <1>3, <1>4

\* Going on is going on in the program, to the target of a branch after its
\* slot (IncrementPC).
LEMMA IncrementAdvances ==
    ASSUME ~Handling, code' = code, NEW s \in CpuState,
           s.pc = cpu.pc, s.in_delay_slot = cpu.in_delay_slot,
           s.delayed_next_pc = cpu.delayed_next_pc, s.serving = cpu.serving,
           cpu' = IncrementPC(s)
    PROVE  /\ User!Advance /\ SlotKnown'
           /\ UserFlag' = ("F" \in s.sr) /\ cpu'.reg = s.reg
<1>1. /\ cpu'.serving = "none" /\ ~cpu'.in_delay_slot
      /\ cpu'.pc = IF cpu.in_delay_slot THEN cpu.delayed_next_pc ELSE cpu.pc + 1
      /\ cpu'.sr = s.sr /\ cpu'.reg = s.reg
  BY DEF IncrementPC, CpuState, Handling
<1>2. ~Handling'
  BY <1>1 DEF Handling
<1> QED
  BY <1>1, <1>2 DEF User!Advance, SlotKnown, UserFlag

\* A branch opens its slot (Jump).
LEMMA JumpOpens ==
    ASSUME ~Handling, NEW s \in CpuState, NEW next_pc,
           s.pc = cpu.pc, s.serving = cpu.serving, cpu' = Jump(s, next_pc)
    PROVE  /\ ~Handling' /\ cpu'.in_delay_slot /\ cpu'.pc = cpu.pc + 1
           /\ cpu'.delayed_next_pc = next_pc
           /\ cpu'.sr = s.sr /\ cpu'.reg = s.reg
BY DEF Jump, CpuState, Handling

-----------------------------------------------------------------------------
(* The program's instructions.                                              *)

\* The instruction the core runs is the program's.
LEMMA ProgramInstruction ==
    ASSUME InProgram
    PROVE  /\ Instruction = code[cpu.pc] /\ User!Instr = Instruction
           /\ IsInstruction(Instruction) /\ CpuInv /\ cpu \in CpuState
           /\ SlotIsPlain(code) /\ ProgramIsOrdinary(code)
<1>1. Instruction = code[cpu.pc]
  BY DEF InProgram, Instruction, InstructionAt
<1>2. User!Instr = Instruction
  BY <1>1 DEF InProgram, User!Instr
<1>3. CpuInv /\ cpu \in CpuState
  BY DEF InProgram, ProgramInv, HandlerInv, CpuInv, CpuTypeOK
<1> QED
  BY <1>1, <1>2, <1>3, InstructionType DEF CpuInv, InProgram, WellFormed

\* A slot holds none of the instructions that would lose its branch.
LEMMA SlotHoldsPlain ==
    ASSUME InProgram, cpu.in_delay_slot
    PROVE  /\ Instruction.op \notin Branches \cup {"sys", "rfe", "illegal"}
           /\ Instruction.op = "mtspr" => Instruction.spr # "SR"
<1>1. InstructionAt(cpu.pc - 1).op \in Branches /\ cpu.pc \in Nat
  BY ProgramInstruction DEF CpuInv, DelaySlotFollowsBranch, CpuState
<1>2. cpu.pc - 1 \in DOMAIN code
  BY DEF InProgram, ProgramInv, SlotKnown
<1>3. code[cpu.pc - 1].op \in Branches
  BY <1>1, <1>2 DEF InstructionAt
<1>4. (cpu.pc - 1) + 1 = cpu.pc
  BY <1>1
<1> QED
  BY <1>2, <1>3, <1>4, ProgramInstruction DEF SlotIsPlain

\* An instruction in sequence that changes neither flag nor registers.
LEMMA PlainStep ==
    ASSUME InProgram, code' = code,
           Instruction.op \in {"nop", "store", "trap", "halt"},
           cpu' = IncrementPC(Ticked)
    PROVE  Follows
<1>1. CpuInv /\ User!Instr = Instruction /\ ~Handling
  BY ProgramInstruction DEF InProgram
<1>2. Ticked \in CpuState /\ SameProgram(cpu, Ticked)
  BY <1>1, TickedSame
<1>3. User!Advance /\ SlotKnown' /\ UserFlag' = ("F" \in cpu.sr) /\ cpu'.reg = cpu.reg
  BY <1>1, <1>2, IncrementAdvances DEF SameProgram, SameControl
<1>4. User!Effect
  BY <1>1, <1>3 DEF User!Effect, UserFlag
<1> QED
  BY <1>3, <1>4 DEF Follows, User!UserNext, User!Step

\* An instruction in sequence that writes a register.
LEMMA RegisterStep ==
    ASSUME InProgram, code' = code, NEW d \in Reg, NEW value \in Nat,
           cpu' = IncrementPC(SetReg(Ticked, d, value)),
           d = Instruction.d,
           \/ Instruction.op = "set" /\ value = Instruction.k
           \/ Instruction.op = "inc" /\ value = (cpu.reg[d] + 1) % WordMod
           \/ Instruction.op \in {"load", "mfspr"}
    PROVE  Follows
<1>1. CpuInv /\ User!Instr = Instruction /\ ~Handling /\ cpu \in CpuState
  BY ProgramInstruction DEF InProgram
<1>2. Ticked \in CpuState /\ SameProgram(cpu, Ticked)
  BY <1>1, TickedSame
<1> DEFINE s == SetReg(Ticked, d, value)
<1>3. s \in CpuState /\ SameControl(Ticked, s)
  BY <1>2, SetRegType, SetRegKeeps
<1>4. s.reg = [cpu.reg EXCEPT ![d] = value]
  BY <1>2 DEF SetReg, CpuState, SameProgram
<1> HIDE DEF s
<1>5. /\ User!Advance /\ SlotKnown' /\ UserFlag' = ("F" \in cpu.sr)
      /\ cpu'.reg = [cpu.reg EXCEPT ![d] = value]
  <2>1. cpu' = IncrementPC(s)
    BY DEF s
  <2> QED
    BY <1>1, <1>2, <1>3, <1>4, <2>1, IncrementAdvances DEF SameProgram, SameControl
<1>6. cpu'.reg[d] = value
  BY <1>1, <1>5 DEF CpuState
<1>7. UserFlag' = UserFlag
  BY <1>1, <1>5 DEF UserFlag
<1>8. User!Effect
  BY <1>1, <1>5, <1>6, <1>7 DEF User!Effect, User!Assign, User!Write, UserFlag
<1> QED
  BY <1>5, <1>8 DEF Follows, User!UserNext, User!Step

\* Arithmetic and loads run as the program's.
LEMMA RegisterSteps ==
    ASSUME InProgram, code' = code, Set \/ Inc \/ Mfspr \/ Load
    PROVE  Follows
<1>1. IsInstruction(Instruction) /\ CpuInv /\ cpu \in CpuState
  BY ProgramInstruction
<1>2. Ticked \in CpuState
  BY <1>1, TickedSame
<1>3. CASE Set
  <2>1. Instruction.d \in Reg /\ Instruction.k \in Nat /\ Instruction.op = "set"
    BY <1>1, <1>3 DEF Set, Runs, IsInstruction
  <2> QED
    BY <1>3, <2>1, RegisterStep DEF Set, Retire
<1>4. CASE Inc
  <2>1. Instruction.d \in Reg /\ Instruction.op = "inc"
    BY <1>1, <1>4 DEF Inc, Runs, IsInstruction
  <2>2. (cpu.reg[Instruction.d] + 1) % WordMod \in Nat
    BY <1>1, <2>1, CpuAssumption DEF CpuState
  <2> QED
    BY <1>4, <2>1, <2>2, RegisterStep DEF Inc, Retire
<1>5. CASE Mfspr
  <2>1. /\ Instruction.d \in Reg /\ Instruction.op = "mfspr"
        /\ Instruction.spr \in {"EPCR0", "EEAR0", "TTCR"}
    BY <1>1, <1>5 DEF Mfspr, Runs, IsInstruction
  <2>2. SpReg(Ticked, Instruction.spr) \in Nat
    BY <1>2, <2>1, CpuAssumption DEF SpReg, CpuState
  <2> QED
    BY <1>5, <2>1, <2>2, RegisterStep DEF Mfspr, Retire
<1>6. CASE Load
  <2>1. Instruction.d \in Reg /\ Instruction.op = "load"
    BY <1>1, <1>6 DEF Load, Runs, IsInstruction
  <2>2. PICK value \in 0 .. WordMod - 1 : Access(SetReg(Ticked, Instruction.d, value))
    BY <1>6 DEF Load
  <2>3. value \in Nat
    BY CpuAssumption
  <2> QED
    BY <2>1, <2>2, <2>3, RegisterStep DEF Access
<1> QED
  BY <1>3, <1>4, <1>5, <1>6

\* So do the comparison, and what changes nothing.
LEMMA SequenceSteps ==
    ASSUME InProgram, code' = code, Compare \/ Nop \/ Halt \/ Trap \/ Store
    PROVE  Follows
<1>1. CpuInv /\ cpu \in CpuState /\ User!Instr = Instruction /\ ~Handling
  BY ProgramInstruction DEF InProgram
<1>2. Ticked \in CpuState /\ SameProgram(cpu, Ticked)
  BY <1>1, TickedSame
<1>3. CASE Nop \/ Trap \/ Store
  BY <1>3, PlainStep DEF Nop, Trap, Store, Runs, Retire, Stop, Access
<1>4. CASE Halt
  <2>1. cpu' = Ticked \/ (cpu' = IncrementPC(Ticked) /\ Instruction.op = "halt")
    BY <1>4 DEF Halt, Runs, Retire, Stop
  <2>2. CASE cpu' = Ticked
    <3>1. SameProgram(cpu, cpu')
      BY <1>2, <2>2
    <3>2. SlotKnown'
      BY <3>1 DEF SameProgram, SameControl, SlotKnown, Handling, InProgram, ProgramInv
    <3>3. Stutters
      BY <3>1 DEF SameProgram, SameControl, Stutters, UserFlag, Handling
    <3> QED
      BY <3>2, <3>3 DEF Follows
  <2> QED
    BY <2>1, <2>2, PlainStep
<1>5. CASE Compare
  <2> DEFINE s == SetCompareFlag(Ticked, cpu.reg[Instruction.a] = Instruction.k)
  <2>1. Instruction.op = "sf" /\ cpu' = IncrementPC(s)
    BY <1>5 DEF Compare, Runs, Retire
  <2>2. s \in CpuState /\ KeepsSaved(Ticked, s)
        /\ s.pc = Ticked.pc /\ s.in_delay_slot = Ticked.in_delay_slot
        /\ s.delayed_next_pc = Ticked.delayed_next_pc
    BY <1>2, SetCompareFlagType, SetCompareFlagKeeps
  <2>3. ("F" \in s.sr) = (cpu.reg[Instruction.a] = Instruction.k)
    BY <1>2 DEF SetCompareFlag, CpuState
  <2>4. s.reg = cpu.reg
    BY <1>2 DEF SetCompareFlag, CpuState, SameProgram
  <2> HIDE DEF s
  <2>5. /\ User!Advance /\ SlotKnown' /\ cpu'.reg = cpu.reg
        /\ UserFlag' = (cpu.reg[Instruction.a] = Instruction.k)
    BY <1>1, <1>2, <2>1, <2>2, <2>3, <2>4, IncrementAdvances
       DEF KeepsSaved, SameProgram, SameControl
  <2>6. User!Effect
    BY <1>1, <2>1, <2>5 DEF User!Effect, User!SetFlag, UserFlag
  <2> QED
    BY <2>5, <2>6 DEF Follows, User!UserNext, User!Step
<1> QED
  BY <1>3, <1>4, <1>5

\* A branch opens its slot, with the link register written, or falls through.
LEMMA BranchSteps ==
    ASSUME InProgram, code' = code, J \/ Jal \/ Jr \/ Jalr \/ Bf \/ Bnf
    PROVE  Follows
<1>1. /\ CpuInv /\ cpu \in CpuState /\ User!Instr = Instruction /\ ~Handling
      /\ cpu.pc \in DOMAIN code
  BY ProgramInstruction DEF InProgram
<1>2. Ticked \in CpuState /\ SameProgram(cpu, Ticked)
  BY <1>1, TickedSame
<1>3. ~cpu.in_delay_slot
  BY SlotHoldsPlain DEF J, Jal, Jr, Jalr, Bf, Bnf, ConditionalBranch, Runs, Branches
<1>4. ASSUME NEW s \in CpuState, SameControl(cpu, s), NEW next_pc, cpu' = Jump(s, next_pc),
             User!Taken, s.reg = User!Linked,
             next_pc = IF Instruction.op \in {"jr", "jalr"}
                       THEN User!Linked[Instruction.a] ELSE Instruction.k
      PROVE  Follows
  <2>1. /\ ~Handling' /\ cpu'.in_delay_slot /\ cpu'.pc = cpu.pc + 1
        /\ cpu'.delayed_next_pc = next_pc /\ cpu'.sr = cpu.sr /\ cpu'.reg = s.reg
    BY <1>1, <1>4, JumpOpens DEF SameControl
  <2>2. cpu'.pc - 1 = cpu.pc
    BY <1>1, <2>1 DEF CpuState
  <2>3. SlotKnown'
    BY <1>1, <2>2 DEF SlotKnown
  <2>4. User!OpenSlot
    BY <1>1, <1>3, <1>4, <2>1 DEF User!OpenSlot
  <2> QED
    BY <2>3, <2>4 DEF Follows, User!UserNext
<1>5. CASE J \/ Jr
  <2>1. /\ Instruction.op \in {"j", "jr"}
        /\ cpu' = Jump(Ticked, IF Instruction.op = "jr" THEN cpu.reg[Instruction.a]
                                                        ELSE Instruction.k)
    BY <1>5 DEF J, Jr, Runs, Retire
  <2>2. User!Taken /\ User!Linked = cpu.reg
    BY <1>1, <2>1 DEF User!Taken, User!Linked
  <2> QED
    BY <1>2, <1>4, <2>1, <2>2 DEF SameProgram
<1>6. CASE Jal \/ Jalr
  <2> DEFINE s == Link(Ticked)
  <2>1. Ticked.pc + 2 \in Nat /\ Ticked.pc = cpu.pc /\ 9 \in Reg
    BY <1>2, CpuAssumption DEF CpuState, SameProgram, SameControl
  <2>2. s \in CpuState /\ SameControl(Ticked, s)
    BY <1>2, <2>1, SetRegType, SetRegKeeps DEF Link
  <2>3. s.reg = [cpu.reg EXCEPT ![9] = cpu.pc + 2]
    BY <1>2, <2>1 DEF Link, SetReg, CpuState, SameProgram
  <2>4. Link(cpu).reg = [cpu.reg EXCEPT ![9] = cpu.pc + 2]
    BY <1>1 DEF Link, SetReg, CpuState
  <2>5. /\ Instruction.op \in {"jal", "jalr"}
        /\ cpu' = Jump(s, IF Instruction.op = "jalr" THEN Link(cpu).reg[Instruction.a]
                                                     ELSE Instruction.k)
    BY <1>6 DEF Jal, Jalr, Runs, Retire
  <2> HIDE DEF s
  <2>6. User!Taken /\ User!Linked = s.reg
    BY <1>1, <2>3, <2>5 DEF User!Taken, User!Linked
  <2>7. SameControl(cpu, s)
    BY <1>2, <2>2 DEF SameProgram, SameControl
  <2> QED
    BY <1>4, <2>2, <2>3, <2>4, <2>5, <2>6, <2>7
<1>7. CASE Bf \/ Bnf
  <2>1. /\ Instruction.op \in {"bf", "bnf"}
        /\ cpu' = IF Instruction.op = "bf" <=> "F" \in cpu.sr
                  THEN Jump(Ticked, Instruction.k) ELSE IncrementPC(Ticked)
    BY <1>7 DEF Bf, Bnf, ConditionalBranch, Runs, Retire
  <2>2. User!Taken <=> (Instruction.op = "bf" <=> "F" \in cpu.sr)
    BY <1>1, <2>1 DEF User!Taken
  <2>3. User!Linked = cpu.reg
    BY <1>1, <2>1 DEF User!Linked
  <2>4. CASE User!Taken
    BY <1>2, <1>4, <2>1, <2>2, <2>3, <2>4 DEF SameProgram
  <2>5. CASE ~User!Taken
    <3>1. cpu' = IncrementPC(Ticked)
      BY <2>1, <2>2, <2>5
    <3>2. User!Advance /\ SlotKnown' /\ UserFlag' = ("F" \in cpu.sr) /\ cpu'.reg = cpu.reg
      BY <1>1, <1>2, <3>1, IncrementAdvances DEF SameProgram, SameControl
    <3>3. User!FallThrough
      BY <1>1, <2>1, <2>5, <3>2 DEF User!FallThrough, UserFlag
    <3> QED
      BY <3>2, <3>3 DEF Follows, User!UserNext
  <2> QED
    BY <2>4, <2>5
<1> QED
  BY <1>5, <1>6, <1>7

\* The exceptions of an instruction, and of what comes before it, restart it.
LEMMA FaultSteps ==
    ASSUME InProgram, code' = code, TickInterrupt \/ FetchFault \/ DataFault \/ Illegal
    PROVE  Follows /\ Stays
<1>1. CpuInv /\ ~Handling /\ IsInstruction(Instruction)
  BY ProgramInstruction DEF InProgram
<1>2. Ticked \in CpuState /\ SameProgram(cpu, Ticked)
  BY <1>1, TickedSame
<1>3. {"TickTimerInterrupt", "ITLBMiss", "InstructionPageFault", "BusError", "Alignment",
       "DTLBMiss", "DataPageFault", "IllegalInstruction"} \subseteq Exception
  BY DEF Exception, exceptionHandlers
<1>4. ASSUME NEW e \in Exception, NEW ea, cpu' = ThrowException(Ticked, e, ea)
      PROVE  Follows /\ Stays
  BY <1>1, <1>2, <1>4, ThrowIsInvisible
<1>5. CASE TickInterrupt
  BY <1>3, <1>4, <1>5 DEF TickInterrupt
<1>6. CASE FetchFault
  BY <1>3, <1>4, <1>6 DEF FetchFault
<1>7. CASE Illegal
  BY <1>3, <1>4, <1>7 DEF Illegal, Retire
<1>8. CASE DataFault
  <2>1. PICK e \in DataFaults : cpu' = ThrowException(Ticked, e, Instruction.ea)
    BY <1>8 DEF DataFault, Retire
  <2>2. Instruction.op \in {"load", "store"}
    BY <1>8 DEF DataFault, Runs
  <2>3. e \in Exception
    BY <1>1, <1>3, <2>1, <2>2 DEF DataFaults, IsInstruction
  <2> QED
    BY <1>4, <2>1, <2>3
<1> QED
  BY <1>5, <1>6, <1>7, <1>8

\* A system call is over when its handler starts.
LEMMA SysSteps ==
    ASSUME InProgram, code' = code, Sys
    PROVE  Follows
<1>1. CpuInv /\ ~Handling /\ User!Instr = Instruction /\ cpu \in CpuState
  BY ProgramInstruction DEF InProgram
<1>2. Ticked \in CpuState /\ SameProgram(cpu, Ticked)
  BY <1>1, TickedSame
<1>3. Instruction.op = "sys" /\ ~cpu.in_delay_slot
  BY SlotHoldsPlain DEF Sys, Runs
<1> DEFINE s == [Ticked EXCEPT !.pc = @ + 1]
<1>4. /\ s \in CpuState /\ s.pc = cpu.pc + 1 /\ ~s.in_delay_slot
      /\ s.sr = cpu.sr /\ s.reg = cpu.reg
  BY <1>2, <1>3 DEF CpuState, SameProgram, SameControl
<1>5. cpu' = ThrowException(s, "SystemCall", 0)
  BY DEF Sys, Retire
<1>6. "SystemCall" \in Exception
  BY DEF Exception, exceptionHandlers
<1> HIDE DEF s
<1>7. /\ Handling' /\ cpu'.epcr0 = cpu.pc + 1 /\ ("F" \in cpu'.esr0) = ("F" \in cpu.sr)
      /\ cpu'.reg = cpu.reg
  BY <1>4, <1>5, <1>6, ThrowSaves DEF Handling
<1>8. User!Advance /\ SlotKnown'
  BY <1>1, <1>3, <1>7 DEF User!Advance, SlotKnown
<1>9. User!Effect
  BY <1>1, <1>3, <1>7 DEF User!Effect
<1> QED
  BY <1>8, <1>9 DEF Follows, User!UserNext, User!Step

\* A special register is no business of the program, but for its flag in SR.
LEMMA SetSpRegSame ==
    ASSUME NEW s \in CpuState, NEW spr, NEW value, spr \notin {"EPCR0", "ESR0"}
    PROVE  LET t == SetSpReg(s, spr, value) IN
           /\ t.pc = s.pc /\ t.in_delay_slot = s.in_delay_slot
           /\ t.delayed_next_pc = s.delayed_next_pc
           /\ t.serving = s.serving /\ t.reg = s.reg
           /\ spr # "SR" => SameProgram(s, t)
           /\ spr = "SR" => t.sr = value
<1>1. CASE spr = "SR"
  BY <1>1 DEF SetSpReg, CpuState
<1>2. CASE spr # "SR"
  BY <1>2 DEF SetSpReg, CpuState, SameProgram, SameControl
<1> QED
  BY <1>1, <1>2

\* A write to a special register, repeated where a tick was pending.
LEMMA MtsprSteps ==
    ASSUME InProgram, code' = code, Mtspr
    PROVE  Follows
<1>1. /\ CpuInv /\ ~Handling /\ User!Instr = Instruction /\ cpu \in CpuState
      /\ cpu.pc \in DOMAIN code /\ ~InHandlers(cpu.pc) /\ Instruction = code[cpu.pc]
      /\ IsInstruction(Instruction) /\ ProgramIsOrdinary(code)
  BY ProgramInstruction DEF InProgram, Instruction, InstructionAt
<1>2. Ticked \in CpuState /\ SameProgram(cpu, Ticked)
  BY <1>1, TickedSame
<1> DEFINE spr == Instruction.spr
           value == Instruction.value
           s == SetSpReg(Ticked, spr, value)
<1>3. Instruction.op = "mtspr" /\ spr \notin {"EPCR0", "ESR0"} /\ value \in SprValues(spr)
  BY <1>1 DEF Mtspr, Runs, ProgramIsOrdinary, IsInstruction
<1>4. s \in CpuState
  BY <1>2, <1>3, SetSpRegType
<1>5. cpu' = IF s.ttmr.ip /\ "TEE" \in s.sr
             THEN ThrowException(s, "TickTimerInterrupt", 0) ELSE IncrementPC(s)
  BY DEF Mtspr, Retire
<1>6. "TickTimerInterrupt" \in Exception
  BY DEF Exception, exceptionHandlers
<1>7. /\ s.pc = cpu.pc /\ s.in_delay_slot = cpu.in_delay_slot
      /\ s.delayed_next_pc = cpu.delayed_next_pc
      /\ s.serving = cpu.serving /\ s.reg = cpu.reg
      /\ spr # "SR" => SameProgram(cpu, s)
      /\ spr = "SR" => s.sr = value
  BY <1>2, <1>3, SetSpRegSame DEF SameProgram, SameControl
<1>8. ("F" \in s.sr) = (IF spr = "SR" THEN "F" \in value ELSE "F" \in cpu.sr)
  BY <1>7 DEF SameProgram, SameControl
<1> HIDE DEF s
<1>9. CASE cpu' = IncrementPC(s)
  <2>1. User!Advance /\ SlotKnown' /\ UserFlag' = ("F" \in s.sr) /\ cpu'.reg = cpu.reg
    BY <1>1, <1>4, <1>7, <1>9, IncrementAdvances
  <2>2. User!Effect
    BY <1>1, <1>3, <1>8, <2>1 DEF User!Effect, User!SetFlag, UserFlag
  <2> QED
    BY <2>1, <2>2 DEF Follows, User!UserNext, User!Step
<1>10. CASE cpu' = ThrowException(s, "TickTimerInterrupt", 0)
  <2>1. CASE spr # "SR"
    BY <1>1, <1>4, <1>6, <1>7, <1>10, <2>1, ThrowIsInvisible
  <2>2. CASE spr = "SR"
    <3>1. ~cpu.in_delay_slot
      BY <1>3, <2>2, SlotHoldsPlain
    <3>2. /\ Handling' /\ cpu'.epcr0 = cpu.pc /\ ("F" \in cpu'.esr0) = ("F" \in value)
          /\ cpu'.reg = cpu.reg
      BY <1>4, <1>6, <1>7, <1>8, <1>10, <2>2, <3>1, ThrowSaves DEF Handling
    <3>3. SlotKnown'
      BY <3>2 DEF SlotKnown
    <3>4. User!RepeatWrite
      BY <1>1, <1>3, <2>2, <3>1, <3>2 DEF User!RepeatWrite, User!SetFlag
    <3> QED
      BY <3>3, <3>4 DEF Follows, User!UserNext
  <2> QED
    BY <2>1, <2>2
<1> QED
  BY <1>5, <1>9, <1>10

\* Only the loader changes the image.
LEMMA CycleKeepsCode == Cycle => code' = code
BY DEF Cycle, RunInstruction, TickInterrupt, FetchFault, Set, Inc, Compare, J, Jal,
       Jr, Jalr, Bf, Bnf, ConditionalBranch, Nop, Halt, Trap, Sys, Illegal, Rfe,
       Mtspr, Mfspr, Load, Store, DataFault, Access, Retire, Stop

\* A cycle of the program is a step of it, or an exception it does not see.
LEMMA ProgramCycle ==
    ASSUME InProgram, Cycle
    PROVE  Follows
<1>1. code' = code
  BY CycleKeepsCode
<1>2. ~Rfe
  BY ProgramInstruction DEF InProgram, Instruction, InstructionAt, ProgramIsOrdinary, Rfe, Runs
<1> QED
  BY <1>1, <1>2, RegisterSteps, SequenceSteps, BranchSteps, FaultSteps, SysSteps, MtsprSteps
     DEF Cycle, RunInstruction

-----------------------------------------------------------------------------
(* The handlers, the host and the theorem.                                  *)

\* An instruction that a handler may have leaves the registers alone.
LEMMA HandlerKeepsRegisters ==
    ASSUME WellFormed(code), HandlerInv, Handling, Cycle
    PROVE  cpu'.reg = cpu.reg
<1>1. Ticked \in CpuState /\ SameProgram(cpu, Ticked)
  BY TickedSame DEF HandlerInv
<1>2. "TEE" \notin cpu.sr /\ "DME" \notin cpu.sr /\ "IME" \notin cpu.sr
  BY DEF HandlerInv, InHandler
<1>3. /\ Instruction.op \in {"nop", "sf", "store", "mtspr", "rfe", "j", "bf", "bnf"}
      /\ Instruction.op = "store" => Instruction.faults \subseteq {"DTLBMiss", "DataPageFault"}
      /\ Instruction.op = "mtspr" => Instruction.spr \in {"PICMR", "PICSR", "TTMR", "TTCR"}
  BY HandlerInstruction
<1>4. ASSUME NEW s \in CpuState, s.reg = cpu.reg
      PROVE  /\ IncrementPC(s).reg = cpu.reg
             /\ \A target : Jump(s, target).reg = cpu.reg
  BY <1>4 DEF IncrementPC, Jump, CpuState
<1>5. ~TickInterrupt /\ ~FetchFault
  BY <1>2 DEF TickInterrupt, FetchFault
<1>6. CASE J \/ Bf \/ Bnf
  BY <1>1, <1>4, <1>6 DEF J, Bf, Bnf, ConditionalBranch, Retire, SameProgram
<1>7. CASE Nop \/ Store
  BY <1>1, <1>4, <1>7 DEF Nop, Store, Retire, Access, SameProgram
<1>8. CASE Compare
  <2> DEFINE s == SetCompareFlag(Ticked, cpu.reg[Instruction.a] = Instruction.k)
  <2>1. s \in CpuState
    BY <1>1, SetCompareFlagType
  <2>2. s.reg = cpu.reg
    BY <1>1 DEF SetCompareFlag, CpuState, SameProgram
  <2>3. cpu' = IncrementPC(s)
    BY <1>8 DEF Compare, Retire
  <2> HIDE DEF s
  <2> QED
    BY <1>4, <2>1, <2>2, <2>3
<1>9. CASE Rfe
  BY <1>1, <1>9 DEF Rfe, Retire, CpuState, SameProgram
<1>10. CASE Mtspr
  <2> DEFINE s == SetSpReg(Ticked, Instruction.spr, Instruction.value)
  <2>1. Instruction.op = "mtspr" /\ Instruction.spr \in {"PICMR", "PICSR", "TTMR", "TTCR"}
    BY <1>3, <1>10 DEF Mtspr, Runs
  <2>2. IsInstruction(Instruction)
    BY InstructionType DEF HandlerInv, CpuInv
  <2>3. s \in CpuState
    BY <1>1, <2>1, <2>2, SetSpRegType DEF IsInstruction
  <2>4. SameProgram(Ticked, s)
    BY <1>1, <2>1, SetSpRegSame
  <2>5. cpu' = IF s.ttmr.ip /\ "TEE" \in s.sr
               THEN ThrowException(s, "TickTimerInterrupt", 0) ELSE IncrementPC(s)
    BY <1>10 DEF Mtspr, Retire
  <2> HIDE DEF s
  <2>6. cpu' = IncrementPC(s) /\ s.reg = cpu.reg
    BY <1>1, <1>2, <2>4, <2>5 DEF SameProgram, SameControl
  <2> QED
    BY <1>4, <2>3, <2>6
<1>11. ~DataFault
  BY <1>2, <1>3 DEF DataFault, DataFaults, Runs
<1>12. ~(Set \/ Inc \/ Jal \/ Jr \/ Jalr \/ Halt \/ Trap \/ Sys \/ Illegal \/ Mfspr \/ Load)
  BY <1>3 DEF Set, Inc, Jal, Jr, Jalr, Halt, Trap, Sys, Illegal, Mfspr, Load, Runs
<1> QED
  BY <1>5, <1>6, <1>7, <1>8, <1>9, <1>10, <1>11, <1>12 DEF Cycle, RunInstruction

\* What a handler returns to is what the exception saved (l.rfe).
LEMMA ReturnRestores ==
    ASSUME WellFormed(code), HandlerInv, Handling, Cycle, cpu'.serving = "none"
    PROVE  /\ cpu'.pc = cpu.epcr0 /\ cpu'.sr = cpu.esr0 /\ ~cpu'.in_delay_slot
<1>1. Ticked \in CpuState /\ cpu \in CpuState /\ SameProgram(cpu, Ticked)
  BY TickedSame DEF HandlerInv, CpuInv, CpuTypeOK
<1>2. Instruction.op = "rfe"
  BY HandlerMoves DEF Handling
<1>3. "TEE" \notin cpu.sr /\ "IME" \notin cpu.sr
  BY DEF HandlerInv, InHandler
<1>4. Rfe
  BY <1>2, <1>3 DEF Cycle, RunInstruction, TickInterrupt, FetchFault, Set, Inc, Compare, J, Jal,
     Jr, Jalr, Bf, Bnf, ConditionalBranch, Nop, Halt, Trap, Sys, Illegal, Mtspr, Mfspr, Load,
     Store, DataFault, Runs
<1> QED
  BY <1>1, <1>4 DEF Rfe, Retire, CpuState

\* A cycle of a handler is nothing the program sees.
LEMMA HandlerIsInvisible ==
    ASSUME WellFormed(code), HandlerInv, Handling, Cycle
    PROVE  Stutters /\ SlotKnown'
<1>1. code' = code /\ cpu'.reg = cpu.reg
  BY CycleKeepsCode, HandlerKeepsRegisters
<1>2. CASE cpu'.serving = "none"
  BY <1>1, <1>2, ReturnRestores DEF Handling, Stutters, UserFlag, SlotKnown
<1>3. CASE cpu'.serving # "none"
  <2>1. KeepsSaved(cpu, cpu')
    BY <1>3, HandlerCycle
  <2> QED
    BY <1>1, <1>3, <2>1 DEF Handling, KeepsSaved, Stutters, UserFlag, SlotKnown
<1> QED
  BY <1>2, <1>3

\* Nor is what leaves the core alone.
LEMMA SameIsInvisible ==
    ASSUME ProgramInv, code' = code, SameProgram(cpu, cpu')
    PROVE  Stutters /\ SlotKnown'
BY DEF ProgramInv, SameProgram, SameControl, Stutters, UserFlag, SlotKnown, Handling

\* The look at the lines starts a slice for the program, or its interrupt.
LEMMA StartIsInvisible ==
    ASSUME WellFormed(code), ProgramInv, StartRun
    PROVE  Follows /\ Stays
<1>1. /\ cpu \in CpuState /\ irq \in SUBSET Lines /\ HandlerInv
      /\ code' = code /\ cpu' = CheckInterrupts(cpu, irq)
  BY DEF ProgramInv, HandlerInv, CpuInv, CpuTypeOK, StartRun
<1> DEFINE s == SampleLines(cpu, irq)
           t == ThrowException(s, "ExternalInterrupt", 0)
<1>2. s \in CpuState
  BY <1>1, SampleType
<1>3. SameProgram(cpu, s)
  BY <1>1 DEF SampleLines, CpuState, SameProgram, SameControl
<1>4. "ExternalInterrupt" \in Exception
  BY DEF Exception, exceptionHandlers
<1>5. cpu' = s \/ ("IEE" \in s.sr /\ cpu' = [t EXCEPT !.pending_interrupt = FALSE])
  BY <1>1 DEF CheckInterrupts
<1>6. CASE cpu' = s
  BY <1>1, <1>3, <1>6, SameIsInvisible, StutterIsStutter DEF Follows
<1>7. CASE "IEE" \in s.sr /\ cpu' = [t EXCEPT !.pending_interrupt = FALSE]
  <2>1. DOMAIN t = DOMAIN s
    BY <1>2 DEF ThrowException, CpuState
  <2> HIDE DEF t
  <2>2. /\ cpu'.serving = t.serving /\ cpu'.epcr0 = t.epcr0
        /\ cpu'.esr0 = t.esr0 /\ cpu'.reg = t.reg
    BY <1>2, <1>7, <2>1 DEF CpuState
  <2>3. t = ThrowException(s, "ExternalInterrupt", 0) /\ t.serving # "none"
    BY <1>2, <1>4, ThrowSaves DEF t
  <2> HIDE DEF s
  <2>4. ~Handling
    BY <1>1, <1>3, <1>7 DEF HandlerInv, InHandler, SameProgram, SameControl
  <2> QED
    BY <1>1, <1>2, <1>3, <1>4, <2>2, <2>3, <2>4, ThrowIsInvisible
<1> QED
  BY <1>5, <1>6, <1>7

\* Every step of the core is one of the program, or invisible.
LEMMA CoreFollows ==
    ASSUME WellFormed(code), ProgramInv, ProgramStaysInPlace, [CpuNext]_cpuVars
    PROVE  (User!UserNext \/ UNCHANGED User!userVars) /\ ProgramInv'
<1>1. HandlerInv /\ HandlerInv'
  BY HandlerStepHolds DEF ProgramInv
<1>2. CASE Reload
  <2>1. /\ cpu'.pc = ResetVector /\ cpu'.reg = [r \in Reg |-> 0] /\ cpu'.sr = ResetSR
        /\ cpu'.serving = "none" /\ ~cpu'.in_delay_slot
    BY <1>2 DEF Reload, ResetState
  <2>2. "F" \notin ResetSR
    BY DEF ResetSR
  <2>3. User!Restart
    BY <1>2, <2>1, <2>2 DEF User!Restart, Reload, Handling
  <2>4. SlotKnown' /\ (left > 0 => running)'
    BY <1>2, <2>1 DEF SlotKnown, Reload
  <2> QED
    BY <1>1, <2>3, <2>4 DEF ProgramInv, User!UserNext
<1>3. (HostInput \/ StartRun \/ Cycle \/ UNCHANGED cpuVars) => (left > 0 => running)'
  BY SMT DEF ProgramInv, HostInput, StartRun, cpuVars, Cycle, RunInstruction, TickInterrupt,
         FetchFault, Fetching, Set, Inc, Compare, J, Jal, Jr, Jalr, Bf, Bnf,
         ConditionalBranch, Nop, Halt, Trap, Sys, Illegal, Rfe, Mtspr, Mfspr, Load, Store,
         DataFault, Access, Retire, Stop, Runs
<1>4. ASSUME Follows PROVE (User!UserNext \/ UNCHANGED User!userVars) /\ SlotKnown'
  BY <1>4, StutterIsStutter DEF Follows
<1>5. CASE HostInput \/ UNCHANGED cpuVars
  <2>1. SameProgram(cpu, cpu') /\ code' = code
    BY <1>5 DEF HostInput, cpuVars, SameProgram, SameControl
  <2> QED
    BY <1>1, <1>3, <1>4, <1>5, <2>1, SameIsInvisible DEF Follows, ProgramInv
<1>6. CASE StartRun
  BY <1>1, <1>3, <1>4, <1>6, StartIsInvisible DEF ProgramInv
<1>7. CASE Cycle
  <2>1. CASE Handling
    BY <1>1, <1>3, <1>4, <1>7, <2>1, HandlerIsInvisible DEF ProgramInv, Follows
  <2>2. CASE ~Handling
    <3>1. left > 0
      BY <1>7 DEF Cycle, RunInstruction, TickInterrupt, FetchFault, Fetching, Set, Inc,
             Compare, J, Jal, Jr, Jalr, Bf, Bnf, ConditionalBranch, Nop, Halt, Trap, Sys,
             Illegal, Rfe, Mtspr, Mfspr, Load, Store, DataFault, Runs
    <3>2. InProgram
      BY <2>2, <3>1 DEF InProgram, ProgramInv, ProgramStaysInPlace
    <3> QED
      BY <1>1, <1>3, <1>4, <1>7, <3>2, ProgramCycle DEF ProgramInv
  <2> QED
    BY <2>1, <2>2
<1> QED
  BY <1>2, <1>5, <1>6, <1>7 DEF CpuNext

\* A program that runs in its own code runs as if there were no exceptions,
\* under a kernel that keeps the conventions, as long as it does.
THEOREM InvisibleWhileInPlace ==
    ASSUME \A image \in Programs : WellFormed(image)
    PROVE  CpuSpec /\ []ProgramStaysInPlace => ExceptionsAreInvisible
<1>1. CpuInit => User!UserInit /\ ProgramInv
  <2> SUFFICES ASSUME CpuInit PROVE User!UserInit /\ ProgramInv
    OBVIOUS
  <2>1. "F" \notin ResetSR
    BY DEF ResetSR
  <2>2. User!UserInit
    BY <2>1 DEF User!UserInit, CpuInit, ResetState, Handling
  <2>3. ProgramInv
    BY CpuInitHolds DEF ProgramInv, HandlerInv, SlotKnown, CpuInit, ResetState, Handling
  <2> QED
    BY <2>2, <2>3
<1>2. ProgramInv /\ ProgramStaysInPlace /\ [CpuNext]_cpuVars =>
          [User!UserNext]_User!userVars /\ ProgramInv'
  <2>1. ProgramInv => WellFormed(code)
    BY DEF ProgramInv, HandlerInv, CpuInv, CpuTypeOK
  <2> QED
    BY <2>1, CoreFollows
<1> QED
  BY <1>1, <1>2, PTL DEF CpuSpec, ExceptionsAreInvisible, User!UserSpec

-----------------------------------------------------------------------------
(* The program does not leave its own code.                                 *)

\* The registers named hold addresses the program may jump to.
Hold(regs, map) == \A r \in regs : cpu.reg[r] \in map.entries

\* The program is at an address of its text, or in the slot of a branch there.
InText(map) ==
    IF UserSlot
    THEN LET branch == UserAt - 1
             here   == After(code[branch], map.holds[branch], map) IN
         /\ branch \in map.text /\ code[branch].op \in Branches
         /\ Hold(here, map)
         /\ LeadsTo(After(code[UserAt], here, map), UserTarget, map)
    ELSE UserAt \in map.text /\ Hold(map.holds[UserAt], map)

\* A simulator that was stopped may have run behind the program's trap.
TextInv(map) == ProgramInv /\ (running => InText(map))

\* The addresses of a text are numbers, and hold instructions.
LEMMA TextIsCode ==
    ASSUME NEW map, CpuInv, WellFormed(code), StaysInText(code, map), NEW a \in map.text
    PROVE  /\ a \in Nat /\ a \in DOMAIN code /\ ~InHandlers(a)
           /\ IsInstruction(code[a])
           /\ code[a].op \in Branches => a + 1 \in DOMAIN code /\ ~InHandlers(a + 1)
<1>1. a \in DOMAIN code /\ ~InHandlers(a)
  BY DEF StaysInText
<1>2. a \in Nat /\ IsInstruction(code[a])
  BY <1>1, ProgramsAssumption DEF CpuInv, CpuTypeOK
<1>3. code[a].op \in Branches => a + 1 \in DOMAIN code /\ ~InHandlers(a + 1)
  BY <1>1 DEF StaysInText, WellFormed, SlotIsPlain
<1> QED
  BY <1>1, <1>2, <1>3

\* So a program in its text is in its own code.
LEMMA TextIsOwn ==
    ASSUME NEW map, WellFormed(code), StaysInText(code, map), TextInv(map)
    PROVE  ProgramStaysInPlace
<1> SUFFICES ASSUME running, ~Handling
             PROVE  cpu.pc \in DOMAIN code /\ ~InHandlers(cpu.pc)
  BY DEF ProgramStaysInPlace
<1>1. CpuInv /\ InText(map) /\ cpu.pc \in Nat
  BY DEF TextInv, ProgramInv, HandlerInv, CpuInv, CpuTypeOK, CpuState
<1>2. CASE cpu.in_delay_slot
  <2>1. cpu.pc - 1 \in map.text /\ code[cpu.pc - 1].op \in Branches
    BY <1>1, <1>2 DEF InText, UserSlot, UserAt
  <2>2. (cpu.pc - 1) + 1 = cpu.pc
    BY <1>1
  <2> QED
    BY <1>1, <2>1, <2>2, TextIsCode
<1>3. CASE ~cpu.in_delay_slot
  BY <1>1, <1>3, TextIsCode DEF InText, UserSlot, UserAt
<1> QED
  BY <1>2, <1>3

\* What a register holds when an instruction in sequence has run.
LEMMA EffectHolds ==
    ASSUME NEW map, NEW regs, regs \subseteq Reg, CpuInv, Hold(regs, map),
           User!Effect, IsInstruction(User!Instr)
    PROVE  \A r \in After(User!Instr, regs, map) : cpu'.reg[r] \in map.entries
<1> DEFINE i == User!Instr
<1>1. cpu.reg \in [Reg -> Nat]
  BY DEF CpuInv, CpuTypeOK, CpuState
<1>2. CASE i.op = "set"
  <2>1. cpu'.reg = [cpu.reg EXCEPT ![i.d] = i.k] /\ i.d \in Reg
    BY <1>2 DEF User!Effect, User!Assign, IsInstruction
  <2> QED
    BY <1>1, <1>2, <2>1 DEF After, Hold
<1>3. CASE i.op = "inc"
  <2>1. /\ cpu'.reg = [cpu.reg EXCEPT ![i.d] = (cpu.reg[i.d] + 1) % WordMod]
        /\ i.d \in Reg
    BY <1>3 DEF User!Effect, User!Assign, IsInstruction
  <2> QED
    BY <1>1, <1>3, <2>1 DEF After, Hold
<1>4. CASE i.op \in {"load", "mfspr"}
  <2>1. cpu'.reg = [cpu.reg EXCEPT ![i.d] = cpu'.reg[i.d]] /\ i.d \in Reg
    BY <1>4 DEF User!Effect, User!Write, IsInstruction
  <2>2. \A r \in Reg : r # i.d => cpu'.reg[r] = cpu.reg[r]
    BY <1>1, <2>1
  <2> QED
    BY <1>4, <2>2 DEF After, Hold
<1>5. CASE i.op \in {"sf", "mtspr", "nop", "store", "sys", "trap", "halt"}
  <2>1. cpu'.reg = cpu.reg
    BY <1>5 DEF User!Effect, User!SetFlag
  <2>2. After(i, regs, map) = regs
    BY <1>5 DEF After
  <2> HIDE DEF i
  <2> QED
    BY <2>1, <2>2 DEF Hold, i
<1> QED
  BY <1>2, <1>3, <1>4, <1>5 DEF User!Effect

\* An instruction in sequence keeps the program in its text, whether the next
\* one is behind it or where the branch before it leads.
LEMMA StepInText ==
    ASSUME NEW map, CpuInv, WellFormed(code), StaysInText(code, map), InText(map),
           code' = code, User!Step, User!Instr.op = "trap" => UserSlot
    PROVE  InText(map)'
<1>1. cpu \in CpuState /\ map.holds \in [map.text -> SUBSET Reg]
  BY DEF CpuInv, CpuTypeOK, StaysInText
<1>2. /\ User!Instr = code[UserAt] /\ User!Effect /\ ~UserSlot'
      /\ UserAt' = IF UserSlot THEN UserTarget ELSE UserAt + 1
  BY DEF User!Step, User!Advance, User!Instr, UserAt, UserSlot, UserTarget
<1>3. CASE UserSlot
  <2> DEFINE branch == UserAt - 1
             here == After(code[branch], map.holds[branch], map)
             slot == After(code[UserAt], here, map)
  <2>1. /\ branch \in map.text /\ code[branch].op \in Branches /\ Hold(here, map)
        /\ LeadsTo(slot, UserTarget, map)
    BY <1>3 DEF InText
  <2>2. branch + 1 = UserAt
    BY <1>1, <1>3 DEF UserAt, UserSlot, CpuState
  <2>3. UserAt \in DOMAIN code /\ IsInstruction(code[UserAt])
    <3>1. UserAt \in DOMAIN code
      BY <2>1, <2>2, TextIsCode
    <3> QED
      BY <3>1, ProgramsAssumption DEF CpuInv, CpuTypeOK
  <2>4. here \subseteq Reg
    BY <1>1, <2>1, CpuAssumption DEF After, Branches
  <2> HIDE DEF here, branch
  <2>5. \A r \in slot : cpu'.reg[r] \in map.entries
    BY <1>2, <2>1, <2>3, <2>4, EffectHolds
  <2> HIDE DEF slot
  <2>6. UserAt' \in map.text /\ map.holds[UserAt'] \subseteq slot
    BY <1>2, <1>3, <2>1 DEF LeadsTo
  <2> QED
    BY <1>2, <2>5, <2>6 DEF InText, Hold
<1>4. CASE ~UserSlot
  <2> DEFINE here == After(code[UserAt], map.holds[UserAt], map)
  <2>1. UserAt \in map.text /\ Hold(map.holds[UserAt], map)
    BY <1>4 DEF InText
  <2>2. IsInstruction(code[UserAt]) /\ map.holds[UserAt] \subseteq Reg
    BY <1>1, <2>1, TextIsCode
  <2>3. code[UserAt].op \notin {"j", "jal", "jr", "jalr", "trap", "illegal"}
    BY <1>2, <1>4 DEF User!Effect
  <2>4. LeadsTo(here, UserAt + 1, map)
    BY <2>1, <2>3 DEF StaysInText
  <2>5. \A r \in here : cpu'.reg[r] \in map.entries
    BY <1>2, <2>1, <2>2, EffectHolds
  <2> HIDE DEF here
  <2>6. UserAt' \in map.text /\ map.holds[UserAt'] \subseteq here
    BY <1>2, <1>4, <2>4 DEF LeadsTo
  <2> QED
    BY <1>2, <2>5, <2>6 DEF InText, Hold
<1> QED
  BY <1>3, <1>4

\* A branch leads to its text, whether it is taken or not, and so does what
\* an exception makes the program repeat.
LEMMA BranchInText ==
    ASSUME NEW map, CpuInv, WellFormed(code), StaysInText(code, map), InText(map),
           code' = code,
           \/ User!OpenSlot \/ User!FallThrough
           \/ User!RestartBranch \/ User!RepeatWrite \/ UNCHANGED User!userVars
    PROVE  InText(map)'
<1>1. cpu \in CpuState /\ map.holds \in [map.text -> SUBSET Reg] /\ User!Instr = code[UserAt]
  BY DEF CpuInv, CpuTypeOK, StaysInText, User!Instr, UserAt
<1>2. CASE User!OpenSlot
  <2> DEFINE i == code[UserAt]
             here == After(i, map.holds[UserAt], map)
             slot == After(code[UserAt + 1], here, map)
  <2>1. /\ ~UserSlot /\ User!Taken /\ UserAt' = UserAt + 1 /\ UserSlot'
        /\ cpu'.reg = User!Linked
        /\ UserTarget' = IF i.op \in {"jr", "jalr"} THEN User!Linked[i.a] ELSE i.k
    BY <1>1, <1>2 DEF User!OpenSlot, UserAt, UserSlot, UserTarget
  <2>2. UserAt \in map.text /\ Hold(map.holds[UserAt], map)
    BY <2>1 DEF InText
  <2>3. UserAt \in Nat /\ IsInstruction(i) /\ map.holds[UserAt] \subseteq Reg
    BY <1>1, <2>2, TextIsCode
  <2>4. i.op \in Branches
    BY <1>1, <2>1 DEF User!Taken, Branches
  <2>5. \A r \in here : cpu'.reg[r] \in map.entries
    <3>1. CASE i.op \in {"jal", "jalr"}
      <4>1. cpu'.reg = [cpu.reg EXCEPT ![9] = UserAt + 2]
        BY <1>1, <2>1, <3>1 DEF User!Linked, UserAt
      <4>2. UserAt + 2 \in map.entries
        BY <2>2, <3>1 DEF StaysInText
      <4>3. here = map.holds[UserAt] \cup {9}
        BY <3>1 DEF After
      <4> HIDE DEF here, i
      <4>4. cpu.reg \in [Reg -> Nat]
        BY <1>1 DEF CpuState
      <4> QED
        BY <2>2, <2>3, <4>1, <4>2, <4>3, <4>4, CpuAssumption DEF Hold
    <3>2. CASE i.op \notin {"jal", "jalr"}
      <4>1. cpu'.reg = cpu.reg
        BY <1>1, <2>1, <3>2 DEF User!Linked
      <4>2. here = map.holds[UserAt]
        BY <2>4, <3>2 DEF After, Branches
      <4> QED
        BY <2>2, <4>1, <4>2 DEF Hold
    <3> QED
      BY <3>1, <3>2
  <2>6. LeadsTo(slot, UserTarget', map)
    <3>1. CASE i.op \in {"jr", "jalr"}
      <4>1. i.a \in here /\ \A entry \in map.entries : LeadsTo(slot, entry, map)
        BY <2>2, <3>1 DEF StaysInText
      <4>2. UserTarget' = cpu'.reg[i.a]
        BY <2>1, <3>1
      <4> HIDE DEF here, slot, i
      <4> QED
        BY <2>5, <4>1, <4>2
    <3>2. CASE i.op \notin {"jr", "jalr"}
      <4>1. i.op \in {"j", "jal", "bf", "bnf"} /\ UserTarget' = i.k
        BY <2>1, <2>4, <3>2 DEF Branches
      <4>2. LeadsTo(slot, i.k, map)
        BY <2>2, <4>1 DEF StaysInText
      <4> HIDE DEF slot, i
      <4> QED
        BY <4>1, <4>2
    <3> QED
      BY <3>1, <3>2
  <2>7. UserAt' - 1 = UserAt
    BY <2>1, <2>3
  <2> QED
    BY <2>1, <2>2, <2>4, <2>5, <2>6, <2>7 DEF InText, Hold
<1>3. CASE User!FallThrough
  <2>1. /\ cpu'.reg = cpu.reg /\ ~UserSlot' /\ code[UserAt].op \in {"bf", "bnf"}
        /\ UserAt' = IF UserSlot THEN UserTarget ELSE UserAt + 1
    BY <1>1, <1>3 DEF User!FallThrough, User!Advance, UserAt, UserSlot, UserTarget
  <2>2. ~UserSlot
    <3> SUFFICES ASSUME UserSlot PROVE FALSE
      OBVIOUS
    <3>1. UserAt - 1 \in map.text /\ code[UserAt - 1].op \in Branches
      BY DEF InText
    <3>2. (UserAt - 1) + 1 = UserAt
      BY <1>1 DEF UserAt, UserSlot, CpuState
    <3>3. code[(UserAt - 1) + 1].op \notin Branches
      BY <3>1, TextIsCode DEF WellFormed, SlotIsPlain
    <3> QED
      BY <2>1, <3>2, <3>3 DEF Branches
  <2>3. UserAt \in map.text /\ Hold(map.holds[UserAt], map)
    BY <2>2 DEF InText
  <2>4. LeadsTo(After(code[UserAt], map.holds[UserAt], map), UserAt + 1, map)
    BY <2>1, <2>3 DEF StaysInText
  <2>5. After(code[UserAt], map.holds[UserAt], map) = map.holds[UserAt]
    BY <2>1 DEF After
  <2> QED
    BY <2>1, <2>2, <2>3, <2>4, <2>5 DEF InText, Hold, LeadsTo
<1>4. CASE User!RestartBranch
  <2>1. UserSlot /\ UserAt' = UserAt - 1 /\ ~UserSlot' /\ cpu'.reg = cpu.reg
    BY <1>4 DEF User!RestartBranch, UserAt, UserSlot
  <2>2. UserAt' \in map.text /\ Hold(After(code[UserAt'], map.holds[UserAt'], map), map)
        /\ code[UserAt'].op \in Branches
    BY <2>1 DEF InText
  <2>3. map.holds[UserAt'] \subseteq After(code[UserAt'], map.holds[UserAt'], map)
    BY <2>2 DEF After, Branches
  <2> QED
    BY <2>1, <2>2, <2>3 DEF InText, Hold
<1>5. CASE User!RepeatWrite
  <2>1. ~UserSlot /\ ~UserSlot' /\ UserAt' = UserAt /\ cpu'.reg = cpu.reg
    BY <1>5 DEF User!RepeatWrite, User!SetFlag, UserAt, UserSlot
  <2> QED
    BY <2>1 DEF InText, Hold
<1>6. CASE UNCHANGED User!userVars
  <2>1. /\ UserSlot' = UserSlot /\ UserAt' = UserAt /\ UserTarget' = UserTarget
        /\ cpu'.reg = cpu.reg
    BY <1>6 DEF User!userVars, UserAt, UserSlot, UserTarget
  <2> QED
    BY <2>1 DEF InText, Hold
<1> QED
  BY <1>2, <1>3, <1>4, <1>5, <1>6

\* A trap stops the simulator: while it runs, the program has not gone on.
LEMMA TrapStops ==
    ASSUME WellFormed(code), ProgramInv, ProgramStaysInPlace, running, running',
           User!Instr.op = "trap",
           HostInput \/ StartRun \/ Cycle \/ UNCHANGED cpuVars
    PROVE  Stays
<1>1. CASE HostInput \/ UNCHANGED cpuVars
  <2>1. SameProgram(cpu, cpu') /\ code' = code
    BY <1>1 DEF HostInput, cpuVars, SameProgram, SameControl
  <2> QED
    BY <2>1, SameIsInvisible, StutterIsStutter
<1>2. CASE StartRun
  BY <1>2, StartIsInvisible
<1>3. CASE Cycle /\ Handling
  BY <1>3, HandlerIsInvisible, StutterIsStutter DEF ProgramInv
<1>4. CASE Cycle /\ ~Handling
  <2>1. InProgram
    BY <1>4 DEF InProgram, ProgramStaysInPlace
  <2>2. Instruction.op = "trap"
    BY <2>1, ProgramInstruction
  <2>3. TickInterrupt \/ FetchFault
    BY <1>4, <2>2 DEF Cycle, RunInstruction, Set, Inc, Compare, J, Jal, Jr, Jalr, Bf, Bnf,
           ConditionalBranch, Nop, Halt, Trap, Sys, Illegal, Rfe, Mtspr, Mfspr, Load, Store,
           DataFault, Runs, Stop
  <2> QED
    BY <1>4, <2>1, <2>3, CycleKeepsCode, FaultSteps
<1> QED
  BY <1>1, <1>2, <1>3, <1>4

\* While the simulator runs, the program stays in its text.
LEMMA TextStepHolds ==
    ASSUME NEW map, \A image \in Programs : WellFormed(image) /\ StaysInText(image, map[image]),
           TextInv(map[code]), [CpuNext]_cpuVars
    PROVE  TextInv(map[code])'
<1>1. code \in Programs /\ CpuInv /\ ProgramInv
  BY DEF TextInv, ProgramInv, HandlerInv, CpuInv, CpuTypeOK
<1>2. WellFormed(code) /\ StaysInText(code, map[code])
  BY <1>1
<1>3. ProgramStaysInPlace
  BY <1>2, TextIsOwn
<1>4. ProgramInv' /\ (User!UserNext \/ UNCHANGED User!userVars)
  BY <1>1, <1>2, <1>3, CoreFollows
<1> SUFFICES ASSUME running' PROVE InText(map[code])'
  BY <1>4 DEF TextInv
<1>5. CASE Reload
  <2>1. /\ cpu'.pc = ResetVector /\ cpu'.serving = "none" /\ ~cpu'.in_delay_slot
        /\ code' \in Programs
    BY <1>5 DEF Reload, ResetState
  <2>2. StaysInText(code', map[code'])
    BY <2>1
  <2> QED
    BY <2>1, <2>2 DEF StaysInText, LeadsTo, InText, UserSlot, UserAt, Handling, Hold
<1>6. CASE HostInput \/ StartRun \/ Cycle \/ UNCHANGED cpuVars
  <2>1. code' = code
    BY <1>6, CycleKeepsCode DEF HostInput, StartRun, cpuVars
  <2>2. running
    BY <1>1, <1>6 DEF ProgramInv, HostInput, StartRun, cpuVars, Cycle, RunInstruction,
           TickInterrupt, FetchFault, Fetching, Set, Inc, Compare, J, Jal, Jr, Jalr, Bf, Bnf,
           ConditionalBranch, Nop, Halt, Trap, Sys, Illegal, Rfe, Mtspr, Mfspr, Load, Store,
           DataFault, Runs
  <2>3. InText(map[code])
    BY <2>2 DEF TextInv
  <2>4. User!Step /\ User!Instr.op = "trap" => UserSlot
    <3> SUFFICES ASSUME User!Step, User!Instr.op = "trap", ~UserSlot PROVE FALSE
      OBVIOUS
    <3>1. UserAt' = UserAt
      BY <1>1, <1>2, <1>3, <1>6, <2>2, TrapStops DEF Stays
    <3>2. UserAt' = UserAt + 1 /\ UserAt \in Nat
      BY <1>1 DEF User!Step, User!Advance, UserAt, UserSlot, CpuInv, CpuTypeOK, CpuState
    <3> QED
      BY <3>1, <3>2
  <2>5. CASE User!Restart
    <3>1. UserAt' = ResetVector /\ ~UserSlot' /\ cpu'.reg = [r \in Reg |-> 0]
      BY <2>5 DEF User!Restart, UserAt, UserSlot
    <3> QED
      BY <1>2, <2>1, <3>1 DEF StaysInText, LeadsTo, InText, Hold
  <2>6. CASE User!Step
    BY <1>1, <1>2, <2>1, <2>3, <2>4, <2>6, StepInText
  <2>7. CASE \/ User!OpenSlot \/ User!FallThrough
             \/ User!RestartBranch \/ User!RepeatWrite \/ UNCHANGED User!userVars
    BY <1>1, <1>2, <2>1, <2>3, <2>7, BranchInText
  <2> QED
    BY <1>4, <2>5, <2>6, <2>7 DEF User!UserNext
<1> QED
  BY <1>5, <1>6 DEF CpuNext

\* A program that its linker mapped, returns and jumps through registers
\* included, never leaves its own code, whatever interrupts it.
THEOREM ProgramStays ==
    ASSUME NEW map,
           \A image \in Programs : WellFormed(image) /\ StaysInText(image, map[image])
    PROVE  CpuSpec => []ProgramStaysInPlace
<1>1. CpuInit => TextInv(map[code])
  <2> SUFFICES ASSUME CpuInit PROVE TextInv(map[code])
    OBVIOUS
  <2>1. ProgramInv
    BY CpuInitHolds DEF ProgramInv, HandlerInv, SlotKnown, CpuInit, ResetState, Handling
  <2>2. StaysInText(code, map[code])
    BY DEF CpuInit
  <2>3. cpu.pc = ResetVector /\ cpu.serving = "none" /\ ~cpu.in_delay_slot
    BY DEF CpuInit, ResetState
  <2>4. InText(map[code])
    BY <2>2, <2>3 DEF StaysInText, LeadsTo, InText, UserSlot, UserAt, Handling, Hold
  <2> QED
    BY <2>1, <2>4 DEF TextInv
<1>2. TextInv(map[code]) /\ [CpuNext]_cpuVars => TextInv(map[code])'
  BY TextStepHolds
<1>3. TextInv(map[code]) => ProgramStaysInPlace
  <2>1. TextInv(map[code]) => code \in Programs
    BY DEF TextInv, ProgramInv, HandlerInv, CpuInv, CpuTypeOK
  <2> QED
    BY <2>1, TextIsOwn
<1> QED
  BY <1>1, <1>2, <1>3, PTL DEF CpuSpec

\* And so it runs as if there were no exceptions, under a kernel that keeps
\* the conventions (ThrowException, IncrementPC, Jump, l.rfe and the slices of
\* Run together).
THEOREM ExceptionsInvisible ==
    ASSUME NEW map,
           \A image \in Programs : WellFormed(image) /\ StaysInText(image, map[image])
    PROVE  CpuSpec => ExceptionsAreInvisible
<1>1. CpuSpec => []ProgramStaysInPlace
  BY ProgramStays
<1>2. CpuSpec /\ []ProgramStaysInPlace => ExceptionsAreInvisible
  BY InvisibleWhileInPlace
<1> QED
  BY <1>1, <1>2
=============================================================================
