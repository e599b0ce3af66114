-------------------------------- MODULE Cpu --------------------------------
(***************************************************************************)
(* Control flow of the simulated OpenRISC core, simctty/cpu.cc: the slices *)
(* of execution the host asks for (CPU::Run), the branch delay slot, the   *)
(* tick timer, the interrupt controller, and the exceptions they raise.    *)
(*                                                                         *)
(* The state of class CPU is the record `cpu'; each private method is an   *)
(* operator from a state to the state it leaves, so that a method calls    *)
(* another one here as it does in the code.  A step is one iteration of    *)
(* the loop in CPU::Run, and the host acts between two slices.             *)
(*                                                                         *)
(* Abstractions: addresses count instructions, not bytes.  The supervision *)
(* register is the set of its bits that are 1.  An instruction is its kind *)
(* and operands, and the arithmetic ones are represented by one that may   *)
(* be repeated without effect (set) and one that may not (inc).  A load  *)
(* or a store may raise the exceptions its address allows, the MMU's only  *)
(* while the MMU is enabled (module Mmu says which).  Interrupt lines      *)
(* change when the guest accesses a device and when the host feeds one     *)
(* (module Uart).                                                          *)
(***************************************************************************)
EXTENDS Naturals

CONSTANTS
    Programs,       \* memory images: functions from addresses to instructions,
                    \* records whose field op is one of Opcode
    Reg,            \* general registers
    Lines,          \* interrupt lines of the bus
    TickMod,        \* the timer compares counts modulo this (2^28)
    WordMod,        \* inc wraps at this (2^32)
    SliceLengths,   \* cycles the host may ask for in one Run
    Reloads         \* whether the host loads other images in between

ASSUME CpuAssumption ==
    /\ TickMod \in Nat \ {0}
    /\ WordMod \in Nat \ {0}
    /\ SliceLengths \subseteq Nat \ {0}
    /\ 9 \in Reg
    /\ Reloads \in BOOLEAN

VARIABLES
    code,           \* the image in memory
    cpu,            \* the state of class CPU
    irq,            \* lines asserted by the devices
    left,           \* cycles left in the current slice, 0 between slices
    running         \* FALSE once Run has returned false

cpuVars == <<code, cpu, irq, left, running>>

-----------------------------------------------------------------------------
(* Constants of the architecture.                                           *)

Opcode == {"set", "inc", "sf", "j", "jal", "jr", "jalr", "bf", "bnf", "nop",
           "halt", "trap", "sys", "rfe", "load", "store", "mtspr", "mfspr",
           "illegal"}

\* LoadImageFile(filename, 0x100): the image is loaded at 0 and entered here.
ResetVector == 64

\* exceptionHandlers: where the handler starts, and whether EEAR0 is set.
exceptionHandlers ==
    [BusError             |-> [pc |-> 128, setsEEAR |-> TRUE],
     DataPageFault        |-> [pc |-> 192, setsEEAR |-> TRUE],
     InstructionPageFault |-> [pc |-> 256, setsEEAR |-> TRUE],
     TickTimerInterrupt   |-> [pc |-> 320, setsEEAR |-> FALSE],
     Alignment            |-> [pc |-> 384, setsEEAR |-> TRUE],
     IllegalInstruction   |-> [pc |-> 448, setsEEAR |-> TRUE],
     ExternalInterrupt    |-> [pc |-> 512, setsEEAR |-> FALSE],
     DTLBMiss             |-> [pc |-> 576, setsEEAR |-> TRUE],
     ITLBMiss             |-> [pc |-> 640, setsEEAR |-> TRUE],
     SystemCall           |-> [pc |-> 768, setsEEAR |-> FALSE]]

Exception == DOMAIN exceptionHandlers

\* Bits of the supervision register the model distinguishes.
SRBit    == {"SM", "TEE", "IEE", "DME", "IME", "F", "DSX", "FO"}
ResetSR  == {"FO", "SM"}

\* Tick timer mode register; `on' is the continuous mode, the only one that
\* counts in the code.
TimerMode == [on : BOOLEAN, ie : BOOLEAN, ip : BOOLEAN, period : 0 .. TickMod - 1]
TimerOff  == [on |-> FALSE, ie |-> FALSE, ip |-> FALSE, period |-> 0]

\* The state of class CPU; serving is a history, the exception being handled.
CpuState ==
    [pc : Nat, reg : [Reg -> Nat], sr : SUBSET SRBit,
     epcr0 : Nat, eear0 : Nat, esr0 : SUBSET SRBit,
     picmr : SUBSET Lines, picsr : SUBSET Lines, pending_interrupt : BOOLEAN,
     ttmr : TimerMode, ttcr : 0 .. TickMod - 1,
     in_delay_slot : BOOLEAN, delayed_next_pc : Nat,
     serving : Exception \cup {"none"}]

\* The values a special register may be given.
SprValues(spr) ==
    CASE spr \in {"SR", "ESR0"}     -> SUBSET SRBit
      [] spr \in {"EPCR0", "EEAR0"} -> Nat
      [] spr \in {"PICMR", "PICSR"} -> SUBSET Lines
      [] spr = "TTMR"               -> TimerMode
      [] spr = "TTCR"               -> 0 .. TickMod - 1
      [] OTHER                      -> {0}

\* The operands of each kind of instruction.
IsInstruction(i) ==
    /\ i.op \in Opcode
    /\ i.op \in {"set", "inc", "mfspr", "load"} => i.d \in Reg
    /\ i.op \in {"set", "j", "jal", "bf", "bnf"} => i.k \in Nat
    /\ i.op \in {"sf", "jr", "jalr"} => i.a \in Reg
    /\ i.op = "mtspr" => i.value \in SprValues(i.spr)
    /\ i.op = "mfspr" => i.spr \in {"EPCR0", "EEAR0", "TTCR"}
    /\ i.op \in {"load", "store"} =>
           /\ i.ea \in Nat
           /\ i.faults \subseteq {"BusError", "Alignment", "DTLBMiss", "DataPageFault"}

ASSUME ProgramsAssumption ==
    \A image \in Programs : \A a \in DOMAIN image : a \in Nat /\ IsInstruction(image[a])

Branches == {"j", "jal", "jr", "jalr", "bf", "bnf"}

-----------------------------------------------------------------------------
(* The methods of class CPU.                                                *)

\* Reset, then SetPC(0x100) by System::LoadImageFile.  delayed_next_pc_ has no
\* initial value in the code; it is read only in a delay slot.
ResetState ==
    [pc |-> ResetVector, reg |-> [r \in Reg |-> 0], sr |-> ResetSR,
     epcr0 |-> 0, eear0 |-> 0, esr0 |-> {},
     picmr |-> {}, picsr |-> {}, pending_interrupt |-> FALSE,
     ttmr |-> TimerOff, ttcr |-> 0,
     in_delay_slot |-> FALSE, delayed_next_pc |-> ResetVector,
     serving |-> "none"]

\* SetSpReg, for the registers of groups 0, 9 and 10; the MMU's and the
\* ignored ones leave this state alone.
SetSpReg(s, spr, value) ==
    CASE spr = "SR"    -> [s EXCEPT !.sr = value]
      [] spr = "EPCR0" -> [s EXCEPT !.epcr0 = value]
      [] spr = "EEAR0" -> [s EXCEPT !.eear0 = value]
      [] spr = "ESR0"  -> [s EXCEPT !.esr0 = value]
      [] spr = "PICMR" -> [s EXCEPT !.picmr = value]
      [] spr = "PICSR" -> [s EXCEPT !.picsr = value]
      [] spr = "TTMR"  -> [s EXCEPT !.ttmr = value]
      [] spr = "TTCR"  -> [s EXCEPT !.ttcr = value]
      [] OTHER         -> s

\* Variants of some methods follow, each with a plausible mistake; they show
\* that the properties are sensitive to the code, and nothing else uses them.
ResumeAtPC(s) == s.pc                  \* variant: the slot, not its branch

\* An exception in a delay slot resumes at the branch, which is one back.
ResumePC(s) == IF s.in_delay_slot THEN s.pc - 1 ELSE s.pc

ThrowExceptionKeepingSR(s, exception, effective_address) ==     \* variant
    LET handler == exceptionHandlers[exception] IN
    [s EXCEPT !.esr0  = s.sr,
              !.epcr0 = ResumePC(s),
              !.pc    = handler.pc,
              !.in_delay_slot = FALSE,
              !.serving = exception]

ThrowException(s, exception, effective_address) ==
    LET handler == exceptionHandlers[exception] IN
    [s EXCEPT !.esr0  = IF s.in_delay_slot THEN s.sr \cup {"DSX"} ELSE s.sr,
              !.sr    = ResetSR,
              !.epcr0 = ResumePC(s),
              !.pc    = handler.pc,
              !.eear0 = IF handler.setsEEAR THEN effective_address ELSE @,
              !.in_delay_slot = FALSE,
              !.serving = exception]

IncrementPCKeepingSlot(s) ==           \* variant: in_delay_slot is not reset
    [s EXCEPT !.pc = IF s.in_delay_slot THEN s.delayed_next_pc ELSE s.pc + 1]

IncrementPC(s) ==
    [s EXCEPT !.pc = IF s.in_delay_slot THEN s.delayed_next_pc ELSE s.pc + 1,
              !.in_delay_slot = FALSE]

Jump(s, next_pc) ==
    [s EXCEPT !.delayed_next_pc = next_pc,
              !.pc = s.pc + 1,
              !.in_delay_slot = TRUE]

SetCompareFlag(s, flag) ==
    [s EXCEPT !.sr = IF flag THEN @ \cup {"F"} ELSE @ \ {"F"}]

\* The controller latches a change of the lines; only a change to an asserted
\* line makes an interrupt pending again.
SampleLines(s, lines) ==
    IF lines # s.picsr
    THEN [s EXCEPT !.picsr = lines, !.pending_interrupt = (lines # {})]
    ELSE s

CheckInterruptsDropping(s, lines) ==   \* variant: no longer pending if disabled
    LET sampled == SampleLines(s, lines) IN
    [IF "IEE" \in sampled.sr /\ sampled.pending_interrupt
        /\ sampled.picsr \cap sampled.picmr # {}
     THEN ThrowException(sampled, "ExternalInterrupt", 0)
     ELSE sampled EXCEPT !.pending_interrupt = FALSE]
CheckInterruptsStale(s, lines) ==      \* variant: decides before it samples
    IF "IEE" \in s.sr /\ s.pending_interrupt /\ s.picsr \cap s.picmr # {}
    THEN [ThrowException(SampleLines(s, lines), "ExternalInterrupt", 0)
              EXCEPT !.pending_interrupt = FALSE]
    ELSE SampleLines(s, lines)

CheckInterrupts(s, lines) ==
    LET sampled == SampleLines(s, lines) IN
    IF "IEE" \in sampled.sr /\ sampled.pending_interrupt
       /\ sampled.picsr \cap sampled.picmr # {}
    THEN [ThrowException(sampled, "ExternalInterrupt", 0)
              EXCEPT !.pending_interrupt = FALSE]
    ELSE sampled

\* One cycle of the timer: the count moves, and a match is recorded.
TimerMatches(s) ==
    s.ttmr.on /\ s.ttmr.ie /\ (s.ttcr + 1) % TickMod = s.ttmr.period

TickTimerUnwrapped(s) ==               \* variant: the count does not wrap
    [s EXCEPT !.ttcr = @ + 1, !.ttmr.ip = @ \/ TimerMatches(s)]

TickTimer(s) ==
    [s EXCEPT !.ttcr = (@ + 1) % TickMod,
              !.ttmr.ip = @ \/ TimerMatches(s)]

\* What mfspr returns, for the special registers that hold a number.  The test
\* of the mode, `!sr_ & kSM', holds when SR is 0 and not, as its comment says, when
\* the guest has left supervisor mode.
SpReg(s, spr) ==
    CASE s.sr = {}                    -> 0
      [] s.sr # {} /\ spr = "EPCR0" -> s.epcr0
      [] s.sr # {} /\ spr = "EEAR0" -> s.eear0
      [] s.sr # {} /\ spr = "TTCR"  -> s.ttcr

SetReg(s, d, value) == [s EXCEPT !.reg[d] = value]

\* jal and jalr write the link register before they jump.
Link(s) == SetReg(s, 9, s.pc + 2)

-----------------------------------------------------------------------------
(* The loop of CPU::Run.                                                    *)

CpuInit ==
    /\ code \in Programs
    /\ cpu = ResetState
    /\ irq = {}
    /\ left = 0
    /\ running = TRUE

\* Between two slices the host may feed a device, which asserts its line.
HostInput ==
    /\ left = 0 /\ running
    /\ \E lines \in SUBSET Lines : irq \subseteq lines /\ irq' = lines
    /\ UNCHANGED <<code, cpu, left, running>>

\* System::LoadImage, which the web host may call between two slices: Reset,
\* SetPC(0x100) and another image.  The devices keep their state.
Reload ==
    /\ Reloads /\ left = 0
    /\ code' \in Programs
    /\ cpu' = [ResetState EXCEPT !.delayed_next_pc = cpu.delayed_next_pc]
    /\ running' = TRUE
    /\ UNCHANGED <<irq, left>>

\* Interrupt lines are looked at once per slice.
StartRun ==
    /\ left = 0 /\ running
    /\ left' \in SliceLengths
    /\ cpu' = CheckInterrupts(cpu, irq)
    /\ UNCHANGED <<code, irq, running>>

\* The timer moves before the instruction runs; an interrupt ends the slice.
Ticked == TickTimer(cpu)

TickInterrupt ==
    /\ left > 0
    /\ TimerMatches(cpu) /\ "TEE" \in cpu.sr
    /\ cpu' = ThrowException(Ticked, "TickTimerInterrupt", 0)
    /\ left' = 0
    /\ UNCHANGED <<code, irq, running>>

Fetching == left > 0 /\ ~(TimerMatches(cpu) /\ "TEE" \in cpu.sr)

\* A fetch the instruction MMU refuses; it ends the slice.
FetchFault ==
    /\ Fetching
    /\ "IME" \in cpu.sr
    /\ \E exception \in {"ITLBMiss", "InstructionPageFault"} :
           cpu' = ThrowException(Ticked, exception, cpu.pc)
    /\ left' = 0
    /\ UNCHANGED <<code, irq, running>>

-----------------------------------------------------------------------------
(* RunInstruction: one action per kind of instruction.                      *)

\* Outside the image there is no memory, and the fetch finds the word 0, an
\* l.j to itself.
InstructionAt(a) == IF a \in DOMAIN code THEN code[a] ELSE [op |-> "j", k |-> a]
Instruction == InstructionAt(cpu.pc)

Runs(op) == Fetching /\ Instruction.op = op

\* The instruction left state s and the loop goes on; the devices are idle.
Retire(s) ==
    /\ cpu' = s
    /\ left' = left - 1
    /\ UNCHANGED <<code, irq, running>>

\* RunInstruction returned false, and the hosts stop calling Run.
Stop(s) ==
    /\ cpu' = s
    /\ left' = 0
    /\ running' = FALSE
    /\ UNCHANGED <<code, irq>>

Set ==
    /\ Runs("set")
    /\ Retire(IncrementPC(SetReg(Ticked, Instruction.d, Instruction.k)))

Inc ==
    /\ Runs("inc")
    /\ Retire(IncrementPC(SetReg(Ticked, Instruction.d,
                                (cpu.reg[Instruction.d] + 1) % WordMod)))

Compare ==
    /\ Runs("sf")
    /\ Retire(IncrementPC(SetCompareFlag(Ticked, cpu.reg[Instruction.a] = Instruction.k)))

J    == Runs("j")    /\ Retire(Jump(Ticked, Instruction.k))
Jal  == Runs("jal")  /\ Retire(Jump(Link(Ticked), Instruction.k))
Jr   == Runs("jr")   /\ Retire(Jump(Ticked, cpu.reg[Instruction.a]))
Jalr == Runs("jalr") /\ Retire(Jump(Link(Ticked), Link(cpu).reg[Instruction.a]))

ConditionalBranch(op, taken) ==
    /\ Runs(op)
    /\ Retire(IF taken THEN Jump(Ticked, Instruction.k) ELSE IncrementPC(Ticked))
Bf  == ConditionalBranch("bf", "F" \in cpu.sr)
Bnf == ConditionalBranch("bnf", "F" \notin cpu.sr)

\* nop 1 stops the simulator in supervisor mode.
Nop  == Runs("nop") /\ Retire(IncrementPC(Ticked))
Halt ==
    /\ Runs("halt")
    /\ IF "SM" \in cpu.sr THEN Stop(Ticked) ELSE Retire(IncrementPC(Ticked))

Trap == Runs("trap") /\ Stop(IncrementPC(Ticked))

Sys ==
    /\ Runs("sys")
    /\ Retire(ThrowException([Ticked EXCEPT !.pc = @ + 1], "SystemCall", 0))

Illegal ==
    /\ Runs("illegal")
    /\ Retire(ThrowException(Ticked, "IllegalInstruction", cpu.pc))

Rfe ==
    /\ Runs("rfe")
    /\ Retire([Ticked EXCEPT !.pc = cpu.epcr0,
                             !.sr = cpu.esr0,
                             !.in_delay_slot = FALSE,
                             !.serving = "none"])

\* A pending tick the write makes deliverable is taken at once; the program
\* counter stays, so the write is repeated when the handler returns.
Mtspr ==
    /\ Runs("mtspr")
    /\ LET s == SetSpReg(Ticked, Instruction.spr, Instruction.value) IN
       Retire(IF s.ttmr.ip /\ "TEE" \in s.sr
              THEN ThrowException(s, "TickTimerInterrupt", 0)
              ELSE IncrementPC(s))

Mfspr ==
    /\ Runs("mfspr")
    /\ Retire(IncrementPC(SetReg(Ticked, Instruction.d, SpReg(Ticked, Instruction.spr))))

\* The exceptions an access of this instruction may raise now.
DataFaults ==
    {e \in Instruction.faults :
        e \in {"DTLBMiss", "DataPageFault"} => "DME" \in cpu.sr}

DataFault ==
    /\ Runs("load") \/ Runs("store")
    /\ \E exception \in DataFaults :
           Retire(ThrowException(Ticked, exception, Instruction.ea))

\* An access that succeeds; one to a device may move the interrupt lines.
Access(s) ==
    /\ cpu' = IncrementPC(s)
    /\ left' = left - 1
    /\ irq' \in IF Instruction.device THEN SUBSET Lines ELSE {irq}
    /\ UNCHANGED <<code, running>>

Load ==
    /\ Runs("load")
    /\ \E value \in 0 .. WordMod - 1 : Access(SetReg(Ticked, Instruction.d, value))

Store == Runs("store") /\ Access(Ticked)

-----------------------------------------------------------------------------
RunInstruction ==
    \/ Set \/ Inc \/ Compare \/ J \/ Jal \/ Jr \/ Jalr \/ Bf \/ Bnf
    \/ Nop \/ Halt \/ Trap \/ Sys \/ Illegal \/ Rfe
    \/ Mtspr \/ Mfspr \/ Load \/ Store \/ DataFault

Cycle == TickInterrupt \/ FetchFault \/ RunInstruction

CpuNext == HostInput \/ Reload \/ StartRun \/ Cycle

CpuSpec == CpuInit /\ [][CpuNext]_cpuVars

\* The hosts call Run again as long as it returns true, and Run goes on to
\* the end of its slice.
CpuFairSpec == CpuSpec /\ WF_cpuVars(StartRun \/ Cycle)

-----------------------------------------------------------------------------
(* The images the guarantees to the interrupted program are made for: a     *)
(* kernel that keeps the conventions of the architecture.                   *)

\* Handlers are above the first vector, the interrupted program below.
FirstVector  == exceptionHandlers["BusError"].pc
InHandlers(a) == a >= FirstVector

\* No branch, system call or return in a delay slot, and no change of SR:
\* the code keeps one delayed target only.
SlotIsPlain(image) ==
    \A a \in DOMAIN image : image[a].op \in Branches =>
        /\ a + 1 \in DOMAIN image
        /\ image[a + 1].op \notin Branches \cup {"sys", "rfe", "illegal"}
        /\ image[a + 1].op = "mtspr" => image[a + 1].spr # "SR"

\* A handler leaves the program's registers and the exception registers
\* alone, raises no exception, and does not fall out of the handlers.
HandlerKeepsState(image) ==
    \A a \in DOMAIN image : InHandlers(a) =>
        LET i == image[a] IN
        /\ i.op \in {"nop", "sf", "store", "mtspr", "rfe", "j", "bf", "bnf"}
        /\ i.op = "store" => i.faults \subseteq {"DTLBMiss", "DataPageFault"}
        /\ i.op = "mtspr" => i.spr \in {"PICMR", "PICSR", "TTMR", "TTCR"}
        /\ i.op \in {"j", "bf", "bnf"} => InHandlers(i.k) /\ i.k \in DOMAIN image
        /\ i.op # "rfe" => a + 1 \in DOMAIN image

\* The program itself returns from no exception and writes no exception
\* register.
ProgramIsOrdinary(image) ==
    \A a \in DOMAIN image : ~InHandlers(a) =>
        /\ image[a].op # "rfe"
        /\ image[a].op = "mtspr" => image[a].spr \notin {"EPCR0", "ESR0"}

WellFormed(image) ==
    /\ {exceptionHandlers[e].pc : e \in Exception} \subseteq DOMAIN image
    /\ SlotIsPlain(image)
    /\ HandlerKeepsState(image)
    /\ ProgramIsOrdinary(image)

\* The status of the controller is only ever cleared, and the instructions of
\* the interrupt's handler, which are these addresses, end by doing so.
AcknowledgesLast(image, handler) ==
    /\ handler \subseteq DOMAIN image
    /\ exceptionHandlers["ExternalInterrupt"].pc \in handler
    /\ image[exceptionHandlers["ExternalInterrupt"].pc].op # "rfe"
    /\ \A a \in DOMAIN image :
           image[a].op = "mtspr" /\ image[a].spr = "PICSR" => image[a].value = {}
    /\ \A a \in handler :
           /\ image[a].op \in {"j", "bf", "bnf"} =>
                  image[a].k \in handler /\ image[image[a].k].op # "rfe"
           /\ image[a].op # "rfe" =>
                  /\ a + 1 \in handler
                  /\ image[a + 1].op = "rfe" => image[a].op = "mtspr" /\ image[a].spr = "PICSR"

\* A map of the program, as its linker has it: text, the addresses it reaches
\* other than in delay slots, entries, the addresses it may jump to through a
\* register, and for each address of the text the registers that hold one then.
\* After: the registers that still do when the instruction has run.
After(i, holding, map) ==
    CASE i.op \in {"jal", "jalr"} -> holding \cup {9}
      [] i.op = "set" /\ i.k \in map.entries -> holding \cup {i.d}
      [] i.op \in {"set", "inc", "load", "mfspr"} -> holding \ {i.d}
      [] OTHER -> holding

LeadsTo(holding, a, map) == a \in map.text /\ map.holds[a] \subseteq holding

\* The program reaches nothing but its text, whatever its data: what a branch
\* skips to, what follows an instruction, and where registers lead.
StaysInText(image, map) ==
    /\ map.entries \subseteq map.text
    /\ map.holds \in [map.text -> SUBSET Reg]
    /\ LeadsTo({}, ResetVector, map)
    /\ \A a \in map.text :
           /\ a \in DOMAIN image /\ ~InHandlers(a)
           /\ LET i    == image[a]
                  here == After(i, map.holds[a], map)
                  slot == After(image[a + 1], here, map) IN
              /\ i.op \in Branches => ~InHandlers(a + 1)
              /\ i.op \notin {"j", "jal", "jr", "jalr", "trap", "illegal"} =>
                     LeadsTo(here, a + 1, map)
              /\ i.op \in {"j", "jal", "bf", "bnf"} => LeadsTo(slot, i.k, map)
              /\ i.op \in {"jal", "jalr"} => a + 2 \in map.entries
              /\ i.op \in {"jr", "jalr"} =>
                     i.a \in here /\ \A entry \in map.entries : LeadsTo(slot, entry, map)

-----------------------------------------------------------------------------
(* Properties.                                                              *)

\* Type invariant of the core and of the slice.
CpuTypeOK ==
    /\ code \in Programs
    /\ cpu \in CpuState
    /\ irq \subseteq Lines
    /\ left \in Nat /\ running \in BOOLEAN

\* The core implements the uninterrupted program: exceptions, wherever they
\* hit and however they nest with slices, delay slots and the timer, are
\* invisible to it (ThrowException, IncrementPC, Jump and l.rfe together).
Handling == cpu.serving # "none"
User == INSTANCE UserProgram WITH
    Entry  <- ResetVector,
    at     <- IF Handling THEN cpu.epcr0 ELSE cpu.pc,
    slot   <- ~Handling /\ cpu.in_delay_slot,
    target <- IF ~Handling /\ cpu.in_delay_slot THEN cpu.delayed_next_pc ELSE 0,
    flag   <- "F" \in (IF Handling THEN cpu.esr0 ELSE cpu.sr),
    reg    <- cpu.reg
ExceptionsAreInvisible == User!UserSpec

\* The program that is interrupted runs in its own code, below the handlers,
\* before and after every exception: rfe leads back to it, and not to a
\* handler, a delay slot too far, or an address the image does not have.
ProgramStaysInPlace == running /\ ~Handling => cpu.pc \in DOMAIN code /\ ~InHandlers(cpu.pc)

\* in_delay_slot is set exactly behind a branch: otherwise an exception would
\* resume one instruction too early, and repeat one that took effect.
DelaySlotFollowsBranch ==
    cpu.in_delay_slot =>
        cpu.pc > 0 /\ InstructionAt(cpu.pc - 1).op \in Branches

\* No interrupt edge is lost by the controller: while a line is asserted and
\* its handler is not running, the interrupt is pending, or the next look at
\* the lines will make it so (CheckInterrupts latches changes only).
NoInterruptLost ==
    irq # {} /\ cpu.serving # "ExternalInterrupt" =>
        cpu.pending_interrupt \/ cpu.picsr # irq

\* A handler runs to its rfe: nothing interrupts it, so that its exception
\* registers, of which there is one set only, still name the program.
HandlerRunsAlone ==
    [][Handling => /\ cpu'.serving \in {cpu.serving, "none"}
                   /\ Handling' => /\ cpu'.epcr0 = cpu.epcr0
                                   /\ cpu'.esr0 = cpu.esr0]_cpuVars

\* An external interrupt is taken only for a line that is asserted and
\* unmasked at that moment, and never taken in the middle of a slice.
InterruptHasSource ==
    [][cpu'.serving = "ExternalInterrupt" /\ cpu.serving # "ExternalInterrupt" =>
           left = 0 /\ irq \cap cpu.picmr # {}]_cpuVars

\* An asserted line is served, or withdrawn, if the simulator goes on: the
\* edge detection and the once-a-slice look never leave the guest waiting.
InterruptIsServed ==
    (irq # {} /\ running) ~>
        (cpu.serving = "ExternalInterrupt" \/ irq = {} \/ ~running)

\* Every exception handler gets back to the program.
HandlerReturns == Handling ~> (~Handling \/ ~running)

\* A pending tick is taken as soon as SR enables it, be it by an mtspr or by
\* the rfe of a handler during which the timer matched ("Pending tick timer
\* interrupt now available?", cpu.cc).
PendingTickIsTaken == ~(cpu.ttmr.ip /\ "TEE" \in cpu.sr)

\* DSX, "Delay slot exception", tells the handler whether the exception hit a
\* delay slot: the faulting address is then one behind the saved one.
DSXNamesDelaySlot ==
    cpu.serving = "IllegalInstruction" =>
        ("DSX" \in cpu.esr0 <=> cpu.eear0 # cpu.epcr0)
=============================================================================
