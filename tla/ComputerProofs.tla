--------------------------- MODULE ComputerProofs ---------------------------
(***************************************************************************)
(* Theorems about the machine and its hosts, for all guests and hosts, any *)
(* length of a slice and any alphabet: core and UART stay within what      *)
(* their own modules allow for, and a host with a loop leaves no more than *)
(* a slice's output unshown.  For all drivers that have a map by which     *)
(* they echo (module Computer): they do, with any host.                    *)
(***************************************************************************)
EXTENDS Computer, FiniteSetTheorems, TLAPS

\* The theorems about the UART, of the UART in the machine.
Serial == INSTANCE UartProofs

-----------------------------------------------------------------------------
(* The invariant.                                                           *)

\* Where the host is tells whether a slice is under way, and whether Run has
\* returned false.
HostInv ==
    /\ host \in {"terminal", "native", "web"}
    /\ turn \in {"run", "cpu", "keys", "drain", "idle", "stopped"}
    /\ left \in Nat /\ ((turn = "cpu") = (left > 0))
    /\ running \in BOOLEAN /\ (turn # "stopped" => running)
    /\ turn = "idle" => host = "web"

\* A slice starts with nothing to display.
DisplayInv ==
    /\ before \in Nat /\ before <= Len(sent)
    /\ host # "web" => Len(display_fifo) <= Len(sent) - before
    /\ host # "web" /\ turn = "run" => display_fifo = <<>>

ComputerInv == Serial!UartInv /\ HostInv /\ DisplayInv /\ code \in Programs

-----------------------------------------------------------------------------
(* The device.                                                              *)

\* What the lemmas about the UART need of the constants.
LEMMA UartConstants == Serial!UartAssumption
BY ComputerAssumption DEF Uart!UartAssumption, Serial!UartAssumption, Uart!Nul, Serial!Nul

\* The FIFOs hold bytes, and so do the registers that are echoed.
LEMMA DeviceTypes ==
    ASSUME ComputerInv
    PROVE  /\ keypress_fifo \in Seq(Char) /\ display_fifo \in Seq(Char)
           /\ sent \in Seq(Char) /\ dlab \in BOOLEAN
           /\ echo \in [Uart!EchoRegister -> Latch]
BY DEF ComputerInv, Serial!UartInv, Serial!UartTypeOK, Serial!EchoRegister, Uart!EchoRegister

\* The offsets name the registers.
LEMMA RegisterNames ==
    ASSUME NEW offset \in Uart!Offset, dlab \in BOOLEAN
    PROVE  LET r == Uart!RegisterAt(offset) IN
           /\ r = "IER" => offset = 1
           /\ r = "IIR" => offset = 2
           /\ r = "LCR" => offset = 3
BY DEF Uart!Offset, Uart!RegisterAt

\* A load or a store of the guest.
LEMMA DeviceInstruction ==
    ASSUME code \in Programs, Core!Instruction.op \in {"load", "store"}, Device
    PROVE  LET i == Core!Instruction IN
           /\ i.offset \in Uart!Offset
           /\ i.op = "store" /\ i.offset = 1 => i.value \subseteq {"rx", "tx"}
           /\ i.op = "store" /\ i.offset \in {2, 3} => i.value \in BOOLEAN
<1>1. cpu.pc \in DOMAIN code
  BY DEF Core!Instruction, Core!InstructionAt
<1>2. Core!Instruction = code[cpu.pc]
  BY <1>1 DEF Core!Instruction, Core!InstructionAt
<1> QED
  BY <1>1, <1>2, DriversAssumption DEF Device

-----------------------------------------------------------------------------
(* The UART, among the core and the host.                                   *)

\* Every step of the machine is one of the UART, or leaves it alone.
LEMMA MachineMovesUart ==
    ASSUME ComputerInv, [ComputerNext]_computerVars
    PROVE  Uart!UartNext \/ UNCHANGED deviceVars
<1>1. CASE \E c \in Char : Keypress(c)
  BY <1>1 DEF Keypress, Uart!UartNext
<1>2. CASE Display
  BY <1>2 DEF Display, Uart!UartNext
<1>3. CASE StartRun \/ LoadImage \/ NoMoreKeys \/ Drained \/ UNCHANGED computerVars
  BY <1>3 DEF StartRun, LoadImage, NoMoreKeys, Drained, computerVars
<1>4. CASE DeviceLoad
  <2>1. Core!Instruction.offset \in Uart!Offset
    BY <1>4, DeviceInstruction DEF DeviceLoad, Core!Runs, ComputerInv
  <2> QED
    BY <1>4, <2>1 DEF DeviceLoad, Uart!UartNext
<1>5. CASE DeviceStore
  <2> DEFINE i == Core!Instruction
             r == Uart!RegisterAt(i.offset)
             v == i.value
  <2>1. i.op = "store" /\ Device
    BY <1>5 DEF DeviceStore, Core!Runs
  <2>2. /\ i.offset \in Uart!Offset
        /\ i.offset = 1 => i.value \subseteq {"rx", "tx"}
        /\ i.offset \in {2, 3} => i.value \in BOOLEAN
    BY <2>1, DeviceInstruction DEF ComputerInv
  <2>3. /\ r = "IER" => v \in SUBSET {"rx", "tx"}
        /\ r \in {"IIR", "LCR"} => v \in BOOLEAN
    BY <2>2, RegisterNames, DeviceTypes
  <2>4. \/ \E c \in Char : Uart!StoreData(c)
        \/ r = "IER"  /\ Uart!StoreIER(v)
        \/ r = "IIR"  /\ Uart!StoreFCR(v)
        \/ r = "LCR"  /\ Uart!StoreLCR(v)
        \/ r \in Uart!EchoRegister /\ \E c \in Latch : Uart!StoreEcho(r, c)
    BY <1>5 DEF DeviceStore
  <2> HIDE DEF r, v
  <2> QED
    BY <2>3, <2>4 DEF Uart!UartNext
<1>6. CASE OtherCycle
  BY <1>6 DEF OtherCycle
<1> QED
  BY <1>1, <1>2, <1>3, <1>4, <1>5, <1>6 DEF ComputerNext, Progress, Guest

\* The UART's own theorems speak of the same steps.
LEMMA UartStepsAgree == Uart!UartNext => Serial!UartNext
<1> SUFFICES ASSUME Uart!UartNext PROVE Serial!UartNext
  OBVIOUS
<1> USE DEF Serial!UartNext, Serial!Offset, Serial!EchoRegister, Serial!regs, Serial!fifos,
        Serial!history, Uart!regs, Uart!fifos, Uart!history
<1>1. CASE \E c \in Char : Uart!Keypress(c) \/ Uart!StoreData(c)
  BY <1>1 DEF Uart!Keypress, Serial!Keypress, Uart!StoreData, Serial!StoreData
<1>2. CASE Uart!Read
  BY <1>2 DEF Uart!Read, Serial!Read, Uart!CanRead, Serial!CanRead
<1>3. ASSUME NEW offset \in Uart!Offset, Uart!Load8(offset) PROVE Serial!UartNext
  <2>1. Uart!RegisterAt(offset) = Serial!RegisterAt(offset)
    BY DEF Uart!RegisterAt, Serial!RegisterAt
  <2> DEFINE r == Serial!RegisterAt(offset)
  <2>2. Uart!LoadValue(r) = Serial!LoadValue(r)
    BY DEF Uart!LoadValue, Serial!LoadValue, Uart!IsInterruptAsserted, Serial!IsInterruptAsserted,
       Uart!IsDataReadyInterrupt, Serial!IsDataReadyInterrupt, Uart!IsTransmitReadyInterrupt,
       Serial!IsTransmitReadyInterrupt, Uart!Source, Serial!Source, Uart!EchoRegister,
       Serial!Nul, Uart!Nul
  <2>3. Uart!PopKeypress(r) => Serial!PopKeypress(r)
    BY <2>2 DEF Uart!PopKeypress, Serial!PopKeypress
  <2>4. Uart!AcknowledgeTransmit(r) => Serial!AcknowledgeTransmit(r)
    BY DEF Uart!AcknowledgeTransmit, Serial!AcknowledgeTransmit
  <2>5. offset \in Serial!Offset
    BY DEF Uart!Offset
  <2> HIDE DEF r
  <2>6. Serial!Load8(offset)
    BY <1>3, <2>1, <2>2, <2>3, <2>4 DEF Uart!Load8, Serial!Load8, r
  <2> QED
    BY <2>5, <2>6
<1>4. CASE \E enabled \in SUBSET {"rx", "tx"} : Uart!StoreIER(enabled)
  BY <1>4 DEF Uart!StoreIER, Serial!StoreIER
<1>5. CASE \E b \in BOOLEAN : Uart!StoreFCR(b) \/ Uart!StoreLCR(b)
  BY <1>5 DEF Uart!StoreFCR, Serial!StoreFCR, Uart!StoreLCR, Serial!StoreLCR
<1>6. CASE \E r \in Uart!EchoRegister, v \in Latch : Uart!StoreEcho(r, v)
  BY <1>6 DEF Uart!StoreEcho, Serial!StoreEcho, Uart!EchoRegister
<1> QED
  BY <1>1, <1>2, <1>3, <1>4, <1>5, <1>6 DEF Uart!UartNext

\* The UART's invariant survives what the machine does.
LEMMA SerialStepHolds ==
    ASSUME ComputerInv, [ComputerNext]_computerVars
    PROVE  Serial!UartInv'
<1>1. Serial!UartNext \/ UNCHANGED Serial!uartVars
  BY MachineMovesUart, UartStepsAgree
     DEF deviceVars, Serial!uartVars, Serial!fifos, Serial!regs, Serial!history
<1>2. Serial!UartInv
  BY DEF ComputerInv
<1> QED
  BY <1>1, <1>2, UartConstants, Serial!UartStepHolds

-----------------------------------------------------------------------------
(* The core, among the device and the host.                                 *)

\* The number a register leaves in a general register fits.
LEMMA WordFits ==
    ASSUME ComputerInv, NEW r
    PROVE  Word(r, Uart!LoadValue(r)) \in 0 .. WordMod - 1
<1>1. {0, 1, 2} \subseteq 0 .. WordMod - 1
  BY ComputerAssumption DEF Core!CpuAssumption
<1>2. \A b \in Latch : Code[b] \in 0 .. WordMod - 1
  BY ComputerAssumption
<1>3. CASE r = "DATA"
  <2>1. keypress_fifo # <<>> => Head(keypress_fifo) \in Char
    BY DeviceTypes
  <2>2. Uart!LoadValue(r) = IF keypress_fifo = <<>> THEN Uart!Nul ELSE Head(keypress_fifo)
    BY <1>3 DEF Uart!LoadValue, Uart!EchoRegister
  <2>3. Uart!LoadValue(r) \in Latch
    BY <2>1, <2>2, ComputerAssumption DEF Uart!UartAssumption
  <2> QED
    BY <1>2, <1>3, <2>3 DEF Word
<1>4. CASE r \in Uart!EchoRegister
  <2>1. Uart!LoadValue(r) \in Latch
    BY <1>4, DeviceTypes DEF Uart!LoadValue, Uart!EchoRegister
  <2> QED
    BY <1>2, <1>4, <2>1 DEF Word, Uart!EchoRegister
<1>5. CASE r # "DATA" /\ r \notin Uart!EchoRegister
  <2>1. ASSUME r = "LSR" PROVE Word(r, Uart!LoadValue(r)) \in {0, 1, 2}
    BY <1>5, <2>1 DEF Word
  <2>2. ASSUME r = "IIR" PROVE Word(r, Uart!LoadValue(r)) \in {0, 1, 2}
    BY <1>5, <2>2 DEF Word
  <2>3. ASSUME r \notin {"LSR", "IIR"} PROVE Word(r, Uart!LoadValue(r)) \in {0, 1, 2}
    BY <1>5, <2>3 DEF Word
  <2> QED
    BY <1>1, <2>1, <2>2, <2>3
<1> QED
  BY <1>3, <1>4, <1>5, Zenon

\* What the guest does to the core is a cycle of it.
LEMMA GuestRunsCore ==
    ASSUME ComputerInv, DeviceLoad \/ DeviceStore \/ OtherCycle
    PROVE  Core!Cycle
<1>1. CASE DeviceLoad
  <2> DEFINE i == Core!Instruction
             r == Uart!RegisterAt(i.offset)
  <2>1. reply' = <<r, Uart!LoadValue(r)>>
    BY <1>1 DEF DeviceLoad, Uart!Load8
  <2>2. Word(reply'[1], reply'[2]) \in 0 .. WordMod - 1
    BY <2>1, WordFits
  <2>3. Core!Load
    BY <1>1, <2>2 DEF DeviceLoad, Core!Load
  <2> QED
    BY <2>3 DEF Core!Cycle, Core!RunInstruction
<1>2. CASE DeviceStore
  BY <1>2 DEF DeviceStore, Core!Store, Core!Cycle, Core!RunInstruction
<1>3. CASE OtherCycle
  BY <1>3 DEF OtherCycle
<1> QED
  BY <1>1, <1>2, <1>3

\* A cycle takes one from the slice, or ends it.
LEMMA CycleCounts ==
    ASSUME Core!Cycle
    PROVE  /\ left > 0 /\ code' = code
           /\ \/ left' = left - 1 /\ running' = running
              \/ left' = 0 /\ running' \in {running, FALSE}
BY DEF Core!Cycle, Core!RunInstruction, Core!TickInterrupt, Core!FetchFault, Core!Fetching,
       Core!Set, Core!Inc, Core!Compare, Core!J, Core!Jal, Core!Jr, Core!Jalr, Core!Bf, Core!Bnf,
       Core!ConditionalBranch, Core!Nop, Core!Halt, Core!Trap, Core!Sys, Core!Illegal, Core!Rfe,
       Core!Mtspr, Core!Mfspr, Core!Load, Core!Store, Core!DataFault, Core!Access, Core!Retire,
       Core!Stop, Core!Runs

\* A key raises the line or leaves it, and only between slices.
LEMMA KeypressIsInput ==
    ASSUME ComputerInv, NEW c \in Char, Keypress(c)
    PROVE  Core!HostInput
<1>1. left = 0 /\ running
  BY DEF ComputerInv, HostInv, Keypress
<1>2. keypress_fifo' # <<>>
  <2>1. keypress_fifo' = Append(keypress_fifo, c)
    BY DEF Keypress, Uart!Keypress
  <2>2. keypress_fifo \in Seq(Char)
    BY DeviceTypes
  <2> QED
    BY <2>1, <2>2
<1>3. Interrupts \subseteq Interrupts' /\ Interrupts' \in SUBSET {UartLine}
  BY <1>2 DEF Interrupts, Keypress, Uart!Keypress, Uart!IsInterruptAsserted, Uart!regs,
     Uart!IsDataReadyInterrupt, Uart!IsTransmitReadyInterrupt
<1> QED
  BY <1>1, <1>3 DEF Core!HostInput, Keypress, coreVars

\* Every step of the machine is one of the core, or leaves core and line alone.
LEMMA MachineMovesCore ==
    ASSUME ComputerInv, [ComputerNext]_computerVars
    PROVE  Core!CpuNext \/ UNCHANGED Core!cpuVars
<1>1. CASE UNCHANGED coreVars /\ UNCHANGED <<keypress_fifo, ier, transmit_ready_interrupt>>
  BY <1>1 DEF coreVars, Core!cpuVars, Interrupts, Uart!IsInterruptAsserted,
     Uart!IsDataReadyInterrupt, Uart!IsTransmitReadyInterrupt
<1>2. CASE Display \/ NoMoreKeys \/ Drained \/ UNCHANGED computerVars
  BY <1>1, <1>2 DEF Display, Uart!Read, Uart!regs, NoMoreKeys, Drained, computerVars, deviceVars
<1>3. CASE StartRun \/ LoadImage
  BY <1>3 DEF StartRun, LoadImage, Core!CpuNext
<1>4. CASE Guest
  BY <1>4, GuestRunsCore DEF Guest, Core!CpuNext
<1>5. CASE \E c \in Char : Keypress(c)
  BY <1>5, KeypressIsInput DEF Core!CpuNext
<1> QED
  BY <1>2, <1>3, <1>4, <1>5 DEF ComputerNext, Progress

-----------------------------------------------------------------------------
(* The host.                                                                *)

\* The host runs what it can, and a slice it began goes to its end.
LEMMA HostStepHolds ==
    ASSUME ComputerInv, [ComputerNext]_computerVars
    PROVE  HostInv'
<1>1. CASE UNCHANGED <<coreVars, hostVars>>
  BY <1>1 DEF ComputerInv, HostInv, coreVars, hostVars
<1>2. CASE StartRun
  BY <1>2, ComputerAssumption DEF ComputerInv, HostInv, StartRun, Core!StartRun, Core!CpuAssumption
<1>3. CASE LoadImage
  BY <1>3 DEF ComputerInv, HostInv, LoadImage, Core!Reload
<1>4. CASE NoMoreKeys \/ Drained
  BY <1>4 DEF ComputerInv, HostInv, NoMoreKeys, Drained, coreVars
<1>5. CASE Guest
  <2>1. /\ left > 0 /\ code' = code
        /\ \/ left' = left - 1 /\ running' = running
           \/ left' = 0 /\ running' \in {running, FALSE}
    BY <1>5, GuestRunsCore, CycleCounts DEF Guest
  <2>2. left \in Nat /\ left > 0 /\ (left' = left - 1 \/ left' = 0)
    BY <2>1, Zenon DEF ComputerInv, HostInv
  <2>3. left' \in Nat /\ (left' > 0 => left' # 0)
    BY <2>2
  <2>4. running /\ running \in BOOLEAN /\ host \in {"terminal", "native", "web"}
    BY <1>5, Zenon DEF ComputerInv, HostInv, Guest
  <2>5. running' \in BOOLEAN /\ (left' > 0 => running')
    BY <2>1, <2>3, <2>4, Zenon
  <2>6. turn' = AfterRun /\ host' = host
    BY <1>5 DEF Guest
  <2>7. CASE left' > 0
    BY <2>3, <2>4, <2>5, <2>6, <2>7 DEF AfterRun, HostInv
  <2>8. CASE ~(left' > 0) /\ ~running'
    BY <2>3, <2>4, <2>5, <2>6, <2>8 DEF AfterRun, HostInv
  <2>9. CASE ~(left' > 0) /\ running'
    <3>1. AfterRun = [web |-> "idle", terminal |-> "keys", native |-> "drain"][host]
      BY <2>9 DEF AfterRun
    <3>2. /\ host = "web" => turn' = "idle"
          /\ host = "terminal" => turn' = "keys"
          /\ host = "native" => turn' = "drain"
      BY <2>6, <3>1
    <3> QED
      BY <2>3, <2>4, <2>5, <2>6, <2>9, <3>2 DEF HostInv
  <2> QED
    BY <2>7, <2>8, <2>9
<1>6. CASE Display \/ (\E c \in Char : Keypress(c)) \/ UNCHANGED computerVars
  BY <1>1, <1>6 DEF Display, Keypress, computerVars
<1> QED
  BY <1>2, <1>3, <1>4, <1>5, <1>6 DEF ComputerNext, Progress

\* What the UART does to the bytes sent and to those that wait.
LEMMA DeviceSends ==
    ASSUME ComputerInv, Uart!UartNext \/ UNCHANGED deviceVars
    PROVE  \/ UNCHANGED <<sent, display_fifo>>
           \/ /\ Len(sent') = Len(sent) + 1 /\ Len(display_fifo') = Len(display_fifo) + 1
           \/ /\ UNCHANGED sent /\ display_fifo # <<>>
              /\ Len(display_fifo') = Len(display_fifo) - 1
<1>1. display_fifo \in Seq(Char) /\ sent \in Seq(Char)
  BY DeviceTypes
<1>2. ASSUME NEW c \in Char, Uart!StoreData(c)
      PROVE  Len(sent') = Len(sent) + 1 /\ Len(display_fifo') = Len(display_fifo) + 1
  <2>1. sent' = Append(sent, c) /\ display_fifo' = Append(display_fifo, c)
    BY <1>2 DEF Uart!StoreData
  <2> QED
    BY <1>1, <2>1
<1>3. CASE Uart!Read
  <2>1. display_fifo' = Tail(display_fifo) /\ display_fifo # <<>> /\ sent' = sent
    BY <1>3 DEF Uart!Read, Uart!CanRead
  <2> QED
    BY <1>1, <2>1
<1>4. ASSUME NEW offset, Uart!Load8(offset) PROVE UNCHANGED <<sent, display_fifo>>
  BY <1>4 DEF Uart!Load8
<1>5. ASSUME NEW v, NEW r, \/ Uart!Keypress(v) \/ Uart!StoreIER(v) \/ Uart!StoreFCR(v)
                           \/ Uart!StoreLCR(v) \/ Uart!StoreEcho(r, v)
      PROVE  UNCHANGED <<sent, display_fifo>>
  BY <1>5 DEF Uart!Keypress, Uart!StoreIER, Uart!StoreFCR, Uart!StoreLCR, Uart!StoreEcho,
     Uart!fifos, Uart!history
<1>6. CASE UNCHANGED deviceVars
  BY <1>6 DEF deviceVars
<1> QED
  BY <1>2, <1>3, <1>4, <1>5, <1>6 DEF Uart!UartNext

\* A host with a loop displays all there is before it starts a slice.
LEMMA DisplayStepHolds ==
    ASSUME ComputerInv, [ComputerNext]_computerVars
    PROVE  DisplayInv'
<1>1. /\ display_fifo \in Seq(Char) /\ sent \in Seq(Char)
      /\ Len(display_fifo) \in Nat /\ Len(sent) \in Nat
  BY DeviceTypes
<1>2. \/ UNCHANGED <<sent, display_fifo>>
      \/ /\ Len(sent') = Len(sent) + 1 /\ Len(display_fifo') = Len(display_fifo) + 1
      \/ /\ UNCHANGED sent /\ display_fifo # <<>>
         /\ Len(display_fifo') = Len(display_fifo) - 1
  BY MachineMovesUart, DeviceSends
<1> USE DEF ComputerInv, DisplayInv
<1>3. CASE StartRun
  <2>1. /\ before' = Len(sent) /\ UNCHANGED <<sent, display_fifo, host>> /\ turn' = "cpu"
        /\ turn \in {"run", "idle"}
    BY <1>3 DEF StartRun, deviceVars
  <2>2. host # "web" => display_fifo = <<>>
    BY <2>1 DEF HostInv
  <2> QED
    BY <1>1, <2>1, <2>2
<1>4. CASE Display
  <2>1. UNCHANGED <<host, turn, before>> /\ turn # "run"
    BY <1>4 DEF Display, hostVars
  <2> QED
    BY <1>1, <1>2, <2>1
<1>5. CASE Guest
  <2>1. UNCHANGED <<host, before>> /\ turn' = AfterRun
    BY <1>5 DEF Guest
  <2>2. turn' # "run" /\ Len(sent') >= Len(sent)
    BY <1>1, <1>2, <2>1 DEF AfterRun, HostInv
  <2> QED
    BY <1>1, <1>2, <1>5, <2>1, <2>2 DEF Guest
<1>6. CASE LoadImage \/ (\E c \in Char : Keypress(c)) \/ NoMoreKeys \/ UNCHANGED computerVars
  <2>1. /\ UNCHANGED <<sent, display_fifo, host, before>>
        /\ turn' = turn \/ turn' \in {"idle", "drain"}
    BY <1>6 DEF LoadImage, Keypress, Uart!Keypress, Uart!regs, NoMoreKeys, computerVars,
       deviceVars, hostVars
  <2> QED
    BY <2>1
<1>7. CASE Drained
  <2>1. UNCHANGED <<sent, display_fifo, host, before>> /\ display_fifo = <<>>
    BY <1>7 DEF Drained, deviceVars, Uart!CanRead
  <2> QED
    BY <2>1
<1> QED
  BY <1>3, <1>4, <1>5, <1>6, <1>7 DEF ComputerNext, Progress

-----------------------------------------------------------------------------
(* The theorems.                                                            *)

\* The machine is off to a good start.
LEMMA ComputerInitHolds == ComputerInit => ComputerInv
<1> SUFFICES ASSUME ComputerInit PROVE ComputerInv
  OBVIOUS
<1>1. Serial!UartInit
  BY DEF ComputerInit, Uart!UartInit, Serial!UartInit, Uart!EchoRegister, Serial!EchoRegister,
     Uart!Nul, Serial!Nul
<1>2. Serial!UartInv
  BY <1>1, UartConstants, Serial!UartInitHolds
<1>3. HostInv
  BY ComputerAssumption DEF ComputerInit, HostInv
<1>4. DisplayInv
  BY DEF ComputerInit, DisplayInv, Uart!UartInit
<1> QED
  BY <1>2, <1>3, <1>4 DEF ComputerInv, ComputerInit

\* Only images that the loader knows are in memory.
LEMMA ComputerStepHolds == ComputerInv /\ [ComputerNext]_computerVars => ComputerInv'
<1> SUFFICES ASSUME ComputerInv, [ComputerNext]_computerVars PROVE ComputerInv'
  OBVIOUS
<1>1. Core!CpuNext \/ UNCHANGED Core!cpuVars
  BY MachineMovesCore
<1>2. (code \in Programs)'
  BY <1>1, CycleCounts
     DEF ComputerInv, Core!CpuNext, Core!HostInput, Core!Reload, Core!StartRun, Core!cpuVars
<1> QED
  BY <1>2, SerialStepHolds, HostStepHolds, DisplayStepHolds DEF ComputerInv

\* The parts keep their places for every guest and every host.
THEOREM ComputerInvariant == ComputerSpec => []ComputerInv
BY ComputerInitHolds, ComputerStepHolds, PTL DEF ComputerSpec

\* Host and slice agree on who is to act, whatever the guest runs (the loops
\* of main.cc and main_web.cc, the calls of emscripten.cc).
THEOREM ComputerTypeCorrect == ComputerSpec => []ComputerTypeOK
<1>1. ComputerInv /\ host \in Hosts => ComputerTypeOK
  <2> SUFFICES ASSUME ComputerInv, host \in Hosts PROVE ComputerTypeOK
    OBVIOUS
  <2>1. Len(sent) \in Nat
    BY DeviceTypes
  <2>2. before \in 0 .. Len(sent)
    BY <2>1 DEF ComputerInv, DisplayInv
  <2> QED
    BY <2>2 DEF ComputerInv, HostInv, ComputerTypeOK
<1>2. ComputerInit => host \in Hosts
  BY DEF ComputerInit
<1>3. host \in Hosts /\ [ComputerNext]_computerVars => (host \in Hosts)'
  BY DEF ComputerNext, Progress, StartRun, LoadImage, Keypress, NoMoreKeys, Display, Drained,
     Guest, computerVars, hostVars
<1> QED
  BY <1>1, <1>2, <1>3, ComputerInvariant, PTL DEF ComputerSpec

\* A host with a loop leaves no more unshown than the guest sent in the
\* current slice, and loses no more when the loop ends (main.cc).
THEOREM UnshownIsOfThisSlice == ComputerSpec => []OnlyThisSliceIsUnshown
<1>1. ComputerInv => OnlyThisSliceIsUnshown
  BY DEF ComputerInv, DisplayInv, OnlyThisSliceIsUnshown
<1> QED
  BY <1>1, ComputerInvariant, PTL

\* The machine is one of the surroundings module Cpu was checked in: the lines
\* move when the guest accesses the device and rise between slices, never
\* otherwise.  So what is proved of the core holds within it.
THEOREM MachineImplementsCore == ComputerSpec => CoreIsImplemented
<1>1. ComputerInit => Core!CpuInit
  BY DEF ComputerInit, Core!CpuInit, Interrupts, Uart!UartInit, Uart!IsInterruptAsserted,
     Uart!IsDataReadyInterrupt, Uart!IsTransmitReadyInterrupt
<1>2. ComputerInv /\ [ComputerNext]_computerVars => [Core!CpuNext]_Core!cpuVars
  BY MachineMovesCore
<1> QED
  BY <1>1, <1>2, ComputerInvariant, PTL DEF ComputerSpec, CoreIsImplemented, Core!CpuSpec

-----------------------------------------------------------------------------
(* The drivers that echo.                                                   *)

\* The bytes sent are some of the first n received, in order; of a host that
\* loads no images, they are the first ones.
SentOf(kept) ==
    /\ host = "web" \/ kept = 1 .. Len(sent)
    /\ Len(sent) = Cardinality(kept)
    /\ \A n \in kept : sent[Cardinality({m \in kept : m <= n})] = consumed[n]
SentFrom(n) == \E kept \in SUBSET (1 .. n) : SentOf(kept)

\* Nothing received is still to be sent, or all but the byte in a register
\* (a load of an open divisor latch receives nothing).
AllSent == host = "web" \/ Len(sent) = Len(consumed)
Held(r) ==
    IF dlab THEN AllSent
    ELSE /\ Len(consumed) > 0 /\ SentFrom(Len(consumed) - 1)
         /\ host = "web" \/ Len(consumed) = Len(sent) + 1
         /\ cpu.reg[r] = Code[consumed[Len(consumed)]]

\* What the map of an image says is known.
Knows(known, open) ==
    /\ Echoed \in known => AllSent
    /\ Latched \in known => dlab
    /\ Ready \in known => keypress_fifo # <<>>
    /\ Flag \in known /\ "F" \in cpu.sr => keypress_fifo # <<>>
    /\ Saved \in known => cpu.epcr0 \in open /\ "SM" \in cpu.esr0 /\ cpu.esr0 \subseteq DriverSR
    /\ \A r \in Reg :
           /\ Tells(r) \in known /\ cpu.reg[r] = 1 => keypress_fifo # <<>>
           /\ Holds(r) \in known => Held(r)

\* The address at which an exception would resume.
Place == IF cpu.in_delay_slot THEN cpu.pc - 1 ELSE cpu.pc

InDriver(map) ==
    /\ Place \in DOMAIN map.known
    /\ "SM" \in cpu.sr /\ cpu.sr \subseteq DriverSR /\ cpu.ttmr = Core!TimerOff
    /\ "IEE" \in cpu.sr => Place \in map.open
    /\ ~cpu.in_delay_slot => Knows(map.known[Place], map.open)
    /\ cpu.in_delay_slot =>
           /\ code[Place].op \in {"j", "bf", "bnf"} /\ cpu.delayed_next_pc = code[Place].k
           /\ Knows(IfTaken(code[Place], map.known[Place]), map.open)

EchoInv(map) ==
    /\ ComputerInv /\ cpu \in Core!CpuState
    /\ SentFrom(Len(consumed))
    /\ running => InDriver(map)

\* What is known is still so when the device and the host add keys only.
LEMMA SentFromKeeps ==
    ASSUME NEW n \in Nat, UNCHANGED <<host, sent>>,
           \A m \in 1 .. n : consumed'[m] = consumed[m], SentFrom(n)
    PROVE  SentFrom(n)'
<1>1. PICK kept \in SUBSET (1 .. n) : SentOf(kept)
  BY DEF SentFrom
<1>2. SentOf(kept)'
  BY <1>1 DEF SentOf
<1> QED
  BY <1>2 DEF SentFrom

\* One more byte is sent, the next of those received.
LEMMA SentOneMore ==
    ASSUME NEW n \in Nat, NEW c, sent \in Seq(Char), consumed \in Seq(Char),
           n < Len(consumed), SentFrom(n), host = "web" \/ n = Len(sent),
           sent' = Append(sent, c), UNCHANGED <<host, consumed>>, c = consumed[n + 1], c \in Char
    PROVE  SentFrom(n + 1)'
<1>1. PICK kept \in SUBSET (1 .. n) : SentOf(kept)
  BY DEF SentFrom
<1> DEFINE more == kept \cup {n + 1}
<1>2. IsFiniteSet(kept)
  <2>1. 1 \in Int /\ n \in Int
    OBVIOUS
  <2>2. IsFiniteSet(1 .. n)
    BY <2>1, FS_Interval
  <2> QED
    BY <1>1, <2>2, FS_Subset
<1>3. Cardinality(kept) \in Nat /\ n + 1 \notin kept
  BY <1>1, <1>2, FS_CardinalityType
<1>4. Cardinality(more) = Cardinality(kept) + 1
  BY <1>2, <1>3, FS_AddElement
<1>5. Len(sent) = Cardinality(kept) /\ Len(sent') = Len(sent) + 1 /\ sent'[Len(sent) + 1] = c
      /\ \A m \in 1 .. Len(sent) : sent'[m] = sent[m]
  BY <1>1 DEF SentOf
<1>6. host' = "web" \/ more = 1 .. Len(sent')
  <2> SUFFICES ASSUME host # "web" PROVE more = 1 .. Len(sent')
    OBVIOUS
  <2>1. kept = 1 .. Len(sent) /\ n = Len(sent) /\ Len(sent) \in Nat
    BY <1>1 DEF SentOf
  <2> QED
    BY <1>5, <2>1
<1>7. ASSUME NEW k \in more PROVE sent'[Cardinality({m \in more : m <= k})] = consumed'[k]
  <2>1. CASE k = n + 1
    <3>1. \A m \in more : m <= k
      BY <1>1, <2>1
    <3>2. {m \in more : m <= k} = more
      BY <3>1
    <3> QED
      BY <1>4, <1>5, <2>1, <3>2
  <2>2. CASE k \in kept
    <3> DEFINE below == {m \in kept : m <= k}
    <3>1. k \in 1 .. n
      BY <1>1, <2>2
    <3>2. {m \in more : m <= k} = below
      BY <1>1, <3>1
    <3>3. k \in below /\ below \in SUBSET kept
      BY <2>2, <3>1
    <3>4. IsFiniteSet(below) /\ Cardinality(below) <= Cardinality(kept)
      BY <1>2, <3>3, FS_Subset
    <3>5. Cardinality(below) \in Nat /\ Cardinality(below) # 0
      BY <3>3, <3>4, FS_CardinalityType, FS_EmptySet
    <3>6. sent[Cardinality(below)] = consumed[k]
      BY <1>1, <2>2 DEF SentOf
    <3>7. Cardinality(below) \in 1 .. Len(sent)
      BY <1>3, <1>5, <3>4, <3>5
    <3> HIDE DEF below
    <3> QED
      BY <1>5, <3>2, <3>6, <3>7
  <2> QED
    BY <2>1, <2>2
<1>8. SentOf(more)'
  BY <1>4, <1>5, <1>6, <1>7 DEF SentOf
<1>9. more \in SUBSET (1 .. n + 1)
  BY <1>1
<1> HIDE DEF more
<1> QED
  BY <1>8, <1>9 DEF SentFrom

\* To know less is to know.
LEMMA KnowsLess ==
    ASSUME NEW known, NEW open, NEW less \in SUBSET known, Knows(known, open)
    PROVE  Knows(less, open)
BY DEF Knows

\* What is known is still so when nothing of what it is about has changed.
LEMMA KnowsRemains ==
    ASSUME NEW known, NEW open, consumed \in Seq(Char),
           Knows(known, open), UNCHANGED <<host, sent, consumed, dlab>>,
           keypress_fifo # <<>> => keypress_fifo' # <<>>,
           Flag \in known /\ "F" \in cpu'.sr => "F" \in cpu.sr,
           Saved \in known => cpu'.epcr0 = cpu.epcr0 /\ cpu'.esr0 = cpu.esr0,
           \A r \in Reg : Tells(r) \in known \/ Holds(r) \in known => cpu'.reg[r] = cpu.reg[r]
    PROVE  Knows(known, open)'
<1>1. AllSent => AllSent'
  BY DEF AllSent
<1>2. Len(consumed) > 0 /\ SentFrom(Len(consumed) - 1) => SentFrom(Len(consumed) - 1)'
  <2> SUFFICES ASSUME Len(consumed) > 0, NEW n \in Nat, n = Len(consumed) - 1, SentFrom(n)
               PROVE  SentFrom(n)'
    BY DEF SentFrom, SentOf
  <2> QED
    BY SentFromKeeps
<1>3. ASSUME NEW r \in Reg, Held(r), cpu'.reg[r] = cpu.reg[r] PROVE Held(r)'
  BY <1>1, <1>2, <1>3 DEF Held
<1> QED
  BY <1>1, <1>3 DEF Knows

\* The exception registers are left alone.
SavedRemain == cpu'.epcr0 = cpu.epcr0 /\ cpu'.esr0 = cpu.esr0

\* An instruction that writes a general register, the device's data apart.
LEMMA WriteTells ==
    ASSUME NEW i, NEW known, NEW open, consumed \in Seq(Char), Knows(known, open),
           UNCHANGED <<host, sent, consumed, dlab>>, keypress_fifo # <<>> => keypress_fifo' # <<>>,
           cpu'.sr = cpu.sr, SavedRemain,
           \A r \in Reg : r # i.d => cpu'.reg[r] = cpu.reg[r]
    PROVE  Knows(known \ About(i.d), open)'
<1>1. Knows(known \ About(i.d), open)
  BY KnowsLess
<1> DEFINE less == known \ About(i.d)
<1>2. \A r \in Reg : Tells(r) \in less \/ Holds(r) \in less => r # i.d
  BY DEF About
<1> HIDE DEF less
<1>3. Knows(less, open)'
  BY <1>1, <1>2, KnowsRemains DEF SavedRemain, less
<1> QED
  BY <1>3 DEF less

\* A comparison, which tells of the FIFO if it is one with 1 of the line status.
LEMMA CompareTells ==
    ASSUME NEW i, NEW known, NEW open, consumed \in Seq(Char), Knows(known, open),
           UNCHANGED <<host, deviceVars>>,
           i.op = "sf", i.a \in Reg, cpu'.reg = cpu.reg, SavedRemain,
           cpu'.sr = IF cpu.reg[i.a] = i.k THEN cpu.sr \cup {"F"} ELSE cpu.sr \ {"F"}
    PROVE  Knows(Learns(i, known), open)'
<1> DEFINE less == known \ {Flag}
<1>1. Knows(less, open)
  BY KnowsLess
<1>2. Flag \notin less
  OBVIOUS
<1> HIDE DEF less
<1>3. Knows(less, open)'
  BY <1>1, <1>2, KnowsRemains DEF SavedRemain, deviceVars
<1>4. CASE i.k = 1 /\ Tells(i.a) \in known
  <2>1. Learns(i, known) = known \cup {Flag}
    <3>1. Learns(i, known) = IF i.k = 1 /\ Tells(i.a) \in known THEN known \cup {Flag}
                                                              ELSE known \ {Flag}
      BY DEF Learns
    <3> QED
      BY <1>4, <3>1
  <2>2. "F" \in cpu'.sr => keypress_fifo' # <<>>
    BY <1>4 DEF Knows, deviceVars
  <2>3. Knows(known \cup {Flag}, open)'
    BY <1>3, <2>2 DEF Knows, less, Flag, Echoed, Latched, Ready, Saved, Tells, Holds
  <2> QED
    BY <2>1, <2>3
<1>5. CASE ~(i.k = 1 /\ Tells(i.a) \in known)
  <2>1. Learns(i, known) = less
    BY <1>5 DEF Learns, less
  <2> QED
    BY <1>3, <2>1
<1> QED
  BY <1>4, <1>5

\* A write of a special register, and the instructions that write none.
LEMMA OtherTells ==
    ASSUME NEW i, NEW known, NEW open, consumed \in Seq(Char), Knows(known, open),
           UNCHANGED <<host, deviceVars>>, cpu'.reg = cpu.reg, SavedRemain,
           \/ cpu'.sr = cpu.sr
           \/ i.op = "mtspr" /\ i.spr = "SR"
    PROVE  i.op \in {"mtspr", "nop", "j", "bf", "bnf"} \/ (i.op = "store" /\ ~i.device)
               => Knows(Learns(i, known), open)'
<1> SUFFICES ASSUME i.op \in {"mtspr", "nop", "j", "bf", "bnf"} \/ (i.op = "store" /\ ~i.device)
             PROVE  Knows(Learns(i, known), open)'
  OBVIOUS
<1>1. CASE i.op = "mtspr" /\ i.spr = "SR"
  <2> DEFINE less == known \ {Flag}
  <2>1. Knows(less, open)
    BY KnowsLess
  <2>2. Flag \notin less
    OBVIOUS
  <2>3. Learns(i, known) = less
    BY <1>1 DEF Learns
  <2> HIDE DEF less
  <2>4. Knows(less, open)'
    BY <2>1, <2>2, KnowsRemains DEF SavedRemain, deviceVars
  <2> QED
    BY <2>3, <2>4
<1>2. CASE ~(i.op = "mtspr" /\ i.spr = "SR")
  <2>1. Learns(i, known) = known
    BY <1>2 DEF Learns, StoreLearns
  <2>2. Knows(known, open)'
    BY <1>2, KnowsRemains DEF SavedRemain, deviceVars
  <2> QED
    BY <2>1, <2>2
<1> QED
  BY <1>1, <1>2

\* A load of a register of the device.
LEMMA LoadTells ==
    ASSUME NEW i, NEW known, NEW open, ComputerInv, Knows(known, open), Permits(i, known),
           SentFrom(Len(consumed)), UNCHANGED host,
           i.op = "load", i.device, i.offset \in Uart!Offset, i.d \in Reg, Uart!Load8(i.offset),
           cpu'.sr = cpu.sr, SavedRemain, cpu'.reg[i.d] = Word(reply'[1], reply'[2]),
           \A r \in Reg : r # i.d => cpu'.reg[r] = cpu.reg[r]
    PROVE  Knows(Learns(i, known), open)' /\ SentFrom(Len(consumed))'
<1> DEFINE register == Uart!RegisterAt(i.offset)
<1>1. /\ keypress_fifo \in Seq(Char) /\ consumed \in Seq(Char) /\ sent \in Seq(Char)
      /\ dlab \in BOOLEAN
  BY DeviceTypes DEF ComputerInv, Serial!UartInv, Serial!UartTypeOK
<1>2. /\ reply' = <<register, Uart!LoadValue(register)>> /\ UNCHANGED <<dlab, sent>>
      /\ Uart!PopKeypress(register)
  BY DEF Uart!Load8, Uart!regs
<1>3. CASE i.offset = 0 /\ ~dlab
  <2>1. register = "DATA"
    BY <1>3 DEF Uart!RegisterAt
  <2>2. /\ Echoed \in known /\ Ready \in known
        /\ Learns(i, known) = (known \cap {Latched, Saved}) \cup {Holds(i.d)}
    BY <1>3 DEF Permits, Learns, LoadLearns
  <2>3. AllSent /\ keypress_fifo # <<>>
    BY <2>2 DEF Knows
  <2> DEFINE c == Head(keypress_fifo)
             n == Len(consumed)
  <2>4. Uart!LoadValue("DATA") = c /\ consumed' = Append(consumed, c) /\ c \in Char
    BY <1>1, <1>2, <2>1, <2>3 DEF Uart!LoadValue, Uart!PopKeypress, Uart!EchoRegister
  <2>5. cpu'.reg[i.d] = Code[c]
    BY <1>2, <2>1, <2>4 DEF Word
  <2>6. /\ n \in Nat /\ Len(consumed') = n + 1 /\ consumed'[n + 1] = c
        /\ \A m \in 1 .. n : consumed'[m] = consumed[m]
    BY <1>1, <2>4
  <2> SUFFICES ASSUME NEW k \in Nat, k = Len(consumed)
               PROVE  Knows(Learns(i, known), open)' /\ SentFrom(Len(consumed))'
    BY <2>6
  <2>7. SentFrom(k)'
    BY <1>2, <2>6, SentFromKeeps
  <2>8. Held(i.d)'
    <3>1. Len(consumed') - 1 = k /\ Len(consumed') > 0 /\ consumed'[Len(consumed')] = c
      BY <2>6
    <3>2. SentFrom(Len(consumed) - 1)'
      BY <2>7, <3>1
    <3>3. host' = "web" \/ Len(consumed') = Len(sent') + 1
      BY <1>2, <2>3, <2>6 DEF AllSent
    <3> HIDE DEF c
    <3> QED
      BY <1>2, <1>3, <2>5, <3>1, <3>2, <3>3 DEF Held
  <2>9. (Latched \in known => dlab') /\ (Saved \in known => cpu'.epcr0 \in open
            /\ "SM" \in cpu'.esr0 /\ cpu'.esr0 \subseteq DriverSR)
    BY <1>2 DEF Knows, SavedRemain
  <2>10. Knows(Learns(i, known), open)'
    BY <2>2, <2>8, <2>9 DEF Knows, Flag, Echoed, Latched, Ready, Saved, Tells, Holds
  <2>11. SentFrom(Len(consumed))'
    <3>1. \E kept \in SUBSET (1 .. k) : SentOf(kept)'
      BY <2>7 DEF SentFrom
    <3>2. 1 .. k \subseteq 1 .. Len(consumed')
      BY <2>6
    <3> QED
      BY <3>1, <3>2 DEF SentFrom
  <2> QED
    BY <2>10, <2>11
<1>4. CASE ~(i.offset = 0 /\ ~dlab)
  <2>1. register # "DATA"
    BY <1>4 DEF Uart!RegisterAt, Uart!Offset
  <2>2. UNCHANGED <<keypress_fifo, consumed>>
    BY <1>2, <2>1 DEF Uart!PopKeypress
  <2>3. SentFrom(Len(consumed))'
    BY <1>2, <2>2 DEF SentFrom, SentOf
  <2> DEFINE less == known \ About(i.d)
  <2> HIDE DEF register, less
  <2>4. Knows(less, open)'
    BY <1>1, <1>2, <2>2, WriteTells DEF less
  <2>5. CASE i.offset = 0
    <3>1. /\ Echoed \in known /\ dlab
          /\ Learns(i, known) = (known \cap {Latched, Saved}) \cup {Holds(i.d)}
      BY <1>1, <1>4, <2>5 DEF Permits, Learns, LoadLearns
    <3>2. Held(i.d)'
      BY <1>2, <2>2, <3>1 DEF Knows, Held, AllSent
    <3> QED
      BY <2>3, <2>4, <3>1, <3>2
         DEF Knows, Flag, Echoed, Latched, Ready, Saved, Tells, Holds, About, less
  <2>6. CASE i.offset = 5
    <3>1. register = "LSR"
      BY <1>1, <2>6 DEF register, Uart!RegisterAt
    <3>2. reply' = <<"LSR", [transmit |-> TRUE, ready |-> keypress_fifo # <<>>]>>
      BY <1>2, <3>1 DEF Uart!LoadValue, Uart!EchoRegister
    <3>3. cpu'.reg[i.d] = 1 => keypress_fifo' # <<>>
      <4>1. reply'[1] = "LSR" /\ (reply'[2].ready => keypress_fifo # <<>>)
        BY <3>2
      <4>2. Word(reply'[1], reply'[2]) = IF reply'[2].ready THEN 1 ELSE 0
        BY <4>1 DEF Word, Uart!EchoRegister
      <4> QED
        BY <2>2, <4>1, <4>2
    <3>4. Learns(i, known) = less \cup {Tells(i.d)}
      BY <2>6 DEF Learns, LoadLearns, less
    <3> QED
      BY <2>3, <2>4, <3>3, <3>4
         DEF Knows, Flag, Echoed, Latched, Ready, Saved, Tells, Holds
  <2>7. CASE i.offset \notin {0, 5}
    <3>1. Learns(i, known) = less
      BY <2>7 DEF Learns, LoadLearns, less
    <3> QED
      BY <2>3, <2>4, <3>1
  <2> QED
    BY <2>5, <2>6, <2>7
<1> QED
  BY <1>3, <1>4

\* A store to a register of the device.
LEMMA StoreTells ==
    ASSUME NEW i, NEW known, NEW open, ComputerInv, Knows(known, open), Permits(i, known),
           SentFrom(Len(consumed)), UNCHANGED host,
           i.op = "store", i.device, i.offset \in Uart!Offset,
           i.offset = 0 => i.value \in Reg, i.offset = 3 => i.value \in BOOLEAN,
           cpu'.reg = cpu.reg, cpu'.sr = cpu.sr, SavedRemain,
           LET r == Uart!RegisterAt(i.offset)
               v == i.value IN
           \/ r = "DATA" /\ \E c \in Char : Code[c] = cpu.reg[v] /\ Uart!StoreData(c)
           \/ r = "IER"  /\ Uart!StoreIER(v)
           \/ r = "IIR"  /\ Uart!StoreFCR(v)
           \/ r = "LCR"  /\ Uart!StoreLCR(v)
           \/ r \in Uart!EchoRegister
                  /\ \E c \in Latch : Code[c] = cpu.reg[v] /\ Uart!StoreEcho(r, c)
    PROVE  Knows(Learns(i, known), open)' /\ SentFrom(Len(consumed))'
<1> DEFINE r == Uart!RegisterAt(i.offset)
           v == i.value
<1>1. /\ keypress_fifo \in Seq(Char) /\ consumed \in Seq(Char) /\ sent \in Seq(Char)
      /\ dlab \in BOOLEAN
  BY DeviceTypes DEF ComputerInv, Serial!UartInv, Serial!UartTypeOK
<1>2. Learns(i, known) = StoreLearns(i, known)
  BY DEF Learns
<1>3. ASSUME NEW less \in SUBSET known, UNCHANGED <<sent, consumed, dlab, keypress_fifo>>
      PROVE  Knows(less, open)' /\ SentFrom(Len(consumed))'
  <2>1. SentFrom(Len(consumed))'
    BY <1>3 DEF SentFrom, SentOf
  <2>2. Knows(less, open)
    BY KnowsLess
  <2> QED
    BY <1>1, <1>3, <2>1, <2>2, KnowsRemains DEF SavedRemain
<1>4. CASE r = "DATA" /\ \E c \in Char : Code[c] = cpu.reg[v] /\ Uart!StoreData(c)
  <2>1. PICK c \in Char : Code[c] = cpu.reg[v] /\ Uart!StoreData(c)
    BY <1>4
  <2>2. /\ ~dlab /\ i.offset = 0
        /\ UNCHANGED <<consumed, dlab, keypress_fifo>> /\ sent' = Append(sent, c)
    BY <1>4, <2>1 DEF Uart!StoreData, Uart!regs, Uart!RegisterAt, Uart!Offset
  <2>3. Latched \notin known /\ Holds(v) \in known /\ v \in Reg
    BY <2>2 DEF Knows, Permits
  <2>4. Held(v)
    BY <2>3 DEF Knows
  <2> SUFFICES ASSUME NEW n \in Nat, n = Len(consumed) - 1
               PROVE  Knows(Learns(i, known), open)' /\ SentFrom(Len(consumed))'
    BY <1>1, <2>2, <2>4 DEF Held
  <2>5. /\ SentFrom(n) /\ n < Len(consumed) /\ n + 1 = Len(consumed)
        /\ host = "web" \/ n = Len(sent)
        /\ consumed[n + 1] \in Char /\ Code[c] = Code[consumed[n + 1]]
    BY <1>1, <2>1, <2>2, <2>4 DEF Held
  <2>6. c = consumed[n + 1]
    BY <2>1, <2>5, ComputerAssumption
  <2>7. SentFrom(n + 1)'
    BY <1>1, <2>2, <2>5, <2>6, SentOneMore
  <2>8. SentFrom(Len(consumed))'
    BY <2>2, <2>5, <2>7
  <2>9. AllSent'
    BY <1>1, <2>2, <2>5 DEF AllSent
  <2>10. Learns(i, known) = Unheld(known) \cup {Echoed}
    BY <1>2, <2>2, <2>3 DEF StoreLearns
  <2>11. Knows(Unheld(known) \cup {Echoed}, open)'
    BY <2>2, <2>9 DEF Knows, SavedRemain, Unheld, Flag, Echoed, Latched, Ready, Saved, Tells, Holds
  <2> QED
    BY <2>8, <2>10, <2>11
<1>5. CASE r = "LCR" /\ Uart!StoreLCR(v)
  <2>1. /\ i.offset = 3 /\ UNCHANGED <<sent, consumed, keypress_fifo>> /\ dlab' = v
        /\ v \in BOOLEAN
    BY <1>1, <1>5, RegisterNames DEF Uart!StoreLCR, Uart!fifos, Uart!history
  <2>2. SentFrom(Len(consumed))'
    BY <2>1 DEF SentFrom, SentOf
  <2>3. AllSent => AllSent'
    BY <2>1 DEF AllSent
  <2>4. Learns(i, known) = (Unheld(known) \ {Latched}) \cup (IF v THEN {Latched} ELSE {})
    BY <1>2, <2>1 DEF StoreLearns
  <2>5. Knows((Unheld(known) \ {Latched}) \cup (IF v THEN {Latched} ELSE {}), open)'
    BY <2>1, <2>3
       DEF Knows, SavedRemain, Unheld, Flag, Echoed, Latched, Ready, Saved, Tells, Holds
  <2> QED
    BY <2>2, <2>4, <2>5
<1>6. CASE \/ r = "IER" /\ Uart!StoreIER(v)
           \/ r = "IIR" /\ Uart!StoreFCR(v)
           \/ r \in Uart!EchoRegister /\ \E c \in Latch : Uart!StoreEcho(r, c)
  <2>1. UNCHANGED <<sent, consumed, dlab, keypress_fifo>>
    BY <1>6 DEF Uart!StoreIER, Uart!StoreFCR, Uart!StoreEcho, Uart!fifos, Uart!history
  <2>2. i.offset = 3 => r = "LCR"
    BY DEF Uart!RegisterAt
  <2>3. i.offset # 3
    BY <1>6, <2>2 DEF Uart!EchoRegister
  <2>4. CASE i.offset = 0 /\ Latched \notin known
    <3>1. Learns(i, known) = Unheld(known) \cup {Echoed}
      BY <1>2, <2>4 DEF StoreLearns
    <3>2. dlab
      BY <1>1, <1>6, <2>4 DEF Uart!RegisterAt, Uart!EchoRegister
    <3>3. AllSent'
      BY <2>1, <2>4, <3>2 DEF Permits, Knows, Held, AllSent
    <3>4. Knows(Unheld(known), open)' /\ SentFrom(Len(consumed))'
      BY <1>3, <2>1 DEF Unheld
    <3>5. Knows(Unheld(known) \cup {Echoed}, open)'
      BY <3>3, <3>4 DEF Knows, Flag, Echoed, Latched, Ready, Saved, Tells, Holds
    <3> QED
      BY <3>1, <3>4, <3>5
  <2>5. CASE ~(i.offset = 0 /\ Latched \notin known)
    <3>1. Learns(i, known) = known
      BY <1>2, <2>3, <2>5 DEF StoreLearns
    <3> QED
      BY <1>3, <2>1, <3>1
  <2> QED
    BY <2>4, <2>5
<1> QED
  BY <1>4, <1>5, <1>6

-----------------------------------------------------------------------------
(* The guest of a map.                                                      *)

\* What is known where the core is, and where it goes without a branch.
Known(map) == IF cpu.in_delay_slot THEN IfTaken(code[Place], map.known[Place])
                                   ELSE map.known[Place]
Onward == IF cpu.in_delay_slot THEN cpu.delayed_next_pc ELSE cpu.pc + 1
WritesSR(i) == i.op = "mtspr" /\ i.spr = "SR"

\* What the map of an image says of the instruction that is next, in a delay
\* slot or not.
LEMMA Here ==
    ASSUME NEW map, EchoInv(map), Echoes(code, map), running
    PROVE  LET i == Core!Instruction IN
           /\ cpu.pc \in DOMAIN code /\ i = code[cpu.pc] /\ Core!IsInstruction(i)
           /\ Permits(i, Known(map)) /\ Knows(Known(map), map.open)
           /\ cpu.in_delay_slot =>
                  i.op \in {"set", "inc", "sf", "nop", "load", "store", "mfspr"}
           /\ i.op \notin {"j", "halt", "trap", "rfe"} =>
                  /\ Gives(IfNot(i, Learns(i, Known(map))), Onward, map)
                  /\ (IF WritesSR(i) THEN "IEE" \in i.value ELSE "IEE" \in cpu.sr)
                         => Onward \in map.open
<1> DEFINE a == Place
           i == Core!Instruction
<1>1. /\ InDriver(map) /\ a \in DOMAIN map.known /\ a \in DOMAIN code /\ code \in Programs
      /\ cpu \in Core!CpuState
  BY DEF EchoInv, InDriver, ComputerInv, Echoes
<1>2. a \in Nat /\ \A b \in DOMAIN code : Core!IsInstruction(code[b])
  BY <1>1, ComputerAssumption DEF Core!ProgramsAssumption
<1>3. CASE cpu.in_delay_slot
  <2>1. cpu.pc = a + 1
    BY <1>1, <1>2, <1>3 DEF Place, Core!CpuState
  <2>2. /\ code[a].op \in {"j", "bf", "bnf"} /\ cpu.delayed_next_pc = code[a].k
        /\ Knows(Known(map), map.open) /\ ("IEE" \in cpu.sr => a \in map.open)
    BY <1>1, <1>3 DEF InDriver, Known
  <2>3. /\ a + 1 \in DOMAIN code /\ Permits(code[a + 1], Known(map))
        /\ code[a + 1].op \in {"set", "inc", "sf", "nop", "load", "store", "mfspr"}
        /\ Gives(Learns(code[a + 1], Known(map)), code[a].k, map)
        /\ a \in map.open => code[a].k \in map.open
    BY <1>1, <1>3, <2>2 DEF Echoes, Known
  <2>4. i = code[a + 1]
    BY <2>1, <2>3 DEF Core!Instruction, Core!InstructionAt
  <2>5. IfNot(i, Learns(i, Known(map))) = Learns(i, Known(map)) /\ ~WritesSR(i)
    BY <2>3, <2>4 DEF IfNot, WritesSR
  <2> HIDE DEF a, i
  <2> QED
    BY <1>2, <1>3, <2>1, <2>2, <2>3, <2>4, <2>5 DEF Onward, i
<1>4. CASE ~cpu.in_delay_slot
  <2>1. cpu.pc = a /\ Known(map) = map.known[a]
    BY <1>4 DEF Place, Known
  <2>2. Knows(Known(map), map.open) /\ ("IEE" \in cpu.sr => a \in map.open)
    BY <1>1, <1>4, <2>1 DEF InDriver
  <2>3. i = code[a]
    BY <1>1, <2>1 DEF Core!Instruction, Core!InstructionAt
  <2>4. Permits(i, Known(map))
    BY <1>1, <2>1, <2>3 DEF Echoes
  <2>5. i.op \notin {"j", "halt", "trap", "rfe"} =>
            /\ Gives(IfNot(i, Learns(i, Known(map))), a + 1, map)
            /\ (IF WritesSR(i) THEN "IEE" \in i.value ELSE a \in map.open) => a + 1 \in map.open
    BY <1>1, <2>1, <2>3 DEF Echoes, WritesSR
  <2> HIDE DEF a, i
  <2> QED
    BY <1>1, <1>2, <1>4, <2>1, <2>2, <2>3, <2>4, <2>5 DEF Onward, i
<1> QED
  BY <1>3, <1>4

\* The core arrives at a place with all that is known there, not in a slot.
LEMMA Arrives ==
    ASSUME NEW map, NEW known, NEW a, Gives(known, a, map), Knows(known, map.open)',
           cpu'.pc = a, ~cpu'.in_delay_slot, "SM" \in cpu'.sr, cpu'.sr \subseteq DriverSR,
           cpu'.ttmr = Core!TimerOff, "IEE" \in cpu'.sr => a \in map.open
    PROVE  InDriver(map)'
<1>1. Place' = a
  BY DEF Place
<1>2. Knows(map.known[a], map.open)'
  BY DEF Gives, Knows
<1> QED
  BY <1>1, <1>2 DEF InDriver, Gives

\* The timer of a driver is off, and a cycle changes nothing but its count.
LEMMA Ticks ==
    ASSUME cpu \in Core!CpuState, cpu.ttmr = Core!TimerOff
    PROVE  /\ ~Core!TimerMatches(cpu) /\ Core!Ticked \in Core!CpuState
           /\ Core!Ticked = [cpu EXCEPT !.ttcr = (cpu.ttcr + 1) % TickMod]
<1>1. ~Core!TimerMatches(cpu)
  BY DEF Core!TimerMatches, Core!TimerOff
<1>2. [cpu.ttmr EXCEPT !.ip = @ \/ Core!TimerMatches(cpu)] = cpu.ttmr
  <2>1. cpu.ttmr \in Core!TimerMode /\ cpu.ttmr.ip = FALSE
    <3>1. cpu.ttmr \in Core!TimerMode
      BY DEF Core!CpuState
    <3> QED
      BY <3>1 DEF Core!TimerOff
  <2>3. [cpu.ttmr EXCEPT !.ip = FALSE] = cpu.ttmr
    BY <2>1 DEF Core!TimerMode
  <2>2. (cpu.ttmr.ip \/ Core!TimerMatches(cpu)) = FALSE
    BY <1>1, <2>1
  <2> QED
    BY <2>3, <2>2
<1>3. Core!Ticked = [cpu EXCEPT !.ttcr = (cpu.ttcr + 1) % TickMod,
                                !.ttmr = [cpu.ttmr EXCEPT !.ip = @ \/ Core!TimerMatches(cpu)]]
  BY DEF Core!Ticked, Core!TickTimer
<1>4. [cpu EXCEPT !.ttcr = (cpu.ttcr + 1) % TickMod, !.ttmr = cpu.ttmr]
          = [cpu EXCEPT !.ttcr = (cpu.ttcr + 1) % TickMod]
  BY DEF Core!CpuState
<1>5. (cpu.ttcr + 1) % TickMod \in 0 .. TickMod - 1
  BY ComputerAssumption DEF Core!CpuState, Core!CpuAssumption
<1> QED
  BY <1>1, <1>2, <1>3, <1>4, <1>5 DEF Core!CpuState

\* Without a branch the program counter goes on, and nothing else changes.
LEMMA Increments ==
    ASSUME NEW s \in Core!CpuState
    PROVE  LET t == Core!IncrementPC(s) IN
           /\ t \in Core!CpuState /\ ~t.in_delay_slot
           /\ t.pc = IF s.in_delay_slot THEN s.delayed_next_pc ELSE s.pc + 1
           /\ t.reg = s.reg /\ t.sr = s.sr /\ t.ttmr = s.ttmr
           /\ t.epcr0 = s.epcr0 /\ t.esr0 = s.esr0
<1> DEFINE next == IF s.in_delay_slot THEN s.delayed_next_pc ELSE s.pc + 1
<1>1. next \in Nat
  BY DEF Core!CpuState
<1>2. Core!IncrementPC(s) = [s EXCEPT !.pc = next, !.in_delay_slot = FALSE]
  BY DEF Core!IncrementPC
<1> HIDE DEF next
<1>3. LET t == Core!IncrementPC(s) IN
      /\ t \in Core!CpuState /\ ~t.in_delay_slot /\ t.pc = next
      /\ t.reg = s.reg /\ t.sr = s.sr /\ t.ttmr = s.ttmr
      /\ t.epcr0 = s.epcr0 /\ t.esr0 = s.esr0
  BY <1>1, <1>2 DEF Core!CpuState
<1> QED
  BY <1>3 DEF next

\* An instruction that is no jump leads to what it has learned.
LEMMA GoesOn ==
    ASSUME NEW map, NEW known, NEW s \in Core!CpuState, cpu' = Core!IncrementPC(s),
           s.pc = cpu.pc, s.in_delay_slot = cpu.in_delay_slot,
           s.delayed_next_pc = cpu.delayed_next_pc, s.ttmr = Core!TimerOff,
           "SM" \in s.sr, s.sr \subseteq DriverSR,
           Gives(known, Onward, map), Knows(known, map.open)',
           "IEE" \in s.sr => Onward \in map.open
    PROVE  cpu' \in Core!CpuState /\ InDriver(map)'
<1>1. /\ cpu' \in Core!CpuState /\ ~cpu'.in_delay_slot
      /\ cpu'.pc = Onward /\ cpu'.sr = s.sr /\ cpu'.ttmr = s.ttmr
  BY Increments DEF Onward
<1> SUFFICES ASSUME NEW a, a = Onward PROVE InDriver(map)'
  BY <1>1
<1>2. /\ cpu'.pc = a /\ Gives(known, a, map) /\ "SM" \in cpu'.sr /\ cpu'.sr \subseteq DriverSR
      /\ cpu'.ttmr = Core!TimerOff /\ ("IEE" \in cpu'.sr => a \in map.open)
  BY <1>1
<1> QED
  BY <1>1, <1>2, Arrives

\* What a driver's instructions do when they access no device.
LEMMA DriverCycles ==
    ASSUME NEW map, EchoInv(map), Echoes(code, map), running, Core!Cycle
    PROVE  LET i == Core!Instruction
               t == Core!Ticked IN
           \/ /\ i.op \in {"set", "inc", "mfspr", "load"} /\ i.d \in Reg
              /\ \E v \in Nat : cpu' = Core!IncrementPC(Core!SetReg(t, i.d, v))
           \/ /\ i.op = "sf" /\ i.a \in Reg
              /\ cpu' = Core!IncrementPC(Core!SetCompareFlag(t, cpu.reg[i.a] = i.k))
           \/ i.op \in {"nop", "store"} /\ cpu' = Core!IncrementPC(t)
           \/ /\ i.op \in {"j", "bf", "bnf"} /\ cpu' = Core!Jump(t, i.k)
              /\ i.op = "bf" => "F" \in cpu.sr
           \/ /\ i.op \in {"bf", "bnf"} /\ cpu' = Core!IncrementPC(t)
              /\ i.op = "bnf" => "F" \in cpu.sr
           \/ i.op \in {"halt", "trap"} /\ cpu' \in {t, Core!IncrementPC(t)} /\ ~running'
           \/ i.op = "rfe" /\ cpu' = [t EXCEPT !.pc = cpu.epcr0, !.sr = cpu.esr0,
                                               !.in_delay_slot = FALSE, !.serving = "none"]
           \/ i.op = "mtspr" /\ cpu' = Core!IncrementPC(Core!SetSpReg(t, i.spr, i.value))
<1> DEFINE i == Core!Instruction
           t == Core!Ticked
<1>1. /\ Core!IsInstruction(i) /\ Permits(i, Known(map)) /\ cpu \in Core!CpuState
      /\ cpu.ttmr = Core!TimerOff /\ "SM" \in cpu.sr /\ cpu.sr \subseteq DriverSR
  BY Here DEF EchoInv, InDriver
<1>2. ~Core!TickInterrupt /\ ~Core!FetchFault
  BY <1>1, Ticks DEF Core!TickInterrupt, Core!FetchFault, DriverSR
<1>3. /\ i.op \in {"set", "inc", "sf", "j", "bf", "bnf", "nop", "halt", "trap", "rfe",
                   "load", "store", "mtspr", "mfspr"}
      /\ i.op \in {"load", "store"} => i.faults = {}
      /\ i.op = "mtspr" => i.spr # "TTMR"
  BY <1>1 DEF Permits
<1>4. Core!RunInstruction
  BY <1>2 DEF Core!Cycle
<1> HIDE DEF i, t
<1> USE DEF i, Core!Runs, Core!Retire, t
<1>5. CASE Core!Set
  BY <1>1, <1>5 DEF Core!Set, Core!IsInstruction
<1>6. CASE Core!Inc
  <2>1. (cpu.reg[i.d] + 1) % WordMod \in Nat
    BY <1>1, <1>6, ComputerAssumption
       DEF Core!Inc, Core!IsInstruction, Core!CpuState, Core!CpuAssumption
  <2> QED
    BY <1>1, <1>6, <2>1 DEF Core!Inc, Core!IsInstruction
<1>7. CASE Core!Compare
  BY <1>1, <1>7 DEF Core!Compare, Core!IsInstruction
<1>8. CASE Core!J
  BY <1>8 DEF Core!J
<1>9. CASE Core!Bf \/ Core!Bnf
  BY <1>9 DEF Core!Bf, Core!Bnf, Core!ConditionalBranch
<1>10. CASE Core!Nop
  BY <1>10 DEF Core!Nop
<1>11. CASE Core!Halt \/ Core!Trap
  BY <1>1, <1>11 DEF Core!Halt, Core!Trap, Core!Stop
<1>12. CASE Core!Rfe
  BY <1>12 DEF Core!Rfe
<1>13. CASE Core!Mtspr
  <2>1. t \in Core!CpuState /\ t.ttmr = cpu.ttmr
    BY <1>1, Ticks DEF Core!CpuState
  <2>2. Core!SetSpReg(t, i.spr, i.value).ttmr = t.ttmr
    BY <1>3, <1>13, <2>1 DEF Core!Mtspr, Core!SetSpReg, Core!CpuState
  <2>3. ~Core!SetSpReg(t, i.spr, i.value).ttmr.ip
    BY <1>1, <2>1, <2>2 DEF Core!TimerOff
  <2> QED
    BY <1>13, <2>3 DEF Core!Mtspr
<1>14. CASE Core!Mfspr
  <2>1. Core!SpReg(t, i.spr) \in Nat
    <3>1. t \in Core!CpuState
      BY <1>1, Ticks
    <3>2. i.spr \in {"EPCR0", "EEAR0", "TTCR"}
      BY <1>1, <1>14 DEF Core!Mfspr, Core!IsInstruction
    <3>3. t.epcr0 \in Nat /\ t.eear0 \in Nat /\ t.ttcr \in Nat
      BY <3>1, ComputerAssumption DEF Core!CpuState, Core!CpuAssumption
    <3> QED
      BY <3>2, <3>3 DEF Core!SpReg
  <2> QED
    BY <1>1, <1>14, <2>1 DEF Core!Mfspr, Core!IsInstruction
<1>15. CASE Core!Load
  <2>1. PICK v \in 0 .. WordMod - 1 : cpu' = Core!IncrementPC(Core!SetReg(t, i.d, v))
    BY <1>15 DEF Core!Load, Core!Access
  <2>2. v \in Nat
    BY ComputerAssumption DEF Core!CpuAssumption
  <2> QED
    BY <1>1, <1>15, <2>1, <2>2 DEF Core!Load, Core!IsInstruction
<1>16. CASE Core!Store
  BY <1>16 DEF Core!Store, Core!Access
<1>17. CASE Core!DataFault
  BY <1>3, <1>17 DEF Core!DataFault, Core!DataFaults
<1>18. CASE Core!Jal \/ Core!Jr \/ Core!Jalr \/ Core!Sys \/ Core!Illegal
  BY <1>3, <1>18 DEF Core!Jal, Core!Jr, Core!Jalr, Core!Sys, Core!Illegal
<1> QED
  BY <1>4, <1>5, <1>6, <1>7, <1>8, <1>9, <1>10, <1>11, <1>12, <1>13, <1>14, <1>15, <1>16,
     <1>17, <1>18 DEF Core!RunInstruction

\* A step of the guest keeps what the map says.
LEMMA GuestEchoes ==
    ASSUME NEW map, EchoInv(map), Echoes(code, map), running,
           DeviceLoad \/ DeviceStore \/ OtherCycle, UNCHANGED host
    PROVE  cpu' \in Core!CpuState /\ SentFrom(Len(consumed))' /\ (running' => InDriver(map)')
<1> SUFFICES ASSUME NEW i, i = Core!Instruction, NEW known, known = Known(map),
                    NEW t, t = Core!Ticked
             PROVE  cpu' \in Core!CpuState /\ SentFrom(Len(consumed))'
                        /\ (running' => InDriver(map)')
  OBVIOUS
<1>1. /\ cpu \in Core!CpuState /\ InDriver(map) /\ ComputerInv /\ SentFrom(Len(consumed))
      /\ cpu.ttmr = Core!TimerOff /\ "SM" \in cpu.sr /\ cpu.sr \subseteq DriverSR
      /\ consumed \in Seq(Char)
  BY DEF EchoInv, InDriver, ComputerInv, Serial!UartInv, Serial!UartTypeOK
<1>2. /\ cpu.pc \in DOMAIN code /\ i = code[cpu.pc] /\ Core!IsInstruction(i)
      /\ Permits(i, known) /\ Knows(known, map.open)
      /\ cpu.in_delay_slot => i.op \in {"set", "inc", "sf", "nop", "load", "store", "mfspr"}
      /\ i.op \notin {"j", "halt", "trap", "rfe"} =>
             /\ Gives(IfNot(i, Learns(i, known)), Onward, map)
             /\ (IF WritesSR(i) THEN "IEE" \in i.value ELSE "IEE" \in cpu.sr)
                    => Onward \in map.open
  BY Here
<1>3. i.op \in {"set", "inc", "sf", "nop", "load", "store", "mfspr", "mtspr"}
          => /\ Gives(Learns(i, known), Onward, map)
             /\ ~WritesSR(i) /\ "IEE" \in cpu.sr => Onward \in map.open
             /\ WritesSR(i) /\ "IEE" \in i.value => Onward \in map.open
  BY <1>2 DEF IfNot
<1>4. /\ t \in Core!CpuState
      /\ t.pc = cpu.pc /\ t.reg = cpu.reg /\ t.sr = cpu.sr /\ t.ttmr = cpu.ttmr
      /\ t.epcr0 = cpu.epcr0 /\ t.esr0 = cpu.esr0
      /\ t.in_delay_slot = cpu.in_delay_slot /\ t.delayed_next_pc = cpu.delayed_next_pc
  BY <1>1, Ticks DEF Core!CpuState
<1>5. ASSUME NEW d \in Reg, NEW v \in Nat, NEW s, s = Core!SetReg(t, d, v)
      PROVE  /\ s \in Core!CpuState
             /\ s.pc = cpu.pc /\ s.sr = cpu.sr /\ s.ttmr = cpu.ttmr
             /\ s.epcr0 = cpu.epcr0 /\ s.esr0 = cpu.esr0
             /\ s.in_delay_slot = cpu.in_delay_slot /\ s.delayed_next_pc = cpu.delayed_next_pc
             /\ s.reg[d] = v /\ \A r \in Reg : r # d => s.reg[r] = cpu.reg[r]
  BY <1>4, <1>5 DEF Core!SetReg, Core!CpuState
<1>6. ASSUME NEW s \in Core!CpuState, cpu' = Core!IncrementPC(s)
      PROVE  /\ cpu'.reg = s.reg /\ cpu'.sr = s.sr
             /\ cpu'.epcr0 = s.epcr0 /\ cpu'.esr0 = s.esr0
  BY <1>6, Increments
<1>7. ASSUME UNCHANGED deviceVars
      PROVE  /\ SentFrom(Len(consumed))'
             /\ UNCHANGED <<sent, consumed, dlab, keypress_fifo>>
  BY <1>1, <1>7 DEF SentFrom, SentOf, deviceVars
<1>8. CASE DeviceLoad
  <2>1. /\ i.op = "load" /\ i.device /\ Uart!Load8(i.offset) /\ i.offset \in Uart!Offset
        /\ i.d \in Reg
    BY <1>1, <1>2, <1>8, DeviceInstruction
       DEF DeviceLoad, Core!Runs, Device, ComputerInv, Core!IsInstruction
  <2> SUFFICES ASSUME NEW v, v = Word(reply'[1], reply'[2])
               PROVE  cpu' \in Core!CpuState /\ SentFrom(Len(consumed))'
                          /\ (running' => InDriver(map)')
    OBVIOUS
  <2>2. v \in Nat
    <3>1. reply' = <<Uart!RegisterAt(i.offset), Uart!LoadValue(Uart!RegisterAt(i.offset))>>
      BY <2>1 DEF Uart!Load8
    <3>2. v \in 0 .. WordMod - 1
      BY <1>1, <3>1, WordFits
    <3> QED
      BY <3>2, ComputerAssumption DEF Core!CpuAssumption
  <2> SUFFICES ASSUME NEW s, s = Core!SetReg(t, i.d, v)
               PROVE  cpu' \in Core!CpuState /\ SentFrom(Len(consumed))'
                          /\ (running' => InDriver(map)')
    OBVIOUS
  <2>3. cpu' = Core!IncrementPC(s)
    BY <1>8 DEF DeviceLoad, Core!Access
  <2>4. s \in Core!CpuState
    BY <1>5, <2>1, <2>2
  <2>5. /\ cpu'.sr = cpu.sr /\ SavedRemain
        /\ cpu'.reg[i.d] = v /\ \A r \in Reg : r # i.d => cpu'.reg[r] = cpu.reg[r]
    BY <1>5, <1>6, <2>1, <2>2, <2>3, <2>4 DEF SavedRemain
  <2>6. Knows(Learns(i, known), map.open)' /\ SentFrom(Len(consumed))'
    BY <1>1, <1>2, <2>1, <2>5, LoadTells
  <2>7. cpu' \in Core!CpuState /\ InDriver(map)'
    BY <1>1, <1>3, <1>5, <2>1, <2>2, <2>3, <2>4, <2>6, GoesOn DEF WritesSR
  <2> QED
    BY <2>6, <2>7
<1>9. CASE DeviceStore
  <2>1. i.op = "store" /\ i.device /\ cpu' = Core!IncrementPC(t)
    BY <1>9 DEF DeviceStore, Core!Runs, Device, Core!Access
  <2>2. /\ i.offset \in Uart!Offset /\ (i.offset = 0 => i.value \in Reg)
        /\ (i.offset = 3 => i.value \in BOOLEAN)
    BY <1>1, <1>2, <2>1, DriversAssumption DEF ComputerInv
  <2>3. cpu'.reg = cpu.reg /\ cpu'.sr = cpu.sr /\ SavedRemain
    BY <1>4, <1>6, <2>1 DEF SavedRemain
  <2>4. Knows(Learns(i, known), map.open)' /\ SentFrom(Len(consumed))'
    BY <1>1, <1>2, <1>9, <2>1, <2>2, <2>3, StoreTells DEF DeviceStore
  <2>5. cpu' \in Core!CpuState /\ InDriver(map)'
    BY <1>1, <1>3, <1>4, <2>1, <2>4, GoesOn DEF WritesSR
  <2> QED
    BY <2>4, <2>5
<1>10. CASE OtherCycle
  <2>1. UNCHANGED deviceVars /\ Core!Cycle /\ SentFrom(Len(consumed))'
        /\ UNCHANGED <<sent, consumed, dlab, keypress_fifo>>
    BY <1>7, <1>10 DEF OtherCycle
  <2>2. i.op \in {"load", "store"} => ~i.device
    <3>1. Core!Fetching
      BY <1>1, <2>1, CycleCounts, Ticks DEF Core!Fetching
    <3> QED
      BY <1>10, <3>1 DEF OtherCycle, Device
  <2>3. CASE /\ i.op \in {"set", "inc", "mfspr", "load"} /\ i.d \in Reg
             /\ \E v \in Nat : cpu' = Core!IncrementPC(Core!SetReg(t, i.d, v))
    <3>1. PICK v \in Nat : cpu' = Core!IncrementPC(Core!SetReg(t, i.d, v))
      BY <2>3
    <3> SUFFICES ASSUME NEW s, s = Core!SetReg(t, i.d, v)
                 PROVE  cpu' \in Core!CpuState /\ InDriver(map)'
      BY <2>1
    <3>2. s \in Core!CpuState /\ cpu' = Core!IncrementPC(s)
      BY <1>5, <2>3, <3>1
    <3>3. /\ cpu'.sr = cpu.sr /\ SavedRemain
          /\ \A r \in Reg : r # i.d => cpu'.reg[r] = cpu.reg[r]
      BY <1>5, <1>6, <2>3, <3>2 DEF SavedRemain
    <3>4. Learns(i, known) = known \ About(i.d)
      BY <2>2, <2>3 DEF Learns, LoadLearns
    <3>5. Knows(known \ About(i.d), map.open)'
      BY <1>1, <1>2, <2>1, <3>3, WriteTells
    <3>6. Knows(Learns(i, known), map.open)'
      BY <3>4, <3>5
    <3> QED
      BY <1>1, <1>3, <1>5, <2>3, <3>2, <3>6, GoesOn DEF WritesSR
  <2>4. CASE /\ i.op = "sf" /\ i.a \in Reg
             /\ cpu' = Core!IncrementPC(Core!SetCompareFlag(t, cpu.reg[i.a] = i.k))
    <3> SUFFICES ASSUME NEW s, s = Core!SetCompareFlag(t, cpu.reg[i.a] = i.k)
                 PROVE  cpu' \in Core!CpuState /\ InDriver(map)'
      BY <2>1
    <3> DEFINE sr == IF cpu.reg[i.a] = i.k THEN cpu.sr \cup {"F"} ELSE cpu.sr \ {"F"}
    <3>1. s = [t EXCEPT !.sr = sr] /\ sr \in SUBSET Core!SRBit
      BY <1>1, <1>4 DEF Core!SetCompareFlag, Core!CpuState, Core!SRBit
    <3>2. "SM" \in sr /\ sr \subseteq DriverSR /\ ("IEE" \in sr => "IEE" \in cpu.sr)
      BY <1>1 DEF DriverSR
    <3> HIDE DEF sr
    <3>3. /\ s \in Core!CpuState /\ s.sr = sr
          /\ s.pc = cpu.pc /\ s.reg = cpu.reg /\ s.ttmr = cpu.ttmr
          /\ s.epcr0 = cpu.epcr0 /\ s.esr0 = cpu.esr0
          /\ s.in_delay_slot = cpu.in_delay_slot /\ s.delayed_next_pc = cpu.delayed_next_pc
      BY <1>4, <3>1 DEF Core!CpuState
    <3>4. cpu' = Core!IncrementPC(s)
      BY <2>4
    <3>5. cpu'.sr = sr /\ cpu'.reg = cpu.reg /\ SavedRemain
      BY <1>6, <3>3, <3>4 DEF SavedRemain
    <3>6. Knows(Learns(i, known), map.open)'
      BY <1>1, <1>2, <2>1, <2>4, <3>5, CompareTells DEF sr
    <3> QED
      BY <1>1, <1>3, <2>4, <3>2, <3>3, <3>4, <3>6, GoesOn DEF WritesSR
  <2>5. CASE i.op \in {"nop", "store"} /\ cpu' = Core!IncrementPC(t)
    <3>1. cpu'.sr = cpu.sr /\ cpu'.reg = cpu.reg /\ SavedRemain
      BY <1>4, <1>6, <2>5 DEF SavedRemain
    <3>2. Knows(Learns(i, known), map.open)'
      BY <1>1, <1>2, <2>1, <2>2, <2>5, <3>1, OtherTells
    <3> QED
      BY <1>1, <1>3, <1>4, <2>1, <2>5, <3>2, GoesOn DEF WritesSR
  <2>6. CASE i.op = "mtspr" /\ cpu' = Core!IncrementPC(Core!SetSpReg(t, i.spr, i.value))
    <3> SUFFICES ASSUME NEW s, s = Core!SetSpReg(t, i.spr, i.value)
                 PROVE  cpu' \in Core!CpuState /\ InDriver(map)'
      BY <2>1
    <3>1. /\ i.value \in Core!SprValues(i.spr) /\ i.spr \notin {"TTMR", "EPCR0", "ESR0"}
          /\ i.spr = "SR" => "SM" \in i.value /\ i.value \subseteq DriverSR
      BY <1>2, <2>6 DEF Core!IsInstruction, Permits
    <3>2. /\ s \in Core!CpuState /\ s.sr = (IF i.spr = "SR" THEN i.value ELSE t.sr)
          /\ s.pc = t.pc /\ s.reg = t.reg /\ s.ttmr = t.ttmr
          /\ s.epcr0 = t.epcr0 /\ s.esr0 = t.esr0
          /\ s.in_delay_slot = t.in_delay_slot /\ s.delayed_next_pc = t.delayed_next_pc
      BY <1>4, <3>1 DEF Core!SetSpReg, Core!CpuState, Core!SprValues
    <3>3. cpu' = Core!IncrementPC(s)
      BY <2>6
    <3>4. cpu'.sr = s.sr /\ cpu'.reg = cpu.reg /\ SavedRemain
      BY <1>4, <1>6, <3>2, <3>3 DEF SavedRemain
    <3>5. Knows(Learns(i, known), map.open)'
      BY <1>1, <1>2, <1>4, <2>1, <2>6, <3>2, <3>4, OtherTells
    <3>6. "SM" \in s.sr /\ s.sr \subseteq DriverSR /\ ("IEE" \in s.sr => Onward \in map.open)
      BY <1>1, <1>3, <1>4, <2>6, <3>1, <3>2 DEF WritesSR
    <3> QED
      BY <1>1, <1>3, <1>4, <2>6, <3>2, <3>3, <3>5, <3>6, GoesOn
  <2>8. CASE /\ i.op \in {"j", "bf", "bnf"} /\ cpu' = Core!Jump(t, i.k)
             /\ i.op = "bf" => "F" \in cpu.sr
    <3>1. i.k \in Nat /\ ~cpu.in_delay_slot /\ Place = cpu.pc /\ cpu.pc \in Nat
      BY <1>1, <1>2, <2>8 DEF Core!IsInstruction, Place, Core!CpuState
    <3>2. cpu' = [t EXCEPT !.delayed_next_pc = i.k, !.pc = cpu.pc + 1, !.in_delay_slot = TRUE]
      BY <1>4, <2>8 DEF Core!Jump
    <3>3. /\ cpu' \in Core!CpuState /\ cpu'.pc = cpu.pc + 1 /\ cpu'.in_delay_slot
          /\ cpu'.delayed_next_pc = i.k /\ cpu'.reg = cpu.reg /\ cpu'.sr = cpu.sr
          /\ cpu'.ttmr = cpu.ttmr /\ SavedRemain
      <4>1. cpu.pc + 1 \in Nat
        BY <3>1
      <4>2. /\ cpu' \in Core!CpuState
            /\ cpu'.pc = cpu.pc + 1 /\ cpu'.in_delay_slot /\ cpu'.delayed_next_pc = i.k
        BY <1>4, <3>1, <3>2, <4>1 DEF Core!CpuState
      <4>3. /\ cpu'.reg = t.reg /\ cpu'.sr = t.sr /\ cpu'.ttmr = t.ttmr
            /\ cpu'.epcr0 = t.epcr0 /\ cpu'.esr0 = t.esr0
        BY <1>4, <3>2 DEF Core!CpuState
      <4> QED
        BY <1>4, <4>2, <4>3 DEF SavedRemain
    <3>4. known = map.known[cpu.pc] /\ cpu.pc \in DOMAIN map.known
          /\ ("IEE" \in cpu.sr => cpu.pc \in map.open)
      BY <1>1, <3>1 DEF InDriver, Known
    <3>5. Knows(known, map.open)'
      BY <1>1, <1>2, <2>1, <3>3, KnowsRemains DEF SavedRemain
    <3>6. i.op = "bf" /\ Flag \in known => keypress_fifo' # <<>>
      BY <1>2, <2>1, <2>8 DEF Knows
    <3>7. Knows(IfTaken(i, known), map.open)'
      <4>1. CASE i.op = "bf" /\ Flag \in known
        <5>1. Knows(known \cup {Ready}, map.open)'
          BY <3>5, <3>6, <4>1
             DEF Knows, Flag, Echoed, Latched, Ready, Saved, Tells, Holds
        <5> QED
          BY <4>1, <5>1 DEF IfTaken
      <4>2. CASE ~(i.op = "bf" /\ Flag \in known)
        BY <3>5, <4>2 DEF IfTaken
      <4> QED
        BY <4>1, <4>2
    <3> SUFFICES ASSUME NEW a, a = cpu.pc PROVE InDriver(map)'
      BY <2>1, <3>3
    <3>8. Place' = a /\ code' = code
      BY <2>1, <3>1, <3>3, CycleCounts DEF Place
    <3>9. Knows(IfTaken(code[a], map.known[a]), map.open)'
      BY <1>2, <3>4, <3>7, <3>8
    <3> QED
      BY <1>1, <1>2, <2>8, <3>3, <3>4, <3>8, <3>9 DEF InDriver
  <2>9. CASE /\ i.op \in {"bf", "bnf"} /\ cpu' = Core!IncrementPC(t)
             /\ i.op = "bnf" => "F" \in cpu.sr
    <3>1. Learns(i, known) = known /\ ~WritesSR(i)
      BY <2>9 DEF Learns, WritesSR
    <3>2. cpu'.sr = cpu.sr /\ cpu'.reg = cpu.reg /\ SavedRemain
      BY <1>4, <1>6, <2>9 DEF SavedRemain
    <3>3. Knows(known, map.open)'
      BY <1>1, <1>2, <2>1, <3>2, KnowsRemains DEF SavedRemain
    <3>4. i.op = "bnf" /\ Flag \in known => keypress_fifo' # <<>>
      BY <1>2, <2>1, <2>9 DEF Knows
    <3>5. Knows(IfNot(i, known), map.open)'
      <4>1. CASE i.op = "bnf" /\ Flag \in known
        <5>1. Knows(known \cup {Ready}, map.open)'
          BY <3>3, <3>4, <4>1
             DEF Knows, Flag, Echoed, Latched, Ready, Saved, Tells, Holds
        <5> QED
          BY <4>1, <5>1 DEF IfNot
      <4>2. CASE ~(i.op = "bnf" /\ Flag \in known)
        BY <3>3, <4>2 DEF IfNot
      <4> QED
        BY <4>1, <4>2
    <3>6. Gives(IfNot(i, known), Onward, map) /\ ("IEE" \in cpu.sr => Onward \in map.open)
      BY <1>2, <2>9, <3>1
    <3> QED
      BY <1>1, <1>4, <2>1, <2>9, <3>5, <3>6, GoesOn
  <2>10. CASE i.op = "rfe" /\ cpu' = [t EXCEPT !.pc = cpu.epcr0, !.sr = cpu.esr0,
                                          !.in_delay_slot = FALSE, !.serving = "none"]
    <3>1. /\ AllSent /\ cpu.epcr0 \in map.open
          /\ "SM" \in cpu.esr0 /\ cpu.esr0 \subseteq DriverSR
      BY <1>2, <2>10 DEF Permits, Knows
    <3>2. /\ cpu' \in Core!CpuState /\ cpu'.pc = cpu.epcr0 /\ cpu'.sr = cpu.esr0
          /\ ~cpu'.in_delay_slot /\ cpu'.ttmr = cpu.ttmr
      BY <1>4, <2>10 DEF Core!CpuState
    <3>3. Knows({Echoed}, map.open)'
      BY <1>10, <2>1, <3>1
         DEF Knows, AllSent, Flag, Echoed, Latched, Ready, Saved, Tells, Holds
    <3> SUFFICES ASSUME NEW a, a = cpu.epcr0 PROVE InDriver(map)'
      BY <2>1, <3>2
    <3>4. Gives({Echoed}, a, map)
      BY <3>1 DEF Echoes, Gives
    <3> QED
      BY <1>1, <3>1, <3>2, <3>3, <3>4, Arrives
  <2>11. CASE i.op \in {"halt", "trap"} /\ cpu' \in {t, Core!IncrementPC(t)} /\ ~running'
    BY <1>4, <2>1, <2>11, Increments
  <2> QED
    BY <2>1, <2>3, <2>4, <2>5, <2>6, <2>8, <2>9, <2>10, <2>11, DriverCycles
<1> QED
  BY <1>8, <1>9, <1>10

-----------------------------------------------------------------------------
(* The host of such a guest.                                                *)

\* The host and the keys take nothing of that away.
LEMMA DriverRemains ==
    ASSUME NEW map, InDriver(map), consumed \in Seq(Char),
           UNCHANGED <<code, host, sent, consumed, dlab>>,
           keypress_fifo # <<>> => keypress_fifo' # <<>>,
           /\ cpu'.pc = cpu.pc /\ cpu'.in_delay_slot = cpu.in_delay_slot
           /\ cpu'.delayed_next_pc = cpu.delayed_next_pc /\ cpu'.ttmr = cpu.ttmr
           /\ cpu'.reg = cpu.reg /\ cpu'.sr = cpu.sr /\ SavedRemain
    PROVE  InDriver(map)'
<1> SUFFICES ASSUME NEW a, a = Place PROVE InDriver(map)'
  OBVIOUS
<1>1. Place' = a
  BY DEF Place
<1>2. ASSUME NEW known, Knows(known, map.open) PROVE Knows(known, map.open)'
  BY <1>2, KnowsRemains DEF SavedRemain
<1>3. ~cpu.in_delay_slot => Knows(map.known[a], map.open)'
  BY <1>2 DEF InDriver
<1>4. cpu.in_delay_slot =>
          \E known : known = IfTaken(code[a], map.known[a]) /\ Knows(known, map.open)'
  BY <1>2 DEF InDriver
<1> QED
  BY <1>1, <1>3, <1>4 DEF InDriver

\* A slice begins, perhaps by the interrupt's handler: nothing is held then.
LEMMA StartEchoes ==
    ASSUME NEW map, EchoInv(map), Echoes(code, map), StartRun
    PROVE  cpu' \in Core!CpuState /\ InDriver(map)'
<1>1. /\ cpu \in Core!CpuState /\ running /\ InDriver(map) /\ code' = code
      /\ UNCHANGED <<host, sent, consumed, dlab, keypress_fifo>> /\ consumed \in Seq(Char)
      /\ cpu' = Core!CheckInterrupts(cpu, Interrupts)
  BY DEF EchoInv, StartRun, Core!StartRun, deviceVars, ComputerInv, Serial!UartInv,
         Serial!UartTypeOK
<1> SUFFICES ASSUME NEW s, s = Core!SampleLines(cpu, Interrupts)
             PROVE  cpu' \in Core!CpuState /\ InDriver(map)'
  OBVIOUS
<1>2. Interrupts \subseteq {UartLine} /\ (Interrupts # {}) \in BOOLEAN
  BY DEF Interrupts
<1>3. /\ s \in Core!CpuState
      /\ s.pc = cpu.pc /\ s.in_delay_slot = cpu.in_delay_slot
      /\ s.delayed_next_pc = cpu.delayed_next_pc /\ s.ttmr = cpu.ttmr
      /\ s.reg = cpu.reg /\ s.sr = cpu.sr /\ s.epcr0 = cpu.epcr0 /\ s.esr0 = cpu.esr0
  BY <1>1, <1>2 DEF Core!SampleLines, Core!CpuState
<1>4. CASE cpu' = s
  BY <1>1, <1>3, <1>4, DriverRemains DEF SavedRemain
<1>5. CASE "IEE" \in cpu.sr
           /\ cpu' = [Core!ThrowException(s, "ExternalInterrupt", 0)
                          EXCEPT !.pending_interrupt = FALSE]
  <2>1. /\ Place \in map.open /\ map.open \subseteq DOMAIN map.known /\ Place \in Nat
        /\ Gives({Echoed, Saved}, Vector, map)
    BY <1>1, <1>5, ComputerAssumption
       DEF InDriver, Echoes, EchoInv, ComputerInv, Core!ProgramsAssumption
  <2>2. map.known[Place] = {Echoed}
    BY <2>1 DEF Echoes
  <2>3. AllSent
    <3>1. CASE cpu.in_delay_slot
      <4>1. Echoed \in IfTaken(code[Place], map.known[Place])
        BY <2>2 DEF IfTaken
      <4> QED
        BY <1>1, <3>1, <4>1 DEF InDriver, Knows
    <3>2. CASE ~cpu.in_delay_slot
      BY <1>1, <2>2, <3>2 DEF InDriver, Knows
    <3> QED
      BY <3>1, <3>2
  <2>4. Core!ResumePC(s) = Place
    BY <1>3 DEF Core!ResumePC, Place
  <2> DEFINE esr0 == IF s.in_delay_slot THEN s.sr \cup {"DSX"} ELSE s.sr
  <2>5. esr0 \in SUBSET Core!SRBit /\ "SM" \in esr0 /\ esr0 \subseteq DriverSR
    BY <1>1, <1>3 DEF InDriver, DriverSR, Core!SRBit, Core!CpuState
  <2>6. /\ Core!exceptionHandlers["ExternalInterrupt"].pc = Vector
        /\ ~Core!exceptionHandlers["ExternalInterrupt"].setsEEAR
        /\ Vector \in Nat /\ "ExternalInterrupt" \in Core!Exception
    BY DEF Core!exceptionHandlers, Vector, Core!Exception
  <2>7. cpu' = [s EXCEPT !.esr0 = esr0, !.sr = Core!ResetSR, !.epcr0 = Place, !.pc = Vector,
                         !.eear0 = s.eear0, !.in_delay_slot = FALSE,
                         !.serving = "ExternalInterrupt", !.pending_interrupt = FALSE]
    BY <1>5, <2>4, <2>6 DEF Core!ThrowException
  <2> HIDE DEF esr0
  <2>8. Core!ResetSR \subseteq Core!SRBit /\ Core!ResetSR = {"FO", "SM"}
    BY DEF Core!ResetSR, Core!SRBit
  <2>9. /\ cpu' \in Core!CpuState /\ cpu'.pc = Vector /\ ~cpu'.in_delay_slot
        /\ cpu'.ttmr = cpu.ttmr /\ cpu'.sr = {"FO", "SM"}
        /\ cpu'.epcr0 = Place /\ cpu'.esr0 = esr0
    BY <1>3, <2>1, <2>5, <2>6, <2>7, <2>8 DEF Core!CpuState
  <2>10. AllSent' /\ cpu'.epcr0 \in map.open /\ "SM" \in cpu'.esr0 /\ cpu'.esr0 \subseteq DriverSR
    BY <1>1, <2>1, <2>3, <2>5, <2>9 DEF AllSent
  <2>11. Knows({Echoed, Saved}, map.open)'
    BY <2>10 DEF Knows, Flag, Echoed, Latched, Ready, Saved, Tells, Holds
  <2>12. "SM" \in cpu'.sr /\ cpu'.sr \subseteq DriverSR /\ "IEE" \notin cpu'.sr
         /\ cpu'.ttmr = Core!TimerOff
    BY <1>1, <2>9 DEF DriverSR, InDriver
  <2>13. Vector' = Vector
    BY DEF Vector
  <2>14. InDriver(map)'
    BY <2>1, <2>9, <2>11, <2>12, Arrives DEF Vector, Core!exceptionHandlers
  <2> QED
    BY <2>9, <2>14
<1> QED
  BY <1>1, <1>3, <1>4, <1>5 DEF Core!CheckInterrupts

\* The state after a reset is one of the core's.
LEMMA ResetStateFits == Core!ResetState \in Core!CpuState
BY ComputerAssumption
   DEF Core!CpuAssumption, Core!ResetState, Core!CpuState, Core!ResetVector, Core!ResetSR,
       Core!SRBit, Core!TimerOff, Core!TimerMode

\* The core starts at the reset vector, where nothing is held.
LEMMA EchoInitHolds ==
    ASSUME NEW map, \A image \in Programs : Echoes(image, map[image]), ComputerInit
    PROVE  EchoInv(map[code])
<1> DEFINE m == map[code]
<1>1. /\ code \in Programs /\ cpu = Core!ResetState /\ consumed = <<>> /\ sent = <<>>
      /\ Gives({Echoed}, Core!ResetVector, m)
  BY DEF ComputerInit, Uart!UartInit, Echoes
<1>2. cpu \in Core!CpuState
  BY <1>1, ResetStateFits
<1>3. ComputerInv
  BY ComputerInitHolds
<1>4. SentFrom(Len(consumed))
  <2>1. Cardinality({}) = 0 /\ 1 .. 0 = {}
    BY FS_EmptySet
  <2>2. SentOf({})
    BY <1>1, <2>1 DEF SentOf
  <2> QED
    BY <2>2 DEF SentFrom
<1>5. AllSent
  BY <1>1 DEF AllSent
<1>6. Knows(m.known[Core!ResetVector], m.open)
  BY <1>1, <1>5 DEF Knows, Gives, Flag, Echoed, Latched, Ready, Saved, Tells, Holds
<1>7. /\ cpu.pc = Core!ResetVector /\ ~cpu.in_delay_slot
      /\ cpu.sr = Core!ResetSR /\ cpu.ttmr = Core!TimerOff
  BY <1>1 DEF Core!ResetState
<1>8. InDriver(m)
  BY <1>1, <1>6, <1>7 DEF InDriver, Place, Gives, Core!ResetSR, DriverSR
<1> QED
  BY <1>2, <1>3, <1>4, <1>8 DEF EchoInv

\* And so does the core of an image that the page loads.
LEMMA ReloadEchoes ==
    ASSUME NEW m, EchoInv(m), NEW n, Gives({Echoed}, Core!ResetVector, n), LoadImage
    PROVE  cpu' \in Core!CpuState /\ SentFrom(Len(consumed))' /\ InDriver(n)'
<1>1. /\ cpu \in Core!CpuState /\ SentFrom(Len(consumed)) /\ host' = "web"
      /\ UNCHANGED <<host, sent, consumed>>
      /\ cpu' = [Core!ResetState EXCEPT !.delayed_next_pc = cpu.delayed_next_pc]
  BY DEF EchoInv, LoadImage, Core!Reload, deviceVars
<1>2. /\ cpu' \in Core!CpuState /\ cpu'.pc = Core!ResetVector /\ ~cpu'.in_delay_slot
      /\ cpu'.sr = Core!ResetSR /\ cpu'.ttmr = Core!TimerOff
  <2>1. Core!ResetState \in Core!CpuState /\ cpu.delayed_next_pc \in Nat
    BY <1>1, ResetStateFits DEF Core!CpuState
  <2> QED
    BY <1>1, <2>1 DEF Core!CpuState, Core!ResetState
<1>3. SentFrom(Len(consumed))'
  BY <1>1 DEF SentFrom, SentOf
<1>4. Knows({Echoed}, n.open)'
  BY <1>1 DEF Knows, AllSent, Flag, Echoed, Latched, Ready, Saved, Tells, Holds
<1>5. InDriver(n)'
  BY <1>2, <1>4, Arrives DEF Core!ResetVector, Core!ResetSR, DriverSR
<1> QED
  BY <1>2, <1>3, <1>5

\* Every step of guest and host keeps what is known true.
LEMMA EchoStepHolds ==
    ASSUME NEW map, \A image \in Programs : Echoes(image, map[image]), EchoInv(map[code]),
           [ComputerNext]_computerVars
    PROVE  EchoInv(map[code])'
<1>1. /\ ComputerInv /\ ComputerInv' /\ cpu \in Core!CpuState /\ SentFrom(Len(consumed))
      /\ code \in Programs /\ consumed \in Seq(Char) /\ keypress_fifo \in Seq(Char)
  BY ComputerStepHolds, DeviceTypes DEF EchoInv, ComputerInv, Serial!UartInv, Serial!UartTypeOK
<1> SUFFICES ASSUME NEW m, m = map[code], NEW n, n = map[code']
             PROVE  /\ cpu' \in Core!CpuState /\ SentFrom(Len(consumed))'
                    /\ running' => InDriver(n)'
  BY <1>1 DEF EchoInv
<1>2. EchoInv(m) /\ Echoes(code, m) /\ (running => InDriver(m))
  BY <1>1 DEF EchoInv
<1>3. ASSUME UNCHANGED <<coreVars, host, sent, consumed, dlab>>,
             keypress_fifo # <<>> => keypress_fifo' # <<>>
      PROVE  /\ cpu' \in Core!CpuState /\ SentFrom(Len(consumed))'
             /\ running' => InDriver(n)'
  <2>1. UNCHANGED <<code, cpu, running>> /\ n = m
    BY <1>3 DEF coreVars
  <2>2. SentFrom(Len(consumed))'
    BY <1>1, <1>3 DEF SentFrom, SentOf
  <2>3. running' => InDriver(m)'
    BY <1>1, <1>2, <1>3, <2>1, DriverRemains DEF SavedRemain
  <2> QED
    BY <1>1, <2>1, <2>2, <2>3
<1>4. CASE UNCHANGED computerVars \/ NoMoreKeys \/ Drained
  BY <1>3, <1>4 DEF computerVars, deviceVars, hostVars, NoMoreKeys, Drained
<1>5. CASE Display
  BY <1>3, <1>5 DEF Display, Uart!Read, Uart!regs, hostVars
<1>6. CASE \E c \in Char : Keypress(c)
  <2>1. PICK c \in Char : Keypress(c)
    BY <1>6
  <2>2. /\ keypress_fifo' = Append(keypress_fifo, c)
        /\ UNCHANGED <<coreVars, host, sent, consumed, dlab>>
    BY <2>1 DEF Keypress, Uart!Keypress, Uart!regs, hostVars
  <2>3. keypress_fifo' # <<>>
    BY <1>1, <2>2
  <2> QED
    BY <1>3, <2>2, <2>3
<1>7. CASE StartRun
  <2>1. code' = code /\ UNCHANGED <<host, sent, consumed>>
    BY <1>7 DEF StartRun, Core!StartRun, deviceVars
  <2>2. cpu' \in Core!CpuState /\ InDriver(m)'
    BY <1>2, <1>7, StartEchoes
  <2>3. SentFrom(Len(consumed))'
    BY <1>1, <2>1 DEF SentFrom, SentOf
  <2> QED
    BY <2>1, <2>2, <2>3
<1>8. CASE Guest
  <2>1. running /\ UNCHANGED host /\ (DeviceLoad \/ DeviceStore \/ OtherCycle)
    BY <1>1, <1>8 DEF Guest, ComputerInv, HostInv
  <2>2. code' = code
    BY <1>1, <2>1, GuestRunsCore, CycleCounts
  <2> QED
    BY <1>2, <2>1, <2>2, GuestEchoes
<1>9. CASE LoadImage
  <2>1. code' \in Programs
    BY <1>9 DEF LoadImage, Core!Reload
  <2>2. Gives({Echoed}, Core!ResetVector, n)
    BY <2>1 DEF Echoes
  <2> QED
    BY <1>2, <1>9, <2>2, ReloadEchoes
<1> QED
  BY <1>4, <1>5, <1>6, <1>7, <1>8, <1>9 DEF ComputerNext, Progress

\* What is sent is what is displayed and what waits for it; what is received,
\* the first of what was typed.
LEMMA SentIsEchoed ==
    ASSUME ComputerInv, SentFrom(Len(consumed))
    PROVE  EchoedInOrder
<1>1. /\ sent = shown \o display_fifo /\ typed = consumed \o keypress_fifo
      /\ consumed \in Seq(Char) /\ keypress_fifo \in Seq(Char) /\ sent \in Seq(Char)
  BY DeviceTypes DEF ComputerInv, Serial!UartInv, Serial!UartTypeOK, Serial!FifosHoldWhatIsUnderWay
<1>2. PICK kept \in SUBSET (1 .. Len(consumed)) : SentOf(kept)
  BY DEF SentFrom
<1>3. 1 .. Len(consumed) \subseteq DOMAIN typed
      /\ \A n \in 1 .. Len(consumed) : typed[n] = consumed[n]
  BY <1>1
<1>4. kept \in SUBSET DOMAIN typed /\ \A n \in kept : typed[n] = consumed[n]
  BY <1>2, <1>3
<1> QED
  BY <1>1, <1>2, <1>4 DEF SentOf, EchoedInOrder

\* Drivers that echo, by any map, echo what is typed: whatever the slices, the
\* alphabet and the host, byte for byte and in order (main.cc, uart.cc).
THEOREM DriversEcho ==
    ASSUME NEW map, \A image \in Programs : Echoes(image, map[image])
    PROVE  ComputerSpec => []EchoedInOrder
<1>1. ComputerInit => EchoInv(map[code])
  BY EchoInitHolds
<1>2. EchoInv(map[code]) /\ [ComputerNext]_computerVars => EchoInv(map[code])'
  BY EchoStepHolds
<1>3. EchoInv(map[code]) => EchoedInOrder
  BY SentIsEchoed DEF EchoInv
<1> QED
  BY <1>1, <1>2, <1>3, PTL DEF ComputerSpec
=============================================================================
