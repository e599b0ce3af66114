------------------------------ MODULE Computer ------------------------------
(***************************************************************************)
(* The whole machine and the host that drives it: the core (module Cpu)    *)
(* runs a driver that talks to the UART (module Uart), whose interrupt     *)
(* line the bus shows to the core; the host calls System::Run for a slice  *)
(* at a time, enters keys and displays characters in between.              *)
(*                                                                         *)
(* There are three hosts: "terminal" (main.cc), "native" (main_web.cc, no  *)
(* keys), and "web" (emscripten.cc: its page calls in any order, but runs  *)
(* no more when sys_run has returned false, until it loads an image).      *)
(*                                                                         *)
(* A device instruction names the UART's register by its offset, and the   *)
(* bits of a status register the guest does not test are left out: the     *)
(* line status is 1 with data ready and 0 without, the identification 2    *)
(* for received data, 1 for the transmitter, 0 for none.                   *)
(***************************************************************************)
EXTENDS Naturals, Sequences, FiniteSets

CONSTANTS
    Programs, Reg, TickMod, WordMod, SliceLengths, Reloads,     \* of Cpu
    Char, Latch, MaxTyped, MaxSent,                     \* of Uart
    Code,           \* the number of each byte, a function on Latch
    Hosts           \* hosts considered

VARIABLES
    code, cpu, left, running,                           \* of Cpu
    keypress_fifo, display_fifo, ier, dlab, echo,       \* of Uart
    transmit_ready_interrupt, pretend_enable_fifos, reply,
    typed, consumed, sent, shown, wrote,
    host,           \* the host program
    turn,           \* what it is about: "run", "cpu", "keys", "drain", "idle",
                    \* "stopped"
    before          \* history: bytes sent before the current slice

Uart == INSTANCE Uart

\* Bus::Interrupts: 0x4 or nothing.
UartLine   == 2
Interrupts == IF Uart!IsInterruptAsserted THEN {UartLine} ELSE {}

Core == INSTANCE Cpu WITH Lines <- {UartLine}, irq <- Interrupts

\* A general register holds any byte, and the numbers of the status registers.
ASSUME ComputerAssumption ==
    /\ Core!CpuAssumption /\ Core!ProgramsAssumption /\ Uart!UartAssumption
    /\ WordMod > 2 /\ Char \subseteq Latch /\ Code \in [Latch -> 0 .. WordMod - 1]
    /\ \A b, c \in Latch : Code[b] = Code[c] => b = c
    /\ Hosts \subseteq {"terminal", "native", "web"}

\* A store to a control register names the bits, one of a byte the general
\* register; the addresses are those of the device.
ASSUME DriversAssumption ==
    \A image \in Programs : \A a \in DOMAIN image : LET i == image[a] IN
        i.op \in {"load", "store"} /\ i.device =>
            /\ i.offset \in Uart!Offset
            /\ i.op = "store" /\ i.offset \in {0, 4} => i.value \in Reg
            /\ i.op = "store" /\ i.offset = 1 => i.value \subseteq {"rx", "tx"}
            /\ i.op = "store" /\ i.offset \in {2, 3} => i.value \in BOOLEAN

coreVars     == <<code, cpu, left, running>>
deviceVars   == <<keypress_fifo, display_fifo, ier, dlab, echo,
                  transmit_ready_interrupt, pretend_enable_fifos, reply,
                  typed, consumed, sent, shown, wrote>>
hostVars     == <<host, turn, before>>
computerVars == <<coreVars, deviceVars, hostVars>>

ComputerInit ==
    /\ Uart!UartInit
    /\ code \in Programs /\ cpu = Core!ResetState /\ left = 0 /\ running = TRUE
    /\ host \in Hosts
    /\ turn = IF host = "web" THEN "idle" ELSE "run"
    /\ before = 0

-----------------------------------------------------------------------------
(* The host.                                                                *)

\* system.Run begins.
StartRun ==
    /\ turn \in {"run", "idle"}
    /\ UNCHANGED deviceVars
    /\ Core!StartRun
    /\ turn' = "cpu"
    /\ before' = Len(sent)
    /\ UNCHANGED host

\* sys_load_image; the UART is not reset.
LoadImage ==
    /\ host = "web" /\ turn \in {"idle", "stopped"}
    /\ UNCHANGED deviceVars
    /\ Core!Reload
    /\ turn' = "idle"
    /\ UNCHANGED <<host, before>>

KeypressAnyTime(c) ==                  \* variant: keys come during a slice
    /\ turn \in {"keys", "idle", "cpu"}
    /\ Uart!Keypress(c)
    /\ UNCHANGED <<coreVars, hostVars>>

\* keychar(&key) found one; the page calls sys_keypress when it likes.
Keypress(c) ==
    /\ turn \in {"keys", "idle"}
    /\ Uart!Keypress(c)
    /\ UNCHANGED <<coreVars, hostVars>>

NoMoreKeysRun ==                       \* variant: nothing is displayed
    /\ turn = "keys"
    /\ turn' = "run"
    /\ UNCHANGED <<coreVars, deviceVars, host, before>>

NoMoreKeys ==
    /\ turn = "keys"
    /\ turn' = "drain"
    /\ UNCHANGED <<coreVars, deviceVars, host, before>>

DisplayOne ==                          \* variant: `if' for `while'
    /\ turn \in {"drain", "idle"}
    /\ Uart!Read
    /\ turn' = IF turn = "drain" THEN "run" ELSE turn
    /\ UNCHANGED <<coreVars, host, before>>

\* Read follows CanRead.
Display ==
    /\ turn \in {"drain", "idle"}
    /\ Uart!Read
    /\ UNCHANGED <<coreVars, hostVars>>

Drained ==
    /\ turn = "drain" /\ ~Uart!CanRead
    /\ turn' = "run"
    /\ UNCHANGED <<coreVars, deviceVars, host, before>>

-----------------------------------------------------------------------------
(* The guest.                                                               *)

AfterRunCounting ==                    \* variant: a slice always runs to its end
    CASE left > 1 -> "cpu"
      [] OTHER    -> [web |-> "idle", terminal |-> "keys", native |-> "drain"][host]

\* What the host is about when Run has returned, or not yet.
AfterRun ==
    CASE left' > 0   -> "cpu"
      [] ~running'   -> "stopped"
      [] OTHER       -> [web |-> "idle", terminal |-> "keys", native |-> "drain"][host]

Device == Core!Instruction.device

\* The number a load of a UART register leaves in a general register.
Word(r, v) ==
    CASE r \in {"DATA"} \cup Uart!EchoRegister -> Code[v]
      [] r = "LSR"  -> IF v.ready THEN 1 ELSE 0
      [] r = "IIR"  -> CASE v.source = "rx" -> 2 [] v.source = "tx" -> 1 [] OTHER -> 0
      [] OTHER      -> 0

DeviceLoad ==
    /\ Core!Runs("load") /\ Device
    /\ Uart!Load8(Core!Instruction.offset)
    /\ Core!Access(Core!SetReg(Core!Ticked, Core!Instruction.d, Word(reply'[1], reply'[2])))

\* A store of the byte in a general register, or of the bits a control
\* register has.
DeviceStore ==
    /\ Core!Runs("store") /\ Device
    /\ LET r == Uart!RegisterAt(Core!Instruction.offset)
           v == Core!Instruction.value IN
       \/ r = "DATA" /\ \E c \in Char : Code[c] = cpu.reg[v] /\ Uart!StoreData(c)
       \/ r = "IER"  /\ Uart!StoreIER(v)
       \/ r = "IIR"  /\ Uart!StoreFCR(v)
       \/ r = "LCR"  /\ Uart!StoreLCR(v)
       \/ r \in Uart!EchoRegister
              /\ \E c \in Latch : Code[c] = cpu.reg[v] /\ Uart!StoreEcho(r, c)
    /\ Core!Access(Core!Ticked)

\* Every other step of the core leaves the device alone.
OtherCycle ==
    /\ ~(Core!Fetching /\ Core!Instruction.op \in {"load", "store"} /\ Device)
    /\ UNCHANGED deviceVars
    /\ Core!Cycle

Guest ==
    /\ turn = "cpu"
    /\ DeviceLoad \/ DeviceStore \/ OtherCycle
    /\ turn' = AfterRun
    /\ UNCHANGED <<host, before>>

-----------------------------------------------------------------------------
Progress == StartRun \/ Guest \/ NoMoreKeys \/ Display \/ Drained

ComputerNext == Progress \/ LoadImage \/ \E c \in Char : Keypress(c)

ComputerSpec == ComputerInit /\ [][ComputerNext]_computerVars

\* The programs loop for ever: Run, the keys there are, the characters there
\* are.  Nobody has to type.
ComputerFairSpec == ComputerSpec /\ WF_computerVars(Progress)

-----------------------------------------------------------------------------
(* The drivers that echo: a map of the image says for each address of its   *)
(* text what is known when the core gets there, however it does.            *)

Echoed   == <<"echoed", 0>>     \* every byte received was sent
Latched  == <<"latched", 0>>    \* the divisor latch is open
Ready    == <<"ready", 0>>      \* a byte waits
Flag     == <<"flag", 0>>       \* the flag is set only if one does
Saved    == <<"saved", 0>>      \* the exception registers lead to the program
Tells(r) == <<"tells", r>>      \* the register is 1 only if a byte waits
Holds(r) == <<"holds", r>>      \* it has the one byte received and not sent

About(r)      == {Tells(r), Holds(r)}
Unheld(known) == {c \in known : c[1] # "holds"}

\* What an instruction adds to that, and what it takes away.
LoadLearns(i, known) ==
    IF i.device /\ i.offset = 0 THEN (known \cap {Latched, Saved}) \cup {Holds(i.d)}
    ELSE (known \ About(i.d)) \cup (IF i.device /\ i.offset = 5 THEN {Tells(i.d)} ELSE {})

StoreLearns(i, known) ==
    IF i.device /\ i.offset = 0 /\ Latched \notin known THEN Unheld(known) \cup {Echoed}
    ELSE IF i.device /\ i.offset = 3
    THEN (Unheld(known) \ {Latched}) \cup (IF i.value THEN {Latched} ELSE {})
    ELSE known

Learns(i, known) ==
    CASE i.op = "load"                    -> LoadLearns(i, known)
      [] i.op = "store"                   -> StoreLearns(i, known)
      [] i.op \in {"set", "inc", "mfspr"} -> known \ About(i.d)
      [] i.op = "sf" -> IF i.k = 1 /\ Tells(i.a) \in known THEN known \cup {Flag}
                                                           ELSE known \ {Flag}
      [] i.op = "mtspr" /\ i.spr = "SR"   -> known \ {Flag}
      [] OTHER                            -> known

\* And what a branch adds, taken or not.
IfTaken(i, known) == IF i.op = "bf" /\ Flag \in known THEN known \cup {Ready} ELSE known
IfNot(i, known) == IF i.op = "bnf" /\ Flag \in known THEN known \cup {Ready} ELSE known

\* A byte is received when one waits and none is held, and sent when it is the
\* one that is held.  There is no exception but the UART's interrupt.
DriverSR == {"SM", "IEE", "F", "DSX", "FO"}
Permits(i, known) ==
    /\ i.op \in {"set", "inc", "sf", "j", "bf", "bnf", "nop", "halt", "trap", "rfe",
                "load", "store", "mtspr", "mfspr"}
    /\ i.op \in {"load", "store"} => i.faults = {}
    /\ i.op = "load" /\ i.device /\ i.offset = 0 => {Echoed, Ready} \subseteq known
    /\ i.op = "store" /\ i.device /\ i.offset = 0 =>
           Latched \in known \/ Holds(i.value) \in known
    /\ i.op = "store" /\ i.device /\ i.offset = 3 => Echoed \in known
    /\ i.op = "mtspr" => i.spr \notin {"TTMR", "EPCR0", "ESR0"}
    /\ i.op = "mtspr" /\ i.spr = "SR" => "SM" \in i.value /\ i.value \subseteq DriverSR
    /\ i.op = "rfe" => {Echoed, Saved} \subseteq known

\* map.known is what is known at each address that is reached other than in a
\* delay slot; map.open are those at which interrupts may be enabled.
Vector == Core!exceptionHandlers["ExternalInterrupt"].pc
Gives(known, a, map) == a \in DOMAIN map.known /\ map.known[a] \subseteq known

Echoes(image, map) ==
    /\ map.open \subseteq DOMAIN map.known
    /\ Gives({Echoed}, Core!ResetVector, map)
    /\ map.open # {} => Gives({Echoed, Saved}, Vector, map)
    /\ \A a \in map.open : map.known[a] = {Echoed}
    /\ \A a \in DOMAIN map.known :
           /\ a \in DOMAIN image /\ Permits(image[a], map.known[a])
           /\ LET i == image[a] IN
              /\ i.op \notin {"j", "halt", "trap", "rfe"} =>
                     /\ Gives(IfNot(i, Learns(i, map.known[a])), a + 1, map)
                     /\ (IF i.op = "mtspr" /\ i.spr = "SR" THEN "IEE" \in i.value
                                                          ELSE a \in map.open)
                        => a + 1 \in map.open
              /\ i.op \in {"j", "bf", "bnf"} =>
                     LET slot  == image[a + 1]
                         known == IfTaken(i, map.known[a]) IN
                     /\ a + 1 \in DOMAIN image /\ Permits(slot, known)
                     /\ slot.op \in {"set", "inc", "sf", "nop", "load", "store", "mfspr"}
                     /\ Gives(Learns(slot, known), i.k, map)
                     /\ a \in map.open => i.k \in map.open

-----------------------------------------------------------------------------
(* Properties.                                                              *)

\* Type invariant of the host; the parts have theirs.
ComputerTypeOK ==
    /\ host \in Hosts
    /\ turn \in {"run", "cpu", "keys", "drain", "idle", "stopped"}
    /\ (turn = "cpu") = (left > 0)
    /\ before \in 0 .. Len(sent)

\* The core meets only the surroundings its own module assumes: the line moves
\* when the guest accesses the device, and without that rises only between
\* slices (module Cpu's HostInput and Access).
CoreIsImplemented == Core!CpuSpec

\* Every driver of these guests echoes what it receives: what the terminal
\* displays is what was typed, in order, through both FIFOs, the interrupt
\* and the slices.  Only a guest that the page replaced may have lost a byte.
EchoedInOrder ==
    LET echoed == shown \o display_fifo IN
    \E kept \in SUBSET DOMAIN typed :
        /\ host = "web" \/ kept = 1 .. Len(echoed)
        /\ Len(echoed) = Cardinality(kept)
        /\ \A n \in kept : echoed[Cardinality({m \in kept : m <= n})] = typed[n]

\* The display FIFO has no bound of its own (uart.cc, push_back), but a host
\* with a loop empties it between slices: what waits for display was sent in
\* the current slice, and no more than that is lost when the loop ends.
OnlyThisSliceIsUnshown == host # "web" => Len(display_fifo) <= Len(sent) - before

\* A typed key reaches the guest, with a driver that polls or one that waits
\* for interrupts, and whichever UART interrupts it withdraws unread.  A page
\* that loads images without end lets no guest get that far.
KeysReachGuest ==
    \A n \in 1 .. MaxTyped :
        (host # "web" /\ Len(typed) >= n) ~> (Len(consumed) >= n \/ ~running)

\* No interrupt storm: an asserted line is withdrawn in the end, though the
\* handler that reads the identification and the data also echoes, which asserts
\* it again, and keys come between slices (uart.cc, Load8 and Store8).
InterruptsSubside == (host # "web" /\ Interrupts # {}) ~> (Interrupts = {} \/ ~running)

\* And what the guest sends is displayed by a host with a loop, unless it was
\* sent in the slice the loop ends with.
OutputIsShown ==
    \A n \in 1 .. MaxSent :
        (host # "web" /\ Len(sent) >= n) ~> (Len(shown) >= n \/ ~running)
=============================================================================
