-------------------------------- MODULE Uart --------------------------------
(***************************************************************************)
(* The 16550-like UART of simctty/uart.cc: the register file the guest     *)
(* reads and writes a byte at a time, the two FIFOs between the guest and  *)
(* the terminal, and the level of its interrupt line.                      *)
(*                                                                         *)
(* Abstractions: IER is the set of its two enable bits the code tests, LCR *)
(* is its divisor-latch bit, FCR its bit 0, and DLL, DLM and MCR, which    *)
(* are only echoed, share one function.  `reply' is the value the last     *)
(* load handed to the guest.  typed, consumed, sent and shown are          *)
(* histories: the code has no such variables.                              *)
(***************************************************************************)
EXTENDS Naturals, Sequences

CONSTANTS
    Char,       \* bytes that travel through the FIFOs
    Latch,      \* bytes written to the registers that are only echoed
    MaxTyped,   \* bound of the model: bytes entered at the terminal
    MaxSent     \* bound of the model: bytes written to the transmitter

Nul == "0"          \* what a load returns when it has no data

ASSUME UartAssumption ==
    /\ Nul \in Latch
    /\ MaxTyped \in Nat
    /\ MaxSent \in Nat

VARIABLES
    keypress_fifo, display_fifo,
    ier,                        \* subset of {"rx", "tx"}
    dlab,                       \* bit 7 of lcr_
    echo,                       \* dll_, dlm_ and mcr_
    transmit_ready_interrupt,
    pretend_enable_fifos,
    reply,                      \* <<register, value>> of the last load
    typed, consumed, sent, shown,
    wrote                       \* history: a byte was transmitted since the
                                \* last read of the identification register

fifos    == <<keypress_fifo, display_fifo>>
regs     == <<ier, dlab, echo, pretend_enable_fifos>>
history  == <<typed, consumed, sent, shown, wrote>>
uartVars == <<fifos, regs, transmit_ready_interrupt, reply, history>>

(***************************************************************************)
(* The register behind an offset from kMinUartAddress.  Offset 7 stands    *)
(* for every one the code gives no meaning to, up to kMaxUartAddress.      *)
(***************************************************************************)
Offset       == 0 .. 7
EchoRegister == {"DLL", "DLM", "MCR"}

RegisterAt(offset) ==
    IF dlab /\ offset \in {0, 1}
    THEN <<"DLL", "DLM">>[offset + 1]
    ELSE <<"DATA", "IER", "IIR", "LCR", "MCR", "LSR", "MSR", "none">>[offset + 1]

-----------------------------------------------------------------------------
(* The interrupt line.                                                      *)

IsDataReadyInterrupt     == keypress_fifo # <<>> /\ "rx" \in ier
IsTransmitReadyInterrupt == "tx" \in ier /\ transmit_ready_interrupt
IsInterruptAsserted      == IsDataReadyInterrupt \/ IsTransmitReadyInterrupt

\* What the identification register says is pending; receive data wins.
Source ==
    IF IsDataReadyInterrupt THEN "rx"
    ELSE IF IsTransmitReadyInterrupt THEN "tx" ELSE "none"

-----------------------------------------------------------------------------
UartInit ==
    /\ keypress_fifo = <<>> /\ display_fifo = <<>>
    /\ ier = {} /\ dlab = FALSE
    /\ echo = [r \in EchoRegister |-> Nul]
    /\ transmit_ready_interrupt = FALSE
    /\ pretend_enable_fifos = FALSE
    /\ reply = <<"none", Nul>>
    /\ typed = <<>> /\ consumed = <<>> /\ sent = <<>> /\ shown = <<>>
    /\ wrote = FALSE

-----------------------------------------------------------------------------
(* The terminal side.                                                       *)

Keypress(c) ==
    /\ Len(typed) < MaxTyped
    /\ keypress_fifo' = Append(keypress_fifo, c)
    /\ typed' = Append(typed, c)
    /\ UNCHANGED <<display_fifo, regs, transmit_ready_interrupt, reply,
                   consumed, sent, shown, wrote>>

CanRead == display_fifo # <<>>

\* The host loops call Read only after CanRead.
Read ==
    /\ CanRead
    /\ display_fifo' = Tail(display_fifo)
    /\ shown' = Append(shown, Head(display_fifo))
    /\ UNCHANGED <<keypress_fifo, regs, transmit_ready_interrupt, reply,
                   typed, consumed, sent, wrote>>

-----------------------------------------------------------------------------
(* The guest side: Load8.                                                   *)

\* The value a load of register r returns.
LoadValue(r) ==
    CASE r = "DATA" -> IF keypress_fifo = <<>> THEN Nul ELSE Head(keypress_fifo)
      [] r = "IER"  -> ier
      [] r = "IIR"  -> [asserted |-> IsInterruptAsserted, source |-> Source,
                        fifos |-> pretend_enable_fifos]
      [] r = "LCR"  -> dlab
      [] r = "LSR"  -> [transmit |-> TRUE, ready |-> keypress_fifo # <<>>]
      [] r \in EchoRegister   -> echo[r]
      [] r \in {"MSR", "none"} -> Nul

\* Variants of the two side effects of a load, for the sensitivity of the
\* properties: taking the newest byte, taking one on every load, taking one
\* before it is read, and leaving the transmit flag set.
PopNewestKeypress(r) ==
    IF r = "DATA" /\ keypress_fifo # <<>>
    THEN /\ keypress_fifo' = SubSeq(keypress_fifo, 1, Len(keypress_fifo) - 1)
         /\ consumed' = Append(consumed, keypress_fifo[Len(keypress_fifo)])
    ELSE UNCHANGED <<keypress_fifo, consumed>>
PopKeypressAnyLoad(r) ==
    IF keypress_fifo # <<>>
    THEN /\ keypress_fifo' = Tail(keypress_fifo)
         /\ consumed' = Append(consumed, Head(keypress_fifo))
    ELSE UNCHANGED <<keypress_fifo, consumed>>
PopBeforeReading(r) ==
    IF r = "DATA" /\ keypress_fifo # <<>>
    THEN /\ keypress_fifo' = Tail(keypress_fifo)
         /\ consumed' = Append(consumed, IF Tail(keypress_fifo) = <<>> THEN Nul
                                         ELSE Head(Tail(keypress_fifo)))
    ELSE UNCHANGED <<keypress_fifo, consumed>>
KeepTransmit(r) ==
    IF r = "IIR"
    THEN UNCHANGED transmit_ready_interrupt /\ wrote' = FALSE
    ELSE UNCHANGED <<transmit_ready_interrupt, wrote>>

\* Receive data: a load takes the oldest byte, if there is one.
PopKeypress(r) ==
    IF r = "DATA" /\ keypress_fifo # <<>>
    THEN /\ keypress_fifo' = Tail(keypress_fifo)
         /\ consumed' = Append(consumed, LoadValue(r))
    ELSE UNCHANGED <<keypress_fifo, consumed>>

\* Identification: a load withdraws the transmit interrupt, reported or not.
AcknowledgeTransmit(r) ==
    IF r = "IIR"
    THEN transmit_ready_interrupt' = FALSE /\ wrote' = FALSE
    ELSE UNCHANGED <<transmit_ready_interrupt, wrote>>

Load8(offset) ==
    LET r == RegisterAt(offset) IN
    /\ reply' = <<r, LoadValue(r)>>
    /\ PopKeypress(r)
    /\ AcknowledgeTransmit(r)
    /\ UNCHANGED <<display_fifo, regs, typed, sent, shown>>

-----------------------------------------------------------------------------
(* The guest side: Store8, one action per register it has an effect on.     *)

StoreData(c) ==
    /\ ~dlab
    /\ Len(sent) < MaxSent
    /\ display_fifo' = Append(display_fifo, c)
    /\ sent' = Append(sent, c)
    /\ transmit_ready_interrupt' = ("tx" \in ier)
    /\ wrote' = TRUE
    /\ UNCHANGED <<keypress_fifo, regs, reply, typed, consumed, shown>>

StoreIER(enabled) ==
    /\ ~dlab
    /\ ier' = enabled
    /\ UNCHANGED <<fifos, dlab, echo, pretend_enable_fifos,
                   transmit_ready_interrupt, reply, history>>

StoreFCR(enable) ==
    /\ pretend_enable_fifos' = enable
    /\ UNCHANGED <<fifos, ier, dlab, echo, transmit_ready_interrupt, reply, history>>

StoreLCR(latch) ==
    /\ dlab' = latch
    /\ UNCHANGED <<fifos, ier, echo, pretend_enable_fifos,
                   transmit_ready_interrupt, reply, history>>

StoreEcho(r, v) ==
    /\ r \in {"DLL", "DLM"} => dlab
    /\ echo' = [echo EXCEPT ![r] = v]
    /\ UNCHANGED <<fifos, ier, dlab, pretend_enable_fifos,
                   transmit_ready_interrupt, reply, history>>

-----------------------------------------------------------------------------
UartNext ==
    \/ \E c \in Char : Keypress(c) \/ StoreData(c)
    \/ Read
    \/ \E offset \in Offset : Load8(offset)
    \/ \E enabled \in SUBSET {"rx", "tx"} : StoreIER(enabled)
    \/ \E b \in BOOLEAN : StoreFCR(b) \/ StoreLCR(b)
    \/ \E r \in EchoRegister, v \in Latch : StoreEcho(r, v)

UartSpec == UartInit /\ [][UartNext]_uartVars

-----------------------------------------------------------------------------
(* Properties.                                                              *)

\* Type invariant of the device's state and of the histories.
UartTypeOK ==
    /\ keypress_fifo \in Seq(Char) /\ display_fifo \in Seq(Char)
    /\ ier \subseteq {"rx", "tx"}
    /\ dlab \in BOOLEAN /\ pretend_enable_fifos \in BOOLEAN
    /\ echo \in [EchoRegister -> Latch]
    /\ transmit_ready_interrupt \in BOOLEAN /\ wrote \in BOOLEAN
    /\ typed \in Seq(Char) /\ consumed \in Seq(Char)
    /\ sent \in Seq(Char) /\ shown \in Seq(Char)

\* The FIFOs hold exactly the bytes that are under way: what was entered and
\* not yet received, what was transmitted and not yet displayed, in order
\* (the list<uint8> members of UART between push_back and pop_front).
FifosHoldWhatIsUnderWay ==
    /\ typed = consumed \o keypress_fifo
    /\ sent = shown \o display_fifo

\* The device implements the serial line: bytes are neither lost, duplicated
\* nor reordered, whatever registers are programmed in between.
Line == INSTANCE SerialLine
SerialLineService == Line!LineSpec

\* A transmit interrupt always has a cause the guest has not acknowledged: a
\* byte written since the last read of the identification register.  A read
\* that left the flag set would interrupt the guest for ever.
TransmitInterruptHasCause == IsTransmitReadyInterrupt => wrote

\* What the last load announced still holds when the guest acts on it: after
\* a line status with data ready, or an identification of receive data, the
\* next load of the data register finds a byte (a polling driver loads the
\* two registers in two instructions, with the terminal running in between).
AnnouncedDataIsThere ==
    \/ reply[1] = "LSR" /\ reply[2].ready
    \/ reply[1] = "IIR" /\ reply[2].source = "rx"
    => keypress_fifo # <<>>

=============================================================================
