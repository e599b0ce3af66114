----------------------------- MODULE UartProofs -----------------------------
(***************************************************************************)
(* Theorems about the UART, for every alphabet and without the bounds of   *)
(* the model checking.  The one inductive invariant is that the FIFOs hold *)
(* what is under way; that the device implements the serial line follows,  *)
(* since taking the head of a FIFO is then taking the next byte in order.  *)
(***************************************************************************)
EXTENDS Uart, SequenceTheorems, TLAPS

(***************************************************************************)
(* A queue u behind what was already taken from it, t, in a stream s.      *)
(***************************************************************************)

\* The head of the queue is the next byte of the stream, and moving it keeps
\* the stream.
LEMMA PopAtFront ==
    ASSUME NEW S, NEW s \in Seq(S), NEW t \in Seq(S), NEW u \in Seq(S),
           s = t \o u, u # <<>>
    PROVE  /\ Head(u) \in S /\ Tail(u) \in Seq(S)
           /\ s = Append(t, Head(u)) \o Tail(u)
           /\ Len(t) < Len(s)
           /\ Head(u) = s[Len(t) + 1]
<1>1. Head(u) \in S /\ Tail(u) \in Seq(S)
  BY HeadTailProperties
<1>2. Len(u) \in Nat \ {0} /\ Len(t) \in Nat
  BY EmptySeq, LenProperties
<1>3. u = <<Head(u)>> \o Tail(u)
  <2>1. SubSeq(u, 1, Len(u)) = <<u[1]>> \o SubSeq(u, 2, Len(u))
    BY <1>2, SubSeqRecursiveFirst
  <2>2. Tail(u) = SubSeq(u, 2, Len(u)) /\ SubSeq(u, 1, Len(u)) = u
    BY TailIsSubSeq, SubSeqFull
  <2> QED
    BY <2>1, <2>2
<1>4. Append(t, Head(u)) \o Tail(u) = (t \o <<Head(u)>>) \o Tail(u)
  BY <1>1, AppendIsConcat
<1>5. <<Head(u)>> \in Seq(S)
  BY <1>1
<1>6. (t \o <<Head(u)>>) \o Tail(u) = t \o (<<Head(u)>> \o Tail(u))
  BY <1>1, <1>5, ConcatAssociative
<1>7. Len(s) = Len(t) + Len(u)
  BY ConcatProperties
<1>8. s[Len(t) + 1] = u[1]
  BY <1>2, ConcatProperties
<1>9. Head(u) = u[1]
  BY <1>2
<1>10. s = Append(t, Head(u)) \o Tail(u)
  BY <1>3, <1>4, <1>6, Zenon
<1>11. Len(t) < Len(s)
  BY <1>2, <1>7
<1> QED
  BY <1>1, <1>8, <1>9, <1>10, <1>11, Zenon

-----------------------------------------------------------------------------
(* The invariant.                                                           *)

UartInv == UartTypeOK /\ FifosHoldWhatIsUnderWay

\* The constructor establishes the invariant.
LEMMA UartInitHolds == UartInit => UartInv
<1> SUFFICES ASSUME UartInit PROVE UartInv
  OBVIOUS
<1>1. <<>> \in Seq(Char) /\ <<>> \o <<>> = <<>>
  BY EmptySeq, ConcatEmptySeq
<1> QED
  BY <1>1, UartAssumption DEF UartInit, UartInv, UartTypeOK, FifosHoldWhatIsUnderWay

\* A load moves at most the head of the keyboard FIFO to the guest.
LEMMA LoadMovesHead ==
    ASSUME UartInv, NEW offset \in Offset, Load8(offset)
    PROVE  \/ UNCHANGED <<keypress_fifo, consumed>>
           \/ /\ keypress_fifo # <<>>
              /\ keypress_fifo' = Tail(keypress_fifo)
              /\ consumed' = Append(consumed, Head(keypress_fifo))
<1> DEFINE r == RegisterAt(offset)
<1>1. PopKeypress(r)
  BY DEF Load8
<1> HIDE DEF r
<1>2. r = "DATA" /\ keypress_fifo # <<>> => LoadValue(r) = Head(keypress_fifo)
  BY DEF LoadValue, EchoRegister
<1> QED
  BY <1>1, <1>2 DEF PopKeypress

\* Every load, every store and both operations of the terminal keep it.
LEMMA UartStepHolds == UartInv /\ [UartNext]_uartVars => UartInv'
<1> SUFFICES ASSUME UartInv, [UartNext]_uartVars PROVE UartInv'
  OBVIOUS
<1> USE DEF UartInv, UartTypeOK, FifosHoldWhatIsUnderWay
<1>1. ASSUME NEW c \in Char, Keypress(c) PROVE UartInv'
  <2>1. typed' = consumed \o keypress_fifo'
    <3>1. typed \in Seq(Char) /\ <<c>> \in Seq(Char)
      OBVIOUS
    <3>2. typed' = (consumed \o keypress_fifo) \o <<c>>
      BY <1>1, <3>1, AppendIsConcat DEF Keypress
    <3>3. (consumed \o keypress_fifo) \o <<c>> = consumed \o (keypress_fifo \o <<c>>)
      BY <3>1, ConcatAssociative
    <3>4. keypress_fifo' = keypress_fifo \o <<c>>
      BY <1>1, AppendIsConcat DEF Keypress
    <3> QED
      BY <3>2, <3>3, <3>4
  <2>2. typed' \in Seq(Char) /\ keypress_fifo' \in Seq(Char)
    BY <1>1, AppendProperties DEF Keypress
  <2> QED
    BY <1>1, <2>1, <2>2 DEF Keypress, regs
<1>2. ASSUME NEW c \in Char, StoreData(c) PROVE UartInv'
  <2>1. sent' = shown \o display_fifo'
    <3>1. sent \in Seq(Char) /\ <<c>> \in Seq(Char)
      OBVIOUS
    <3>2. sent' = (shown \o display_fifo) \o <<c>>
      BY <1>2, <3>1, AppendIsConcat DEF StoreData
    <3>3. (shown \o display_fifo) \o <<c>> = shown \o (display_fifo \o <<c>>)
      BY <3>1, ConcatAssociative
    <3>4. display_fifo' = display_fifo \o <<c>>
      BY <1>2, AppendIsConcat DEF StoreData
    <3> QED
      BY <3>2, <3>3, <3>4
  <2>2. sent' \in Seq(Char) /\ display_fifo' \in Seq(Char)
    BY <1>2, AppendProperties DEF StoreData
  <2> QED
    BY <1>2, <2>1, <2>2 DEF StoreData, regs
<1>3. CASE Read
  <2>1. /\ Head(display_fifo) \in Char /\ Tail(display_fifo) \in Seq(Char)
        /\ sent = Append(shown, Head(display_fifo)) \o Tail(display_fifo)
    BY <1>3, PopAtFront DEF Read, CanRead
  <2>2. shown' \in Seq(Char)
    BY <1>3, <2>1, AppendProperties DEF Read
  <2> QED
    BY <1>3, <2>1, <2>2 DEF Read, regs
<1>4. ASSUME NEW offset \in Offset, Load8(offset) PROVE UartInv'
  <2>1. CASE UNCHANGED <<keypress_fifo, consumed>>
    BY <1>4, <2>1 DEF Load8, AcknowledgeTransmit, regs
  <2>2. CASE /\ keypress_fifo # <<>>
             /\ keypress_fifo' = Tail(keypress_fifo)
             /\ consumed' = Append(consumed, Head(keypress_fifo))
    <3>1. /\ Head(keypress_fifo) \in Char /\ Tail(keypress_fifo) \in Seq(Char)
          /\ typed = Append(consumed, Head(keypress_fifo)) \o Tail(keypress_fifo)
      BY <2>2, PopAtFront
    <3>2. consumed' \in Seq(Char)
      BY <2>2, <3>1, AppendProperties
    <3> QED
      BY <1>4, <2>2, <3>1, <3>2 DEF Load8, AcknowledgeTransmit, regs
  <2> QED
    BY <1>4, <2>1, <2>2, LoadMovesHead
<1>5. ASSUME NEW enabled \in SUBSET {"rx", "tx"}, StoreIER(enabled) PROVE UartInv'
  BY <1>5 DEF StoreIER, fifos, history
<1>6. ASSUME NEW b \in BOOLEAN, StoreFCR(b) \/ StoreLCR(b) PROVE UartInv'
  BY <1>6 DEF StoreFCR, StoreLCR, fifos, history
<1>7. ASSUME NEW r \in EchoRegister, NEW v \in Latch, StoreEcho(r, v) PROVE UartInv'
  BY <1>7 DEF StoreEcho, fifos, history
<1>8. CASE UNCHANGED uartVars
  BY <1>8 DEF uartVars, fifos, regs, history
<1> QED
  BY <1>1, <1>2, <1>3, <1>4, <1>5, <1>6, <1>7, <1>8 DEF UartNext

\* The invariant holds in every reachable state.
THEOREM UartInvariant == UartSpec => []UartInv
BY UartInitHolds, UartStepHolds, PTL DEF UartSpec

\* Type correctness of the device (class UART and its histories).
THEOREM UartTypeCorrect == UartSpec => []UartTypeOK
BY UartInvariant, PTL DEF UartInv

\* The FIFOs hold, in order, exactly what was entered and not received, and
\* what was transmitted and not displayed (keypress_fifo_, display_fifo_).
THEOREM UartKeepsBytes == UartSpec => []FifosHoldWhatIsUnderWay
BY UartInvariant, PTL DEF UartInv

-----------------------------------------------------------------------------
(* The device implements the serial line.                                   *)

\* Initial states are initial states of the serial line.
LEMMA LineInitHolds == UartInit => Line!LineInit
BY DEF UartInit, Line!LineInit

\* Every step of the device is a step of the line or leaves it alone.
LEMMA LineStepHolds == UartInv /\ [UartNext]_uartVars => [Line!LineNext]_(Line!lineVars)
<1> SUFFICES ASSUME UartInv, [UartNext]_uartVars
             PROVE  Line!LineNext \/ UNCHANGED <<typed, consumed, sent, shown>>
  BY DEF Line!lineVars
<1>1. ASSUME NEW c \in Char, Keypress(c) PROVE Line!LineNext
  BY <1>1 DEF Keypress, Line!LineNext, Line!Type
<1>2. ASSUME NEW c \in Char, StoreData(c) PROVE Line!LineNext
  BY <1>2 DEF StoreData, Line!LineNext, Line!Transmit
<1>3. CASE Read
  <2>1. Len(shown) < Len(sent) /\ Head(display_fifo) = sent[Len(shown) + 1]
    BY <1>3, PopAtFront DEF Read, CanRead, UartInv, UartTypeOK, FifosHoldWhatIsUnderWay
  <2> QED
    BY <1>3, <2>1 DEF Read, Line!LineNext, Line!Show
<1>4. ASSUME NEW offset \in Offset, Load8(offset)
      PROVE  Line!LineNext \/ UNCHANGED <<typed, consumed, sent, shown>>
  <2>1. UNCHANGED <<typed, sent, shown>>
    BY <1>4 DEF Load8
  <2>2. CASE UNCHANGED <<keypress_fifo, consumed>>
    BY <2>1, <2>2
  <2>3. CASE /\ keypress_fifo # <<>>
             /\ keypress_fifo' = Tail(keypress_fifo)
             /\ consumed' = Append(consumed, Head(keypress_fifo))
    <3>1. Len(consumed) < Len(typed) /\ Head(keypress_fifo) = typed[Len(consumed) + 1]
      BY <2>3, PopAtFront DEF UartInv, UartTypeOK, FifosHoldWhatIsUnderWay
    <3> QED
      BY <2>1, <2>3, <3>1 DEF Line!LineNext, Line!Receive
  <2> QED
    BY <1>4, <2>2, <2>3, LoadMovesHead
<1>5. ASSUME NEW enabled \in SUBSET {"rx", "tx"}, StoreIER(enabled)
      PROVE  UNCHANGED <<typed, consumed, sent, shown>>
  BY <1>5 DEF StoreIER, history
<1>6. ASSUME NEW b \in BOOLEAN, StoreFCR(b) \/ StoreLCR(b)
      PROVE  UNCHANGED <<typed, consumed, sent, shown>>
  BY <1>6 DEF StoreFCR, StoreLCR, history
<1>7. ASSUME NEW r \in EchoRegister, NEW v \in Latch, StoreEcho(r, v)
      PROVE  UNCHANGED <<typed, consumed, sent, shown>>
  BY <1>7 DEF StoreEcho, history
<1>8. CASE UNCHANGED uartVars
  BY <1>8 DEF uartVars, history
<1> QED
  BY <1>1, <1>2, <1>3, <1>4, <1>5, <1>6, <1>7, <1>8 DEF UartNext

\* Whatever registers the guest programs, bytes are received and displayed in
\* the order they were entered and transmitted, each once (class UART between
\* Keypress, Load8, Store8 and Read).
THEOREM UartImplementsSerialLine == UartSpec => SerialLineService
BY LineInitHolds, LineStepHolds, UartInvariant, PTL
   DEF UartSpec, SerialLineService, Line!LineSpec

-----------------------------------------------------------------------------
(* Interrupts and announcements.                                            *)

\* A transmit interrupt has a byte behind it that was written since the guest
\* last read the identification register (transmit_ready_interrupt_).
THEOREM TransmitInterruptJustified == UartSpec => []TransmitInterruptHasCause
<1> DEFINE Cause == transmit_ready_interrupt => wrote
<1>1. UartInit => Cause
  BY DEF UartInit
<1>2. Cause /\ [UartNext]_uartVars => Cause'
  BY DEF UartNext, Keypress, StoreData, Read, Load8, AcknowledgeTransmit, StoreIER, StoreFCR,
         StoreLCR, StoreEcho, uartVars, fifos, regs, history
<1>3. Cause => TransmitInterruptHasCause
  BY DEF TransmitInterruptHasCause, IsTransmitReadyInterrupt
<1> QED
  BY <1>1, <1>2, <1>3, PTL DEF UartSpec

\* Data a load announced, in the line status or as the interrupt's source, is
\* still there when the guest comes to receive it: only the load of the data
\* register, whose reply announces nothing, takes a byte (UART::Load8).
THEOREM AnnouncementsHold == UartSpec => []AnnouncedDataIsThere
<1>1. UartInit => AnnouncedDataIsThere
  BY DEF UartInit, AnnouncedDataIsThere
<1>2. AnnouncedDataIsThere /\ UartInv /\ [UartNext]_uartVars => AnnouncedDataIsThere'
  <2> SUFFICES ASSUME AnnouncedDataIsThere, UartInv, [UartNext]_uartVars
               PROVE  AnnouncedDataIsThere'
    OBVIOUS
  <2>1. ASSUME NEW c \in Char, Keypress(c) PROVE AnnouncedDataIsThere'
    <3>1. keypress_fifo \in Seq(Char) /\ keypress_fifo' = Append(keypress_fifo, c)
      BY <2>1 DEF Keypress, UartInv, UartTypeOK
    <3>2. keypress_fifo' # <<>>
      BY ONLY <2>1, <3>1, AppendProperties
    <3> QED
      BY <3>2 DEF AnnouncedDataIsThere
  <2>2. ASSUME NEW offset \in Offset, Load8(offset) PROVE AnnouncedDataIsThere'
    <3> DEFINE r == RegisterAt(offset)
    <3>1. reply' = <<r, LoadValue(r)>> /\ PopKeypress(r)
      BY <2>2 DEF Load8
    <3> HIDE DEF r
    <3>2. CASE r = "LSR"
      <4>1. keypress_fifo' = keypress_fifo
        BY <3>1, <3>2 DEF PopKeypress
      <4>2. CASE keypress_fifo # <<>>
        BY <4>1, <4>2 DEF AnnouncedDataIsThere
      <4>3. CASE keypress_fifo = <<>>
        <5>1. LoadValue(r) = [transmit |-> TRUE, ready |-> FALSE]
          BY <3>2, <4>3 DEF LoadValue, EchoRegister
        <5>2. reply'[1] = "LSR" /\ ~reply'[2].ready
          BY <3>1, <3>2, <5>1
        <5> QED
          BY <5>2 DEF AnnouncedDataIsThere
      <4> QED
        BY <4>2, <4>3
    <3>3. CASE r = "IIR"
      <4>1. keypress_fifo' = keypress_fifo
        BY <3>1, <3>3 DEF PopKeypress
      <4>2. LoadValue(r).source = Source
        BY <3>3 DEF LoadValue, EchoRegister
      <4>3. Source = "rx" => keypress_fifo # <<>>
        BY DEF Source, IsDataReadyInterrupt
      <4>4. reply'[1] = "IIR" /\ reply'[2].source = Source
        BY <3>1, <3>3, <4>2
      <4> QED
        BY <4>1, <4>3, <4>4 DEF AnnouncedDataIsThere
    <3>4. CASE r \notin {"LSR", "IIR"}
      BY <3>1, <3>4 DEF AnnouncedDataIsThere
    <3> QED
      BY <3>2, <3>3, <3>4
  <2>3. CASE UNCHANGED <<keypress_fifo, reply>>
    BY <2>3 DEF AnnouncedDataIsThere
  <2> QED
    BY <2>1, <2>2, <2>3 DEF UartNext, StoreData, Read, StoreIER, StoreFCR, StoreLCR,
                            StoreEcho, uartVars, fifos
<1> QED
  BY <1>1, <1>2, UartInvariant, PTL DEF UartSpec
=============================================================================
