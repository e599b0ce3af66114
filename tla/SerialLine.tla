---------------------------- MODULE SerialLine ----------------------------
(***************************************************************************)
(* What the simulated serial line promises its two users, the terminal on  *)
(* the host side and the driver on the guest side: two independent         *)
(* first-in first-out byte streams.  Nothing is said of how the bytes are  *)
(* buffered, of registers or of interrupts.                                *)
(***************************************************************************)
EXTENDS Naturals, Sequences

CONSTANT Char       \* the bytes that can travel on the line

VARIABLES
    typed,          \* bytes entered at the terminal, oldest first
    consumed,       \* bytes the guest has received
    sent,           \* bytes the guest has transmitted
    shown           \* bytes the terminal has displayed

lineVars == <<typed, consumed, sent, shown>>

LineInit ==
    /\ typed = <<>> /\ consumed = <<>>
    /\ sent = <<>>  /\ shown = <<>>

Type(c) ==
    /\ typed' = Append(typed, c)
    /\ UNCHANGED <<consumed, sent, shown>>

\* The guest receives the oldest byte it has not received yet.
Receive ==
    /\ Len(consumed) < Len(typed)
    /\ consumed' = Append(consumed, typed[Len(consumed) + 1])
    /\ UNCHANGED <<typed, sent, shown>>

Transmit(c) ==
    /\ sent' = Append(sent, c)
    /\ UNCHANGED <<typed, consumed, shown>>

\* The terminal displays the oldest byte it has not displayed yet.
Show ==
    /\ Len(shown) < Len(sent)
    /\ shown' = Append(shown, sent[Len(shown) + 1])
    /\ UNCHANGED <<typed, consumed, sent>>

LineNext ==
    \/ \E c \in Char : Type(c) \/ Transmit(c)
    \/ Receive
    \/ Show

LineSpec == LineInit /\ [][LineNext]_lineVars
=============================================================================
