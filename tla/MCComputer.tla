----------------------------- MODULE MCComputer -----------------------------
(***************************************************************************)
(* Guests for the model checking of Computer: three drivers that echo the  *)
(* keys, and numbers for the bytes.                                        *)
(***************************************************************************)
EXTENDS Computer, TLC

MCReg  == {1, 2, 9}
MCChar == {"a", "q"}
MCLatch == MCChar \cup {"0"}
MCCode == [b \in MCLatch |->
              CASE b = "a" -> 1 [] b = "q" -> 2 [] OTHER -> 0]

-----------------------------------------------------------------------------
(* Instructions.                                                            *)

Ld(d, offset)     == [op |-> "load", d |-> d, ea |-> 9, faults |-> {}, device |-> TRUE,
                      offset |-> offset]
St(offset, value) == [op |-> "store", ea |-> 9, faults |-> {}, device |-> TRUE,
                      offset |-> offset, value |-> value]
Sfeq(a, k)        == [op |-> "sf", a |-> a, k |-> k]
Branch(op, k)     == [op |-> op, k |-> k]
Write(spr, value) == [op |-> "mtspr", spr |-> spr, value |-> value]
Plain(op)         == [op |-> op]

DATA == 0  IER == 1  IIR == 2  LCR == 3  LSR == 5

At(start, s) == [a \in start .. start + Len(s) - 1 |-> s[a - start + 1]]

\* Receive while there is data, and echo.
EchoAll(a, next) == <<
    Ld(1, LSR), Sfeq(1, 1), Branch("bnf", next), Plain("nop"),      \* a
    Ld(2, DATA), St(DATA, 2), Branch("j", a), Plain("nop") >>       \* a + 4

\* A driver that polls.
Polling == At(64, EchoAll(64, 64))

\* A driver that sets the divisor and lives on interrupts, the transmitter's
\* too; it looks at the line status whatever the identification says.
Interrupted ==
    At(64, <<
        St(LCR, TRUE), St(DATA, 1), St(LCR, FALSE), St(IIR, TRUE),
        St(IER, {"rx", "tx"}),
        Write("PICMR", {UartLine}), Write("SR", {"FO", "SM", "IEE"}),
        Branch("j", 71), Plain("nop") >>)
    @@ At(512, <<Ld(1, IIR)>> \o EchoAll(513, 521) \o <<Write("PICSR", {}), Plain("rfe")>>)

\* A driver that polls, and powers off after the key q, which it still echoes.
PowerOff ==
    At(64, <<
        Ld(1, LSR), Sfeq(1, 1), Branch("bnf", 64), Plain("nop"),
        Ld(2, DATA), Sfeq(2, 2), Branch("bnf", 64), St(DATA, 2),
        Plain("halt") >>)

MCPrograms   == {Polling, Interrupted, PowerOff}

-----------------------------------------------------------------------------
(* The maps of these drivers.                                               *)

\* Along EchoAll, and around it.
EchoKnown == <<{Echoed}, {Echoed, Tells(1)}, {Echoed, Flag}, {Echoed, Ready}, {Echoed, Ready}>>

MCMap ==
    Polling :> [open |-> {}, known |-> At(64, EchoKnown \o <<{Holds(2)}, {Echoed}>>)]
 @@ Interrupted :>
    [open  |-> {71},
     known |-> At(64, <<{Echoed}, {Echoed, Latched}>> \o [n \in 1 .. 6 |-> {Echoed}])
               @@ [a \in 512 .. 522 |-> {Saved} \cup
                       CASE a \in 513 .. 517 -> EchoKnown[a - 512]
                         [] a = 518 -> {Holds(2)} [] OTHER -> {Echoed}]]
 @@ PowerOff :>
    [open  |-> {},
     known |-> At(64, EchoKnown \o <<{Holds(2)}, {Holds(2)}, {Holds(2)}, {Echoed}>>)]

ASSUME MCProgramsEcho == \A image \in MCPrograms : Echoes(image, MCMap[image])
=============================================================================
