------------------------------- MODULE MCCpu -------------------------------
(***************************************************************************)
(* Guest images for the model checking of Cpu.  Each is a small kernel:    *)
(* an entry sequence that programs the devices, a loop, and handlers.      *)
(***************************************************************************)
EXTENDS Cpu, Sequences, TLC

ExternalLine == 2

MCReg   == {1, 2, 9}
MCLines == {ExternalLine}

-----------------------------------------------------------------------------
(* Instructions, as they are written in assembler.                          *)

Plain(op)         == [op |-> op]
Mov(d, k)         == [op |-> "set", d |-> d, k |-> k]
Add1(d)           == [op |-> "inc", d |-> d]
Sfeq(a, k)        == [op |-> "sf", a |-> a, k |-> k]
Branch(op, k)     == [op |-> op, k |-> k]
BranchReg(op, a)  == [op |-> op, a |-> a]
Write(spr, value) == [op |-> "mtspr", spr |-> spr, value |-> value]
ReadSpr(d, spr)   == [op |-> "mfspr", d |-> d, spr |-> spr]
Ld(d, faults)     == [op |-> "load", d |-> d, ea |-> 9, faults |-> faults, device |-> FALSE]
St(faults)        == [op |-> "store", ea |-> 9, faults |-> faults, device |-> FALSE]
LdDevice(d)       == [op |-> "load", d |-> d, ea |-> 9, faults |-> {}, device |-> TRUE]
StDevice          == [op |-> "store", ea |-> 9, faults |-> {}, device |-> TRUE]

Ticking(period) == [on |-> TRUE, ie |-> TRUE, ip |-> FALSE, period |-> period]

\* A sequence of instructions placed at an address.
At(start, s) == [a \in start .. start + Len(s) - 1 |-> s[a - start + 1]]

-----------------------------------------------------------------------------
(* Handlers.  The tick handler clears the pending bit, and the interrupt    *)
(* handler serves the device and then acknowledges at the controller, as    *)
(* the architecture asks; the others only return.                           *)

ReturnOnly == <<Plain("rfe")>>

Handlers ==
    LET simple == {e \in Exception : e \notin {"TickTimerInterrupt", "ExternalInterrupt"}} IN
    [a \in {exceptionHandlers[e].pc : e \in simple} |-> Plain("rfe")]
    @@ At(320, <<Write("TTMR", Ticking(3)), Plain("rfe")>>)
    @@ At(512, <<StDevice, Write("PICSR", {}), Plain("rfe")>>)

\* A program that calls, branches, faults and makes system calls, with the
\* MMUs on.
Busy == Handlers @@ At(ResetVector, <<
    Write("PICMR", {ExternalLine}),                                 \* 64
    Write("TTMR", Ticking(3)),                                      \* 65
    Write("SR", {"FO", "SM", "TEE", "IEE", "DME", "IME"}),          \* 66
    Add1(1),                                                        \* 67 loop
    Branch("jal", 73),                                              \* 68
    Ld(2, {"DTLBMiss", "DataPageFault"}),                           \* 69 slot
    Plain("sys"),                                                   \* 70
    Branch("j", 67),                                                \* 71
    StDevice,                                                       \* 72 slot
    Sfeq(1, 1),                                                     \* 73 subroutine
    Branch("bf", 77),                                               \* 74
    Add1(1),                                                        \* 75 slot
    LdDevice(2),                                                    \* 76
    BranchReg("jr", 9),                                             \* 77
    Add1(1) >>)                                                     \* 78 slot

\* A program that reaches the end of its work, with every other instruction.
Straight == Handlers @@ At(ResetVector, <<
    Mov(1, 67),                                                     \* 64
    BranchReg("jalr", 1),                                           \* 65
    Write("TTMR", [Ticking(2) EXCEPT !.ip = TRUE]),                 \* 66 slot
    Write("SR", {"FO", "TEE", "IEE", "F"}),                         \* 67
    ReadSpr(2, "TTCR"),                                             \* 68
    Branch("bnf", 67),                                              \* 69
    St({"BusError", "Alignment"}),                                  \* 70 slot
    Plain("halt"),                                                  \* 71
    Write("SR", {"FO", "SM", "DSX"}),                               \* 72
    Branch("bnf", 75),                                              \* 73
    Write("TTCR", 0),                                               \* 74 slot
    Ld(2, {}),                                                      \* 75
    Sfeq(2, 0),                                                     \* 76
    Branch("bf", 80),                                               \* 77
    Plain("nop"),                                                   \* 78 slot
    Plain("halt"),                                                  \* 79
    Sfeq(2, 1),                                                     \* 80
    Plain("trap") >>)                                               \* 81

\* A program that runs into an instruction the core does not know.
Unknown == Handlers @@ At(ResetVector, <<
    Write("SR", {"FO", "SM", "IEE"}), Write("PICMR", {ExternalLine}),
    Plain("illegal") >>)

\* A program without MMU and faults, that uses the device and makes system
\* calls for ever.
Steady == Handlers @@ At(ResetVector, <<
    Write("PICMR", {ExternalLine}),                                 \* 64
    Write("TTMR", Ticking(3)),                                      \* 65
    Write("SR", {"FO", "SM", "TEE", "IEE"}),                        \* 66
    Add1(1),                                                        \* 67 loop
    Plain("sys"),                                                   \* 68
    Branch("j", 67),                                                \* 69
    StDevice >>)                                                    \* 70 slot

LivePrograms == {Steady}

\* A program with ticks in and out of a delay slot that meets an illegal
\* instruction.
SlotTicks == Handlers @@ At(ResetVector, <<
    Write("TTMR", Ticking(3)),                                      \* 64
    Write("SR", {"FO", "SM", "TEE"}),                               \* 65
    Add1(1), Sfeq(1, 0), Branch("bnf", 66), Plain("nop"),           \* 66 - 69
    Plain("illegal") >>)                                            \* 70
SlotTickPrograms == {SlotTicks}

MCPrograms == {Busy, Straight, Unknown}

ASSUME MCProgramsWellFormed == \A image \in MCPrograms \cup LivePrograms \cup SlotTickPrograms :
    WellFormed(image) /\ AcknowledgesLast(image, 512 .. 514)

\* The maps of the images: all but the slots of branches that are always taken.
Map(text, entries, Holds(_)) ==
    [text |-> text, entries |-> entries, holds |-> [a \in text |-> Holds(a)]]

MCMap ==
    Busy :> Map((64 .. 77) \ {69, 72}, {70}, LAMBDA a : IF a >= 73 THEN {9} ELSE {})
    @@ Straight :> Map((64 .. 81) \ {66}, {67}, LAMBDA a : IF a = 65 THEN {1} ELSE {})
    @@ Unknown :> Map(64 .. 66, {}, LAMBDA a : {})
    @@ Steady :> Map(64 .. 69, {}, LAMBDA a : {})

ASSUME MCProgramsStayInText == \A image \in DOMAIN MCMap : StaysInText(image, MCMap[image])
=============================================================================
