# Verification of simctty

simctty simulates an OpenRISC computer: one core with two memory management
units, RAM, and a UART that is the console of the guest (a Linux kernel). It is
a sequential program. What makes it hard are the orders in which its parts act
on one another: the timer and the interrupt line strike between any two guest
instructions, exceptions hit branch delay slots, caches of translations outlive
or do not outlive the registers they were made from, and the host feeds and
drains the UART between slices of execution.

This directory holds TLA+ modules translated from `src/simctty/`, TLC
configurations that check them on small instances, and proofs for every value
of the constants. Sections: [Inventory](#inventory),
[Modules](#modules-and-how-they-correspond-to-the-code), [Runs](#runs),
[Findings](#findings), [Proofs](#proofs),
[Limits](#what-is-only-model-checked-and-what-is-not-modelled),
[Left to do](#left-to-do).

## Inventory

| Component | State | Operations | What makes it correct |
|---|---|---|---|
| UART (`uart.cc`) | `keypress_fifo_`, `display_fifo_`, `ier_`, `lcr_`, echo registers, `transmit_ready_interrupt_` | guest: `Load8`, `Store8`; host: `Keypress`, `CanRead`, `Read`; bus: `IsInterruptAsserted` | two reliable FIFO streams; interrupts with a cause; announced data is there |
| Core, control (`cpu.cc`) | `pc_`, `sr_`, `epcr0_`, `esr0_`, `eear0_`, `picmr_`, `picsr_`, `pending_interrupt_`, `ttmr_`, `ttcr_`, `in_delay_slot_`, `delayed_next_pc_` | `Run`, `RunInstruction`, `ThrowException`, `CheckInterrupts`, `IncrementPC`, `Jump`, `SetSpReg`, `SpReg` | exceptions are invisible to the interrupted program; no interrupt is lost; handlers run alone and return |
| Core, data path | `reg_`, the flag | arithmetic, shifts, comparisons | each instruction's result |
| Data MMU (`mmu.cc`) | match and translate registers, `is_enabled_`, `authed_page_`, `authed_phy_` | `Load8` to `Store32`, `SetReg`, `MapAddress`, `ClearFastAuthCache` | the one-page cache cannot be told from a translation |
| Instruction fetch | instruction MMU, `CPU::authed_page_`, `authed_phy_` | first half of the loop of `Run` | instructions come from the page the registers prescribe |
| Bus, RAM (`bus.cc`, `ram.cc`) | the devices, `ram_` | `GetDevice`, `Interrupts`, loads and stores, `LoadImage` | routing by address; big-endian guest bytes on a little-endian host |
| System (`system.cc`) | owns bus and core | `LoadImageFile` (in chunks), `LoadImage` (at any time, resets core and MMUs, not the UART), `Run` | the file is in memory; a core that is reset leaves nothing of its past behind |
| Hosts (`main.cc`, `main_web.cc`, `emscripten.cc`) | none | the loop Run, feed keys, drain the display; or a page that calls in any order | keys reach the guest, output reaches the terminal |
| Assembler (`assembler.cc`) | `instructions_`, the image so far | one method per instruction, `Data`, `SetAddress`, `Clear` | what it writes is what the core decodes |

Interaction is by calls on one thread. The host calls `System::Run(20000)`, the
core runs up to that many instructions and returns; a timer interrupt or a
refused fetch ends the slice early. The core looks at the interrupt line once,
at the start of a slice. Guest loads and stores go through the data MMU to RAM
or, through the bus, to the UART, where they may raise or lower the line.
Between two slices the host pushes keys into the UART, which may raise it too,
and takes characters out. `Run` returns false after `l.trap`, or after `l.nop 1`
in supervisor mode, and the hosts stop. The web page may load another image
between two slices: memory, core and MMUs start again, the UART keeps its state.

The hazards of this code are listed in `PROJECT.json` at the lines where they
bite, each with the properties that would catch it. The main groups:
exceptions in delay slots and in handlers; the edge detection of the interrupt
controller and the single look per slice; ticks that match while ticks are
disabled; the three one-page caches (one in each MMU, one in the core); reads of
UART registers that have side effects; FIFOs that only the host's loop bounds;
images that do not fit or are no whole words; byte order at three widths; fields
of instructions that are split, signed or partly looked at; and what is left
uninitialised or to the build (`translate_reg_`, `authed_phy_`,
`delayed_next_pc_`, RAM, the sign of `char`, `INT_MIN / -1`).

## Modules and how they correspond to the code

| Module | What it is |
|---|---|
| `SerialLine` | abstract: two reliable byte streams between terminal and guest |
| `Uart` | class `UART`; refines `SerialLine` |
| `UserProgram` | abstract: a program that runs without interruptions |
| `Cpu` | class `CPU`, its control; refines `UserProgram` |
| `MCCpu` | guest images for TLC |
| `Mmu` | class `MMU`: operators from a state of one unit to the next |
| `TranslatedMemory` | abstract: loads and stores translated every time |
| `DataAccess` | the data MMU in front of RAM and bus; refines `TranslatedMemory` |
| `Fetch` | the instruction MMU and the page kept by `CPU::Run` |
| `MCMmu` | both units for TLC |
| `GuestMemory` | abstract: one array of big-endian memory |
| `Ram`, `MCRam` | class `RAM`, and both ways an image gets into it; refines `GuestMemory` |
| `Computer`, `MCComputer` | `Cpu` and `Uart` composed by the bus, driven by the three hosts; refines `Cpu` |
| `Assembler`, `MCAssembler` | class `Assembler` against the decoding of `CPU::RunInstruction` |
| `Binary` | powers of two, and numbers by their bits |
| `DataPath`, `MCDataPath` | what each instruction computes |
| `UartProofs`, `CpuProofs`, `MmuProofs`, `RamProofs`, `ComputerProofs`, `AssemblerProofs`, `BinaryProofs`, `DataPathProofs` | theorems |

**Uart.** One action per operation: `Keypress` and `Read` for the terminal,
`Load8(offset)` for a guest load (the value and its two side effects are
`LoadValue`, `PopKeypress` and `AcknowledgeTransmit`), `StoreData`, `StoreIER`,
`StoreFCR`, `StoreLCR`, `StoreEcho` for stores that have an effect. `RegisterAt`
is the divisor latch: offsets 0 and 1 change their meaning by bit 7 of LCR.
`typed`, `consumed`, `sent`, `shown` and `wrote` are histories.

**Cpu.** The state of the class is one record; private methods are operators on
it, so that `Mtspr` calls `SetSpReg` and `ThrowException` as the code does. A
step is one iteration of the loop in `CPU::Run` (`TickInterrupt`, `FetchFault`,
or one of the instruction actions), the look at the lines that begins a slice
(`StartRun`), the host's input between slices (`HostInput`), or a new image with
a `Reset` under a core that has a past (`Reload`, if `Reloads`). `left` is what
the loop variable has left. Addresses count instructions; SR is a set of bits.
All arithmetic is represented by `set`, which may be repeated without effect, and
`inc`, which may not: that is what the promise to the interrupted program tells
apart. A load or store may raise any exception its address allows; which one is
the subject of `DataAccess`. The variable `serving` in the record is a history.

**Mmu, DataAccess, Fetch.** Addresses are pages of 8 KiB and a page of RAM is one
cell. `Mmu` has `MapAddress` (its result) and `Remember` (what it leaves in the
cache). `DataAccess` has the three shapes of access in the code: the loads that
translate, `Load32` that first asks the cache, the stores. `DataWriteTlb` writes any
match and any translation. `Offset` is where in its page an access falls: aligned or
not, and in the range of the UART or in the rest of its page, which is nobody's
(`OnBus`). `TakenForRam` is the test each store makes; a store that is taken for one
to RAM and is not (`Outside`) is made in the host's memory behind the array, which the
model does not have: that is undefined behaviour, of which the model keeps that
no guest state changes. `Fetch` has the fast
path, the slow path, the refused fetch, which raises its exception and so rewrites
SR, and the fetch from outside RAM, whose bus error the code drops. `DataReload`
and `FetchReload` reset what a new image resets: whether the unit is enabled, the
match registers and the cache, but not the translate registers, which the next
kernel finds as the last one left them.

**Ram.** `ram` is the host's array; `Byte8`, `Half16` and the little-endian
`Value` and `Put` are the exclusive ors of the six accesses, `Copy` the loop with
`B32ENDIANSWAP`. `LoadChunk` is one round of `LoadImageFile`, whose call ignores
what `LoadImage` returned; a length that is not a multiple of four ends the
process. `Load32` is at any address, as in the code, and reads the host's array
across two words, or behind its end.

**Computer.** `Uart` and `Cpu` are instances; `irq` of the core is the line of the
device. `Guest` is one instruction, with the access it makes to the device;
`turn` is the position in the host's loop: `StartRun`, then `Guest` until the slice
ends (`AfterRun`), then `Keypress` and `NoMoreKeys`, then `Display` and `Drained`. The
web page has no loop in the repository: it calls when it likes (`turn = "idle"`)
and is taken to call `sys_run` no more when that has returned false, until it
loads an image.

**Assembler.** Words and operands are the sets of their bits; the opcodes and `case`
labels are the code's numbers, of which `Coded` takes the bits. `Encode` is the
`AppendInstructionType` methods with the opcodes the `l_` methods pass, `Decode` the
`case` labels and `DECODE` macros of the core. `image` is what the vector of bytes
has become. `IsInstruction` is the types of the parameters: registers are the 32 there
are, a shift amount is any `uint8`, of which the assembler keeps six bits and the core
five, and a jump has the 26 bits of its field.

**Binary, DataPath.** Words of `Width` bits, 32 in the code and in the proofs, 4 in the
run, where every pair of operands is tried; halves and bytes in proportion. `And`,
`Or` and `Xor` are the number whose bits are the intersection, the union and the
difference of two sets of bits, `FindFirst` and `FindLast` the ends of such a set. `char_is_signed` is the build: `int8` is plain
`char` (`types.h:32`), which has a sign on x86 and none on ARM.

Each module keeps a few operators marked `variant`, a method with a plausible
mistake: exchanging the method for its variant must break a property. They are
no part of the specification.

## Runs

| Run | Question | Bounds |
|---|---|---|
| `uart` | Are bytes lost, duplicated or reordered, or interrupts without cause, under any order of register accesses? | 2 byte values, 2 bytes each way; all subsets of the enables; every offset; 253 040 states |
| `cpu` | Can the program see that it was interrupted, is an edge lost, does anything interrupt a handler? | 3 images, slices of 2 and 3, timer modulo 6, registers modulo 3, any image again at any time; 187 358 states |
| `cpu_live` | Is every interrupt served, does every handler return? | 1 image, slices of 2 to 4, timer modulo 12; 11 966 states |
| `mmu` | Do the caches show? Does an instruction come from the right page? | 2 pages of RAM and the UART's, 2 TLB sets, 4 translations, 2 interchangeable values, one unit at work; 69 992 states |
| `ram` | Is memory big-endian at every width, is the file in it? | 2 words, 2 byte values, images of 0, 3, 4, 6, 8, 9 and 12 bytes, chunks of 4; 45 364 states |
| `computer` | Do core, UART and host keep their promises together; do keys and output arrive? | 3 drivers, slices of 3 and 18, 2 keys, 2 characters, 3 hosts; 112 012 states |
| `assembler` | Does the core take each word for what was asked? | every method, operands at the ends of their ranges; words one or two bits away; 3 words an image; 13 071 states |
| `data_path` | Do the instructions fit together as arithmetic? | words of 4 bits, 2 registers, both signs of `char`; 1 094 states |
| `delay_slot_bit`, `pending_tick` | findings 1 and 2, below | 1 image each |
| `write_only`, `store16` | findings 3 and 4 | those of `mmu` |

Why these bounds are enough for the cases to happen:

- `uart`: two bytes each way are the least for order to matter; an empty, a
  partly and a fully drained FIFO occur with each register setting.
- `cpu`: the timer's period is shorter than the loop of the images and
  incommensurable with the slices, so that a tick hits every instruction of the
  program, every delay slot and every handler. The image `Busy` has a call, a
  return, a conditional branch, a faulting load in a delay slot, a device access
  in another, and a system call, with both MMUs on; `Straight` has the remaining
  instructions and stops by `l.trap`; `Unknown` meets an illegal instruction.
  `WordMod` only has to tell an `inc` done once from one done twice or not at all.
- `mmu`: two pages in one set give conflict and eviction, and two translations of one
  page aliasing. Of the translations one is the supervisor's, one may only be read
  and one only be written or executed, in either mode, and one ends in the device,
  where any of the pages, the low ones too, may be mapped. The two units share the
  mode and nothing else, and a behaviour has one of them at work (`unit`).
- `ram`: the patterns tell every two places of a word apart, and the two words;
  the lengths are none, less than a word, a word, one and a half, all of memory,
  a byte more, and a chunk more, which is refused.
- `computer`: a slice of 3 is shorter than the interrupt's handler, which is cut
  by slices at every instruction; one of 18 holds the handler and more, so that a
  key meets a line that was raised, withdrawn and raised again. `Polling` has no
  interrupts, `Interrupted` enables the transmitter's too and sets the divisor,
  `PowerOff` stops in the middle of what it echoes.
- `assembler`: single and double flips reach every bit of every field from a valid
  word, so an ignored or shortened field shows.
- `data_path`: all operations on all operands; every amount of a shift; every
  constant. What depends on the width is proved for 32 bits.

Deadlock is checked except in `cpu`, `delay_slot_bit` and `computer`,
whose images come to an end, in `ram`, where the process may exit, and in
`data_path`, where the host may trap or hang.

**Properties.** The type invariants aside:

| For | Properties |
|---|---|
| UART | `FifosHoldWhatIsUnderWay`, `TransmitInterruptHasCause`, `AnnouncedDataIsThere`, `SerialLineService` (refinement) |
| core | `ExceptionsAreInvisible` (refinement), `ProgramStaysInPlace`, `DelaySlotFollowsBranch`, `NoInterruptLost`, `HandlerRunsAlone`, `InterruptHasSource`, `InterruptIsServed`, `HandlerReturns` |
| data | `DataCacheAgrees`, `CachedPageIsPermitted`, `AccessesAreTranslated` (refinement) |
| instructions | `InstructionCacheAgrees`, `AuthedPageIsCurrent`, `FetchesAreTranslated` |
| memory | `MemoryIsBigEndian` (refinement), `FileIsInMemory` |
| machine | `CoreIsImplemented` (refinement), `EchoedInOrder`, `OnlyThisSliceIsUnshown`, `InterruptsSubside`, `KeysReachGuest`, `OutputIsShown` |
| assembler, decoder | `AssembledIsDecoded`, `WordsAreReadInFull` |
| results | `ComparisonsAgree`, `DivisionLeavesRemainder`, `ShiftsScale`, `FoundBitsAreEnds`, `ConstantsCompose`, `LoadsExtendSign` |

Each is explained where it is defined.

`UserProgram` is exact about what exceptions do let a program see: a branch whose
slot was put off runs again from the branch (harmless, but a program can count
it), and an `l.mtspr` to SR that lets a pending tick in is carried out twice.
`GuestMemory` is exact about a misaligned `l.lwz`: it raises no exception and
returns bytes of two words (`ReadMisaligned`). `TranslatedMemory` is exact about the
two accesses of findings 3 and 4: a word may be read of a page that may be written
(`ReadOfWritable`), and a half word stored to a low virtual page is lost where the
physical page is no RAM (`WriteValue`).
`CoreIsImplemented` discharges what `Cpu` assumes of its surroundings: its line moves
with accesses and input only. The steps of the UART need no such property: those of
`Computer` are made of them. What a program running
across a new image could see of the last one is excluded by the same properties,
since `Reload` is a step of the specifications that they constrain.

**Fairness.** `CpuFairSpec` assumes weak fairness of `StartRun \/ Cycle`: the
hosts call `Run` as long as it returns true, and `Run` goes to the end of its
slice. Nothing is assumed of the host's input. The liveness properties hold for
a guest whose tick period is longer than a slice and its handler (`TickMod = 12`
against slices of at most 4). With a shorter period every slice ends by a tick,
every look at the lines happens inside a handler, with interrupts disabled, and
an external interrupt is never taken; with the 20000 instructions of the real
slice that is the guest's choice of period, and it is listed as a hazard.

`ComputerFairSpec` assumes weak fairness of `Progress`, one step of the program:
`StartRun`, `Guest`, `NoMoreKeys`, `Display` or `Drained`. It is one thread that never
blocks (the terminal reads without waiting), and at each point of the loops one
of these is what comes next. Typing and loading images are not fair: nobody has to.
`KeysReachGuest`, `OutputIsShown` and `InterruptsSubside` are about hosts with a loop, since a page may
load images without end or drain nothing.

**Assumptions about the guest**, each a definition:

- `WellFormed` (`Cpu`): there is a handler at each vector; no branch, system
  call, return or write of SR in a delay slot; handlers keep the program's state
  and end in `l.rfe`. `MCProgramsWellFormed` checks it of the images.
- `StaysInText` (`Cpu`): by a map of the image, which is its text, the addresses
  that calls and constants put into registers, and for each place of the text the
  registers that hold such an address, the program stays in its text: whatever a
  branch skips to, follows an instruction or is in a register is text, and no text
  is a handler's. Data do not enter into it. `MCProgramsStayInText` checks the maps.
- `AcknowledgesLast` (`Cpu`): writes of PICSR clear all of it, and the handler of the
  external interrupt does that right before its `l.rfe`.
- `DriversAssumption` (`Computer`): device instructions name offsets the device has,
  and stores to control registers the bits of them; what is stored to a data
  register is in a general register.
- `Echoes` (`Computer`): by a map of the image, which says for each address what is
  known when the core gets there (`known`) and which addresses may be interrupted
  (`open`), the driver receives a byte only when one waits and none is held, sends
  only the one it holds (or loads the divisor latch), and takes no exception but the
  UART's interrupt, nor that while it holds a byte. What an instruction teaches is
  `Learns`: a load of the line status tells of the FIFO, a comparison with 1 moves
  that to the flag, a branch on the flag makes it certain; a load of the data
  holds its byte. It says nothing of keys, slices or hosts. `MCProgramsEcho` checks
  the maps of the three drivers.

## Findings

Refuted by a run:

1. `delay_slot_bit`: the bit "Delay slot exception" (`cpu.h:54`) sticks.
   `ThrowException` sets it in ESR0, `l.rfe` copies it into SR, and it is in ESR0
   of every later exception, in a delay slot or not (`cpu.cc:330-333`).
2. `pending_tick`: a tick that matched while ticks were disabled is taken when
   `l.mtspr` enables them (`cpu.cc:660-662`) but not when `l.rfe` does
   (`cpu.cc:467-470`), which is how every handler enables them again. It then
   waits for the next `l.mtspr` or the next match.
3. `write_only`: a store fills the cache of the data MMU (`mmu.cc:287`) after a look at
   the permission to write, and `Load32` then reads from it without any (`mmu.cc:149`).
   In a page that may be written and not read, `l.lwz` raises a page fault before the
   first store to it and none after.
4. `store16`: `Store16` asks whether the virtual address is below the end of RAM
   (`mmu.cc:134`), every other access whether the physical one is (`mmu.cc:293`). A low
   virtual page that is mapped to the UART, or to nothing, is written behind the
   host's array, without an exception. The other way round, a high virtual page that
   is mapped to RAM, the store gets there by the bus, which has RAM on it as well.

Others that no run refutes, because the properties are stated to allow them or no
property is about them:

- SR bit 15, "Fixed One (always set)" (`cpu.h:56`), is cleared by any `l.mtspr` or
  `l.rfe` that leaves it out (`cpu.cc:259`).
- `SpReg` says that it asks for supervisor mode (`cpu.cc:154`), but `!sr_ & kSM`
  (`cpu.cc:155`) is `(!sr_) & kSM` and holds only when all of SR is 0. A guest in user
  mode reads the special registers, as the image `Straight` does with the count of the
  timer (`Cpu!SpReg`).
- Three patterns of instructions fix bits that the core does not look at: bit 16 of
  `l.movhi` (`cpu.cc:446`), bits 25:24 of `l.nop` (`cpu.cc:438`), and bit 5 of the amount
  of a shift by a constant (`cpu.cc:588`), which the assembler writes
  (`assembler.cc:404`) and `DECODE_L` drops (`cpu.cc:389`): a shift by 32 is carried out
  as one by 0. `Ignored` has what the core does, and `Meaning` what becomes of the amount.
- The page the core runs in, which a write of the instruction TLB does not forget
  (`cpu.cc:286-290`): `FetchesAreTranslated` excepts the page whose own entry was
  rewritten (`stale`) until the core leaves it or writes SR.
- `LoadImageFile` ignores that a chunk was refused, and counts its bytes among
  those "Loaded" (`system.cc:58-64`). `FileIsInMemory` says what is in memory then.
- The loop of `main.cc:56` ends before it displays what the guest wrote in its last
  slice, such as the "reboot: Power down" that `README.md` shows.
  `OnlyThisSliceIsUnshown` says that no more than that is missing.
- `int8` is plain `char` (`types.h:32`). Where that has no sign, as on ARM, `l.lbs` does
  not extend that of a byte (`cpu.cc:513`; `cpu_test.cc:353` expects `-0x1U`), and
  `l.fl1` of 0 does not end (`cpu.cc:754`; `cpu_test.cc:878` expects 0).
  `LoadsExtendSign` is stated for both builds, and `FindLastHangs` is an action.
- `l.div` of the least integer by -1 (`cpu.cc:771`) has no result in C++ and stops
  the simulator on some hosts: `DivideTraps`.
- The other way round, the decoder looks at two bits (7:6) that the patterns of most
  register instructions leave open (`cpu.cc:709`), and refuses words that a pattern allows.
- A read of the identification register withdraws the transmit interrupt even when it
  reports received data (`uart.cc:54`). A driver that took the identification for the
  whole truth would miss that one; those modelled look at the line status.

## Proofs

| Module | Proved for every value of the constants |
|---|---|
| `UartProofs` | every property of run `uart`, with the refinement of `SerialLine` |
| `CpuProofs` | `CpuTypeOK`, `DelaySlotFollowsBranch`, `InterruptHasSource`, for any images; `HandlerRunsAlone`, for images that are `WellFormed`; `NoInterruptLost`, for those whose handler also `AcknowledgesLast`; `ProgramStaysInPlace` and `ExceptionsAreInvisible`, the refinement of `UserProgram`, for `WellFormed` images with a map by which they stay in their text (`StaysInText`) |
| `MmuProofs` | lemmas on the operators of `Mmu`; every property of run `mmu`, with the refinement of `TranslatedMemory` |
| `RamProofs` | every property of run `ram`, with the refinement of `GuestMemory` |
| `ComputerProofs` | `ComputerTypeOK`, `OnlyThisSliceIsUnshown`, and the refinement `CoreIsImplemented`; `EchoedInOrder`, for drivers with a map by which they echo (`Echoes`) |
| `AssemblerProofs` | every property of run `assembler`: for all instructions with all operands, images of every length, and every one of the 2^32 words |
| `BinaryProofs` | lemmas: powers of two, the bits of numbers, and that they determine each other |
| `DataPathProofs` | every property of run `data_path`, for words of 4, 8, 16 and 32 bits |

*UART.* The invariant adds to the types that the histories are what the FIFOs
have swallowed and released, that a set transmit flag goes with a byte written
since the last identification, and that an announcement in `reply` goes with a
non-empty FIFO. Every step is then a step of `SerialLine` or a stutter, by a lemma
on taking the front of a concatenation.

*Core.* Types alone are not inductive: an exception in a delay slot takes one from
the program counter, so that `CpuTypeOK` needs the delay slot to lie behind a
branch, and `CpuInv` is the conjunction. Only `Jump` sets `in_delay_slot_`, and only
instructions that branch call it; everything else that changes the program
counter resets it. That an interrupt has a source follows from `CheckInterrupts`
latching the lines before it decides (`CheckCases`), and from no instruction
raising that exception (`CycleServes`). `HandlerRunsAlone` adds `InHandler`: while an
exception is handled, SR enables neither interrupts nor MMUs and the core is, and
its delayed target is, at the code of a handler. `ThrowException` establishes it
because there is a handler at each vector; inside, no instruction a handler may
consist of can raise SR or leave before `l.rfe`. `NoInterruptLost` adds `Told`, that
the controller will see a difference or has the interrupt pending: only taking
the interrupt and clearing PICSR with a line up break it, and the handler restores
it by the last thing it does (`AckInv`).

*Program.* The invariant `ProgramInv` adds `SlotKnown`, that there is a branch in
memory behind the program's delay slot. An exception saves the program counter, or
that of the branch (`ThrowSaves`), so that the program as `UserProgram` sees it is
where it was, or back at its branch (`ThrowIsInvisible`); a handler's steps keep
what was saved (`HandlerIsInvisible`); `l.rfe` restores it; every other step of
the program's own is the step of the abstract machine with the same name
(`InvisibleWhileInPlace`, as long as the program stays in its place).

That it does (`ProgramStays`) is an induction over the steps of `UserProgram`, not of
the core: exceptions are out of sight there. Its invariant `InText` is that the
program is at a place of its text with the registers that the map says hold an
entry doing so, and that a delay slot has behind it a branch whose target the map
allows. The two inductions are one, since each step of the core is only
known to be one of the abstract machine while the program is in place: `TextInv`
is about the program as the abstract machine sees it, also while a handler runs,
and a step out of a state with both gives one with both. `ExceptionsInvisible` then
has hypotheses on the image only.

*Data.* The cached page alone is not inductive information. `DataCacheAgrees`
says that the TLB maps the cached page where the cache says; only with it can
`CachedPageIsPermitted` speak of that entry's permissions. A load leaves in the cache
a page it may read, a store one it may write; a write of SR or of the TLB, after
which neither need be so, empties it. Nothing is assumed of what the guest maps where
and with which permissions. Under that invariant each access, cached or not, is an
access of `TranslatedMemory` (`CachedLoadIsRead`, `MappedLoadIsRead`, `StoreIsWrite`):
a cached word may be read, or is one of a page that may be written. The instance
checked by TLC has three pages; the theorem is for any number of pages, sets and
translations.

*Fetch.* The invariant is that the page the core runs in is the translation of the
moment unless its entry was rewritten. A write of another set leaves it alone, a
write of SR forgets it, a fetch renews it.

*Memory.* The guest's memory is the array read through `Byte8`, which is its own
inverse. The lemmas say where each byte of an access of one, two and four bytes
and of a copied word falls; they rest on facts about the remainder modulo 4. That
a file is in memory follows from an invariant on `offset`: chunks are whole
words, what was loaded lies below it and no later chunk touches it, and a chunk is
refused only from the point on where nothing fits.

*Machine.* Every step of `Computer` is a step of `Uart` or leaves it alone, and a
step of `Cpu` or leaves it alone; the theorems of `UartProofs` then hold of the
machine (`Serial == INSTANCE UartProofs`), and its invariant says which numbers a
load of a UART register can leave in the core (`WordFits`). `HostInv` relates the
position in the host's loop to the slice, `DisplayInv` to the FIFO: it is empty when a slice begins, and grows only by
what is sent. `OnlyThisSliceIsUnshown` follows for any length of slices and FIFO.

*Echo.* `DriversEcho` is not about three drivers but about every one with a map.
`EchoedInOrder` alone is not inductive: between the load and the store the byte is
in a register, perhaps with a slice's end, a key or an interrupt in between.
`EchoInv` says that what was sent are bytes received, in order (`SentFrom`), all of
them but one where the map says that a register holds it (`Held`), and that what the
map says is known at the core's place is so (`Knows`): in particular that a byte the
line status announced still waits, which keys cannot undo and only the guest can.
An interrupt finds the program at an address where nothing is held, whatever it
knew there is its own again after `l.rfe` (`Saved`), and the handler is one more
part of the map. A page that loads an image starts the core at the reset vector,
and what the old guest held is lost: `AllSent` excepts that host. TLC checked
`EchoInv` on the instance of run `computer` before it was proved.

*Assembler.* The tables of the assembler and the `case` labels of the core are
finite, and are compared number by number; that no label appears twice is what makes
`Named` the mnemonic. The rest is about fields: each operand is found by the macro
that the instruction's case uses where the method of its type has put it, split or
signed, and no other field reaches into it. `AssemblerInv` says that the image is,
four bytes for each, the words that were asked for, and the append at the end of
each method keeps it; `AssembledAsAsked` reads them off. `WordsAreRead` goes the
other way: a word that the core accepts is its opcode and its operands, as decoded,
put back (`WholeIsRead`), but for the bits in `Ignored`.

*Numbers and their bits.* `TwoTo` is a recursive function, and what is known of it by
definition is that it is one of the functions that satisfy its equation if there is
any. `PowersExist` and `PowersAgree` show that there is one up to each number, and
`TwoToDef` puts them together; from then on a power of two is twice the one before.
These inductions are over a set (`NatSetInduction`: a set that holds 0, and the
successor of each of its numbers, holds all), which needs no operator as parameter
and follows from a theorem of the library on finite sets. `BitsDetermine` and
`BitsExist` make numbers below 2^w and sets of bits below w the same thing; the other
lemmas say what a remainder, a complement, a sum without carry and the top bit
are as bits.

*Results.* The invariant is only that registers hold words (`RegistersHoldWords`), and
each property is then a law of arithmetic. `Unsigned` and `AsInt` are residues, so
that an equation between results is one modulo 2^w (`Modular`). Comparisons: the
exclusive or with the top bit adds half of the range (`XorWithTop`), which turns one
order into the other. Division: `QuotientIs` bounds what truncation towards zero
leaves, and the wrapped product and difference give exactly that (`LeftIs`), even where
the quotient itself does not fit. Shifts: an arithmetic one rounds down, as a complement
does from above (`ShiftArithmeticIs`), and masking by `Width - 1` is the remainder, because
the width is a power of two, as `DataPathAssumption` says. Found bits: dividing by
2^n drops the bits below n (`Ends`). Constants: the upper half and the lower have no bit
in common (`OrOfParts`), and a negative lower half borrows one from the upper
(`HalvesOf`). Loads: shifting left and back is the conversion (`ExtensionIs`).

The assumptions of the proofs are the `ASSUME`s on constants: `UartAssumption`,
`CpuAssumption`, `ProgramsAssumption` (images hold instructions), `MmuAssumption`,
`DataAccessAssumption`, `RamAssumption` (sizes are whole words),
`ComputerAssumption` (bytes have numbers, and no two the same), `DriversAssumption`,
`InstructionsAssumption`, `WordsAssumption`, `AddressesAssumption` (what the test asks
for has the types of the parameters), `DataPathAssumption` (the width). TLC evaluates
them on every run.

## What is only model-checked, and what is not modelled

- Liveness (`InterruptIsServed`, `HandlerReturns`, `InterruptsSubside`, `KeysReachGuest`,
  `OutputIsShown`)
  is out of the prover's reach. Every other property of a run that passes is proved.
- That the inductive invariants are not empty, and that every action of a module can
  happen, is shown by the runs only.
- One instruction of `Cpu` stands for many: the results are in `DataPath`, and no
  module runs a program that computes with real words.
- `Computer` has the device accesses of three drivers, with neither MMU on; the
  accesses themselves are in `DataAccess`.
- A branch, system call or return in a delay slot, which the architecture leaves
  undefined, is excluded by `WellFormed`. So is a tick period that starves the
  external interrupt, by the instance of `cpu_live`.
- Not modelled: terminal settings, statistics, dumps and verbose output; googletest
  and the kernel image; the unit tests, which were read for what they expect; the
  web page, which is not in the repository.
- The MMU uses 64 of its 128 sets (`kUsedSetCount`); writes of the others are
  writes of registers that nothing reads, and the model has the used ones. An
  unknown MMU register ends the simulator, and the model does not write one.

## Left to do

What the plan had is built, and its safety properties are proved. What would say
more: the data MMU and RAM under `Computer`, with a kernel that fills its TLB in its
miss handlers; and an instance of `DataPath` under `Cpu`, for programs that compute
with real words.
