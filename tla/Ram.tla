-------------------------------- MODULE Ram --------------------------------
(***************************************************************************)
(* The memory of the simulated machine, simctty/ram.cc, and how it gets    *)
(* its contents: the two ways an image is loaded (System::LoadImageFile    *)
(* for the terminal, System::LoadImage for the web page) and the guest's   *)
(* loads and stores, as the data MMU lets them through.                    *)
(*                                                                         *)
(* `ram' is the host's array.  The host is little-endian, and each word is *)
(* kept in its byte order, so that the byte the guest calls a is at a ^ 3. *)
(* A value of 8, 16 or 32 bits is the sequence of its bytes, the most      *)
(* significant one first.  `op' is a history: the operation last done and  *)
(* the bytes it moved.                                                     *)
(***************************************************************************)
EXTENDS Naturals, Sequences

CONSTANTS
    RamSize,        \* kMaxRamAddress + 1
    Byte,           \* contents of a byte
    Files,          \* images: sequences of bytes
    BufferSize      \* kBufferSize, what LoadImageFile reads at a time

ASSUME RamAssumption ==
    /\ RamSize \in Nat \ {0} /\ RamSize % 4 = 0
    /\ BufferSize \in Nat \ {0} /\ BufferSize % 4 = 0
    /\ Files \subseteq Seq(Byte)

VARIABLES
    ram,            \* ram_
    phase,          \* "load", "run", or "exited"
    host,           \* "terminal" or "web"
    file,           \* the file LoadImageFile reads
    offset,         \* and how far it has got
    op

ramVars == <<ram, phase, host, file, offset, op>>

Address == 0 .. RamSize - 1

\* The array is not initialised.  The web page's machine runs when it is
\* told to, with or without an image.
RamInit ==
    /\ ram \in [Address -> Byte]
    /\ \/ host = "terminal" /\ phase = "load" /\ file \in Files
       \/ host = "web" /\ phase = "run" /\ file = <<>>
    /\ offset = 0
    /\ op = [kind |-> "none", at |-> 0, data |-> <<>>]

Did(kind, at, data) == op' = [kind |-> kind, at |-> at, data |-> data]

-----------------------------------------------------------------------------
(* Images.                                                                  *)

CopyUnswapped(data, at) ==             \* variant: bytes in the file's order
    [h \in Address |-> IF h - at \in 0 .. Len(data) - 1 /\ h >= at
                       THEN data[h - at + 1] ELSE ram[h]]

\* The copying loop: B32ENDIANSWAPBn exchanges the bytes of each word.
Copy(data, at) ==
    [h \in Address |->
        IF h >= at /\ h < at + Len(data)
        THEN LET i == h - at IN data[(i - (i % 4)) + (3 - (i % 4)) + 1]
        ELSE ram[h]]

\* RAM::LoadImage.  A length that is not a multiple of four ends the process,
\* after the last word has been copied with what lies behind the data; the
\* memory goes with the process.
LoadImage(data, at, next) ==
    IF at + Len(data) > RamSize
    THEN /\ Did("refused", at, data)
         /\ phase' = next
         /\ UNCHANGED ram
    ELSE IF Len(data) % 4 # 0
    THEN phase' = "exited" /\ UNCHANGED <<ram, op>>
    ELSE /\ ram' = Copy(data, at)
         /\ Did("image", at, data)
         /\ phase' = next

\* LoadImageFile does not look at what LoadImage returned.
CannotOpen ==
    /\ phase = "load" /\ offset = 0
    /\ phase' = "exited"
    /\ UNCHANGED <<ram, host, file, offset, op>>

Rest  == SubSeq(file, offset + 1, Len(file))
Chunk == IF Len(Rest) < BufferSize THEN Rest ELSE SubSeq(Rest, 1, BufferSize)

LoadChunkByBuffer ==                   \* variant: offset += kBufferSize
    /\ phase = "load" /\ Rest # <<>>
    /\ LoadImage(Chunk, offset, "load")
    /\ offset' = offset + BufferSize
    /\ UNCHANGED <<host, file>>

LoadChunk ==
    /\ phase = "load" /\ Rest # <<>>
    /\ LoadImage(Chunk, offset, "load")
    /\ offset' = offset + Len(Chunk)
    /\ UNCHANGED <<host, file>>

\* "Loaded %ld bytes from %s"
FileLoaded ==
    /\ phase = "load" /\ Rest = <<>>
    /\ phase' = "run"
    /\ file' = <<>> /\ offset' = 0
    /\ UNCHANGED <<ram, host, op>>

\* sys_load_image: the page may load another image at any time.
WebLoadImage(data) ==
    /\ host = "web" /\ phase = "run"
    /\ LoadImage(data, 0, "run")
    /\ UNCHANGED <<host, file, offset>>

-----------------------------------------------------------------------------
(* Loads and stores.                                                        *)

\* address ^ 0x3 and address ^ 0x2
Byte8(a)  == (a - (a % 4)) + (3 - (a % 4))
Half16Unswapped(a) == a                \* variant: no exchange of half words
Half16(a) == (a - (a % 4)) + ((a + 2) % 4)

\* n bytes of the array from h on are a little-endian value; the array ends,
\* and what the process has behind it may be anything.
Value(h, n, stray) ==
    [k \in 1 .. n |-> IF h + n - k \in Address THEN ram[h + n - k] ELSE stray[k]]

\* The array with the value v from h on.
Put(h, v) ==
    [x \in Address |-> IF x >= h /\ x < h + Len(v) THEN v[Len(v) - (x - h)] ELSE ram[x]]

Load(at, h, n, stray) ==
    /\ phase = "run"
    /\ Did("load", at, Value(h, n, stray))
    /\ UNCHANGED <<ram, phase, host, file, offset>>

Load8(a)  == Load(a, Byte8(a), 1, <<>>)
Load16(a) == a % 2 = 0 /\ Load(a, Half16(a), 2, <<>>)

\* MMU::Load32 looks at the alignment on neither of its paths.
Load32(a) == \E stray \in [1 .. 4 -> Byte] : Load(a, a, 4, stray)

Store(at, h, v) ==
    /\ phase = "run"
    /\ ram' = Put(h, v)
    /\ Did("store", at, v)
    /\ UNCHANGED <<phase, host, file, offset>>

Store8(a, v)  == Store(a, Byte8(a), v)
Store16(a, v) == a % 2 = 0 /\ Store(a, Half16(a), v)
Store32(a, v) == a % 4 = 0 /\ Store(a, a, v)

-----------------------------------------------------------------------------
LoadStep == CannotOpen \/ LoadChunk \/ FileLoaded \/ \E data \in Files : WebLoadImage(data)

AccessStep ==
    \E a \in Address :
        \/ Load8(a) \/ Load16(a) \/ Load32(a)
        \/ \E v \in [1 .. 1 -> Byte] : Store8(a, v)
        \/ \E v \in [1 .. 2 -> Byte] : Store16(a, v)
        \/ \E v \in [1 .. 4 -> Byte] : Store32(a, v)

RamNext == LoadStep \/ AccessStep

RamSpec == RamInit /\ [][RamNext]_ramVars

-----------------------------------------------------------------------------
(* Properties.                                                              *)

\* Type invariant: the array is filled with bytes whatever is loaded.
RamTypeOK ==
    /\ ram \in [Address -> Byte]
    /\ phase \in {"load", "run", "exited"} /\ host \in {"terminal", "web"}
    /\ file \in Seq(Byte) /\ offset \in 0 .. Len(file)
    /\ op.kind \in {"none", "image", "refused", "load", "store"}
    /\ op.at \in Nat /\ op.data \in Seq(Byte)

\* The memory the guest sees through accesses of every width, and that images
\* are copied to word by word, is one big-endian memory (B32ENDIANSWAPBn and
\* the exclusive ors of RAM::Load8 to Store32 agree).
Guest == INSTANCE GuestMemory WITH mem <- [a \in Address |-> ram[Byte8(a)]]
MemoryIsBigEndian == Guest!GuestSpec

\* A machine that starts from a file has all the chunks that fit, in order
\* (LoadImageFile): the process has ended if the last one had bytes left over,
\* and no chunk was refused before one that fits.
Loaded(n) == n <= RamSize /\ \A i \in 1 .. n : ram[Byte8(i - 1)] = file[i]
Whole     == (RamSize \div BufferSize) * BufferSize
FileIsInMemory ==
    [][phase = "load" /\ phase' = "run" =>
           Loaded(IF Len(file) <= RamSize THEN Len(file) ELSE Whole)]_ramVars
=============================================================================
