----------------------------- MODULE RamProofs -----------------------------
(***************************************************************************)
(* Proofs about module Ram: the array of the host, whatever its size, what *)
(* images are loaded and in whatever widths it is accessed, implements a   *)
(* big-endian memory (module GuestMemory).                                 *)
(***************************************************************************)
EXTENDS Ram, SequenceTheorems, TLAPS

-----------------------------------------------------------------------------
(* Arithmetic of the addresses within a word.                               *)

\* A number is a multiple of four and a rest.
LEMMA Division ==
    ASSUME NEW a \in Nat
    PROVE  /\ a % 4 \in 0 .. 3
           /\ \E q \in Nat : a = 4 * q + (a % 4)
<1>1. a % 4 \in 0 .. 3
  OBVIOUS
<1>2. a = 4 * (a \div 4) + (a % 4)
  OBVIOUS
<1>3. a \div 4 \in Nat
  OBVIOUS
<1> QED  BY <1>1, <1>2, <1>3

\* The byte exchange, in terms of word and place.
LEMMA Byte8Place ==
    ASSUME NEW q \in Nat, NEW r \in 0 .. 3
    PROVE  Byte8(4 * q + r) = 4 * q + 3 - r
<1>1. (4 * q + r) % 4 = r
  OBVIOUS
<1> QED  BY <1>1 DEF Byte8

\* It stays in memory, which ends with a word, and undoes itself.
LEMMA Byte8InMemory ==
    ASSUME NEW a \in Address
    PROVE  Byte8(a) \in Address
<1>1. PICK q \in Nat : a = 4 * q + (a % 4)
  BY Division DEF Address
<1>2. PICK w \in Nat : RamSize = 4 * w + (RamSize % 4)
  BY Division, RamAssumption
<1>3. Byte8(a) = 4 * q + 3 - (a % 4) /\ a % 4 \in 0 .. 3
  BY <1>1, Byte8Place, Division DEF Address
<1>4. RamSize = 4 * w
  BY <1>2, RamAssumption
<1> QED  BY <1>1, <1>3, <1>4, RamAssumption DEF Address

-----------------------------------------------------------------------------
(* An aligned value of n bytes lies in the array where the bytes the guest  *)
(* knows it by do, in the opposite order.                                   *)

\* Where the value of n bytes at the guest's address at begins.
Base(at, n) == (at - (at % 4)) + (4 - n) - (at % 4)

\* The exclusive ors of the three widths are one formula.
LEMMA BaseOfWidth ==
    ASSUME NEW at \in Address
    PROVE  /\ Byte8(at) = Base(at, 1)
           /\ at % 2 = 0 => Half16(at) = Base(at, 2)
           /\ at % 4 = 0 => at = Base(at, 4)
<1>1. PICK q \in Nat : at = 4 * q + (at % 4)
  BY Division DEF Address
<1>2. at % 4 \in 0 .. 3
  BY Division DEF Address
<1>3. at % 2 = 0 => at % 4 \in {0, 2}
  BY <1>1, <1>2
<1>4. CASE at % 4 = 0
  BY <1>1, <1>4 DEF Byte8, Half16, Base
<1>5. CASE at % 4 = 2
  BY <1>1, <1>5 DEF Byte8, Half16, Base
<1>6. CASE at % 4 \in {1, 3}
  BY <1>1, <1>3, <1>6 DEF Byte8, Base
<1> QED  BY <1>2, <1>4, <1>5, <1>6

\* The widths and alignments the MMU lets through.
AlignedFor(at, n) ==
    \/ n = 1
    \/ n = 2 /\ at % 2 = 0
    \/ n = 4 /\ at % 4 = 0

\* Each byte of an aligned value lies where the guest looks for it.
LEMMA ValuePlace ==
    ASSUME NEW at \in Address, NEW n \in {1, 2, 4}, AlignedFor(at, n),
           NEW a \in Address
    PROVE  /\ Base(at, n) \in Nat
           /\ at + n <= RamSize
           /\ Byte8(a) \in Base(at, n) .. Base(at, n) + n - 1 <=> a \in at .. at + n - 1
           /\ a \in at .. at + n - 1 => n - (Byte8(a) - Base(at, n)) = a - at + 1
<1>1. PICK q \in Nat : at = 4 * q + (at % 4)
  BY Division DEF Address
<1>2. PICK p \in Nat : a = 4 * p + (a % 4)
  BY Division DEF Address
<1>3. PICK w \in Nat : RamSize = 4 * w + (RamSize % 4)
  BY Division, RamAssumption
<1> DEFINE r == at % 4
           s == a % 4
<1>4. r \in 0 .. 3 /\ s \in 0 .. 3 /\ at = 4 * q + r /\ a = 4 * p + s /\ RamSize = 4 * w
  BY <1>1, <1>2, <1>3, Division, RamAssumption DEF Address
<1>5. Byte8(a) = 4 * p + 3 - s /\ Base(at, n) = 4 * q + (4 - n) - r
  BY <1>4, Byte8Place DEF Base
<1>6. r + n <= 4
  <2>1. n = 2 => r \in {0, 2}
    BY <1>4 DEF AlignedFor
  <2> QED  BY <1>4, <2>1 DEF AlignedFor
<1>7. q < w
  BY <1>4 DEF Address
<1> HIDE DEF r, s
<1>8. at + n <= RamSize /\ Base(at, n) \in Nat
  BY <1>4, <1>5, <1>6, <1>7
<1>9. Byte8(a) \in Base(at, n) .. Base(at, n) + n - 1 <=> a \in at .. at + n - 1
  BY <1>4, <1>5, <1>6
<1>10. a \in at .. at + n - 1 => n - (Byte8(a) - Base(at, n)) = a - at + 1
  <2>1. a \in at .. at + n - 1 => p = q
    BY <1>4, <1>6
  <2> QED  BY <1>4, <1>5, <2>1
<1> QED  BY <1>8, <1>9, <1>10

-----------------------------------------------------------------------------
(* Every store, load and image is an operation of the big-endian memory.    *)

\* The memory the guest sees in the array r.
Seen(r) == [a \in Address |-> r[Byte8(a)]]

\* Storing a value in the array writes its bytes, in order, to the memory the guest sees.
LEMMA StoreIsWrite ==
    ASSUME ram \in [Address -> Byte],
           NEW at \in Address, NEW n \in {1, 2, 4}, AlignedFor(at, n),
           NEW v \in [1 .. n -> Byte]
    PROVE  /\ at + n <= RamSize
           /\ Put(Base(at, n), v) \in [Address -> Byte]
           /\ Seen(Put(Base(at, n), v)) =
                [a \in Address |-> IF a \in at .. at + n - 1 THEN v[a - at + 1]
                                   ELSE Seen(ram)[a]]
<1> DEFINE h == Base(at, n)
<1>1. h \in Nat /\ at + n <= RamSize
  BY ValuePlace DEF Address
<1>2. Len(v) = n
  OBVIOUS
<1>3. Put(h, v) = [x \in Address |-> IF x \in h .. h + n - 1 THEN v[n - (x - h)] ELSE ram[x]]
  BY <1>1, <1>2 DEF Put, Address
<1>4. ASSUME NEW a \in Address
      PROVE  Put(h, v)[Byte8(a)] = IF a \in at .. at + n - 1 THEN v[a - at + 1] ELSE ram[Byte8(a)]
  <2>1. /\ Byte8(a) \in h .. h + n - 1 <=> a \in at .. at + n - 1
        /\ a \in at .. at + n - 1 => n - (Byte8(a) - h) = a - at + 1
    BY ValuePlace
  <2>2. Byte8(a) \in Address
    BY Byte8InMemory
  <2> HIDE DEF h
  <2> QED  BY <1>3, <2>1, <2>2
<1>5. ASSUME NEW x \in Address
      PROVE  (IF x \in h .. h + n - 1 THEN v[n - (x - h)] ELSE ram[x]) \in Byte
  <2>1. x \in h .. h + n - 1 => n - (x - h) \in 1 .. n
    BY <1>1 DEF Address
  <2> HIDE DEF h
  <2> QED  BY <2>1
<1> HIDE DEF h
<1>6. Put(h, v) \in [Address -> Byte]
  BY <1>3, <1>5
<1>7. Seen(Put(h, v)) = [a \in Address |-> IF a \in at .. at + n - 1 THEN v[a - at + 1]
                                          ELSE Seen(ram)[a]]
  BY <1>4 DEF Seen
<1> QED  BY <1>1, <1>6, <1>7 DEF h

\* Loading an aligned value reads its bytes, in order, from the memory the guest sees.
LEMMA LoadIsRead ==
    ASSUME ram \in [Address -> Byte],
           NEW at \in Address, NEW n \in {1, 2, 4}, AlignedFor(at, n),
           NEW stray
    PROVE  /\ Value(Base(at, n), n, stray) \in [1 .. n -> Byte]
           /\ \A k \in 1 .. n : Value(Base(at, n), n, stray)[k] = Seen(ram)[at + k - 1]
<1> DEFINE h == Base(at, n)
<1>1. ASSUME NEW k \in 1 .. n
      PROVE  /\ h + n - k \in Address /\ at + k - 1 \in Address
             /\ h + n - k = Byte8(at + k - 1)
  <2>1. at + n <= RamSize /\ h \in Nat
    BY ValuePlace
  <2>2. at + k - 1 \in Address /\ at + k - 1 \in at .. at + n - 1
    BY <2>1, RamAssumption DEF Address
  <2>3. Byte8(at + k - 1) \in Address
    BY <2>2, Byte8InMemory
  <2>4. n - (Byte8(at + k - 1) - h) = (at + k - 1) - at + 1
    BY <2>2, ValuePlace
  <2> HIDE DEF h
  <2>5. h + n - k = Byte8(at + k - 1)
    BY <2>1, <2>3, <2>4 DEF Address
  <2> QED  BY <2>2, <2>3, <2>5
<1> HIDE DEF h
<1>2. Value(h, n, stray) = [k \in 1 .. n |-> ram[Byte8(at + k - 1)]]
  BY <1>1 DEF Value
<1>3. ASSUME NEW k \in 1 .. n
      PROVE  ram[Byte8(at + k - 1)] \in Byte /\ ram[Byte8(at + k - 1)] = Seen(ram)[at + k - 1]
  BY <1>1 DEF Seen
<1> QED  BY <1>2, <1>3 DEF h

\* A misaligned word is made of the two the address lies between.
LEMMA SkewedLoad ==
    ASSUME ram \in [Address -> Byte],
           NEW at \in Address, at % 4 # 0,
           NEW stray \in [1 .. 4 -> Byte]
    PROVE  LET skew == at % 4
               word == at - skew
               v    == Value(at, 4, stray) IN
           /\ v \in [1 .. 4 -> Byte]
           /\ \A k \in 1 .. 4 :
                IF k > skew THEN v[k] = Seen(ram)[word + k - skew - 1]
                ELSE word + 4 < RamSize =>
                         v[k] = Seen(ram)[word + 4 + (4 - skew) + k - 1]
<1> DEFINE skew == at % 4
           word == at - skew
           v    == Value(at, 4, stray)
<1>1. PICK q \in Nat : at = 4 * q + (at % 4)
  BY Division DEF Address
<1>2. PICK w \in Nat : RamSize = 4 * w + (RamSize % 4)
  BY Division, RamAssumption
<1>3. skew \in 1 .. 3 /\ word = 4 * q /\ at = 4 * q + skew /\ RamSize = 4 * w /\ q < w
  BY <1>1, <1>2, Division, RamAssumption DEF Address
<1>4. v = [k \in 1 .. 4 |-> IF at + 4 - k \in Address THEN ram[at + 4 - k] ELSE stray[k]]
  BY DEF Value
<1> HIDE DEF v, skew, word
<1>5. ASSUME NEW k \in 1 .. 4, k > skew
      PROVE  v[k] = Seen(ram)[word + k - skew - 1]
  <2>1. at + 4 - k = 4 * q + 3 - (k - skew - 1) /\ k - skew - 1 \in 0 .. 3
    BY <1>3, <1>5
  <2>2. Byte8(4 * q + (k - skew - 1)) = 4 * q + 3 - (k - skew - 1)
    BY <2>1, Byte8Place
  <2>3. at + 4 - k \in Address /\ word + k - skew - 1 \in Address
    BY <1>3, <1>5 DEF Address
  <2>4. word + k - skew - 1 = 4 * q + (k - skew - 1)
    BY <1>3
  <2>5. Byte8(word + k - skew - 1) = at + 4 - k
    BY <2>1, <2>2, <2>4
  <2>6. v[k] = ram[at + 4 - k]
    BY <1>4, <2>3
  <2> QED  BY <2>3, <2>5, <2>6 DEF Seen
<1>6. ASSUME NEW k \in 1 .. 4, ~(k > skew), word + 4 < RamSize
      PROVE  v[k] = Seen(ram)[word + 4 + (4 - skew) + k - 1]
  <2> DEFINE s == (4 - skew) + k - 1
  <2>1. s \in 0 .. 3 /\ at + 4 - k = 4 * (q + 1) + 3 - s
    BY <1>3, <1>6
  <2> HIDE DEF s
  <2>2. Byte8(4 * (q + 1) + s) = 4 * (q + 1) + 3 - s
    <3>1. q + 1 \in Nat
      OBVIOUS
    <3> QED  BY <2>1, <3>1, Byte8Place
  <2>3. word + 4 + (4 - skew) + k - 1 = 4 * (q + 1) + s
    BY <1>3 DEF s
  <2>4. at + 4 - k \in Address /\ word + 4 + (4 - skew) + k - 1 \in Address
    BY <1>3, <1>6, <2>1 DEF Address
  <2>5. v[k] = ram[at + 4 - k]
    BY <1>4, <2>4
  <2> QED  BY <2>1, <2>2, <2>3, <2>4, <2>5 DEF Seen
<1>7. v \in [1 .. 4 -> Byte]
  BY <1>4
<1> QED  BY <1>5, <1>6, <1>7 DEF v, skew, word

\* The copying loop of LoadImage, whole words to a word boundary.
LEMMA CopyIsWrite ==
    ASSUME ram \in [Address -> Byte],
           NEW at \in Nat, at % 4 = 0,
           NEW data \in Seq(Byte), Len(data) % 4 = 0,
           at + Len(data) <= RamSize
    PROVE  /\ Copy(data, at) \in [Address -> Byte]
           /\ Seen(Copy(data, at)) =
                [a \in Address |-> IF a \in at .. at + Len(data) - 1 THEN data[a - at + 1]
                                   ELSE Seen(ram)[a]]
<1> DEFINE n == Len(data)
           index(i) == (i - (i % 4)) + (3 - (i % 4)) + 1
<1>1. n \in Nat
  OBVIOUS
<1>2. PICK q \in Nat : at = 4 * q + (at % 4)
  BY Division
<1>3. PICK m \in Nat : n = 4 * m + (n % 4)
  BY <1>1, Division
<1>4. at = 4 * q /\ n = 4 * m
  BY <1>2, <1>3
<1>5. Copy(data, at) = [h \in Address |-> IF h >= at /\ h < at + n THEN data[index(h - at)]
                                         ELSE ram[h]]
  BY DEF Copy
<1> HIDE DEF n
<1>6. ASSUME NEW h \in Address, h >= at, h < at + n
      PROVE  index(h - at) \in 1 .. n
  <2> DEFINE i == h - at
  <2>1. i \in Nat /\ i < n
    BY <1>4, <1>6 DEF Address
  <2> HIDE DEF i
  <2>2. PICK p \in Nat : i = 4 * p + (i % 4)
    BY <2>1, Division
  <2>3. i % 4 \in 0 .. 3
    BY <2>1, Division
  <2>4. index(i) \in 1 .. n
    BY <1>4, <2>1, <2>2, <2>3
  <2> QED  BY <2>4 DEF i
<1>7. ASSUME NEW a \in Address
      PROVE  /\ (Byte8(a) >= at /\ Byte8(a) < at + n) <=> a \in at .. at + n - 1
             /\ a \in at .. at + n - 1 => index(Byte8(a) - at) = a - at + 1
  <2>1. PICK p \in Nat : a = 4 * p + (a % 4)
    BY Division DEF Address
  <2> DEFINE s == a % 4
  <2>2. s \in 0 .. 3 /\ a = 4 * p + s
    BY <2>1, Division DEF Address
  <2>3. Byte8(a) = 4 * p + 3 - s
    BY <2>2, Byte8Place
  <2> HIDE DEF s
  <2>4. (Byte8(a) >= at /\ Byte8(a) < at + n) <=> a \in at .. at + n - 1
    BY <1>4, <2>2, <2>3
  <2>5. a \in at .. at + n - 1 => (Byte8(a) - at) % 4 = 3 - s
    <3>1. Byte8(a) - at = 4 * (p - q) + (3 - s)
      BY <1>4, <2>2, <2>3
    <3> QED  BY <1>4, <2>2, <3>1
  <2>6. a \in at .. at + n - 1 => index(Byte8(a) - at) = a - at + 1
    BY <1>4, <2>2, <2>3, <2>5
  <2> QED  BY <2>4, <2>6
<1> HIDE DEF index
<1>8. Copy(data, at) \in [Address -> Byte]
  <2>1. \A i \in 1 .. n : data[i] \in Byte
    BY DEF n
  <2> QED  BY <1>5, <1>6, <2>1
<1>9. ASSUME NEW a \in Address
      PROVE  Copy(data, at)[Byte8(a)] = IF a \in at .. at + n - 1 THEN data[a - at + 1]
                                        ELSE ram[Byte8(a)]
  <2>1. Byte8(a) \in Address
    BY Byte8InMemory
  <2> QED  BY <1>5, <1>7, <2>1
<1>10. Seen(Copy(data, at)) = [a \in Address |-> IF a \in at .. at + n - 1 THEN data[a - at + 1]
                                                 ELSE Seen(ram)[a]]
  BY <1>9 DEF Seen
<1> QED  BY <1>8, <1>10 DEF n

-----------------------------------------------------------------------------
(* Loading a file, chunk by chunk.                                          *)

\* What LoadImageFile keeps: it is at a chunk boundary or at the end, and has
\* copied every byte before, except what cannot fit.
LoadInv ==
    /\ offset # Len(file) => \E c \in Nat : offset = c * BufferSize
    /\ \A i \in 1 .. offset :
           Len(file) <= RamSize \/ i <= Whole => ram[Byte8(i - 1)] = file[i]

RamInv == RamTypeOK /\ (phase = "load" => LoadInv)

\* A chunk is the next part of the file, not empty and no longer than the buffer.
LEMMA ChunkFacts ==
    ASSUME RamTypeOK, Rest # <<>>
    PROVE  /\ offset # Len(file)
           /\ Chunk \in Seq(Byte)
           /\ Len(Chunk) \in 1 .. BufferSize
           /\ offset + Len(Chunk) <= Len(file)
           /\ offset + Len(Chunk) = Len(file) \/ Len(Chunk) = BufferSize
           /\ \A j \in 1 .. Len(Chunk) : Chunk[j] = file[offset + j]
<1> DEFINE n == Len(file) - offset
<1>1. file \in Seq(Byte) /\ offset \in Nat /\ Len(file) \in Nat /\ n \in Nat
      /\ BufferSize \in Nat \ {0}
  BY RamAssumption DEF RamTypeOK
<1>2. /\ Rest \in Seq(Byte) /\ Len(Rest) = n
      /\ \A j \in 1 .. n : Rest[j] = file[offset + j]
  BY <1>1 DEF Rest
<1>3. n > 0 /\ offset # Len(file) /\ offset + n = Len(file)
  BY <1>1, <1>2
<1> HIDE DEF n
<1>4. CASE n < BufferSize
  <2>1. Chunk = Rest
    BY <1>2, <1>4 DEF Chunk
  <2>2. Len(Chunk) = n /\ n \in 1 .. BufferSize
    BY <1>1, <1>2, <1>3, <1>4, <2>1
  <2>3. \A j \in 1 .. n : Chunk[j] = file[offset + j]
    BY <1>2, <2>1
  <2>4. Chunk \in Seq(Byte)
    BY <1>2, <2>1
  <2> HIDE DEF Chunk, Rest
  <2>5. offset + Len(Chunk) <= Len(file)
    BY <1>1, <1>3, <2>2
  <2> QED  BY <1>3, <2>2, <2>3, <2>4, <2>5
<1>5. CASE ~(n < BufferSize)
  <2>1. Chunk = SubSeq(Rest, 1, BufferSize)
    BY <1>2, <1>5 DEF Chunk
  <2>2. /\ Chunk \in Seq(Byte) /\ Len(Chunk) = BufferSize
        /\ \A j \in 1 .. BufferSize : Chunk[j] = Rest[j]
    BY <1>1, <1>2, <1>5, <2>1
  <2>3. n >= BufferSize /\ Len(Chunk) \in 1 .. BufferSize
    BY <1>1, <1>5, <2>2
  <2>4. offset + Len(Chunk) <= Len(file)
    BY <1>1, <1>3, <2>2, <2>3
  <2>5. \A j \in 1 .. BufferSize : j \in 1 .. n
    BY <1>1, <2>3
  <2>6. \A j \in 1 .. BufferSize : Chunk[j] = file[offset + j]
    BY <1>2, <2>2, <2>5
  <2> QED  BY <1>3, <2>2, <2>3, <2>4, <2>6
<1> QED  BY <1>4, <1>5

\* A chunk that begins where the whole chunks of memory end does not fit.
LEMMA RefusedIsBehindWhole ==
    ASSUME NEW c \in Nat, NEW len \in 1 .. BufferSize, c * BufferSize + len > RamSize
    PROVE  c * BufferSize >= Whole
<1>1. BufferSize \in Nat \ {0} /\ RamSize \in Nat
  BY RamAssumption
<1>2. c * BufferSize + BufferSize > RamSize
  BY <1>1
<1> DEFINE w == RamSize \div BufferSize
<1>3. w \in Nat /\ w * BufferSize <= RamSize
  BY <1>1
<1>4. c + 1 > w
  BY <1>1, <1>2, <1>3
<1>5. c >= w
  BY <1>3, <1>4
<1>6. c * BufferSize >= w * BufferSize
  BY <1>1, <1>3, <1>5
<1> QED  BY <1>6 DEF Whole

\* A chunk boundary is a word boundary.
LEMMA BoundaryIsAligned ==
    ASSUME NEW c \in Nat
    PROVE  c * BufferSize \in Nat /\ (c * BufferSize) % 4 = 0
<1>1. PICK b \in Nat : BufferSize = 4 * b + (BufferSize % 4)
  BY Division, RamAssumption
<1>2. c * BufferSize = 4 * (c * b) /\ c * b \in Nat
  BY <1>1, RamAssumption
<1>3. ASSUME NEW x \in Nat
      PROVE  (4 * x) % 4 = 0
  OBVIOUS
<1> QED  BY <1>2, <1>3

-----------------------------------------------------------------------------
(* The invariant is inductive.                                              *)

\* The invariant holds of every initial state.
LEMMA RamInitHolds == RamInit => RamInv
<1> SUFFICES ASSUME RamInit PROVE RamInv
  OBVIOUS
<1>1. file \in Seq(Byte) /\ offset = 0
  <2>1. <<>> \in Seq(Byte)
    OBVIOUS
  <2>2. file \in Files \/ file = <<>>
    BY DEF RamInit
  <2> QED  BY <2>1, <2>2, RamAssumption DEF RamInit
<1>2. RamTypeOK
  BY <1>1 DEF RamInit, RamTypeOK
<1>3. LoadInv
  <2>1. offset = 0 * BufferSize
    BY <1>1, RamAssumption
  <2>2. 1 .. offset = {}
    BY <1>1
  <2> QED  BY <2>1, <2>2 DEF LoadInv
<1> QED  BY <1>2, <1>3 DEF RamInv

\* LoadImage, wherever the data come from.
LEMMA LoadImageType ==
    ASSUME RamTypeOK, NEW data \in Seq(Byte), NEW at \in Nat, at % 4 = 0,
           NEW next \in {"load", "run"}, LoadImage(data, at, next)
    PROVE  /\ ram' \in [Address -> Byte]
           /\ phase' \in {next, "exited"}
           /\ op'.kind \in {"none", "image", "refused", "load", "store"}
           /\ op'.at \in Nat /\ op'.data \in Seq(Byte)
<1>1. CASE at + Len(data) > RamSize
  BY <1>1 DEF LoadImage, Did, RamTypeOK
<1>2. CASE ~(at + Len(data) > RamSize) /\ Len(data) % 4 # 0
  BY <1>2 DEF LoadImage, RamTypeOK
<1>3. CASE ~(at + Len(data) > RamSize) /\ Len(data) % 4 = 0
  <2>1. ram' = Copy(data, at) /\ op' = [kind |-> "image", at |-> at, data |-> data]
        /\ phase' = next
    BY <1>3 DEF LoadImage, Did
  <2>2. at + Len(data) <= RamSize
    BY <1>3, RamAssumption
  <2>3. Copy(data, at) \in [Address -> Byte]
    BY <1>3, <2>2, CopyIsWrite DEF RamTypeOK
  <2> QED  BY <2>1, <2>3
<1> QED  BY <1>1, <1>2, <1>3

\* LoadImageFile keeps the invariant with every chunk, refused or copied.
LEMMA LoadChunkHolds ==
    ASSUME RamInv, LoadChunk
    PROVE  RamInv'
<1>1. RamTypeOK /\ LoadInv /\ phase = "load" /\ Rest # <<>>
      /\ LoadImage(Chunk, offset, "load")
      /\ offset' = offset + Len(Chunk) /\ file' = file /\ host' = host
  BY DEF RamInv, LoadChunk
<1>2. /\ Chunk \in Seq(Byte)
      /\ offset # Len(file)
      /\ Len(Chunk) \in 1 .. BufferSize
      /\ offset + Len(Chunk) <= Len(file)
      /\ offset + Len(Chunk) = Len(file) \/ Len(Chunk) = BufferSize
      /\ \A j \in 1 .. Len(Chunk) : Chunk[j] = file[offset + j]
  BY <1>1, ChunkFacts
<1>3. PICK c \in Nat : offset = c * BufferSize
  BY <1>1, <1>2 DEF LoadInv
<1>4. offset \in Nat /\ offset % 4 = 0
  BY <1>3, BoundaryIsAligned
<1>5. /\ ram' \in [Address -> Byte]
      /\ phase' \in {"load", "exited"}
      /\ op'.kind \in {"none", "image", "refused", "load", "store"}
      /\ op'.at \in Nat /\ op'.data \in Seq(Byte)
  BY <1>1, <1>2, <1>4, LoadImageType
<1>6. RamTypeOK'
  <2>1. file' \in Seq(Byte) /\ offset' \in 0 .. Len(file')
    BY <1>1, <1>2, <1>4 DEF RamTypeOK
  <2> QED  BY <1>1, <1>5, <2>1 DEF RamTypeOK
<1>7. ASSUME phase' = "load"
      PROVE  LoadInv'
  <2>1. offset' # Len(file') => \E d \in Nat : offset' = d * BufferSize
    <3>1. offset' # Len(file') => offset' = (c + 1) * BufferSize
      BY <1>1, <1>2, <1>3, RamAssumption
    <3>2. c + 1 \in Nat
      OBVIOUS
    <3> QED  BY <3>1, <3>2
  <2>2. ASSUME NEW i \in 1 .. offset', Len(file) <= RamSize \/ i <= Whole
        PROVE  ram'[Byte8(i - 1)] = file[i]
    <3>1. Len(file) \in Nat /\ i \in 1 .. Len(file)
      BY <1>1, <1>2, <1>4 DEF RamTypeOK
    <3>2. CASE offset + Len(Chunk) > RamSize
      <4>1. ram' = ram
        BY <1>1, <3>2 DEF LoadImage
      <4>2. i <= offset
        <5>1. offset >= Whole
          BY <1>2, <1>3, <3>2, RefusedIsBehindWhole
        <5>2. Len(file) > RamSize
          BY <1>2, <1>4, <3>1, <3>2, RamAssumption
        <5>3. i <= Whole
          BY <2>2, <3>1, <5>2, RamAssumption
        <5>4. Whole \in Nat
          BY RamAssumption DEF Whole
        <5> QED  BY <1>4, <5>1, <5>3, <5>4
      <4>3. i \in 1 .. offset
        BY <1>4, <4>2
      <4> QED  BY <1>1, <2>2, <4>1, <4>3 DEF LoadInv
    <3>3. CASE ~(offset + Len(Chunk) > RamSize)
      <4>1. ram' = Copy(Chunk, offset) /\ Len(Chunk) % 4 = 0
        BY <1>1, <1>7, <3>3 DEF LoadImage
      <4>2. offset + Len(Chunk) <= RamSize
        BY <1>2, <1>4, <3>3, RamAssumption
      <4>3. i - 1 \in Address
        BY <1>1, <1>2, <1>4, <4>2, RamAssumption DEF Address
      <4>4. Seen(ram')[i - 1] =
              IF i - 1 \in offset .. offset + Len(Chunk) - 1 THEN Chunk[(i - 1) - offset + 1]
              ELSE Seen(ram)[i - 1]
        <5>1. ram \in [Address -> Byte]
          BY <1>1 DEF RamTypeOK
        <5>2. Seen(Copy(Chunk, offset)) =
                [a \in Address |->
                    IF a \in offset .. offset + Len(Chunk) - 1 THEN Chunk[a - offset + 1]
                    ELSE Seen(ram)[a]]
          BY <5>1, <1>2, <1>4, <4>1, <4>2, CopyIsWrite
        <5> QED  BY <4>1, <4>3, <5>2
      <4>5. CASE i <= offset
        <5>1. i \in 1 .. offset /\ i - 1 \notin offset .. offset + Len(Chunk) - 1
          BY <1>4, <4>5
        <5> QED  BY <1>1, <2>2, <4>3, <4>4, <5>1 DEF LoadInv, Seen
      <4>6. CASE ~(i <= offset)
        <5>1. /\ i - 1 \in offset .. offset + Len(Chunk) - 1
              /\ i - offset \in 1 .. Len(Chunk)
              /\ (i - 1) - offset + 1 = i - offset
              /\ offset + (i - offset) = i
          BY <1>1, <1>2, <1>4, <4>6
        <5> QED  BY <1>2, <4>3, <4>4, <5>1 DEF Seen
      <4> QED  BY <4>5, <4>6
    <3> QED  BY <3>2, <3>3
  <2>3. \A i \in 1 .. offset' :
            Len(file') <= RamSize \/ i <= Whole => ram'[Byte8(i - 1)] = file'[i]
    BY <1>1, <2>2
  <2> QED  BY <2>1, <2>3 DEF LoadInv
<1> QED  BY <1>6, <1>7 DEF RamInv

\* A page's image: only RAM and the history change.
LEMMA WebLoadImageHolds ==
    ASSUME RamInv, NEW data \in Files, WebLoadImage(data)
    PROVE  RamInv'
<1>1. data \in Seq(Byte) /\ 0 \in Nat /\ 0 % 4 = 0
  BY RamAssumption
<1>2. /\ ram' \in [Address -> Byte] /\ phase' \in {"run", "exited"}
      /\ op'.kind \in {"none", "image", "refused", "load", "store"}
      /\ op'.at \in Nat /\ op'.data \in Seq(Byte)
  BY <1>1, LoadImageType DEF WebLoadImage, RamInv
<1> QED  BY <1>2 DEF WebLoadImage, RamInv, RamTypeOK

\* A value is a sequence.
LEMMA ValueIsSeq ==
    ASSUME NEW n \in Nat, NEW v \in [1 .. n -> Byte]
    PROVE  v \in Seq(Byte)
  BY SeqDef

\* The values the accesses move.
LEMMA AccessTypes ==
    ASSUME RamTypeOK, NEW at \in Address, NEW n \in {1, 2, 4}, AlignedFor(at, n)
    PROVE  /\ \A stray : Value(Base(at, n), n, stray) \in Seq(Byte)
           /\ \A v \in [1 .. n -> Byte] :
                  v \in Seq(Byte) /\ Put(Base(at, n), v) \in [Address -> Byte]
<1>1. ram \in [Address -> Byte]
  BY DEF RamTypeOK
<1>2. n \in Nat
  OBVIOUS
<1>3. ASSUME NEW v \in [1 .. n -> Byte]
      PROVE  v \in Seq(Byte) /\ Put(Base(at, n), v) \in [Address -> Byte]
  BY <1>1, <1>2, StoreIsWrite, ValueIsSeq
<1>4. ASSUME NEW stray
      PROVE  Value(Base(at, n), n, stray) \in Seq(Byte)
  BY <1>1, <1>2, LoadIsRead, ValueIsSeq
<1> QED  BY <1>3, <1>4

\* Loads keep the invariant.
LEMMA LoadHolds ==
    ASSUME RamInv, NEW at \in Address, NEW h, NEW n, NEW stray,
           Value(h, n, stray) \in Seq(Byte), Load(at, h, n, stray)
    PROVE  RamInv'
<1>1. /\ op' = [kind |-> "load", at |-> at, data |-> Value(h, n, stray)]
      /\ UNCHANGED <<ram, phase, host, file, offset>> /\ phase = "run"
  BY DEF Load, Did
<1>2. at \in Nat
  BY RamAssumption DEF Address
<1> QED  BY <1>1, <1>2 DEF RamInv, RamTypeOK

\* Stores keep the invariant.
LEMMA StoreHolds ==
    ASSUME RamInv, NEW at \in Address, NEW h, NEW v \in Seq(Byte),
           Put(h, v) \in [Address -> Byte], Store(at, h, v)
    PROVE  RamInv'
<1>1. /\ op' = [kind |-> "store", at |-> at, data |-> v] /\ ram' = Put(h, v)
      /\ UNCHANGED <<phase, host, file, offset>> /\ phase = "run"
  BY DEF Store, Did
<1>2. at \in Nat
  BY RamAssumption DEF Address
<1> QED  BY <1>1, <1>2 DEF RamInv, RamTypeOK

\* The accesses, reduced to the two lemmas above.
LEMMA AccessForms ==
    ASSUME NEW a \in Address
    PROVE  /\ Load8(a) => AlignedFor(a, 1) /\ Load(a, Base(a, 1), 1, <<>>)
           /\ Load16(a) => AlignedFor(a, 2) /\ Load(a, Base(a, 2), 2, <<>>)
           /\ Load32(a) /\ a % 4 = 0 =>
                \E stray \in [1 .. 4 -> Byte] : AlignedFor(a, 4) /\ Load(a, Base(a, 4), 4, stray)
           /\ Load32(a) /\ a % 4 # 0 => \E stray \in [1 .. 4 -> Byte] : Load(a, a, 4, stray)
           /\ \A v : Store8(a, v) => AlignedFor(a, 1) /\ Store(a, Base(a, 1), v)
           /\ \A v : Store16(a, v) => AlignedFor(a, 2) /\ Store(a, Base(a, 2), v)
           /\ \A v : Store32(a, v) => AlignedFor(a, 4) /\ Store(a, Base(a, 4), v)
<1> USE BaseOfWidth DEF AlignedFor
<1>1. Load8(a) => AlignedFor(a, 1) /\ Load(a, Base(a, 1), 1, <<>>)
  BY DEF Load8
<1>2. Load16(a) => AlignedFor(a, 2) /\ Load(a, Base(a, 2), 2, <<>>)
  BY DEF Load16
<1>3. Load32(a) /\ a % 4 = 0 =>
        \E stray \in [1 .. 4 -> Byte] : AlignedFor(a, 4) /\ Load(a, Base(a, 4), 4, stray)
  BY DEF Load32
<1>4. Load32(a) /\ a % 4 # 0 => \E stray \in [1 .. 4 -> Byte] : Load(a, a, 4, stray)
  BY DEF Load32
<1>5. \A v : Store8(a, v) => AlignedFor(a, 1) /\ Store(a, Base(a, 1), v)
  BY DEF Store8
<1>6. \A v : Store16(a, v) => AlignedFor(a, 2) /\ Store(a, Base(a, 2), v)
  BY DEF Store16
<1>7. \A v : Store32(a, v) => AlignedFor(a, 4) /\ Store(a, Base(a, 4), v)
  BY DEF Store32
<1> QED  BY <1>1, <1>2, <1>3, <1>4, <1>5, <1>6, <1>7

\* Every step keeps the invariant.
LEMMA RamStepHolds == RamInv /\ [RamNext]_ramVars => RamInv'
<1> SUFFICES ASSUME RamInv, [RamNext]_ramVars PROVE RamInv'
  OBVIOUS
<1>1. CASE UNCHANGED ramVars
  BY <1>1 DEF ramVars, RamInv, RamTypeOK, LoadInv
<1>2. CASE CannotOpen
  BY <1>2 DEF CannotOpen, RamInv, RamTypeOK
<1>3. CASE LoadChunk
  BY <1>3, LoadChunkHolds
<1>4. CASE FileLoaded
  <2>1. <<>> \in Seq(Byte) /\ Len(<<>>) = 0
    OBVIOUS
  <2> QED  BY <1>4, <2>1 DEF FileLoaded, RamInv, RamTypeOK
<1>5. ASSUME NEW data \in Files, WebLoadImage(data)
      PROVE  RamInv'
  BY <1>5, WebLoadImageHolds
<1>6. ASSUME NEW a \in Address, Load8(a) \/ Load16(a) \/ (Load32(a) /\ a % 4 = 0)
      PROVE  RamInv'
  <2>0. PICK n \in {1, 2, 4} : \E stray : AlignedFor(a, n) /\ Load(a, Base(a, n), n, stray)
    BY <1>6, AccessForms
  <2>1. PICK stray : AlignedFor(a, n) /\ Load(a, Base(a, n), n, stray)
    BY <2>0
  <2>2. Value(Base(a, n), n, stray) \in Seq(Byte)
    BY <2>1, AccessTypes DEF RamInv
  <2> QED  BY <2>1, <2>2, LoadHolds
<1>7. ASSUME NEW a \in Address, Load32(a) /\ a % 4 # 0
      PROVE  RamInv'
  <2>1. PICK stray \in [1 .. 4 -> Byte] : Load(a, a, 4, stray)
    BY <1>7, AccessForms
  <2>2. Value(a, 4, stray) \in [1 .. 4 -> Byte]
    BY <1>7, SkewedLoad DEF RamInv, RamTypeOK
  <2>3. Value(a, 4, stray) \in Seq(Byte)
    BY <2>2, ValueIsSeq
  <2> QED  BY <2>1, <2>3, LoadHolds
<1>8. ASSUME NEW a \in Address, NEW n \in {1, 2, 4}, NEW v \in [1 .. n -> Byte],
             AlignedFor(a, n), Store(a, Base(a, n), v)
      PROVE  RamInv'
  BY <1>8, AccessTypes, StoreHolds DEF RamInv
<1>9. ASSUME AccessStep
      PROVE  RamInv'
  <2>1. PICK a \in Address :
            \/ Load8(a) \/ Load16(a) \/ Load32(a)
            \/ \E v \in [1 .. 1 -> Byte] : Store8(a, v)
            \/ \E v \in [1 .. 2 -> Byte] : Store16(a, v)
            \/ \E v \in [1 .. 4 -> Byte] : Store32(a, v)
    BY <1>9 DEF AccessStep
  <2>2. CASE Load8(a) \/ Load16(a) \/ Load32(a)
    <3>1. CASE Load32(a) /\ a % 4 # 0
      BY <1>7, <3>1
    <3>2. CASE Load8(a) \/ Load16(a) \/ (Load32(a) /\ a % 4 = 0)
      BY <1>6, <3>2
    <3> QED  BY <2>2, <3>1, <3>2
  <2>3. ASSUME NEW v \in [1 .. 1 -> Byte], Store8(a, v)
        PROVE  RamInv'
    BY <1>8, <2>3, AccessForms
  <2>4. ASSUME NEW v \in [1 .. 2 -> Byte], Store16(a, v)
        PROVE  RamInv'
    BY <1>8, <2>4, AccessForms
  <2>5. ASSUME NEW v \in [1 .. 4 -> Byte], Store32(a, v)
        PROVE  RamInv'
    BY <1>8, <2>5, AccessForms
  <2> QED  BY <2>1, <2>2, <2>3, <2>4, <2>5
<1> QED  BY <1>1, <1>2, <1>3, <1>4, <1>5, <1>9 DEF RamNext, LoadStep

\* Type correctness of the memory and its loader.
THEOREM RamTypeCorrect == RamSpec => []RamTypeOK
<1>1. RamInv => RamTypeOK
  BY DEF RamInv
<1> QED  BY <1>1, RamInitHolds, RamStepHolds, PTL DEF RamSpec

\* A machine that starts from a file has in memory every chunk of it that
\* fits, each byte where the guest looks for it, whatever the sizes of file,
\* buffer and memory (System::LoadImageFile and RAM::LoadImage).
THEOREM FilesAreLoaded == RamSpec => FileIsInMemory
<1>1. ASSUME RamInv, [RamNext]_ramVars, phase = "load", phase' = "run"
      PROVE  Loaded(IF Len(file) <= RamSize THEN Len(file) ELSE Whole)
  <2>1. Rest = <<>>
    <3>1. ~LoadChunk
      <4>1. SUFFICES ASSUME LoadChunk PROVE FALSE
        OBVIOUS
      <4>2. phase' \in {"load", "exited", phase}
        BY <4>1 DEF LoadChunk, LoadImage
      <4> QED  BY <1>1, <4>2
    <3> QED  BY <1>1, <3>1 DEF RamNext, LoadStep, AccessStep, ramVars, CannotOpen, FileLoaded,
               WebLoadImage, Load8, Load16, Load32, Load, Store8, Store16, Store32, Store
  <2>2. offset = Len(file) /\ Len(file) \in Nat
    <3>1. file \in Seq(Byte) /\ offset \in 0 .. Len(file) /\ Len(file) \in Nat
      BY <1>1 DEF RamInv, RamTypeOK
    <3>2. Len(Rest) = Len(file) - offset
      BY <3>1 DEF Rest
    <3>3. Len(Rest) = 0
      BY <2>1
    <3> QED  BY <3>1, <3>2, <3>3
  <2>3. Whole \in Nat /\ Whole <= RamSize
    BY RamAssumption DEF Whole
  <2>4. \A i \in 1 .. Len(file) : Len(file) <= RamSize \/ i <= Whole => ram[Byte8(i - 1)] = file[i]
    BY <1>1, <2>2 DEF RamInv, LoadInv
  <2>5. CASE Len(file) <= RamSize
    BY <2>4, <2>5 DEF Loaded
  <2>6. CASE ~(Len(file) <= RamSize)
    <3>1. \A i \in 1 .. Whole : i \in 1 .. Len(file) /\ i <= Whole
      BY <2>2, <2>3, <2>6, RamAssumption
    <3> QED  BY <2>3, <2>4, <2>6, <3>1 DEF Loaded
  <2> QED  BY <2>5, <2>6
<1>2. RamInv /\ [RamNext]_ramVars =>
        [phase = "load" /\ phase' = "run" =>
             Loaded(IF Len(file) <= RamSize THEN Len(file) ELSE Whole)]_ramVars
  BY <1>1
<1> QED  BY <1>2, RamInitHolds, RamStepHolds, PTL DEF RamSpec, FileIsInMemory

-----------------------------------------------------------------------------
(* The refinement.                                                          *)

\* The memory the guest sees is filled with bytes.
LEMMA SeenType ==
    ASSUME NEW r \in [Address -> Byte]
    PROVE  Seen(r) \in [Guest!Address -> Byte]
<1>1. \A a \in Address : r[Byte8(a)] \in Byte
  BY Byte8InMemory
<1> QED  BY <1>1 DEF Seen, Guest!Address, Address

\* An operation that puts the bytes of op in memory.
LEMMA PutsAreWrites ==
    ASSUME op'.kind \in {"store", "image"}, op'.at \in Nat, Len(op'.data) \in Nat,
           op'.at + Len(op'.data) <= RamSize,
           Seen(ram') = [a \in Address |->
                            IF a \in op'.at .. op'.at + Len(op'.data) - 1
                            THEN op'.data[a - op'.at + 1] ELSE Seen(ram)[a]]
    PROVE  Guest!Write
  BY DEF Guest!Write, Guest!Fits, Guest!Written, Guest!Covers, Guest!Address, Address, Seen

\* RAM::LoadImage writes the image, refuses it, or ends the process.
LEMMA LoadImageRefines ==
    ASSUME RamTypeOK, NEW data \in Seq(Byte), NEW at \in Nat, at % 4 = 0, NEW next,
           LoadImage(data, at, next)
    PROVE  [Guest!GuestNext]_<<Seen(ram), op>>
<1>1. CASE at + Len(data) > RamSize
  BY <1>1 DEF LoadImage, Did, Guest!GuestNext, Guest!Refuse, Seen
<1>2. CASE ~(at + Len(data) > RamSize) /\ Len(data) % 4 # 0
  BY <1>2 DEF LoadImage, Seen
<1>3. CASE ~(at + Len(data) > RamSize) /\ Len(data) % 4 = 0
  <2>1. ram' = Copy(data, at) /\ op' = [kind |-> "image", at |-> at, data |-> data]
    BY <1>3 DEF LoadImage, Did
  <2>2. at + Len(data) <= RamSize /\ Len(data) \in Nat
    BY <1>3, RamAssumption
  <2>3. Seen(ram') = [a \in Address |-> IF a \in at .. at + Len(data) - 1 THEN data[a - at + 1]
                                        ELSE Seen(ram)[a]]
    BY <1>3, <2>1, <2>2, CopyIsWrite DEF RamTypeOK
  <2>4. op'.kind = "image" /\ op'.at = at /\ op'.data = data
    BY <2>1
  <2>5. Guest!Write
    BY <2>2, <2>3, <2>4, PutsAreWrites
  <2> QED  BY <2>5 DEF Guest!GuestNext
<1> QED  BY <1>1, <1>2, <1>3

\* A store is a write of guest memory.
LEMMA StoreRefines ==
    ASSUME RamTypeOK, NEW at \in Address, NEW n \in {1, 2, 4}, AlignedFor(at, n),
           NEW v \in [1 .. n -> Byte], Store(at, Base(at, n), v)
    PROVE  Guest!GuestNext
<1>1. ram' = Put(Base(at, n), v) /\ op' = [kind |-> "store", at |-> at, data |-> v]
  BY DEF Store, Did
<1>2. at + n <= RamSize
      /\ Seen(ram') = [a \in Address |-> IF a \in at .. at + n - 1 THEN v[a - at + 1]
                                         ELSE Seen(ram)[a]]
  BY <1>1, StoreIsWrite DEF RamTypeOK
<1>3. op'.kind = "store" /\ op'.at = at /\ op'.data = v
  BY <1>1
<1>4. Len(v) = n /\ n \in Nat /\ at \in Nat
  BY RamAssumption DEF Address
<1>5. Guest!Write
  BY <1>2, <1>3, <1>4, PutsAreWrites
<1> QED  BY <1>5 DEF Guest!GuestNext

\* An aligned load is a read of guest memory.
LEMMA LoadRefines ==
    ASSUME RamTypeOK, NEW at \in Address, NEW n \in {1, 2, 4}, AlignedFor(at, n),
           NEW stray, Load(at, Base(at, n), n, stray)
    PROVE  Guest!GuestNext
<1> DEFINE v == Value(Base(at, n), n, stray)
<1>1. ram' = ram /\ op' = [kind |-> "load", at |-> at, data |-> v]
  BY DEF Load, Did
<1>2. v \in [1 .. n -> Byte] /\ \A k \in 1 .. n : v[k] = Seen(ram)[at + k - 1]
  BY LoadIsRead DEF RamTypeOK
<1>3. at + n <= RamSize
  BY ValuePlace
<1> HIDE DEF v
<1>4. op'.kind = "load" /\ op'.at = at /\ op'.data = v
  BY <1>1
<1>5. Len(v) = n
  BY <1>2
<1>6. Guest!Read
  BY <1>1, <1>2, <1>3, <1>4, <1>5 DEF Guest!Read, Guest!Fits, Seen
<1> QED  BY <1>6 DEF Guest!GuestNext

\* A misaligned Load32 is the misaligned read of guest memory.
LEMMA SkewedLoadRefines ==
    ASSUME RamTypeOK, NEW at \in Address, at % 4 # 0, NEW stray \in [1 .. 4 -> Byte],
           Load(at, at, 4, stray)
    PROVE  Guest!GuestNext
<1> DEFINE v == Value(at, 4, stray)
<1>1. ram' = ram /\ op' = [kind |-> "load", at |-> at, data |-> v]
  BY DEF Load, Did
<1>2. /\ v \in [1 .. 4 -> Byte]
      /\ \A k \in 1 .. 4 :
            IF k > at % 4 THEN v[k] = Seen(ram)[(at - (at % 4)) + k - (at % 4) - 1]
            ELSE (at - (at % 4)) + 4 < RamSize =>
                     v[k] = Seen(ram)[(at - (at % 4)) + 4 + (4 - (at % 4)) + k - 1]
  BY SkewedLoad DEF RamTypeOK
<1> HIDE DEF v
<1>3. op'.kind = "load" /\ op'.at = at /\ op'.data = v
  BY <1>1
<1>4. Len(v) = 4
  BY <1>2
<1>5. Guest!ReadMisaligned
  BY <1>1, <1>2, <1>3, <1>4 DEF Guest!ReadMisaligned, Seen
<1> QED  BY <1>5 DEF Guest!GuestNext

\* The memory the guest sees, through loads and stores of any width and
\* through the loader, is one big-endian array of bytes; only a misaligned
\* word is not what is found there.
THEOREM GuestSeesBigEndianMemory == RamSpec => MemoryIsBigEndian
<1>1. RamInit => Guest!GuestInit
  <2> SUFFICES ASSUME RamInit PROVE Guest!GuestInit
    OBVIOUS
  <2>1. Seen(ram) \in [Guest!Address -> Byte]
    BY SeenType DEF RamInit
  <2> QED  BY <2>1 DEF RamInit, Guest!GuestInit, Seen
<1>2. ASSUME RamInv, [RamNext]_ramVars
      PROVE  [Guest!GuestNext]_<<Seen(ram), op>>
  <2> USE DEF RamInv
  <2>1. CASE UNCHANGED ramVars
    BY <2>1 DEF ramVars, Seen
  <2>2. CASE CannotOpen \/ FileLoaded
    BY <2>2 DEF CannotOpen, FileLoaded, Seen
  <2>3. CASE LoadChunk
    <3>1. Chunk \in Seq(Byte) /\ offset # Len(file)
      BY <1>2, <2>3, ChunkFacts DEF LoadChunk
    <3>2. offset \in Nat /\ offset % 4 = 0
      BY <1>2, <2>3, <3>1, BoundaryIsAligned DEF LoadChunk, LoadInv
    <3> QED  BY <1>2, <2>3, <3>1, <3>2, LoadImageRefines DEF LoadChunk
  <2>4. ASSUME NEW data \in Files, WebLoadImage(data)
        PROVE  [Guest!GuestNext]_<<Seen(ram), op>>
    <3>1. data \in Seq(Byte) /\ 0 \in Nat /\ 0 % 4 = 0
      BY RamAssumption
    <3> QED  BY <1>2, <2>4, <3>1, LoadImageRefines DEF WebLoadImage
  <2>5. ASSUME NEW a \in Address, Load8(a) \/ Load16(a) \/ (Load32(a) /\ a % 4 = 0)
        PROVE  Guest!GuestNext
    <3>1. PICK n \in {1, 2, 4} : \E stray : AlignedFor(a, n) /\ Load(a, Base(a, n), n, stray)
      BY <2>5, AccessForms
    <3>2. PICK stray : AlignedFor(a, n) /\ Load(a, Base(a, n), n, stray)
      BY <3>1
    <3> QED  BY <1>2, <3>2, LoadRefines
  <2>6. ASSUME NEW a \in Address, Load32(a) /\ a % 4 # 0
        PROVE  Guest!GuestNext
    <3>1. PICK stray \in [1 .. 4 -> Byte] : Load(a, a, 4, stray)
      BY <2>6, AccessForms
    <3> QED  BY <1>2, <2>6, <3>1, SkewedLoadRefines
  <2>7. ASSUME NEW a \in Address, NEW n \in {1, 2, 4}, NEW v \in [1 .. n -> Byte],
               AlignedFor(a, n), Store(a, Base(a, n), v)
        PROVE  Guest!GuestNext
    BY <1>2, <2>7, StoreRefines
  <2>8. ASSUME AccessStep
        PROVE  Guest!GuestNext
    <3>1. PICK a \in Address :
            \/ Load8(a) \/ Load16(a) \/ Load32(a)
            \/ \E v \in [1 .. 1 -> Byte] : Store8(a, v)
            \/ \E v \in [1 .. 2 -> Byte] : Store16(a, v)
            \/ \E v \in [1 .. 4 -> Byte] : Store32(a, v)
      BY <2>8 DEF AccessStep
    <3>2. CASE Load32(a) /\ a % 4 # 0
      BY <2>6, <3>2
    <3>3. CASE Load8(a) \/ Load16(a) \/ (Load32(a) /\ a % 4 = 0)
      BY <2>5, <3>3
    <3>4. ASSUME NEW v \in [1 .. 1 -> Byte], Store8(a, v)
          PROVE  Guest!GuestNext
      BY <2>7, <3>4, AccessForms
    <3>5. ASSUME NEW v \in [1 .. 2 -> Byte], Store16(a, v)
          PROVE  Guest!GuestNext
      BY <2>7, <3>5, AccessForms
    <3>6. ASSUME NEW v \in [1 .. 4 -> Byte], Store32(a, v)
          PROVE  Guest!GuestNext
      BY <2>7, <3>6, AccessForms
    <3> QED  BY <3>1, <3>2, <3>3, <3>4, <3>5, <3>6
  <2> QED  BY <1>2, <2>1, <2>2, <2>3, <2>4, <2>8 DEF RamNext, LoadStep
<1>3. RamInv /\ [RamNext]_ramVars => [Guest!GuestNext]_Guest!guestVars
  BY <1>2 DEF Seen, Guest!guestVars
<1> QED  BY <1>1, <1>3, RamInitHolds, RamStepHolds, PTL
         DEF RamSpec, MemoryIsBigEndian, Guest!GuestSpec
=============================================================================
