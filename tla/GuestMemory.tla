---------------------------- MODULE GuestMemory ----------------------------
(***************************************************************************)
(* The memory an OpenRISC program expects: an array of bytes in which a    *)
(* half word and a word lie most significant byte first, whatever the      *)
(* machine that simulates it.  `op' is the operation last done: what it    *)
(* was, where, and the bytes it moved, in the order of their addresses.    *)
(***************************************************************************)
EXTENDS Naturals, Sequences

CONSTANTS RamSize, Byte

VARIABLES mem, op

guestVars == <<mem, op>>

Address == 0 .. RamSize - 1

GuestInit ==
    /\ mem \in [Address -> Byte]
    /\ op = [kind |-> "none", at |-> 0, data |-> <<>>]

\* The bytes op moved, from where it moved them.
Covers(o, a)   == a \in o.at .. o.at + Len(o.data) - 1
Written(m, o)  == [a \in Address |-> IF Covers(o, a) THEN o.data[a - o.at + 1] ELSE m[a]]
Fits(o)        == o.at + Len(o.data) <= RamSize

Write ==
    /\ op'.kind \in {"store", "image"}
    /\ Fits(op')
    /\ mem' = Written(mem, op')

Read ==
    /\ op'.kind = "load"
    /\ Fits(op')
    /\ \A k \in 1 .. Len(op'.data) : op'.data[k] = mem[op'.at + k - 1]
    /\ UNCHANGED mem

\* A word is loaded at any address, and one that is not a multiple of four
\* returns the last bytes of the word behind, then the first of the word the
\* address is in.  Behind the end of memory there is no telling.
ReadMisaligned ==
    /\ op'.kind = "load" /\ op'.at % 4 # 0 /\ Len(op'.data) = 4
    /\ LET skew == op'.at % 4
           word == op'.at - skew IN
       \A k \in 1 .. 4 :
           IF k > skew THEN op'.data[k] = mem[word + k - skew - 1]
           ELSE word + 4 < RamSize => op'.data[k] = mem[word + 4 + (4 - skew) + k - 1]
    /\ UNCHANGED mem

\* An image that does not fit is refused and leaves memory alone.
Refuse == op'.kind = "refused" /\ UNCHANGED mem

GuestNext == Write \/ Read \/ ReadMisaligned \/ Refuse

GuestSpec == GuestInit /\ [][GuestNext]_guestVars
=============================================================================
