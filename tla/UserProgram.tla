---------------------------- MODULE UserProgram ----------------------------
(***************************************************************************)
(* What the core promises the interrupted program: it runs as if there     *)
(* were no timer, no interrupt and no fault.  Every instruction takes      *)
(* effect exactly once and in program order, a branch after its delay      *)
(* slot.  The two exceptions are spelled out, because a program can see    *)
(* them: a branch whose slot was put off is run again from the branch, and *)
(* an mtspr to the supervision register may be repeated.                   *)
(***************************************************************************)
EXTENDS Naturals

CONSTANTS
    Programs,   \* images: functions from addresses to instructions
    Reg,        \* general registers
    WordMod,    \* inc wraps at this
    Entry,      \* address of the first instruction
    Reloads     \* whether other images may be loaded

VARIABLES
    code,       \* the image that runs
    at,         \* address of the next instruction
    slot,       \* whether that is a delay slot, and
    target,     \* if so, where the branch goes (0 otherwise)
    flag, reg   \* the compare flag and the general registers

userVars == <<code, at, slot, target, flag, reg>>

UserInit ==
    /\ code \in Programs
    /\ at = Entry /\ slot = FALSE /\ target = 0
    /\ flag = FALSE
    /\ reg = [r \in Reg |-> 0]

Instr == code[at]

-----------------------------------------------------------------------------
(* Instructions in sequence.                                                *)

Advance ==
    /\ at' = IF slot THEN target ELSE at + 1
    /\ slot' = FALSE /\ target' = 0
    /\ UNCHANGED code

\* A load, or a special register, may hold any value.
Write(d)  == reg' = [reg EXCEPT ![d] = reg'[d]] /\ UNCHANGED flag
Assign(d, value) == reg' = [reg EXCEPT ![d] = value] /\ UNCHANGED flag
SetFlag(f) == flag' = f /\ UNCHANGED reg

Effect ==
    \/ Instr.op = "set" /\ Assign(Instr.d, Instr.k)
    \/ Instr.op = "inc" /\ Assign(Instr.d, (reg[Instr.d] + 1) % WordMod)
    \/ Instr.op = "sf"  /\ SetFlag(reg[Instr.a] = Instr.k)
    \/ Instr.op \in {"load", "mfspr"} /\ Write(Instr.d)
    \/ Instr.op = "mtspr" /\ Instr.spr = "SR" /\ SetFlag("F" \in Instr.value)
    \/ Instr.op = "mtspr" /\ Instr.spr # "SR" /\ UNCHANGED <<flag, reg>>
    \/ Instr.op \in {"nop", "store", "sys", "trap", "halt"} /\ UNCHANGED <<flag, reg>>

Step == Effect /\ Advance

-----------------------------------------------------------------------------
(* Branches.                                                                *)

Linked == IF Instr.op \in {"jal", "jalr"} THEN [reg EXCEPT ![9] = at + 2] ELSE reg

Taken ==
    \/ Instr.op \in {"j", "jal", "jr", "jalr"}
    \/ Instr.op = "bf"  /\ flag
    \/ Instr.op = "bnf" /\ ~flag

OpenSlot ==
    /\ Taken /\ ~slot
    /\ at' = at + 1 /\ slot' = TRUE
    /\ reg' = Linked
    /\ target' = IF Instr.op \in {"jr", "jalr"} THEN Linked[Instr.a] ELSE Instr.k
    /\ UNCHANGED <<code, flag>>

FallThrough ==
    /\ Instr.op \in {"bf", "bnf"} /\ ~Taken
    /\ Advance
    /\ UNCHANGED <<flag, reg>>

-----------------------------------------------------------------------------
(* What an exception lets the program see.                                  *)

\* The slot has had no effect yet; the branch is run again.
RestartBranch ==
    /\ slot
    /\ at' = at - 1 /\ slot' = FALSE /\ target' = 0
    /\ UNCHANGED <<code, flag, reg>>

\* A write to the supervision register took effect and will be repeated.
RepeatWrite ==
    /\ Instr.op = "mtspr" /\ Instr.spr = "SR" /\ ~slot
    /\ SetFlag("F" \in Instr.value)
    /\ UNCHANGED <<code, at, slot, target>>

-----------------------------------------------------------------------------
\* Another image is loaded and starts afresh.
Restart ==
    /\ Reloads
    /\ code' \in Programs
    /\ at' = Entry /\ slot' = FALSE /\ target' = 0
    /\ flag' = FALSE
    /\ reg' = [r \in Reg |-> 0]

UserNext == Restart \/ Step \/ OpenSlot \/ FallThrough \/ RestartBranch \/ RepeatWrite

UserSpec == UserInit /\ [][UserNext]_userVars
=============================================================================
