------------------------------- MODULE MCMmu -------------------------------
(***************************************************************************)
(* The two memory management units for model checking: two pages of RAM    *)
(* and that of the UART, and entries a guest may write.  The units share   *)
(* the mode and nothing else, so that a behaviour is of the one or of the  *)
(* other, which saves the product of their states.                         *)
(***************************************************************************)
EXTENDS DataAccess, Fetch, TLC

VARIABLE unit   \* bound: the unit at work, "Data" or "Instruction"

mmuVars == <<dataVars, fetchVars, unit>>

MCPage == 0 .. 2

\* No definition tells one value from another.
ValueSymmetry == Permutations(Value)

\* Entries for either unit: the permissions of the other one mean nothing to it.
MCTranslation ==
    {[page |-> 0, perms |-> {"SRE", "SWE", "SXE"}],
     [page |-> 1, perms |-> {"URE"}],
     [page |-> 1, perms |-> {"UWE", "UXE"}],
     [page |-> 2, perms |-> {"SRE", "SWE", "SXE"}]}

\* The registers of the unit that is not at work do not matter, nor does what
\* memory holds to the instruction unit.
Idle(m) == m = CHOOSE start \in MmuStart : TRUE
Uniform == \A p, q \in DOMAIN mem : mem[p] = mem[q]

MmusInit ==
    /\ DataInit /\ FetchInit
    /\ \/ unit = "Data" /\ Idle(immu)
       \/ unit = "Instruction" /\ Idle(dmmu) /\ Uniform

MmusNext ==
    \/ /\ unit = "Data" /\ DataNext
       /\ UNCHANGED <<immu, authed_page, authed_phy, fetched, stale, unit>>
    \/ /\ unit = "Instruction" /\ FetchNext
       /\ UNCHANGED <<dmmu, mem, reply, unit>>

MmusSpec == MmusInit /\ [][MmusNext]_mmuVars
=============================================================================
