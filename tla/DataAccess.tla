----------------------------- MODULE DataAccess -----------------------------
(***************************************************************************)
(* The guest's loads and stores: CPU::dmmu_ in front of RAM and the bus    *)
(* (MMU::Load8 to Store32, Bus::GetDevice), with the writes of the         *)
(* supervision register and of the TLB that decide about them.             *)
(*                                                                         *)
(* A RAM page is abstracted to one cell, of whatever width it is accessed  *)
(* with.  `reply' is the outcome the core sees of the access to the page   *)
(* `of': the exception, or the physical page that answered and the value a *)
(* load found there.                                                       *)
(***************************************************************************)
EXTENDS Mmu

CONSTANTS
    DevicePage,     \* the page of the UART
    Value           \* contents of memory

ASSUME DataAccessAssumption ==
    /\ DevicePage \in Page /\ ~IsRam(DevicePage)
    /\ Value # {}

NoValue == "no value"       \* what a store, a device or a fault returns

VARIABLES
    dmmu,           \* the data MMU
    mem,            \* RAM
    reply           \* outcome of the last access

dataVars == <<dmmu, sm, mem, reply>>

Width == {8, 16, 32}

\* Where in its page an access falls: at an address aligned for it, in the range
\* the UART has of its own page or behind that range, or at another address.
Offset == {"start", "rest", "odd"}

Refused(of, exception) ==
    [of |-> of, exception |-> exception, page |-> NoPage, value |-> NoValue]
Answered(of, page, value) ==
    [of |-> of, exception |-> "None", page |-> page, value |-> value]

\* A store that was made in neither RAM nor a device.
Outside(of) == Answered(of, NoPage, NoValue)

DataInit ==
    /\ dmmu \in MmuStart
    /\ sm = TRUE
    /\ mem \in [0 .. RamPages - 1 -> Value]
    /\ reply = Refused(NoPage, "None")

-----------------------------------------------------------------------------
(* Special registers.                                                       *)

DataWriteSRKeepingCache(is_sm, is_enabled) ==   \* variant: the cache stays
    /\ sm' = is_sm
    /\ dmmu' = [dmmu EXCEPT !.enabled = is_enabled]
    /\ UNCHANGED <<mem, reply>>

\* SR is written by mtspr, by every exception and by rfe.
DataWriteSR(is_sm, is_enabled) ==
    /\ sm' = is_sm
    /\ dmmu' = ClearFastAuthCache(SetIsEnabled(dmmu, is_enabled))
    /\ UNCHANGED <<mem, reply>>

\* The host loads an image between two slices: CPU::Reset, and new contents.
DataReload ==
    /\ dmmu' = Reset(SetIsEnabled(dmmu, FALSE))
    /\ sm' = TRUE
    /\ mem' \in [0 .. RamPages - 1 -> Value]
    /\ UNCHANGED reply

\* A page in the match register of a set that is not its own is never found;
\* NoPage stands for it.
DataWriteTlb ==
    /\ \/ \E page \in Page : dmmu' = SetMatch(dmmu, SetOf(page), page)
       \/ \E set \in TlbSet  : dmmu' = SetMatch(dmmu, set, NoPage)
       \/ \E set \in TlbSet, tr \in Translation :
              dmmu' = SetTranslate(dmmu, set, tr)
    /\ UNCHANGED <<sm, mem, reply>>

-----------------------------------------------------------------------------
(* Accesses.                                                                *)

Misaligned(width, offset) == width # 8 /\ offset = "odd"

\* A device on the bus: only the UART is there, it is one byte wide, and its
\* range is shorter than its page.
OnBus(of, width, offset, page) ==
    IF page = DevicePage /\ width = 8 /\ offset # "rest" THEN Answered(of, page, NoValue)
    ELSE Refused(of, "BusError")

\* A load that goes through the TLB.
MappedLoad(width, page, offset) ==
    LET mapped == MapAddress("Data", dmmu, page, sm, FALSE) IN
    /\ dmmu' = Remember("Data", dmmu, page, sm, FALSE)
    /\ reply' = IF mapped.exception # "None" THEN Refused(page, mapped.exception)
                ELSE IF IsRam(mapped.page) THEN Answered(page, mapped.page, mem[mapped.page])
                ELSE OnBus(page, width, offset, mapped.page)

Load8or16(width, page, offset) ==
    /\ width # 32
    /\ IF Misaligned(width, offset)
       THEN reply' = Refused(page, "Alignment") /\ UNCHANGED dmmu
       ELSE MappedLoad(width, page, offset)
    /\ UNCHANGED <<sm, mem>>

\* A 32-bit load first asks the cache, and never checks the alignment.
Load32Cached(page) ==
    /\ page = dmmu.authed_page
    /\ reply' = Answered(page, dmmu.authed_phy, mem[dmmu.authed_phy])
    /\ UNCHANGED <<dmmu, sm, mem>>

Load32Mapped(page, offset) ==
    /\ page # dmmu.authed_page
    /\ MappedLoad(32, page, offset)
    /\ UNCHANGED <<sm, mem>>

\* The test of a store for RAM: Store16 makes it of the virtual address.
TakenForRam(width, page, physical) == IsRam(IF width = 16 THEN page ELSE physical)

\* What is taken for RAM and is not goes to the host's memory behind the array.
\* What is RAM and not taken for it is found on the bus, where RAM is as well.
Store(width, page, offset, value) ==
    /\ IF Misaligned(width, offset)
       THEN reply' = Refused(page, "Alignment") /\ UNCHANGED <<dmmu, mem>>
       ELSE LET mapped == MapAddress("Data", dmmu, page, sm, TRUE) IN
            /\ dmmu' = Remember("Data", dmmu, page, sm, TRUE)
            /\ IF mapped.exception # "None"
               THEN reply' = Refused(page, mapped.exception) /\ UNCHANGED mem
               ELSE IF IsRam(mapped.page)
               THEN /\ reply' = Answered(page, mapped.page, NoValue)
                    /\ mem' = [mem EXCEPT ![mapped.page] = value]
               ELSE /\ reply' = IF TakenForRam(width, page, mapped.page)
                                THEN Outside(page)
                                ELSE OnBus(page, width, offset, mapped.page)
                    /\ UNCHANGED mem
    /\ UNCHANGED sm

-----------------------------------------------------------------------------
DataNext ==
    \/ \E is_sm, is_enabled \in BOOLEAN : DataWriteSR(is_sm, is_enabled)
    \/ DataReload
    \/ DataWriteTlb
    \/ \E page \in Page :
        \/ Load32Cached(page)
        \/ \E offset \in Offset :
            \/ Load32Mapped(page, offset)
            \/ \E width \in Width :
                \/ Load8or16(width, page, offset)
                \/ \E value \in Value : Store(width, page, offset, value)

DataSpec == DataInit /\ [][DataNext]_dataVars

-----------------------------------------------------------------------------
(* Properties.                                                              *)

DataTypeOK ==
    /\ dmmu \in MmuType
    /\ sm \in BOOLEAN
    /\ mem \in [0 .. RamPages - 1 -> Value]
    /\ reply.exception \in {"None", "Alignment", "BusError", "DTLBMiss", "DataPageFault"}

\* The page Load32 reads without translation is one the TLB still maps there.
DataCacheAgrees == CacheAgrees(dmmu)

\* It is also one the current mode may read or write: the cache outlives neither
\* a change of mode nor a change of the TLB (ClearFastAuthCache in SetSpReg and
\* in MMU::SetReg).
CachedPageIsPermitted ==
    dmmu.authed_page # NoPage =>
        \E is_write \in BOOLEAN :
            Permits("Data", EntryOf(dmmu, dmmu.authed_page), sm, is_write)

\* The caches cannot be told from their absence: every access has the outcome
\* the registers of the moment prescribe, but for the 32-bit load of a page that
\* may be written and not read, and the 16-bit store TranslatedMemory excepts.
Uncached == INSTANCE TranslatedMemory WITH
    match <- dmmu.match, translate <- dmmu.translate, enabled <- dmmu.enabled
AccessesAreTranslated == Uncached!MemorySpec

-----------------------------------------------------------------------------
(* What two lines of MapAddress and of the other accesses say, and the code *)
(* does not keep.  Each is the subject of a run of its own.                 *)

\* Load32 may skip MapAddress, whose test of a load is `tr & (kDataSRE |
\* kDataURE)' or `tr & kDataURE', as the cached page is one the mode may read.
\* It is not: a store, which has been asked for kDataSWE or kDataUWE, fills the
\* same cache.
CachedPageIsReadable ==
    dmmu.authed_page # NoPage =>
        Permits("Data", EntryOf(dmmu, dmmu.authed_page), sm, FALSE)

\* An access that raises nothing was made in RAM or in a device, as MapAddress
\* says with *is_ram, `phy_address <= kMaxRamAddress'.  Store16 asks `address
\* <= kMaxRamAddress', of the virtual address.
StoresAreAnswered ==
    reply.of # NoPage /\ reply.exception = "None" => reply.page # NoPage
=============================================================================
