-------------------------------- MODULE Mmu --------------------------------
(***************************************************************************)
(* One memory management unit of simctty/mmu.cc: a direct-mapped TLB that  *)
(* the guest fills through special registers, and the one-page cache of    *)
(* the last translation that ended in RAM (authed_page_, authed_phy_).     *)
(* The two units of the core are used by modules DataAccess and Fetch.     *)
(*                                                                         *)
(* The state of class MMU is a record; methods are operators from a state  *)
(* to the state they leave.  Addresses are abstracted to pages (8 KiB),    *)
(* virtual and physical ones alike; RAM is the pages below RamPages, as    *)
(* kMaxRamAddress ends a page.  A match register holds a page, or NoPage   *)
(* when its valid bit is 0; a translate register is a page and the set of  *)
(* permission bits that are 1.                                             *)
(***************************************************************************)
EXTENDS Naturals

CONSTANTS
    Page,           \* page numbers
    RamPages,       \* pages of RAM, from 0
    UsedSets,       \* kUsedSetCount
    Translation,    \* values the translate registers may hold
    NoPage          \* the value 1 of authed_page_, and an invalid match

VARIABLE
    sm              \* supervisor mode, a bit of SR: the core asks both with it

Permission == {"URE", "UWE", "SRE", "SWE", "UXE", "SXE"}

ASSUME MmuAssumption ==
    /\ Page \subseteq Nat
    /\ RamPages \in Nat
    /\ 0 .. RamPages - 1 \subseteq Page /\ 0 \in Page
    /\ UsedSets \in Nat \ {0}
    /\ NoPage \notin Page
    /\ Translation \subseteq [page : Page, perms : SUBSET Permission]

IsRam(page) == page < RamPages
TlbSet      == 0 .. UsedSets - 1
SetOf(page) == page % UsedSets

MmuType ==
    [match : [TlbSet -> Page \cup {NoPage}], translate : [TlbSet -> Translation],
     enabled : BOOLEAN, authed_page : Page \cup {NoPage}, authed_phy : Page]

\* The states the constructor may leave: translate_reg_ is not initialised.
MmuStart ==
    [match : {[s \in TlbSet |-> NoPage]}, translate : [TlbSet -> Translation],
     enabled : {FALSE}, authed_page : {NoPage}, authed_phy : {0}]

-----------------------------------------------------------------------------
(* Registers.                                                               *)

ClearFastAuthCache(m) == [m EXCEPT !.authed_page = NoPage]

SetIsEnabled(m, is_enabled) ==
    [m EXCEPT !.authed_page = NoPage, !.enabled = is_enabled]

\* Reset forgets the match registers only; it follows SetIsEnabled(FALSE).
Reset(m) == [ClearFastAuthCache(m) EXCEPT !.match = [s \in TlbSet |-> NoPage]]

SetMatchKeepingCache(m, set, page) ==       \* variant: the cache stays
    [m EXCEPT !.match[set] = page]

\* SetReg, for the two halves of the TLB.
SetMatch(m, set, page) ==
    [ClearFastAuthCache(m) EXCEPT !.match[set] = page]
SetTranslate(m, set, tr) ==
    [ClearFastAuthCache(m) EXCEPT !.translate[set] = tr]

-----------------------------------------------------------------------------
(* Translation.                                                             *)

Hits(m, page)   == m.match[SetOf(page)] = page
EntryOf(m, page) == m.translate[SetOf(page)]

\* The permission bits of which one must be set.
Needed(type, is_sm, is_write) ==
    CASE type = "Instruction" -> {"UXE", "SXE"}
      [] type = "Data" /\ is_write  -> IF is_sm THEN {"SWE", "UWE"} ELSE {"UWE"}
      [] type = "Data" /\ ~is_write -> IF is_sm THEN {"SRE", "URE"} ELSE {"URE"}

Permits(type, tr, is_sm, is_write) ==
    tr.perms \cap Needed(type, is_sm, is_write) # {}

MissOfSwapped(type) ==      \* variant: the units answer for one another
    IF type = "Data" THEN "ITLBMiss" ELSE "DTLBMiss"

MissOf(type)  == IF type = "Data" THEN "DTLBMiss" ELSE "ITLBMiss"
FaultOf(type) == IF type = "Data" THEN "DataPageFault" ELSE "InstructionPageFault"

\* What MapAddress returns: the exception, and the physical page.
MapAddress(type, m, page, is_sm, is_write) ==
    IF ~m.enabled THEN [exception |-> "None", page |-> page]
    ELSE IF ~Hits(m, page) THEN [exception |-> MissOf(type), page |-> page]
    ELSE IF ~Permits(type, EntryOf(m, page), is_sm, is_write)
         THEN [exception |-> FaultOf(type), page |-> page]
    ELSE [exception |-> "None", page |-> EntryOf(m, page).page]

RememberAlways(type, m, page, is_sm, is_write) ==   \* variant: devices too
    LET mapped == MapAddress(type, m, page, is_sm, is_write) IN
    IF ~m.enabled \/ mapped.exception # "None" THEN m
    ELSE [m EXCEPT !.authed_page = page, !.authed_phy = mapped.page]

\* The state it leaves: a translation that ends in RAM is remembered, one that
\* ends elsewhere forgets the last, a refused one changes nothing.
Remember(type, m, page, is_sm, is_write) ==
    LET mapped == MapAddress(type, m, page, is_sm, is_write) IN
    IF ~m.enabled \/ mapped.exception # "None" THEN m
    ELSE IF IsRam(mapped.page)
         THEN [m EXCEPT !.authed_page = page, !.authed_phy = mapped.page]
         ELSE ClearFastAuthCache(m)

-----------------------------------------------------------------------------
\* The cache agrees with the TLB: a cached page is one the TLB maps to RAM.
CacheAgrees(m) ==
    m.authed_page # NoPage =>
        /\ m.enabled
        /\ Hits(m, m.authed_page)
        /\ EntryOf(m, m.authed_page).page = m.authed_phy
        /\ IsRam(m.authed_phy)
=============================================================================
