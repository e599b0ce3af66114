-------------------------------- MODULE Fetch --------------------------------
(***************************************************************************)
(* Instruction fetch in CPU::Run: the core keeps the page it runs in       *)
(* (CPU::authed_page_, authed_phy_) and goes to the instruction MMU when   *)
(* the program counter leaves it.  Every write of SR forgets the page,     *)
(* a write of the instruction TLB does not.                                *)
(*                                                                         *)
(* `fetched' is the outcome of the last fetch: for the page `of', the      *)
(* exception, or the page of RAM the instruction came from; NoPage if it   *)
(* is the word 0 that stands in for a fetch from outside RAM.              *)
(***************************************************************************)
EXTENDS Mmu

VARIABLES
    immu,           \* the instruction MMU
    authed_page, authed_phy,
    fetched,
    stale           \* history: the TLB entry behind authed_page was rewritten,
                    \* with the MMU on, since the page was authorised

fetchVars == <<immu, sm, authed_page, authed_phy, fetched, stale>>

Outcome(of, exception, page) == [of |-> of, exception |-> exception, page |-> page]

\* authed_phy_ has no initial value; it is read only with a page authorised.
FetchInit ==
    /\ immu \in MmuStart
    /\ sm = TRUE
    /\ authed_page = NoPage /\ authed_phy = 0
    /\ fetched = Outcome(NoPage, "None", NoPage)
    /\ stale = FALSE

-----------------------------------------------------------------------------
(* Special registers.                                                       *)

SetSRKeepingPage(m, is_sm, is_enabled) ==   \* variant: the page stays
    /\ sm' = is_sm
    /\ immu' = ClearFastAuthCache(SetIsEnabled(m, is_enabled))
    /\ UNCHANGED <<authed_page, authed_phy, stale>>

SetSR(m, is_sm, is_enabled) ==
    /\ sm' = is_sm
    /\ immu' = ClearFastAuthCache(SetIsEnabled(m, is_enabled))
    /\ authed_page' = NoPage
    /\ stale' = FALSE
    /\ UNCHANGED authed_phy

FetchWriteSR(is_sm, is_enabled) ==
    /\ SetSR(immu, is_sm, is_enabled)
    /\ UNCHANGED fetched

\* CPU::Reset, when the host loads an image between two slices.
FetchReload ==
    /\ SetSR(Reset(immu), TRUE, FALSE)
    /\ UNCHANGED fetched

\* A page in the match register of a set that is not its own is never found;
\* NoPage stands for it.
FetchWriteTlb(set) ==
    /\ \/ \E page \in Page : set = SetOf(page) /\ immu' = SetMatch(immu, set, page)
       \/ immu' = SetMatch(immu, set, NoPage)
       \/ \E tr \in Translation : immu' = SetTranslate(immu, set, tr)
    /\ stale' = \/ stale
                \/ authed_page # NoPage /\ immu.enabled /\ set = SetOf(authed_page)
    /\ UNCHANGED <<sm, authed_page, authed_phy, fetched>>

-----------------------------------------------------------------------------
(* Fetch, in the order the code tries.                                      *)

FetchFast(page) ==
    /\ page = authed_page
    /\ fetched' = Outcome(page, "None", authed_phy)
    /\ UNCHANGED <<immu, sm, authed_page, authed_phy, stale>>

Mapped(page)  == MapAddress("Instruction", immu, page, sm, FALSE)
Looked(page)  == Remember("Instruction", immu, page, sm, FALSE)

\* ThrowException enters the handler in supervisor mode without MMUs.
FetchRefused(page) ==
    /\ page # authed_page
    /\ Mapped(page).exception # "None"
    /\ fetched' = Outcome(page, Mapped(page).exception, NoPage)
    /\ SetSR(Looked(page), TRUE, FALSE)

FetchSlow(page) ==
    /\ page # authed_page
    /\ Mapped(page).exception = "None" /\ IsRam(Mapped(page).page)
    /\ fetched' = Outcome(page, "None", Mapped(page).page)
    /\ immu' = Looked(page)
    /\ authed_page' = page /\ authed_phy' = Mapped(page).page
    /\ stale' = FALSE
    /\ UNCHANGED sm

\* No device answers a 32-bit load; its bus error is not looked at.
FetchOutsideRam(page) ==
    /\ page # authed_page
    /\ Mapped(page).exception = "None" /\ ~IsRam(Mapped(page).page)
    /\ fetched' = Outcome(page, "None", NoPage)
    /\ immu' = Looked(page)
    /\ UNCHANGED <<sm, authed_page, authed_phy, stale>>

-----------------------------------------------------------------------------
FetchNext ==
    \/ \E is_sm, is_enabled \in BOOLEAN : FetchWriteSR(is_sm, is_enabled)
    \/ FetchReload
    \/ \E set \in TlbSet : FetchWriteTlb(set)
    \/ \E page \in Page : FetchFast(page) \/ FetchRefused(page)
                          \/ FetchSlow(page) \/ FetchOutsideRam(page)

FetchSpec == FetchInit /\ [][FetchNext]_fetchVars

-----------------------------------------------------------------------------
(* Properties.                                                              *)

FetchTypeOK ==
    /\ immu \in MmuType
    /\ sm \in BOOLEAN /\ stale \in BOOLEAN
    /\ authed_page \in Page \cup {NoPage} /\ authed_phy \in Page
    /\ fetched.exception \in {"None", "ITLBMiss", "InstructionPageFault"}

\* The MMU's own cache agrees with the TLB here too.
InstructionCacheAgrees == CacheAgrees(immu)

\* The page the core runs in is where the instruction MMU has it, and may be
\* executed, until the guest rewrites the very TLB entry it runs by.
AuthedPageIsCurrent ==
    authed_page # NoPage =>
        /\ IsRam(authed_phy)
        /\ ~stale => Mapped(authed_page) = [exception |-> "None", page |-> authed_phy]

\* Every instruction comes from the page the registers prescribe at that
\* moment, and a fetch they refuse raises their exception.  A stale page is
\* served only to a core that has not left it and has not written SR since.
FetchesAreTranslated ==
    [][fetched' # fetched =>
           LET mapped == Mapped(fetched'.of) IN
           \/ stale /\ fetched'.of = authed_page
           \/ /\ fetched'.exception = mapped.exception
              /\ fetched'.page =
                     IF mapped.exception = "None" /\ IsRam(mapped.page)
                     THEN mapped.page ELSE NoPage]_fetchVars
=============================================================================
