----------------------------- MODULE MmuProofs -----------------------------
(***************************************************************************)
(* Theorems about the two memory management units, for every number of     *)
(* pages, sets and translations: lemmas about one unit, then the guest's   *)
(* loads and stores (DataAccess) and instruction fetch (Fetch).            *)
(***************************************************************************)
EXTENDS DataAccess, Fetch, TLAPS

-----------------------------------------------------------------------------
(* One unit: the type of each operator's result, and that the cache agrees  *)
(* with the TLB after it.                                                   *)

\* The set of a page is one of the TLB's (address >> 13 modulo kUsedSetCount).
LEMMA SetOfType == ASSUME NEW page \in Page PROVE SetOf(page) \in TlbSet
BY MmuAssumption DEF SetOf, TlbSet

\* A constructed unit has the type and an empty cache.
LEMMA StartOK ==
    ASSUME NEW m \in MmuStart
    PROVE  m \in MmuType /\ CacheAgrees(m) /\ m.authed_page = NoPage
BY MmuAssumption DEF MmuStart, MmuType, CacheAgrees

\* Writing a register keeps the type and empties the cache.
LEMMA SetMatchOK ==
    ASSUME NEW m \in MmuType, NEW set \in TlbSet, NEW page \in Page \cup {NoPage}
    PROVE  /\ SetMatch(m, set, page) \in MmuType
           /\ SetMatch(m, set, page).authed_page = NoPage
           /\ SetMatch(m, set, page).enabled = m.enabled
           /\ \A other \in TlbSet \ {set} :
                  /\ SetMatch(m, set, page).match[other] = m.match[other]
                  /\ SetMatch(m, set, page).translate[other] = m.translate[other]
<1> DEFINE n == SetMatch(m, set, page)
<1>1. /\ n = [m EXCEPT !.authed_page = NoPage, !.match[set] = page]
      /\ n \in MmuType
  BY DEF SetMatch, ClearFastAuthCache, MmuType
<1>2. /\ n.authed_page = NoPage /\ n.enabled = m.enabled
      /\ n.match = [m.match EXCEPT ![set] = page] /\ n.translate = m.translate
  BY <1>1 DEF MmuType
<1>3. \A other \in TlbSet \ {set} :
          n.match[other] = m.match[other] /\ n.translate[other] = m.translate[other]
  <2> HIDE DEF n
  <2> QED
    BY <1>2 DEF MmuType
<1> QED
  BY <1>1, <1>2, <1>3

\* The same for a translate register.
LEMMA SetTranslateOK ==
    ASSUME NEW m \in MmuType, NEW set \in TlbSet, NEW tr \in Translation
    PROVE  /\ SetTranslate(m, set, tr) \in MmuType
           /\ SetTranslate(m, set, tr).authed_page = NoPage
           /\ SetTranslate(m, set, tr).enabled = m.enabled
           /\ \A other \in TlbSet \ {set} :
                  /\ SetTranslate(m, set, tr).match[other] = m.match[other]
                  /\ SetTranslate(m, set, tr).translate[other] = m.translate[other]
<1> DEFINE n == SetTranslate(m, set, tr)
<1>1. /\ n = [m EXCEPT !.authed_page = NoPage, !.translate[set] = tr]
      /\ n \in MmuType
  BY DEF SetTranslate, ClearFastAuthCache, MmuType
<1>2. /\ n.authed_page = NoPage /\ n.enabled = m.enabled
      /\ n.translate = [m.translate EXCEPT ![set] = tr] /\ n.match = m.match
  BY <1>1 DEF MmuType
<1>3. \A other \in TlbSet \ {set} :
          n.match[other] = m.match[other] /\ n.translate[other] = m.translate[other]
  <2> HIDE DEF n
  <2> QED
    BY <1>2 DEF MmuType
<1> QED
  BY <1>1, <1>2, <1>3

\* A change of SR keeps the TLB, enables or disables it, and empties the cache.
LEMMA SetEnabledOK ==
    ASSUME NEW m \in MmuType, NEW b \in BOOLEAN
    PROVE  LET n == ClearFastAuthCache(SetIsEnabled(m, b)) IN
           /\ n \in MmuType
           /\ n.authed_page = NoPage
           /\ n.enabled = b /\ n.match = m.match /\ n.translate = m.translate
BY DEF SetIsEnabled, ClearFastAuthCache, MmuType

\* A reset empties the cache and the match registers (MMU::Reset).
LEMMA ResetOK ==
    ASSUME NEW m \in MmuType
    PROVE  LET n == Reset(SetIsEnabled(m, FALSE)) IN
           /\ n \in MmuType
           /\ n.authed_page = NoPage /\ n.enabled = FALSE
           /\ n.match = [s \in TlbSet |-> NoPage] /\ n.translate = m.translate
BY DEF Reset, SetIsEnabled, ClearFastAuthCache, MmuType

\* An empty cache agrees with any TLB.
LEMMA EmptyAgrees == ASSUME NEW m, m.authed_page = NoPage PROVE CacheAgrees(m)
BY DEF CacheAgrees

\* A translation leaves the registers alone, and the cache as it was, empty,
\* or holding the page it just found in RAM (MapAddress).
LEMMA RememberCases ==
    ASSUME NEW type, NEW m \in MmuType, NEW page \in Page,
           NEW is_sm \in BOOLEAN, NEW is_write \in BOOLEAN
    PROVE  LET n      == Remember(type, m, page, is_sm, is_write)
               mapped == MapAddress(type, m, page, is_sm, is_write) IN
           /\ n \in MmuType
           /\ n.enabled = m.enabled /\ n.match = m.match /\ n.translate = m.translate
           /\ \/ n = m
              \/ n.authed_page = NoPage
              \/ /\ m.enabled /\ Hits(m, page)
                 /\ Permits(type, EntryOf(m, page), is_sm, is_write)
                 /\ IsRam(EntryOf(m, page).page)
                 /\ n.authed_page = page /\ n.authed_phy = EntryOf(m, page).page
<1> DEFINE n      == Remember(type, m, page, is_sm, is_write)
           mapped == MapAddress(type, m, page, is_sm, is_write)
<1>1. CASE ~m.enabled \/ mapped.exception # "None"
  <2>1. n = m
    BY <1>1 DEF Remember
  <2> QED
    BY <2>1
<1>2. CASE m.enabled /\ mapped.exception = "None"
  <2>1. EntryOf(m, page) \in Translation
    BY SetOfType DEF EntryOf, MmuType
  <2>2. EntryOf(m, page).page \in Page
    BY <2>1, MmuAssumption
  <2>3. Hits(m, page)
    BY <1>2 DEF MapAddress, MissOf
  <2>4. Permits(type, EntryOf(m, page), is_sm, is_write)
    BY <1>2, <2>3 DEF MapAddress, FaultOf
  <2>5. mapped.page = EntryOf(m, page).page
    BY <1>2, <2>3, <2>4 DEF MapAddress
  <2>6. CASE IsRam(mapped.page)
    <3>1. n = [m EXCEPT !.authed_page = page, !.authed_phy = mapped.page]
      BY <1>2, <2>6 DEF Remember
    <3> QED
      BY <1>2, <2>2, <2>3, <2>4, <2>5, <2>6, <3>1 DEF MmuType
  <2>7. CASE ~IsRam(mapped.page)
    <3>1. n = [m EXCEPT !.authed_page = NoPage]
      BY <1>2, <2>7 DEF Remember, ClearFastAuthCache
    <3> QED
      BY <3>1 DEF MmuType
  <2> QED
    BY <2>6, <2>7
<1> QED
  BY <1>1, <1>2 DEF MmuType

\* A translation keeps the agreement of cache and TLB.
LEMMA RememberAgrees ==
    ASSUME NEW type, NEW m \in MmuType, NEW page \in Page,
           NEW is_sm \in BOOLEAN, NEW is_write \in BOOLEAN, CacheAgrees(m)
    PROVE  CacheAgrees(Remember(type, m, page, is_sm, is_write))
<1> DEFINE n == Remember(type, m, page, is_sm, is_write)
<1>1. /\ n.enabled = m.enabled /\ n.match = m.match /\ n.translate = m.translate
      /\ \/ n = m
         \/ n.authed_page = NoPage
         \/ /\ m.enabled /\ Hits(m, page) /\ IsRam(EntryOf(m, page).page)
            /\ n.authed_page = page /\ n.authed_phy = EntryOf(m, page).page
  BY RememberCases
<1>2. CacheAgrees(n)
  <2> HIDE DEF n
  <2> QED
    BY <1>1 DEF CacheAgrees, Hits, EntryOf
<1> QED
  BY <1>2

-----------------------------------------------------------------------------
(* Loads and stores.  The invariant says that the cached page is one the    *)
(* TLB maps to that page of RAM, and that the current mode may read; the    *)
(* first half is what makes a cached load find the right page, the second   *)
(* what makes it legal.  The second half needs the first: it speaks of the  *)
(* TLB entry behind the cached page.                                        *)

DataInv ==
    /\ dmmu \in MmuType /\ sm \in BOOLEAN
    /\ mem \in [0 .. RamPages - 1 -> Value]
    /\ reply.exception \in {"None", "Alignment", "BusError", "DTLBMiss", "DataPageFault"}
    /\ DataCacheAgrees
    /\ CachedPageIsPermitted

\* What MapAddress refuses, it refuses with an exception of the data side.
LEMMA MapExceptions ==
    ASSUME NEW m, NEW page, NEW is_sm, NEW is_write
    PROVE  MapAddress("Data", m, page, is_sm, is_write).exception
               \in {"None", "DTLBMiss", "DataPageFault"}
BY DEF MapAddress, MissOf, FaultOf

\* A device answers without an exception or with a bus error.
LEMMA OnBusExceptions ==
    ASSUME NEW of, NEW width, NEW offset, NEW page
    PROVE  OnBus(of, width, offset, page).exception \in {"None", "BusError"}
BY DEF OnBus, Answered, Refused

\* The constructors establish the invariant.
LEMMA DataInitHolds == DataInit => DataInv
<1> SUFFICES ASSUME DataInit PROVE DataInv
  OBVIOUS
<1>1. dmmu \in MmuType /\ CacheAgrees(dmmu) /\ dmmu.authed_page = NoPage
  BY StartOK DEF DataInit
<1> QED
  BY <1>1 DEF DataInit, DataInv, DataCacheAgrees, CachedPageIsPermitted, Refused

\* An access translates a page, for reading or for writing, and remembers it:
\* that keeps the part of the invariant that is about the MMU.
LEMMA AccessKeepsMmu ==
    ASSUME DataInv, NEW page \in Page, NEW is_write \in BOOLEAN,
           dmmu' = Remember("Data", dmmu, page, sm, is_write), sm' = sm
    PROVE  /\ dmmu' \in MmuType /\ DataCacheAgrees' /\ CachedPageIsPermitted'
<1>1. /\ dmmu' \in MmuType
      /\ dmmu'.enabled = dmmu.enabled /\ dmmu'.match = dmmu.match
      /\ dmmu'.translate = dmmu.translate
      /\ \/ dmmu' = dmmu
         \/ dmmu'.authed_page = NoPage
         \/ /\ dmmu.enabled /\ Hits(dmmu, page)
            /\ Permits("Data", EntryOf(dmmu, page), sm, is_write)
            /\ IsRam(EntryOf(dmmu, page).page)
            /\ dmmu'.authed_page = page /\ dmmu'.authed_phy = EntryOf(dmmu, page).page
  BY RememberCases DEF DataInv
<1>2. DataCacheAgrees'
  BY RememberAgrees DEF DataInv, DataCacheAgrees
<1>3. CachedPageIsPermitted'
  <2>1. CASE dmmu' = dmmu
    BY <2>1 DEF DataInv, CachedPageIsPermitted
  <2>2. CASE dmmu'.authed_page = NoPage
    BY <2>2 DEF CachedPageIsPermitted
  <2>3. CASE /\ Permits("Data", EntryOf(dmmu, page), sm, is_write)
             /\ dmmu'.authed_page = page
    <3>1. EntryOf(dmmu', page) = EntryOf(dmmu, page)
      BY <1>1 DEF EntryOf
    <3> QED
      BY <2>3, <3>1 DEF CachedPageIsPermitted
  <2> QED
    BY <1>1, <2>1, <2>2, <2>3
<1> QED
  BY <1>1, <1>2, <1>3

\* A step that leaves all but the outcome alone keeps the invariant.
LEMMA QuietStepHolds ==
    ASSUME DataInv, UNCHANGED <<dmmu, sm, mem>>,
           reply'.exception \in {"None", "Alignment", "BusError", "DTLBMiss", "DataPageFault"}
    PROVE  DataInv'
<1>1. DataCacheAgrees' /\ CachedPageIsPermitted'
  BY DEF DataInv, DataCacheAgrees, CachedPageIsPermitted
<1> QED
  BY <1>1 DEF DataInv

\* A load through the TLB keeps it (MMU::Load8, Load16, Load32).
LEMMA MappedLoadHolds ==
    ASSUME DataInv, NEW width \in Width, NEW page \in Page, NEW offset \in Offset,
           MappedLoad(width, page, offset), UNCHANGED <<sm, mem>>
    PROVE  DataInv'
<1>1. /\ dmmu' \in MmuType /\ DataCacheAgrees' /\ CachedPageIsPermitted'
  BY AccessKeepsMmu DEF MappedLoad
<1>2. reply'.exception \in {"None", "BusError", "DTLBMiss", "DataPageFault"}
  <2> DEFINE mapped == MapAddress("Data", dmmu, page, sm, FALSE)
  <2>1. mapped.exception \in {"None", "DTLBMiss", "DataPageFault"}
    BY MapExceptions
  <2>2. OnBus(page, width, offset, mapped.page).exception \in {"None", "BusError"}
    BY OnBusExceptions
  <2>3. \/ reply' = Refused(page, mapped.exception)
        \/ reply' = Answered(page, mapped.page, mem[mapped.page])
        \/ reply' = OnBus(page, width, offset, mapped.page)
    BY DEF MappedLoad
  <2> HIDE DEF mapped
  <2> QED
    BY <2>1, <2>2, <2>3 DEF Answered, Refused
<1>3. sm' \in BOOLEAN /\ mem' \in [0 .. RamPages - 1 -> Value]
  BY DEF DataInv
<1> QED
  BY <1>1, <1>2, <1>3, Zenon DEF DataInv

\* So does a store, whichever way it goes (MMU::Store8 to Store32).
LEMMA StoreHolds ==
    ASSUME DataInv, NEW width \in Width, NEW page \in Page, NEW offset \in Offset,
           NEW value \in Value, Store(width, page, offset, value)
    PROVE  DataInv'
<1>1. CASE Misaligned(width, offset)
  BY <1>1, QuietStepHolds DEF Store, Refused
<1>2. CASE ~Misaligned(width, offset)
  <2> DEFINE mapped == MapAddress("Data", dmmu, page, sm, TRUE)
  <2>1. dmmu' = Remember("Data", dmmu, page, sm, TRUE) /\ sm' = sm
    BY <1>2 DEF Store
  <2>2. /\ dmmu' \in MmuType /\ DataCacheAgrees' /\ CachedPageIsPermitted'
    BY <2>1, AccessKeepsMmu
  <2>3. \/ reply' = Refused(page, mapped.exception)
        \/ reply' = Answered(page, mapped.page, NoValue)
        \/ reply' = Outside(page)
        \/ reply' = OnBus(page, width, offset, mapped.page)
    BY <1>2 DEF Store
  <2>4. reply'.exception \in {"None", "BusError", "DTLBMiss", "DataPageFault"}
    <3>1. CASE reply' = Refused(page, mapped.exception)
      BY <3>1, MapExceptions DEF Refused
    <3>2. CASE reply' = Answered(page, mapped.page, NoValue)
      BY <3>2 DEF Answered
    <3>3. CASE reply' = Outside(page)
      BY <3>3 DEF Outside, Answered
    <3>4. CASE reply' = OnBus(page, width, offset, mapped.page)
      <4> HIDE DEF mapped
      <4> QED
        BY <3>4, OnBusExceptions
    <3> QED
      BY <2>3, <3>1, <3>2, <3>3, <3>4
  <2>5. mem' = mem \/ mem' = [mem EXCEPT ![mapped.page] = value]
    BY <1>2 DEF Store
  <2>6. mem' \in [0 .. RamPages - 1 -> Value]
    BY <2>5 DEF DataInv
  <2> QED
    BY <2>1, <2>2, <2>4, <2>6 DEF DataInv
<1> QED
  BY <1>1, <1>2

\* Every access and every register write keeps the invariant.
LEMMA DataStepHolds == DataInv /\ [DataNext]_dataVars => DataInv'
<1> SUFFICES ASSUME DataInv, [DataNext]_dataVars PROVE DataInv'
  OBVIOUS
<1>1. ASSUME NEW is_sm \in BOOLEAN, NEW is_enabled \in BOOLEAN, DataWriteSR(is_sm, is_enabled)
      PROVE  DataInv'
  <2>1. /\ dmmu' \in MmuType /\ dmmu'.authed_page = NoPage
        /\ dmmu'.match = dmmu.match /\ dmmu'.translate = dmmu.translate
    BY <1>1, SetEnabledOK DEF DataWriteSR, DataInv
  <2> QED
    BY <1>1, <2>1 DEF DataWriteSR, DataInv, DataCacheAgrees, CacheAgrees, CachedPageIsPermitted
<1>2. CASE DataWriteTlb
  <2>1. dmmu' \in MmuType /\ dmmu'.authed_page = NoPage
    BY <1>2, SetMatchOK, SetTranslateOK, SetOfType DEF DataWriteTlb, DataInv
  <2>2. DataCacheAgrees' /\ CachedPageIsPermitted'
    BY <2>1 DEF DataCacheAgrees, CacheAgrees, CachedPageIsPermitted
  <2>3. UNCHANGED <<sm, mem, reply>>
    BY <1>2 DEF DataWriteTlb
  <2> QED
    BY <2>1, <2>2, <2>3, Zenon DEF DataInv
<1>3. ASSUME NEW page \in Page, Load32Cached(page) PROVE DataInv'
  BY <1>3, QuietStepHolds DEF Load32Cached, Answered
<1>4. ASSUME NEW page \in Page, NEW offset \in Offset, Load32Mapped(page, offset) PROVE DataInv'
  BY <1>4, MappedLoadHolds DEF Load32Mapped, Width
<1>5. ASSUME NEW page \in Page, NEW width \in Width, NEW offset \in Offset,
             Load8or16(width, page, offset)
      PROVE  DataInv'
  <2>1. CASE Misaligned(width, offset)
    BY <1>5, <2>1, QuietStepHolds DEF Load8or16, Refused
  <2>2. CASE ~Misaligned(width, offset)
    BY <1>5, <2>2, MappedLoadHolds DEF Load8or16
  <2> QED
    BY <2>1, <2>2
<1>6. CASE DataReload
  <2>1. /\ dmmu' \in MmuType /\ dmmu'.authed_page = NoPage
        /\ dmmu'.match = [s \in TlbSet |-> NoPage]
    BY <1>6, ResetOK DEF DataReload, DataInv
  <2>2. DataCacheAgrees' /\ CachedPageIsPermitted'
    BY <2>1 DEF DataCacheAgrees, CacheAgrees, CachedPageIsPermitted
  <2>3. sm' = TRUE /\ mem' \in [0 .. RamPages - 1 -> Value] /\ reply' = reply
    BY <1>6 DEF DataReload
  <2> QED
    BY <2>1, <2>2, <2>3 DEF DataInv
<1>7. CASE UNCHANGED dataVars
  BY <1>7, QuietStepHolds DEF dataVars, DataInv
<1> QED
  BY <1>1, <1>2, <1>3, <1>4, <1>5, <1>6, <1>7, StoreHolds DEF DataNext

\* The invariant holds in every reachable state.
THEOREM DataInvariant == DataSpec => []DataInv
BY DataInitHolds, DataStepHolds, PTL DEF DataSpec

\* Type correctness of the data MMU, RAM and the outcome of an access.
THEOREM DataTypeCorrect == DataSpec => []DataTypeOK
<1>1. DataInv => DataTypeOK
  BY DEF DataInv, DataTypeOK
<1> QED
  BY <1>1, DataInvariant, PTL

\* The page the fast path of Load32 reads is where the TLB has it.
THEOREM DataCacheNeverStale == DataSpec => []DataCacheAgrees
<1>1. DataInv => DataCacheAgrees
  BY DEF DataInv
<1> QED
  BY <1>1, DataInvariant, PTL

\* And the mode the guest is in has access to it, for reading or for writing,
\* whatever the kernel writes to the registers.  That it may read it is not so.
THEOREM FastPathIsPermitted == DataSpec => []CachedPageIsPermitted
<1>1. DataInv => CachedPageIsPermitted
  BY DEF DataInv
<1> QED
  BY <1>1, DataInvariant, PTL

-----------------------------------------------------------------------------
(* The caches are invisible: the detailed accesses implement the uncached   *)
(* ones.                                                                    *)

\* The permission test of the code is the readable and writable of the
\* specification.
LEMMA PermitsIsReadable ==
    ASSUME NEW page
    PROVE  Permits("Data", EntryOf(dmmu, page), sm, FALSE) <=> Uncached!Readable(page)
BY DEF Permits, Needed, EntryOf, SetOf, Uncached!Readable, Uncached!Entry

\* The same for a store.
LEMMA PermitsIsWritable ==
    ASSUME NEW page
    PROVE  Permits("Data", EntryOf(dmmu, page), sm, TRUE) <=> Uncached!Writable(page)
BY DEF Permits, Needed, EntryOf, SetOf, Uncached!Writable, Uncached!Entry

\* MapAddress finds the exception and the physical page of the specification.
LEMMA MapIsPhysical ==
    ASSUME DataInv, NEW page \in Page, NEW is_write \in BOOLEAN, NEW allowed \in BOOLEAN,
           Permits("Data", EntryOf(dmmu, page), sm, is_write) <=> allowed
    PROVE  LET mapped == MapAddress("Data", dmmu, page, sm, is_write) IN
           /\ mapped.exception = Uncached!Exception(page, allowed)
           /\ mapped.exception = "None" =>
                  mapped.page = Uncached!Physical(page) /\ mapped.page \in Page
<1>1. EntryOf(dmmu, page) = Uncached!Entry(page)
  BY DEF EntryOf, SetOf, Uncached!Entry
<1>2. Hits(dmmu, page) <=> Uncached!Mapped(page)
  BY DEF Hits, SetOf, Uncached!Mapped
<1>3. EntryOf(dmmu, page).page \in Page
  BY SetOfType, MmuAssumption DEF DataInv, EntryOf, MmuType
<1>4. CASE ~dmmu.enabled
  BY <1>4 DEF MapAddress, Uncached!Exception, Uncached!Physical
<1>5. CASE dmmu.enabled /\ ~Hits(dmmu, page)
  BY <1>2, <1>5 DEF MapAddress, MissOf, Uncached!Exception
<1>6. CASE dmmu.enabled /\ Hits(dmmu, page) /\ ~allowed
  BY <1>2, <1>6 DEF MapAddress, FaultOf, Uncached!Exception
<1>7. CASE dmmu.enabled /\ Hits(dmmu, page) /\ allowed
  BY <1>1, <1>2, <1>3, <1>7 DEF MapAddress, Uncached!Exception, Uncached!Physical
<1> QED
  BY <1>4, <1>5, <1>6, <1>7

\* The pages below the end of RAM are the RAM of the specification.
LEMMA RamIsRam == ASSUME NEW page \in Page PROVE IsRam(page) <=> page \in Uncached!Ram
BY MmuAssumption DEF IsRam, Uncached!Ram

\* A load that goes through the TLB is the read of the specification.
LEMMA MappedLoadIsRead ==
    ASSUME DataInv, NEW width \in Width, NEW page \in Page, NEW offset \in Offset,
           MappedLoad(width, page, offset), UNCHANGED <<sm, mem>>
    PROVE  Uncached!Read(page, width, offset # "rest")
<1> DEFINE mapped == MapAddress("Data", dmmu, page, sm, FALSE)
<1>1. Uncached!Readable(page) \in BOOLEAN
  BY DEF Uncached!Readable
<1>2. /\ mapped.exception = Uncached!Exception(page, Uncached!Readable(page))
      /\ mapped.exception = "None" =>
             mapped.page = Uncached!Physical(page) /\ mapped.page \in Page
  BY <1>1, PermitsIsReadable, MapIsPhysical
<1>3. reply' = IF mapped.exception # "None" THEN Refused(page, mapped.exception)
               ELSE IF IsRam(mapped.page)
                    THEN Answered(page, mapped.page, mem[mapped.page])
                    ELSE OnBus(page, width, offset, mapped.page)
  BY DEF MappedLoad
<1> HIDE DEF mapped
<1> QED
  BY <1>2, <1>3, RamIsRam
     DEF Uncached!Read, Uncached!Refuse, Uncached!Answer, Uncached!Device, OnBus, Refused,
         Answered, NoValue, Uncached!NoValue

\* A cached load is the same read, or the one of a page that may be written: here
\* the invariant does its work.
LEMMA CachedLoadIsRead ==
    ASSUME DataInv, NEW page \in Page, Load32Cached(page)
    PROVE  Uncached!Read(page, 32, TRUE) \/ Uncached!ReadOfWritable(page)
<1>1. /\ dmmu.enabled /\ Hits(dmmu, page)
      /\ EntryOf(dmmu, page).page = dmmu.authed_phy /\ IsRam(dmmu.authed_phy)
      /\ \E is_write \in BOOLEAN : Permits("Data", EntryOf(dmmu, page), sm, is_write)
  BY MmuAssumption DEF Load32Cached, DataInv, DataCacheAgrees, CacheAgrees, CachedPageIsPermitted
<1>2. Uncached!Mapped(page) /\ (Uncached!Readable(page) \/ Uncached!Writable(page))
  BY <1>1, PermitsIsReadable, PermitsIsWritable DEF Hits, SetOf, Uncached!Mapped
<1>3. Uncached!Physical(page) = dmmu.authed_phy
  BY <1>1 DEF Uncached!Physical, EntryOf, SetOf, Uncached!Entry
<1>4. dmmu.authed_phy \in Uncached!Ram
  BY <1>1, RamIsRam DEF DataInv, MmuType
<1>5. CASE Uncached!Readable(page)
  <2>1. Uncached!Exception(page, Uncached!Readable(page)) = "None"
    BY <1>1, <1>2, <1>5 DEF Uncached!Exception
  <2> QED
    BY <1>3, <1>4, <2>1
       DEF Load32Cached, Answered, Uncached!Read, Uncached!Answer, NoValue, Uncached!NoValue
<1>6. CASE Uncached!Writable(page)
  <2>1. Uncached!Exception(page, Uncached!Writable(page)) = "None"
    BY <1>1, <1>2, <1>6 DEF Uncached!Exception
  <2> QED
    BY <1>1, <1>3, <1>4, <2>1
       DEF Load32Cached, Answered, Uncached!ReadOfWritable, Uncached!Answer
<1> QED
  BY <1>2, <1>5, <1>6

\* A store that is aligned is the write of the specification.
LEMMA StoreIsWrite ==
    ASSUME DataInv, NEW width \in Width, NEW page \in Page, NEW offset \in Offset,
           NEW value \in Value, Store(width, page, offset, value),
           ~Misaligned(width, offset)
    PROVE  Uncached!WriteValue(page, width, offset # "rest", value)
<1> DEFINE mapped == MapAddress("Data", dmmu, page, sm, TRUE)
<1>1. Uncached!Writable(page) \in BOOLEAN
  BY DEF Uncached!Writable
<1>2. /\ mapped.exception = Uncached!Exception(page, Uncached!Writable(page))
      /\ mapped.exception = "None" =>
             mapped.page = Uncached!Physical(page) /\ mapped.page \in Page
  BY <1>1, PermitsIsWritable, MapIsPhysical
<1>3. IF mapped.exception # "None"
      THEN reply' = Refused(page, mapped.exception) /\ UNCHANGED mem
      ELSE IF IsRam(mapped.page)
      THEN /\ reply' = Answered(page, mapped.page, NoValue)
           /\ mem' = [mem EXCEPT ![mapped.page] = value]
      ELSE /\ reply' = IF TakenForRam(width, page, mapped.page)
                       THEN Outside(page) ELSE OnBus(page, width, offset, mapped.page)
           /\ UNCHANGED mem
  BY DEF Store
<1>4. IsRam(page) <=> page \in Uncached!Ram
  BY RamIsRam
<1>5. mapped.exception = "None" =>
          (IsRam(mapped.page) <=> Uncached!Physical(page) \in Uncached!Ram)
  BY <1>2, RamIsRam
<1>6. ~IsRam(mapped.page) =>
          (TakenForRam(width, page, mapped.page) <=> width = 16 /\ page \in Uncached!Ram)
  BY <1>4 DEF TakenForRam
<1> HIDE DEF mapped
<1> QED
  BY <1>2, <1>3, <1>5, <1>6
     DEF Outside, Uncached!WriteValue, Uncached!Refuse, Uncached!Answer, Uncached!Device, OnBus,
         Refused, Answered, NoValue, Uncached!NoValue

\* Initial states are initial states of the specification.
LEMMA MemoryInitHolds == DataInit => Uncached!MemoryInit
BY DEF DataInit, MmuStart, Refused, Uncached!MemoryInit, TlbSet, Uncached!Sets, Uncached!Ram,
       NoValue, Uncached!NoValue

\* Under the invariant every step is a step of the specification or a stutter.
LEMMA MemoryStepHolds ==
    DataInv /\ [DataNext]_dataVars => [Uncached!MemoryNext]_(Uncached!memoryVars)
<1> SUFFICES ASSUME DataInv, [DataNext]_dataVars
             PROVE  [Uncached!MemoryNext]_(Uncached!memoryVars)
  OBVIOUS
<1>1. ASSUME NEW is_sm \in BOOLEAN, NEW is_enabled \in BOOLEAN, DataWriteSR(is_sm, is_enabled)
      PROVE  Uncached!Configure
  BY <1>1, SetEnabledOK DEF DataWriteSR, DataInv, Uncached!Configure
<1>2. ASSUME DataWriteTlb PROVE Uncached!Configure
  <2>1. ASSUME NEW set \in TlbSet, NEW page \in Page \cup {NoPage},
               dmmu' = SetMatch(dmmu, set, page)
        PROVE  Uncached!Configure
    BY <1>2, <2>1
       DEF DataWriteTlb, SetMatch, ClearFastAuthCache, DataInv, MmuType, Uncached!Configure,
           TlbSet, Uncached!Sets
  <2>2. ASSUME NEW set \in TlbSet, NEW tr \in Translation,
               dmmu' = SetTranslate(dmmu, set, tr)
        PROVE  Uncached!Configure
    BY <1>2, <2>2
       DEF DataWriteTlb, SetTranslate, ClearFastAuthCache, DataInv, MmuType, Uncached!Configure,
           TlbSet, Uncached!Sets
  <2> QED
    BY <1>2, <2>1, <2>2, SetOfType DEF DataWriteTlb
<1>3. ASSUME NEW page \in Page, NEW width \in Width, UNCHANGED <<sm>>,
             dmmu' = dmmu \/ (\E w \in BOOLEAN : dmmu' = Remember("Data", dmmu, page, sm, w))
      PROVE  UNCHANGED Uncached!tlbVars
  BY <1>3, RememberCases DEF DataInv, Uncached!tlbVars
<1>4. ASSUME NEW page \in Page, Load32Cached(page) PROVE Uncached!Access
  <2>1. UNCHANGED Uncached!tlbVars
    BY <1>4 DEF Load32Cached, Uncached!tlbVars
  <2> QED
    BY <1>4, <2>1, CachedLoadIsRead DEF Uncached!Access
<1>5. ASSUME NEW page \in Page, NEW offset \in Offset, Load32Mapped(page, offset)
      PROVE  Uncached!Access
  <2>1. UNCHANGED Uncached!tlbVars
    BY <1>3, <1>5 DEF Load32Mapped, MappedLoad, Width
  <2>2. Uncached!Read(page, 32, offset # "rest")
    BY <1>5, MappedLoadIsRead DEF Load32Mapped, Width
  <2> QED
    BY <2>1, <2>2 DEF Uncached!Access
<1>6. ASSUME NEW page \in Page, NEW width \in Width, NEW offset \in Offset,
             Load8or16(width, page, offset)
      PROVE  Uncached!Access
  <2>1. UNCHANGED Uncached!tlbVars
    BY <1>3, <1>6 DEF Load8or16, MappedLoad
  <2>2. CASE Misaligned(width, offset)
    BY <1>6, <2>1, <2>2
       DEF Load8or16, Misaligned, Refused, Width, Uncached!Access, Uncached!Refuse, NoValue,
           Uncached!NoValue
  <2>3. CASE ~Misaligned(width, offset)
    <3>1. Uncached!Read(page, width, offset # "rest")
      BY <1>6, <2>3, MappedLoadIsRead DEF Load8or16
    <3> QED
      BY <2>1, <3>1 DEF Uncached!Access, Width
  <2> QED
    BY <2>2, <2>3
<1>7. ASSUME NEW page \in Page, NEW width \in Width, NEW offset \in Offset,
             NEW value \in Value, Store(width, page, offset, value)
      PROVE  Uncached!Access
  <2>1. UNCHANGED Uncached!tlbVars
    BY <1>3, <1>7 DEF Store
  <2>2. CASE Misaligned(width, offset)
    BY <1>7, <2>1, <2>2
       DEF Store, Misaligned, Refused, Width, Uncached!Access, Uncached!Refuse, NoValue,
           Uncached!NoValue
  <2>3. CASE ~Misaligned(width, offset)
    <3>1. Uncached!WriteValue(page, width, offset # "rest", value)
      BY <1>7, <2>3, StoreIsWrite
    <3> QED
      BY <2>1, <3>1 DEF Uncached!Access, Width
  <2> QED
    BY <2>2, <2>3
<1>8. ASSUME DataReload PROVE Uncached!Reload
  BY <1>8, ResetOK DEF DataReload, DataInv, Uncached!Reload, TlbSet, Uncached!Sets, Uncached!Ram
<1>9. CASE UNCHANGED dataVars
  BY <1>9 DEF dataVars, Uncached!memoryVars, Uncached!tlbVars
<1> QED
  BY <1>1, <1>2, <1>4, <1>5, <1>6, <1>7, <1>8, <1>9 DEF DataNext, Uncached!MemoryNext

\* Every load and store has the outcome the registers of the moment prescribe:
\* only by a 32-bit load of a page it may write and not read can a program tell
\* the one-page cache and the fast path of Load32 from a translation done every
\* time (MMU::Load8 to Store32).  Nothing is assumed of what the kernel maps.
THEOREM CacheIsInvisible == DataSpec => AccessesAreTranslated
BY MemoryInitHolds, MemoryStepHolds, DataInvariant, PTL
   DEF DataSpec, AccessesAreTranslated, Uncached!MemorySpec

-----------------------------------------------------------------------------
(* Instruction fetch.  The invariant is that the page the core runs in is   *)
(* the translation of the moment, as long as the guest has not rewritten    *)
(* the TLB entry behind it: a fetch without translation is then right.      *)

FetchInv ==
    /\ FetchTypeOK
    /\ InstructionCacheAgrees
    /\ AuthedPageIsCurrent

\* What MapAddress refuses, it refuses with an exception of this side.
LEMMA MappedExceptions ==
    ASSUME NEW page
    PROVE  Mapped(page).exception \in {"None", "ITLBMiss", "InstructionPageFault"}
BY DEF Mapped, MapAddress, MissOf, FaultOf

\* A translation that is not refused ends in a page of memory.
LEMMA MappedPage ==
    ASSUME FetchTypeOK, NEW page \in Page
    PROVE  Mapped(page).page \in Page
<1>1. EntryOf(immu, page).page \in Page
  BY SetOfType, MmuAssumption DEF FetchTypeOK, EntryOf, MmuType
<1> QED
  BY <1>1 DEF Mapped, MapAddress

\* MapAddress depends on the registers of the unit only, and those of
\* another set than the page's do not matter.
LEMMA MappedDependsOn ==
    ASSUME NEW page \in Page, sm' = sm, immu'.enabled = immu.enabled,
           ~immu.enabled \/ /\ immu'.match[SetOf(page)] = immu.match[SetOf(page)]
                            /\ immu'.translate[SetOf(page)] = immu.translate[SetOf(page)]
    PROVE  Mapped(page)' = Mapped(page)
BY DEF Mapped, MapAddress, Hits, EntryOf

\* The constructors establish the invariant.
LEMMA FetchInitHolds == FetchInit => FetchInv
<1> SUFFICES ASSUME FetchInit PROVE FetchInv
  OBVIOUS
<1>1. immu \in MmuType /\ CacheAgrees(immu)
  BY StartOK DEF FetchInit
<1>2. FetchTypeOK
  BY <1>1, MmuAssumption DEF FetchInit, FetchTypeOK, Outcome
<1> QED
  BY <1>1, <1>2 DEF FetchInit, FetchInv, InstructionCacheAgrees, AuthedPageIsCurrent

\* A write of SR, or an exception, leaves no page authorised.
LEMMA SetSRHolds ==
    ASSUME NEW m \in MmuType, NEW is_sm \in BOOLEAN, NEW b \in BOOLEAN,
           FetchTypeOK, SetSR(m, is_sm, b),
           fetched'.exception \in {"None", "ITLBMiss", "InstructionPageFault"}
    PROVE  FetchInv'
<1>1. immu' \in MmuType /\ immu'.authed_page = NoPage
  BY SetEnabledOK DEF SetSR
<1>2. FetchTypeOK'
  BY <1>1 DEF SetSR, FetchTypeOK
<1> QED
  BY <1>1, <1>2 DEF SetSR, FetchInv, InstructionCacheAgrees, CacheAgrees, AuthedPageIsCurrent

\* A write of the TLB may leave the authorised page behind, but not unseen.
LEMMA WriteTlbHolds ==
    ASSUME FetchInv, NEW set \in TlbSet, FetchWriteTlb(set)
    PROVE  FetchInv'
<1> DEFINE Written ==
        /\ immu' \in MmuType /\ immu'.authed_page = NoPage
        /\ immu'.enabled = immu.enabled
        /\ \A other \in TlbSet : other # set => /\ immu'.match[other] = immu.match[other]
                                                /\ immu'.translate[other] = immu.translate[other]
<1>1. Written
  <2>0. immu \in MmuType
    BY DEF FetchInv, FetchTypeOK
  <2>1. ASSUME NEW page \in Page \cup {NoPage}, immu' = SetMatch(immu, set, page)
        PROVE  Written
    BY <2>0, <2>1, SetMatchOK
  <2>2. ASSUME NEW tr \in Translation, immu' = SetTranslate(immu, set, tr)
        PROVE  Written
    BY <2>0, <2>2, SetTranslateOK
  <2> QED
    BY <2>1, <2>2 DEF FetchWriteTlb
<1>2. FetchTypeOK'
  BY <1>1 DEF FetchWriteTlb, FetchInv, FetchTypeOK
<1>3. InstructionCacheAgrees'
  BY <1>1 DEF InstructionCacheAgrees, CacheAgrees
<1>4. AuthedPageIsCurrent'
  <2>1. CASE authed_page = NoPage
    BY <2>1 DEF FetchWriteTlb, AuthedPageIsCurrent
  <2>2. CASE authed_page # NoPage
    <3>1. authed_page \in Page /\ SetOf(authed_page) \in TlbSet
      BY <2>2, SetOfType DEF FetchInv, FetchTypeOK
    <3>2. ~stale' => Mapped(authed_page)' = Mapped(authed_page)
      <4> SUFFICES ASSUME ~stale' PROVE Mapped(authed_page)' = Mapped(authed_page)
        OBVIOUS
      <4>1. ~immu.enabled \/ SetOf(authed_page) # set
        BY <2>2 DEF FetchWriteTlb
      <4>2. sm' = sm /\ authed_page' = authed_page
        BY DEF FetchWriteTlb
      <4> QED
        BY <1>1, <3>1, <4>1, <4>2 DEF Mapped, MapAddress, Hits, EntryOf
    <3> QED
      BY <2>2, <3>2 DEF FetchWriteTlb, FetchInv, AuthedPageIsCurrent
  <2> QED
    BY <2>1, <2>2
<1> QED
  BY <1>2, <1>3, <1>4 DEF FetchInv

\* What a translation leaves in the unit: its registers, and a cache that
\* agrees with them.
LEMMA LookedOK ==
    ASSUME FetchInv, NEW page \in Page
    PROVE  /\ Looked(page) \in MmuType
           /\ CacheAgrees(Looked(page))
           /\ Looked(page).enabled = immu.enabled
           /\ Looked(page).match = immu.match
           /\ Looked(page).translate = immu.translate
<1>1. immu \in MmuType /\ sm \in BOOLEAN /\ FALSE \in BOOLEAN /\ CacheAgrees(immu)
  BY DEF FetchInv, FetchTypeOK, InstructionCacheAgrees
<1>2. CacheAgrees(Looked(page))
  BY <1>1, RememberAgrees DEF Looked
<1> DEFINE n == Remember("Instruction", immu, page, sm, FALSE)
<1>3. /\ n \in MmuType
      /\ n.enabled = immu.enabled /\ n.match = immu.match /\ n.translate = immu.translate
  <2>1. ASSUME NEW is_write \in BOOLEAN
        PROVE  LET r == Remember("Instruction", immu, page, sm, is_write) IN
               /\ r \in MmuType
               /\ r.enabled = immu.enabled /\ r.match = immu.match
               /\ r.translate = immu.translate
    BY <1>1, RememberCases
  <2> QED
    BY <2>1
<1>4. Looked(page) = n
  BY DEF Looked
<1> HIDE DEF n
<1> QED
  BY <1>2, <1>3, <1>4

\* A reload leaves no page authorised either.
LEMMA ReloadHolds == ASSUME FetchInv, FetchReload PROVE FetchInv'
<1>1. immu \in MmuType
  BY DEF FetchInv, FetchTypeOK
<1>2. Reset(immu) \in MmuType
  BY <1>1 DEF Reset, ClearFastAuthCache, MmuType
<1> QED
  BY <1>2, SetSRHolds DEF FetchReload, FetchInv, FetchTypeOK

\* Every fetch, and every write of a register, keeps the invariant.
LEMMA FetchStepHolds == FetchInv /\ [FetchNext]_fetchVars => FetchInv'
<1> SUFFICES ASSUME FetchInv, [FetchNext]_fetchVars PROVE FetchInv'
  OBVIOUS
<1>1. ASSUME NEW is_sm \in BOOLEAN, NEW b \in BOOLEAN, FetchWriteSR(is_sm, b) PROVE FetchInv'
  BY <1>1, SetSRHolds DEF FetchWriteSR, FetchInv, FetchTypeOK
<1>2. ASSUME NEW set \in TlbSet, FetchWriteTlb(set) PROVE FetchInv'
  BY <1>2, WriteTlbHolds
<1>3. ASSUME NEW page \in Page, FetchFast(page) PROVE FetchInv'
  BY <1>3 DEF FetchFast, FetchInv, FetchTypeOK, InstructionCacheAgrees, AuthedPageIsCurrent,
              Mapped, Outcome
<1>4. ASSUME NEW page \in Page, FetchRefused(page) PROVE FetchInv'
  <2>1. fetched'.exception \in {"None", "ITLBMiss", "InstructionPageFault"}
    BY <1>4, MappedExceptions DEF FetchRefused, Outcome
  <2>2. Looked(page) \in MmuType
    BY LookedOK
  <2> QED
    BY <1>4, <2>1, <2>2, SetSRHolds DEF FetchRefused, FetchInv
<1>5. ASSUME NEW page \in Page, FetchSlow(page) PROVE FetchInv'
  <2>1. Mapped(page).page \in Page
    BY MappedPage DEF FetchInv
  <2>2. FetchTypeOK'
    BY <1>5, <2>1, LookedOK DEF FetchSlow, FetchInv, FetchTypeOK, Outcome
  <2>3. InstructionCacheAgrees'
    BY <1>5, LookedOK DEF FetchSlow, InstructionCacheAgrees
  <2>4. Mapped(page)' = Mapped(page)
    BY <1>5, LookedOK, MappedDependsOn DEF FetchSlow
  <2>5. Mapped(page) = [exception |-> "None", page |-> Mapped(page).page]
    BY <1>5 DEF FetchSlow, Mapped, MapAddress, MissOf, FaultOf
  <2>6. AuthedPageIsCurrent'
    BY <1>5, <2>4, <2>5 DEF FetchSlow, AuthedPageIsCurrent
  <2> QED
    BY <2>2, <2>3, <2>6 DEF FetchInv
<1>6. ASSUME NEW page \in Page, FetchOutsideRam(page) PROVE FetchInv'
  <2>1. FetchTypeOK'
    BY <1>6, LookedOK DEF FetchOutsideRam, FetchInv, FetchTypeOK, Outcome
  <2>2. InstructionCacheAgrees'
    BY <1>6, LookedOK DEF FetchOutsideRam, InstructionCacheAgrees
  <2>3. authed_page # NoPage => Mapped(authed_page)' = Mapped(authed_page)
    BY <1>6, LookedOK DEF FetchOutsideRam, Mapped, MapAddress, Hits, EntryOf
  <2>4. AuthedPageIsCurrent'
    BY <1>6, <2>3 DEF FetchOutsideRam, FetchInv, AuthedPageIsCurrent
  <2> QED
    BY <2>1, <2>2, <2>4 DEF FetchInv
<1>7. CASE UNCHANGED fetchVars
  BY <1>7 DEF fetchVars, FetchInv, FetchTypeOK, InstructionCacheAgrees, AuthedPageIsCurrent,
              Mapped
<1> QED
  BY <1>1, <1>2, <1>3, <1>4, <1>5, <1>6, <1>7, ReloadHolds DEF FetchNext

\* The invariant of instruction fetch.
THEOREM FetchInvariant == FetchSpec => []FetchInv
BY FetchInitHolds, FetchStepHolds, PTL DEF FetchSpec

\* Type correctness of the instruction MMU and of the outcome of a fetch.
THEOREM FetchTypeCorrect == FetchSpec => []FetchTypeOK
<1>1. FetchInv => FetchTypeOK
  BY DEF FetchInv
<1> QED
  BY <1>1, FetchInvariant, PTL

\* The instruction MMU's own one-page cache agrees with its TLB.
THEOREM InstructionCacheNeverStale == FetchSpec => []InstructionCacheAgrees
<1>1. FetchInv => InstructionCacheAgrees
  BY DEF FetchInv
<1> QED
  BY <1>1, FetchInvariant, PTL

\* The page the core runs in is the translation of the moment, unless the
\* guest has rewritten the TLB entry it runs by.
THEOREM RunningPageIsCurrent == FetchSpec => []AuthedPageIsCurrent
<1>1. FetchInv => AuthedPageIsCurrent
  BY DEF FetchInv
<1> QED
  BY <1>1, FetchInvariant, PTL

\* One fetch gives what the registers prescribe, or comes from the stale page.
LEMMA FetchIsTranslated ==
    ASSUME FetchInv, [FetchNext]_fetchVars, fetched' # fetched
    PROVE  LET mapped == Mapped(fetched'.of) IN
           \/ stale /\ fetched'.of = authed_page
           \/ /\ fetched'.exception = mapped.exception
              /\ fetched'.page =
                     IF mapped.exception = "None" /\ IsRam(mapped.page)
                     THEN mapped.page ELSE NoPage
<1>1. PICK page \in Page : FetchFast(page) \/ FetchRefused(page)
                           \/ FetchSlow(page) \/ FetchOutsideRam(page)
  BY DEF FetchNext, FetchWriteSR, FetchReload, FetchWriteTlb, fetchVars
<1>2. CASE FetchFast(page)
  <2>1. page # NoPage /\ page = authed_page /\ fetched' = Outcome(page, "None", authed_phy)
    BY <1>2, MmuAssumption DEF FetchFast
  <2>2. IsRam(authed_phy) /\ (~stale => Mapped(page) = [exception |-> "None", page |-> authed_phy])
    BY <2>1 DEF FetchInv, AuthedPageIsCurrent
  <2> QED
    BY <2>1, <2>2 DEF Outcome
<1>3. CASE FetchRefused(page)
  BY <1>3 DEF FetchRefused, Outcome
<1>4. CASE FetchSlow(page)
  BY <1>4 DEF FetchSlow, Outcome
<1>5. CASE FetchOutsideRam(page)
  BY <1>5 DEF FetchOutsideRam, Outcome
<1> QED
  BY <1>1, <1>2, <1>3, <1>4, <1>5

\* Every instruction the core runs comes from the page the MMU registers of
\* the moment prescribe, or from the one page gone stale (CPU::Run).
THEOREM FetchIsRight == FetchSpec => FetchesAreTranslated
<1>1. FetchInv /\ [FetchNext]_fetchVars =>
        [fetched' # fetched =>
           LET mapped == Mapped(fetched'.of) IN
           \/ stale /\ fetched'.of = authed_page
           \/ /\ fetched'.exception = mapped.exception
              /\ fetched'.page =
                     IF mapped.exception = "None" /\ IsRam(mapped.page)
                     THEN mapped.page ELSE NoPage]_fetchVars
  BY FetchIsTranslated
<1> QED
  BY <1>1, FetchInvariant, PTL DEF FetchSpec, FetchesAreTranslated
=============================================================================
