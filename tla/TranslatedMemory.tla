-------------------------- MODULE TranslatedMemory --------------------------
(***************************************************************************)
(* What loads and stores mean to the guest: the page is translated by the  *)
(* TLB as it stands, its permissions are those of the current mode, and    *)
(* the physical page is RAM, a device or nothing.  There is no cache, and  *)
(* nothing an access leaves behind but the stored value.  Two accesses     *)
(* are less than that: ReadOfWritable, and the half word in WriteValue.    *)
(***************************************************************************)
EXTENDS Naturals

CONSTANTS Page, RamPages, UsedSets, Translation, NoPage, DevicePage, Value

VARIABLES
    match, translate, enabled,  \* the data TLB
    sm,                         \* supervisor mode
    mem,                        \* contents of RAM
    reply                       \* outcome of the last access

tlbVars    == <<match, translate, enabled, sm>>
memoryVars == <<tlbVars, mem, reply>>

Ram    == 0 .. RamPages - 1
Sets   == 0 .. UsedSets - 1
NoValue == "no value"

MemoryInit ==
    /\ match = [s \in Sets |-> NoPage]
    /\ translate \in [Sets -> Translation]
    /\ enabled = FALSE /\ sm = TRUE
    /\ mem \in [Ram -> Value]
    /\ reply = [of |-> NoPage, exception |-> "None", page |-> NoPage, value |-> NoValue]

\* The guest reprograms the unit or changes mode.
Configure ==
    /\ \/ \E s \in Sets, page \in Page \cup {NoPage} :
              match' = [match EXCEPT ![s] = page] /\ UNCHANGED <<translate, enabled, sm>>
       \/ \E s \in Sets, tr \in Translation :
              translate' = [translate EXCEPT ![s] = tr] /\ UNCHANGED <<match, enabled, sm>>
       \/ enabled' \in BOOLEAN /\ sm' \in BOOLEAN /\ UNCHANGED <<match, translate>>
    /\ UNCHANGED <<mem, reply>>

\* Another image is loaded, into a unit that maps nothing.
Reload ==
    /\ match' = [s \in Sets |-> NoPage]
    /\ enabled' = FALSE /\ sm' = TRUE
    /\ mem' \in [Ram -> Value]
    /\ UNCHANGED <<translate, reply>>

-----------------------------------------------------------------------------
Entry(page)  == translate[page % UsedSets]
Mapped(page) == match[page % UsedSets] = page
Readable(page) == \/ "URE" \in Entry(page).perms
                  \/ sm /\ "SRE" \in Entry(page).perms
Writable(page) == \/ "UWE" \in Entry(page).perms
                  \/ sm /\ "SWE" \in Entry(page).perms

\* The exception a translation raises; allowed says what the page permits.
Exception(page, allowed) ==
    IF ~enabled THEN "None"
    ELSE IF ~Mapped(page) THEN "DTLBMiss"
    ELSE IF ~allowed THEN "DataPageFault" ELSE "None"
Physical(page) == IF enabled THEN Entry(page).page ELSE page

Refuse(of, exception) ==
    /\ reply' = [of |-> of, exception |-> exception, page |-> NoPage, value |-> NoValue]
    /\ UNCHANGED mem
Answer(of, page, value) ==
    reply' = [of |-> of, exception |-> "None", page |-> page, value |-> value]

\* The UART answers bytes in its range; nothing answers at the other addresses.
Device(of, page, width, inRange) ==
    IF page = DevicePage /\ width = 8 /\ inRange
    THEN Answer(of, page, NoValue) /\ UNCHANGED mem
    ELSE Refuse(of, "BusError")

Read(page, width, inRange) ==
    LET exception == Exception(page, Readable(page))
        physical  == Physical(page) IN
    IF exception # "None" THEN Refuse(page, exception)
    ELSE IF physical \in Ram
         THEN Answer(page, physical, mem[physical]) /\ UNCHANGED mem
         ELSE Device(page, physical, width, inRange)

\* A word of RAM may be read, depending on what was accessed last, where the mode
\* may write and not read: write access to a page is read access to its words.
ReadOfWritable(page) ==
    /\ enabled /\ Exception(page, Writable(page)) = "None" /\ Physical(page) \in Ram
    /\ Answer(page, Physical(page), mem[Physical(page)]) /\ UNCHANGED mem

\* A half word that is stored to a virtual page below the end of RAM is taken for
\* one in RAM, and lost where its physical page is none.
WriteValue(page, width, inRange, value) ==
    LET exception == Exception(page, Writable(page))
        physical  == Physical(page) IN
    IF exception # "None" THEN Refuse(page, exception)
    ELSE IF physical \in Ram
         THEN Answer(page, physical, NoValue) /\ mem' = [mem EXCEPT ![physical] = value]
    ELSE IF width = 16 /\ page \in Ram
         THEN Answer(page, NoPage, NoValue) /\ UNCHANGED mem
         ELSE Device(page, physical, width, inRange)

Access ==
    /\ \E page \in Page :
        \/ ReadOfWritable(page)
        \/ \E width \in {8, 16, 32} :
            \/ width # 8 /\ Refuse(page, "Alignment")
            \/ \E inRange \in BOOLEAN :
                \/ Read(page, width, inRange)
                \/ \E value \in Value : WriteValue(page, width, inRange, value)
    /\ UNCHANGED tlbVars

MemoryNext == Configure \/ Reload \/ Access

MemorySpec == MemoryInit /\ [][MemoryNext]_memoryVars
=============================================================================
