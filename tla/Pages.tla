------------------------------- MODULE Pages --------------------------------
(***************************************************************************)
(* The pages of one memory map, for --pfn and --phys.                      *)
(*                                                                         *)
(* readPagemapInfo() asks three files of /proc about every page, one after *)
(* the other (pagemap.c, pagecount.c, pageflags.c); each file is opened by *)
(* the first read and its descriptor is kept in a static variable until    *)
(* closePagemap().  printMaps() then prints a row for each page (--pfn) or *)
(* one for each run of pages that comparePages() finds alike (--phys).     *)
(*                                                                         *)
(* Of the thirty flags of a page, two that comparePages() compares stand   *)
(* for all of those, one of pagemap and one of kpageflags, and `dirty' is  *)
(* itself.  The number of times a page is mapped is only printed: its file *)
(* is opened and read here, its value is left out.                         *)
(***************************************************************************)
EXTENDS Naturals, Sequences, SequencesExt

CONSTANTS
    NumPages,   \* pages of the map
    PFNs,       \* page frame numbers
    Offsets,    \* swap offsets
    Types,      \* swap types
    PageSize,   \* bytes of a page
    Ram         \* physical addresses whose region is "System RAM"

ASSUME PagesAssumption ==
    /\ NumPages \in Nat \ {0} /\ PageSize \in Nat \ {0}
    /\ PFNs \subseteq Nat /\ Offsets \subseteq Nat /\ Types \subseteq Nat
    /\ 0 \in PFNs \cap Offsets \cap Types
    /\ Ram \subseteq Nat

Files == {"pagemap", "kpagecount", "kpageflags"}
PagemapFlags == {"soft_dirty"}
PageFlags    == {"locked", "dirty"}
Flags        == PagemapFlags \cup PageFlags

\* The entries the kernel answers with: not present, swapped or present.
Entries ==
    {e \in [present : BOOLEAN, swapped : BOOLEAN, type : Types,
            offset : Offsets, pfn : PFNs, bits : SUBSET PagemapFlags] :
        /\ ~ (e.present /\ e.swapped)
        /\ ~ e.swapped => e.type = 0 /\ e.offset = 0
        /\ ~ e.present => e.pfn = 0}

\* What the process knows of a page: the part of struct PageInfo.
PageInfo == [valid : BOOLEAN, present : BOOLEAN, swapped : BOOLEAN,
             swap_type : Types, swap_offset : Nat, pfn : PFNs,
             flags : SUBSET Flags]

Zeroed == [valid |-> FALSE, present |-> FALSE, swapped |-> FALSE,
           swap_type |-> 0, swap_offset |-> 0, pfn |-> 0, flags |-> {}]

VARIABLES
    includePhysicalPageSummary, \* --phys; otherwise it is --pfn
    step,       \* what the process does next
    cached,     \* the files whose static descriptor is not -1
    fds,        \* the descriptors the process has open on each file
    page,       \* the page being read
    pages,      \* the pages read
    rows,       \* the rows printed
    startPage,  \* the first page of the row being printed
    entries     \* history: the entry of each page, as the kernel holds it

vars == <<includePhysicalPageSummary, step, cached, fds, page, pages, rows,
          startPage, entries>>

Init ==
    /\ includePhysicalPageSummary \in BOOLEAN
    /\ step = "pagemap"
    /\ cached = {} /\ fds = [f \in Files |-> 0]
    /\ page = Zeroed /\ pages = <<>>
    /\ rows = <<>> /\ startPage = 1
    /\ entries = <<>>

-----------------------------------------------------------------------------
(* Reading *)

\* open(), unless the static descriptor is set.
OpenCached(f) ==
    IF f \in cached THEN UNCHANGED <<cached, fds>>
    ELSE /\ cached' = cached \cup {f}
         /\ fds' = [fds EXCEPT ![f] = @ + 1]

\* FATAL_ERROR: open() fails, the process exits.
OpenFails ==
    /\ step \in Files \ cached
    /\ step' = "failure"
    /\ UNCHANGED <<includePhysicalPageSummary, cached, fds, page, pages, rows,
                   startPage, entries>>

\* The bits of a pagemap entry.  The mask of swap_offset is 0x007FFFFFFFFFFFC0:
\* it drops bit 5, the lowest one of the offset, with bits 0 to 4.
Decode(e) ==
    [Zeroed EXCEPT
        !.valid = TRUE, !.present = e.present, !.swapped = e.swapped,
        !.swap_type = IF e.swapped THEN e.type ELSE 0,
        !.swap_offset = IF e.swapped THEN e.offset - (e.offset % 2) ELSE 0,
        !.pfn = IF e.swapped THEN 0 ELSE e.pfn,
        !.flags = e.bits]

\* The page is stored and the loop of readPagemapInfo() goes on.
Store(p) ==
    /\ pages' = Append(pages, p)
    /\ page' = Zeroed
    /\ step' = IF Len(pages) + 1 < NumPages THEN "pagemap" ELSE "print"

\* getPageInfo() up to line 147.  A failing pread() makes the page invalid,
\* and the other files are not asked.
ReadPagemap ==
    /\ step = "pagemap"
    /\ OpenCached("pagemap")
    /\ \E e \in Entries :
        /\ entries' = Append(entries, e)
        /\ \/ page' = Decode(e) /\ step' = "kpagecount" /\ UNCHANGED pages
           \/ Store(Zeroed)
    /\ UNCHANGED <<includePhysicalPageSummary, rows, startPage>>

\* getPagecount(), for PFN 0 if the page is swapped or not present.
ReadPagecount ==
    /\ step = "kpagecount"
    /\ OpenCached("kpagecount")
    /\ step' = "kpageflags"
    /\ UNCHANGED <<includePhysicalPageSummary, page, pages, rows, startPage,
                   entries>>

\* getPageflags(), the same.  No flag is set when pread() fails.
ReadPageflags ==
    /\ step = "kpageflags"
    /\ OpenCached("kpageflags")
    /\ \E flags \in SUBSET PageFlags :
          Store([page EXCEPT !.flags = @ \cup flags])
    /\ UNCHANGED <<includePhysicalPageSummary, rows, startPage, entries>>

-----------------------------------------------------------------------------
(* Printing *)

\* get_iomem_region_description().
Description(physAddr) == IF physAddr \in Ram THEN "System RAM" ELSE "Unmapped RAM"

\* What printPageContext() and printPageFlags() print about page p, apart from
\* its addresses.
Text(p) ==
    LET line(kind, type, offset, pfn, flags, region) ==
            [kind |-> kind, type |-> type,
             offset |-> IF includePhysicalPageSummary THEN 0 ELSE offset,
             pfn    |-> IF includePhysicalPageSummary THEN 0 ELSE pfn,
             flags |-> flags, region |-> region]
    IN  CASE ~ p.valid  -> line("not read", 0, 0, 0, {}, "")
          [] p.valid /\ p.swapped ->
                line("swapped", p.swap_type, p.swap_offset, 0, {}, "")
          [] p.valid /\ ~ p.swapped /\ ~ p.present ->
                line("not present", 0, 0, 0, {}, "")
          [] p.valid /\ ~ p.swapped /\ p.present ->
                line("present", 0, 0, p.pfn, p.flags, Description(p.pfn))

Nowhere(p) == ~ p.present /\ ~ p.swapped

\* The fields comparePages() compares one by one.
Compared(p) == <<p.valid, p.swap_type, p.swap_offset, p.swapped, p.present,
                 p.flags \ {"dirty"}, Description(p.pfn)>>

\* Mistaken: swapped pages are compared field by field as well.
SameFlagsSwappedToo(left, right) ==
    \/ Nowhere(left) /\ Nowhere(right)
    \/ Compared(left) = Compared(right)

\* Mistaken: what kpageflags says is ignored.
SameFlagsPagemap(left, right) ==
    \/ Nowhere(left) /\ Nowhere(right)
    \/ left.swapped /\ right.swapped /\ left.swap_type = right.swap_type
    \/ Compared([left EXCEPT !.flags = @ \ PageFlags])
         = Compared([right EXCEPT !.flags = @ \ PageFlags])

\* comparePages() of two pages of different addresses.
SameFlags(left, right) ==
    \/ Nowhere(left) /\ Nowhere(right)
    \/ left.swapped /\ right.swapped /\ left.swap_type = right.swap_type
    \/ Compared(left) = Compared(right)

Row(first, last) ==
    [first |-> first, last |-> last, bytes |-> (last - first + 1) * PageSize,
     text |-> Text(pages[last])]

PrintStep ==
    /\ step = "print"
    /\ UNCHANGED <<includePhysicalPageSummary, cached, fds, page, pages, entries>>

\* --pfn: printFullPhysicalPage() for each page.
PrintFullPhysicalPages ==
    /\ PrintStep /\ ~ includePhysicalPageSummary
    /\ rows' = [i \in 1 .. NumPages |-> Row(i, i)]
    /\ step' = "close" /\ UNCHANGED startPage

\* The first page from i on that differs from the next one, or the last page.
RunEnd(i) == CHOOSE j \in i .. NumPages :
                 /\ j = NumPages \/ ~ SameFlags(pages[j], pages[j + 1])
                 /\ \A k \in i .. j - 1 : SameFlags(pages[k], pages[k + 1])

\* Mistaken: a row begins with the last page of the one before it.
NextStartLate(i) == i

NextStart(i) == i + 1

\* --phys: the next row of printPageSummary().
PrintPageSummary ==
    /\ PrintStep /\ includePhysicalPageSummary
    /\ LET last == RunEnd(startPage)
       IN  /\ rows' = Append(rows, Row(startPage, last))
           /\ startPage' = NextStart(last)
           /\ step' = IF last = NumPages THEN "close" ELSE "print"

\* Mistaken: pageflags is not closed.
closePagemapTwo ==
    /\ fds' = [f \in Files |-> IF f \in cached \ {"kpageflags"} THEN fds[f] - 1 ELSE fds[f]]
    /\ cached' = cached \cap {"kpageflags"}

\* Each cached descriptor is closed and forgotten.
closePagemap ==
    /\ fds' = [f \in Files |-> IF f \in cached THEN fds[f] - 1 ELSE fds[f]]
    /\ cached' = {}

Close ==
    /\ step = "close"
    /\ closePagemap
    /\ step' = "done"
    /\ UNCHANGED <<includePhysicalPageSummary, page, pages, rows, startPage, entries>>

Ended == step \in {"done", "failure"} /\ UNCHANGED vars

Next == \/ OpenFails \/ ReadPagemap \/ ReadPagecount \/ ReadPageflags
        \/ PrintFullPhysicalPages \/ PrintPageSummary \/ Close \/ Ended

Spec == Init /\ [][Next]_vars

-----------------------------------------------------------------------------
(* Properties *)

TypeInvariant ==
    /\ step \in Files \cup {"print", "close", "done", "failure"}
    /\ cached \subseteq Files
    /\ fds \in [Files -> Nat]
    /\ page \in PageInfo
    /\ pages \in Seq(PageInfo) /\ Len(pages) <= NumPages
    /\ startPage \in 1 .. NumPages + 1
    /\ step \in {"print", "close", "done"} => Len(pages) = NumPages

\* Whatever fails, the static variables account for every descriptor: a file
\* is opened once for all pages and none is open when the process returns.
NoDescriptorLost ==
    /\ \A f \in Files : fds[f] = IF f \in cached THEN 1 ELSE 0
    /\ step = "done" => cached = {}

\* The rows cover the map: each begins at the page after the end of the one
\* before it, and the last one ends with the map.
RowsCover ==
    /\ \A r \in DOMAIN rows :
        /\ rows[r].first = IF r = 1 THEN 1 ELSE rows[r - 1].last + 1
        /\ rows[r].first <= rows[r].last
    /\ step \in {"close", "done"} =>
        rows # <<>> /\ rows[Len(rows)].last = NumPages

\* The rows cover the map, and the sizes they print add up to its size.
RowsPartition ==
    /\ RowsCover
    /\ step \in {"close", "done"} =>
        FoldSeq(LAMBDA row, sum : row.bytes + sum, 0, rows) = NumPages * PageSize

\* Where a row and one of its own pages may differ.  A page that could not be
\* read keeps its zeros (pagemap.c:123-126) and is combined with pages that are
\* not present; and comparePages() compares every flag but `dirty'.
FailureHidden(row, own) == {row.kind, own.kind} = {"not read", "not present"}
DirtyIgnored(row, own) ==
    /\ row.flags \ {"dirty"} = own.flags \ {"dirty"}
    /\ [row EXCEPT !.flags = own.flags] = own

\* A row prints its last page and stands for all the others, which were only
\* compared with their neighbours (pagemap.c:380-403).  Two differences are all
\* there is: no page that is present, swapped, of another swap type or region or
\* with other flags is lost in a row.  With --pfn there is none.
RowSpeaksForItsPages ==
    \A r \in DOMAIN rows : \A i \in rows[r].first .. rows[r].last :
        LET row == rows[r].text
            own == Text(pages[i])
        IN  \/ row = own
            \/ /\ includePhysicalPageSummary
               /\ FailureHidden(row, own) \/ DirtyIgnored(row, own)

\* --phys is as short as it can be: a row that could be merged with the one
\* before it would not be printed.
NeighbouringRowsDiffer ==
    includePhysicalPageSummary =>
        \A r \in 1 .. Len(rows) - 1 : rows[r].text # Text(pages[rows[r + 1].first])

\* pagemap.c:295-296 says that --phys combines identical pages into one row:
\* what a row prints is then true of each of its pages.  The code does not do
\* this: each of the two differences alone violates it.
RowsCombineIdentical ==
    \A r \in DOMAIN rows : \A i \in rows[r].first .. rows[r].last :
        rows[r].text = Text(pages[i])

\* pagemap.c:16 and 134 say that bits 5 to 54 are the swap offset: a swapped
\* page has the offset the kernel gave.
SwapOffsetDecoded ==
    \A i \in DOMAIN pages :
        pages[i].valid /\ pages[i].swapped =>
            pages[i].swap_offset = entries[i].offset

\* iomem.h:27-30 describes the region at a physical address: the region that
\* is printed with a page is the one its frame is in.
RegionOfTheFrame ==
    \A r \in DOMAIN rows :
        rows[r].text.kind = "present" =>
            rows[r].text.region = Description(pages[rows[r].last].pfn * PageSize)
=============================================================================
