-------------------------------- MODULE Maps --------------------------------
(***************************************************************************)
(* The list of mapped regions in maps.c, and the filters of config.c that  *)
(* select from it: getMaps(), scanMaps(), readPagemapInfo(), printMaps()   *)
(* and releaseMaps(), in the order main() calls them for its own process.  *)
(*                                                                         *)
(* The kernel writes /proc/self/maps region by region: sorted, disjoint    *)
(* and in whole pages.  A region is a record, the linked lists are         *)
(* sequences, and the walks along them take one step per region.  What a   *)
(* scan computes from the bytes is left out, that it reads them is not.    *)
(***************************************************************************)
EXTENDS Integers, SequencesExt

CONSTANTS
    PageSize,      \* 1 << getPageSizeInBits()
    Limit,         \* the end of the address space
    MaxRegions,    \* bound: the regions of the process
    Permissions,   \* what sPermissions may be: subsets of {"r", "w", "x"}
    Paths,         \* what sPath may be, NoPath for NULL; it is cut at a blank
    NoPath,
    ExcludePaths,
    Arguments,     \* the filters that may be on the command line
    MaxFilters     \* bound: the number of them

ASSUME MapsAssumption ==
    /\ PageSize \in Nat \ {0} /\ Limit \in Nat /\ MaxRegions \in Nat
    /\ MaxFilters \in Nat
    /\ NoPath \in Paths /\ ExcludePaths \subseteq Paths \ {NoPath}
    /\ \A f \in Arguments :
          /\ f.type \in {"INDEX", "ADDRESS", "PERMISSION", "PATTERN"}
          /\ f.type = "ADDRESS" => f.address \in Nat

VARIABLES
    scanForByte,    \* --scan_byte
    scanForShannon, \* --shannon
    physical,       \* --pfn or --phys
    filterHead,     \* the list of filters
    maps,           \* the list of regions
    step,           \* the function under way, or "filters", "ended", "failure"
    currentMap,     \* the region the walk has come to
    touched,        \* history: how often the process has read each address
    rows            \* what was printed

options == <<scanForByte, scanForShannon, physical>>
vars == <<options, filterHead, maps, step, currentMap, touched, rows>>

Addresses == 0 .. Limit
Pages     == {a \in Addresses : a % PageSize = 0}

Init ==
    /\ scanForByte \in BOOLEAN /\ scanForShannon \in BOOLEAN
    /\ physical \in BOOLEAN
    /\ filterHead = <<>> /\ maps = <<>>
    /\ step = "filters"
    /\ currentMap = 1
    /\ touched = [a \in Addresses |-> 0]
    /\ rows = <<>>

numPages(m) == (m.end - m.start) \div PageSize
Readable(m) == "r" \in m.permissions

\* FATAL_ERROR: calloc(), malloc(), fopen() or fclose() has failed.
Fails ==
    /\ \/ step = "filters" /\ Len(filterHead) < MaxFilters
       \/ step = "getMaps"
       \/ step = "readPagemapInfo" /\ physical /\ currentMap <= Len(maps)
    /\ step' = "failure"
    /\ UNCHANGED <<options, filterHead, maps, currentMap, touched, rows>>

----------------------------------------------------------------------------

\* processOptions(): a new filter becomes the head of the list.
ProcessFilter ==
    /\ step = "filters"
    /\ Len(filterHead) < MaxFilters
    /\ \E f \in Arguments : filterHead' = <<f>> \o filterHead
    /\ UNCHANGED <<options, maps, step, currentMap, touched, rows>>

Goto(from, to) ==
    /\ step = from
    /\ step' = to
    /\ currentMap' = 1
    /\ UNCHANGED <<options, filterHead, maps, touched, rows>>

\* Mistaken: an address is compared with the last byte of the region.
MatchesLastByte(f, m, found) ==
    CASE f.type = "INDEX"      -> m.index = f.index
      [] f.type = "ADDRESS"    -> m.start <= f.address /\ f.address <= m.end - 1
      [] f.type = "PERMISSION" -> m.permissions = f.permissions
      [] f.type = "PATTERN"    -> f \in found

\* A filter and a region.  The pattern of a filter has no terminator
\* (config.c:422-426): strstr() looks for it and for the bytes that happen to
\* follow it, so that of the patterns in the path only some are found.
Matches(f, m, found) ==
    CASE f.type = "INDEX"      -> m.index = f.index
      [] f.type = "ADDRESS"    -> m.start <= f.address /\ f.address <= m.end
      [] f.type = "PERMISSION" -> m.permissions = f.permissions
      [] f.type = "PATTERN"    -> f \in found

\* Mistaken: every filter overrules the ones before it in the list.
IncludeLast(m, found) ==
    /\ \/ filterHead = <<>>
       \/ Matches(filterHead[Len(filterHead)], m, found)
    /\ m.path \notin ExcludePaths

\* Without filters every region is included; a path can be excluded always.
Include(m, found) ==
    /\ \/ filterHead = <<>>
       \/ \E i \in DOMAIN filterHead : Matches(filterHead[i], m, found)
    /\ m.path \notin ExcludePaths

\* The filters with a pattern that the path contains.
InPath(path) == {f \in Range(filterHead) : f.type = "PATTERN" /\ path \in f.paths}

\* getMaps(): one line of the file becomes an entry at the end of the list.
ReadLine ==
    /\ step = "getMaps"
    /\ Len(maps) < MaxRegions
    /\ \E s, e \in Pages, p \in Permissions, path \in Paths :
          /\ s < e
          /\ maps # <<>> => maps[Len(maps)].end <= s
          /\ \E found \in SUBSET InPath(path) :
                LET m == [index |-> Len(maps), start |-> s, end |-> e,
                          permissions |-> p, path |-> path,
                          include |-> FALSE, pages |-> <<>>]
                IN  maps' = Append(maps, [m EXCEPT !.include = Include(m, found)])
    /\ UNCHANGED <<options, filterHead, step, currentMap, touched, rows>>

\* getMap(): the first region that matches, 0 for NULL.
Covers(m, a) == m.start <= a /\ a <= m.end
getMap(a) ==
    IF \E i \in DOMAIN maps : Covers(maps[i], a)
    THEN CHOOSE i \in DOMAIN maps :
            Covers(maps[i], a) /\ \A j \in 1 .. i - 1 : ~Covers(maps[j], a)
    ELSE 0

----------------------------------------------------------------------------

\* A walk in function f looks at the next region.
Walk(f) ==
    /\ step = f
    /\ currentMap <= Len(maps)
    /\ currentMap' = currentMap + 1
    /\ UNCHANGED <<options, filterHead, step>>

Holds(m, a) == m.start <= a /\ a < m.end

\* Each of the options costs a reading of the region.
Once(option) == IF option THEN 1 ELSE 0
ScanReads    == Once(scanForByte) + Once(scanForShannon)
PageReads    == Once(scanForShannon /\ physical)

\* Mistaken: the byte at pAddressEnd is read, too.
ScanMapPastEnd ==
    /\ Walk("scanMaps")
    /\ LET m == maps[currentMap]
       IN  touched' = [a \in Addresses |->
              IF Readable(m) /\ m.include /\ m.start <= a /\ a <= m.end
              THEN touched[a] + ScanReads ELSE touched[a]]
    /\ UNCHANGED <<maps, rows>>

\* scanMaps(): --scan_byte and --shannon each read every byte up to, and not
\* including, pAddressEnd.
ScanMap ==
    /\ Walk("scanMaps")
    /\ LET m == maps[currentMap]
       IN  touched' = [a \in Addresses |->
              IF Readable(m) /\ m.include /\ Holds(m, a)
              THEN touched[a] + ScanReads ELSE touched[a]]
    /\ UNCHANGED <<maps, rows>>

\* getPageInfo() reads all of a page for its entropy, if it is told that it may.
ReadForEntropy(m) ==
    touched' = [a \in Addresses |->
       IF Readable(m) /\ m.include /\ Holds(m, a)
       THEN touched[a] + PageReads ELSE touched[a]]

\* Mistaken: only a region that is read gets an array.
ReadPagesIncluded ==
    /\ physical
    /\ Walk("readPagemapInfo")
    /\ LET m == maps[currentMap]
       IN  /\ maps' = [maps EXCEPT ![currentMap].pages =
                 IF Readable(m) /\ m.include THEN [j \in 1 .. numPages(m) |-> TRUE] ELSE <<>>]
           /\ ReadForEntropy(m)
    /\ UNCHANGED rows

\* readPagemapInfo(): each region gets an array with a record for each page,
\* here the flag okToRead that getPageInfo() was called with.
ReadPages ==
    /\ physical
    /\ Walk("readPagemapInfo")
    /\ LET m == maps[currentMap]
       IN  /\ maps' = [maps EXCEPT ![currentMap].pages =
                 [j \in 1 .. numPages(m) |-> Readable(m) /\ m.include]]
           /\ ReadForEntropy(m)
    /\ UNCHANGED rows

\* printMaps(): with filters, what is not included is not printed.
PrintMap ==
    /\ Walk("printMaps")
    /\ LET m    == maps[currentMap]
           says == IF ~Readable(m) THEN "read permission not set"
                   ELSE IF ~m.include THEN "excluded"
                   ELSE "scanned"
       IN  rows' = IF filterHead # <<>> /\ ~m.include THEN rows
                   ELSE Append(rows, [index |-> m.index, says |-> says, pages |-> m.pages])
    /\ UNCHANGED <<maps, touched>>

\* The end of the walk in f.
EndWalk(f, next) == currentMap > Len(maps) /\ Goto(f, next)

\* releaseMaps(): from the head on.
ReleaseMap ==
    /\ step = "releaseMaps"
    /\ maps # <<>>
    /\ maps' = Tail(maps)
    /\ UNCHANGED <<options, filterHead, step, currentMap, touched, rows>>

\* reset_config() releases the filters, and main() returns.
ResetConfig ==
    /\ step = "releaseMaps"
    /\ maps = <<>>
    /\ filterHead' = <<>>
    /\ step' = "ended"
    /\ UNCHANGED <<options, maps, currentMap, touched, rows>>

Ended == step \in {"ended", "failure"} /\ UNCHANGED vars

Next ==
    \/ ProcessFilter \/ Goto("filters", "getMaps")
    \/ ReadLine \/ Goto("getMaps", "scanMaps")
    \/ ScanMap \/ EndWalk("scanMaps", "readPagemapInfo")
    \/ ReadPages
    \/ EndWalk("readPagemapInfo", "printMaps")
    \/ ~physical /\ Goto("readPagemapInfo", "printMaps")
    \/ PrintMap \/ EndWalk("printMaps", "releaseMaps")
    \/ ReleaseMap \/ ResetConfig
    \/ Fails \/ Ended

Spec == Init /\ [][Next]_vars

----------------------------------------------------------------------------

\* Every byte of the regions that are readable and selected is read as often as
\* the options ask for it: once for --scan_byte, once for --shannon and, if the
\* pages are printed, once more for their entropy (maps.c:336-346, pagemap.c:97).
\* No other address is touched: one byte more would, at the last region before a
\* gap, be the end of the process.
TouchesTheSelection ==
    \A a \in Addresses :
       LET selected == \E m \in Range(maps) : m.include /\ Readable(m) /\ Holds(m, a)
       IN  /\ step \notin {"releaseMaps", "ended"} =>
                 touched[a] <= IF selected THEN ScanReads + PageReads ELSE 0
           /\ step = "readPagemapInfo" /\ selected => touched[a] >= ScanReads
           /\ step = "printMaps" /\ selected => touched[a] = ScanReads + PageReads

\* What the documentation says that a filter selects: the usage text
\* (config.c:55-60) and struct Filter (config.h:219-230).
Documented(f, i) ==
    \/ f.type = "INDEX" /\ f.index = i - 1
    \/ f.type = "ADDRESS" /\ Holds(maps[i], f.address)
    \/ f.type = "PERMISSION" /\ f.permissions \subseteq maps[i].permissions
    \/ f.type = "PATTERN" /\ maps[i].path \in f.paths

\* Where the code differs.  An address also selects a region that ends right
\* before it (maps.c:236); permissions miss a region that has others besides
\* (maps.c:242-244); and a pattern may miss any path (config.c:426).
NextDoor(f, i) == f.type = "ADDRESS" /\ f.address = maps[i].end
Missed(f, i)   == f.type = "PERMISSION" /\ f.permissions # maps[i].permissions
MayMiss(f)     == f.type = "PATTERN"
Selects(f, i)  == NextDoor(f, i) \/ (Documented(f, i) /\ ~Missed(f, i))

\* The three differences are all there is: whatever filters are given, in
\* whatever order, they select the union of what each of them selects, and an
\* excluded path stays excluded (maps.c:221-270).
SelectionIsTheUnion ==
    step # "releaseMaps" =>
       \A i \in DOMAIN maps :
          LET filters == Range(filterHead)
              allowed == maps[i].path \notin ExcludePaths
          IN  /\ maps[i].include =>
                    allowed /\ (filters = {} \/ \E f \in filters : Selects(f, i))
              /\ allowed /\ (filters = {} \/ \E f \in filters : Selects(f, i) /\ ~MayMiss(f)) =>
                    maps[i].include

\* What the documentation says of the selection.  The code does not do this:
\* each of the three differences alone violates it.
FiltersAsDocumented ==
    step # "releaseMaps" =>
       \A i \in DOMAIN maps :
          maps[i].include <=>
             /\ maps[i].path \notin ExcludePaths
             /\ filterHead = <<>> \/ \E f \in Range(filterHead) : Documented(f, i)

\* An address as the only filter and getMap() find the same region, and at
\* most one more: the neighbour that begins at the address where the one found
\* ends (maps.c:236 and 313 compare with the byte after the end).
AddressAgreesWithGetMap ==
    \A f \in Range(filterHead) :
       f.type = "ADDRESS" /\ Len(filterHead) = 1 /\ step # "releaseMaps" =>
          LET found == getMap(f.address)
          IN  /\ \A i \in DOMAIN maps : maps[i].include =>
                    \/ i = found
                    \/ i = found + 1 /\ maps[i].start = f.address
                                     /\ maps[found].end = f.address
              /\ found # 0 => maps[found].include \/ maps[found].path \in ExcludePaths

\* The regions that have a row so far, and the row of region i.
Shown    == {i \in 1 .. currentMap - 1 : filterHead = <<>> \/ maps[i].include}
Place(i) == Cardinality({j \in Shown : j <= i})

\* Each region has its row, in order, and with filters each selected one.  The
\* row says of a region that it was scanned exactly if its bytes were read and
\* its pages may be read; the "excluded" of a row has a path to print; and
\* the records printed are as many as the region has pages (maps.c:386-448).
RowsTellTheScan ==
    step = "printMaps" =>
       /\ Len(rows) = Cardinality(Shown)
       /\ \A i \in Shown :
             LET m       == maps[i]
                 row     == rows[Place(i)]
                 scanned == row.says = "scanned"
             IN  /\ row.index = m.index
                 /\ row.says = "excluded" => m.path # NoPath
                 /\ scanForByte \/ scanForShannon =>
                       \A a \in Addresses : Holds(m, a) => (touched[a] > 0 <=> scanned)
                 /\ physical => row.pages = [j \in 1 .. numPages(m) |-> scanned]
=============================================================================
