----------------------------- MODULE MapsProofs -----------------------------
(***************************************************************************)
(* Proofs about Maps for any address space and page size, any regions and  *)
(* any filters: the bytes of the selected, readable regions are read as    *)
(* often as the options ask and no others, the selection is the union of   *)
(* what the filters select as the code compares, getMap() agrees with a    *)
(* filter for an address, and the rows tell what was selected, read and    *)
(* looked up.                                                              *)
(***************************************************************************)
EXTENDS Maps, FiniteSetTheorems, TLAPS

Entries == [index : Nat, start : Pages, end : Pages, permissions : Permissions,
            path : Paths, include : BOOLEAN, pages : Seq(BOOLEAN)]

Steps == {"filters", "getMaps", "scanMaps", "readPagemapInfo", "printMaps",
          "releaseMaps", "ended", "failure"}

Shape ==
    /\ filterHead \in Seq(Arguments)
    /\ maps \in Seq(Entries)
    /\ step \in Steps
    /\ currentMap \in Nat \ {0}
    /\ touched \in [Addresses -> Nat]
    /\ step \in {"filters", "ended"} => maps = <<>>
    /\ step = "scanMaps" => currentMap <= Len(maps) + 1

\* The kernel writes the regions in order.
Sorted ==
    /\ \A i \in DOMAIN maps : maps[i].start < maps[i].end
    /\ \A i, j \in DOMAIN maps : i < j => maps[i].end <= maps[j].start

\* What a filter selects for sure, and with a pattern, of which nothing is
\* certain, at the most.
Surely(f, i) ==
    \/ f.type = "INDEX" /\ f.index = i - 1
    \/ f.type = "ADDRESS" /\ Covers(maps[i], f.address)
    \/ f.type = "PERMISSION" /\ f.permissions = maps[i].permissions
AtMost(f, i) == Surely(f, i) \/ (f.type = "PATTERN" /\ maps[i].path \in f.paths)

Allowed(i) == maps[i].path \notin ExcludePaths

Selection ==
    step # "releaseMaps" =>
       \A i \in DOMAIN maps :
          /\ maps[i].include =>
                /\ Allowed(i)
                /\ filterHead = <<>> \/ \E f \in Range(filterHead) : AtMost(f, i)
          /\ Allowed(i) /\ (filterHead = <<>> \/ \E f \in Range(filterHead) : Surely(f, i)) =>
                maps[i].include

\* A walk that reads has come to region n, or past it; and what it has then read
\* of an address.
Chosen(m, a) == m.include /\ Readable(m) /\ Holds(m, a)
ReadBefore(n, a) == \E i \in DOMAIN maps : i < n /\ Chosen(maps[i], a)
Scanned(n, a) == IF ReadBefore(n, a) THEN ScanReads ELSE 0
Entropy(n, a) == IF ReadBefore(n, a) THEN PageReads ELSE 0
Touched ==
    LET last == Len(maps) + 1
    IN  \A a \in Addresses :
           /\ step \in {"filters", "getMaps"} => touched[a] = 0
           /\ step = "scanMaps" => touched[a] = Scanned(currentMap, a)
           /\ step = "readPagemapInfo" =>
                 touched[a] = Scanned(last, a) + Entropy(currentMap, a)
           /\ step = "printMaps" => touched[a] = Scanned(last, a) + Entropy(last, a)
           /\ step = "failure" => touched[a] <= Scanned(last, a) + Entropy(last, a)

IInv == Shape /\ Sorted /\ Selection /\ Touched

----------------------------------------------------------------------------
(* Regions                                                                 *)

LEMMA AddressesAreNatural == \A a \in Addresses : a \in Nat
  BY MapsAssumption DEF Addresses

LEMMA EntryAt ==
    ASSUME Shape, NEW i \in DOMAIN maps
    PROVE  /\ maps[i] \in Entries
           /\ maps[i].start \in Addresses /\ maps[i].end \in Addresses
           /\ maps[i].start \in Nat /\ maps[i].end \in Nat
           /\ i \in 1 .. Len(maps) /\ Len(maps) \in Nat
<1>1. maps[i] \in Entries /\ i \in 1 .. Len(maps) /\ Len(maps) \in Nat
  BY DEF Shape
<1>2. maps[i].start \in Pages /\ maps[i].end \in Pages
  BY <1>1 DEF Entries
<1> QED BY <1>1, <1>2, AddressesAreNatural DEF Pages

\* Setting the pages of a region leaves the rest of it.
LEMMA SetPages ==
    ASSUME NEW m \in Entries, NEW p \in Seq(BOOLEAN)
    PROVE  [m EXCEPT !.pages = p] \in Entries
  BY DEF Entries

LEMMA ReplaceElement ==
    ASSUME NEW S, NEW s \in Seq(S), NEW i \in DOMAIN s, NEW e \in S
    PROVE  /\ [s EXCEPT ![i] = e] \in Seq(S)
           /\ DOMAIN [s EXCEPT ![i] = e] = DOMAIN s
           /\ Len([s EXCEPT ![i] = e]) = Len(s)
  OBVIOUS

LEMMA BooleanSequence ==
    ASSUME NEW n \in Nat, NEW f \in [1 .. n -> BOOLEAN]
    PROVE  f \in Seq(BOOLEAN)
  OBVIOUS

----------------------------------------------------------------------------
(* The steps that leave the list of regions alone                          *)

LEMMA InitIInv == Init => IInv
<1> SUFFICES ASSUME Init PROVE IInv
  OBVIOUS
<1>1. Shape
  <2>1. touched \in [Addresses -> Nat]
    BY DEF Init
  <2> QED BY <2>1 DEF Init, Shape, Steps
<1>2. Sorted /\ Selection
  BY DEF Init, Sorted, Selection
<1>3. Touched
  BY DEF Init, Touched
<1> QED BY <1>1, <1>2, <1>3 DEF IInv

\* The properties of the regions only depend on the list and the filters.
LEMMA SameList ==
    ASSUME IInv, UNCHANGED <<maps, filterHead>>, step # "releaseMaps" \/ step' = "releaseMaps"
    PROVE  Sorted' /\ Selection'
<1>1. Sorted'
  BY DEF IInv, Sorted
<1>2. \A f, i : /\ AtMost(f, i)' = AtMost(f, i)
                /\ Surely(f, i)' = Surely(f, i)
                /\ Allowed(i)' = Allowed(i)
  BY DEF AtMost, Surely, Allowed
<1>3. Selection'
  BY <1>2 DEF IInv, Selection
<1> QED BY <1>1, <1>3

LEMMA ReadsAreNatural ==
    /\ ScanReads \in Nat /\ PageReads \in Nat
    /\ ~physical => PageReads = 0
    /\ scanForByte \/ scanForShannon => ScanReads > 0
<1>1. \A b : Once(b) \in Nat /\ (b => Once(b) = 1) /\ (~b => Once(b) = 0)
  BY DEF Once
<1>2. ScanReads = Once(scanForByte) + Once(scanForShannon)
  BY DEF ScanReads
<1>3. PageReads \in Nat /\ (~physical => PageReads = 0)
  BY <1>1 DEF PageReads
<1> QED BY <1>1, <1>2, <1>3

LEMMA PartsAreNatural == \A n, a : Scanned(n, a) \in Nat /\ Entropy(n, a) \in Nat
  BY ReadsAreNatural DEF Scanned, Entropy

LEMMA SameOptions ==
    ASSUME UNCHANGED options
    PROVE  ScanReads' = ScanReads /\ PageReads' = PageReads
  BY DEF options, ScanReads, PageReads

LEMMA SameReads ==
    ASSUME UNCHANGED <<options, maps>>
    PROVE  \A n, a : /\ Scanned(n, a)' = Scanned(n, a)
                     /\ Entropy(n, a)' = Entropy(n, a)
<1>1. \A n, a : ReadBefore(n, a)' <=> ReadBefore(n, a)
  BY DEF ReadBefore
<1> QED BY <1>1, SameOptions DEF Scanned, Entropy

\* Nothing is read before the first region, or after the last.
LEMMA WalkBounds ==
    ASSUME Shape, NEW a
    PROVE  /\ Scanned(1, a) = 0 /\ Entropy(1, a) = 0
           /\ \A n \in Nat : /\ Entropy(n, a) <= Entropy(Len(maps) + 1, a)
                             /\ n > Len(maps) =>
                                   /\ Scanned(n, a) = Scanned(Len(maps) + 1, a)
                                   /\ Entropy(n, a) = Entropy(Len(maps) + 1, a)
<1>1. \A i \in DOMAIN maps : i \in Nat /\ 1 <= i /\ i <= Len(maps) /\ Len(maps) \in Nat
  BY DEF Shape
<1>2. ~ReadBefore(1, a)
  BY <1>1 DEF ReadBefore
<1>3. ASSUME NEW n \in Nat
      PROVE  /\ ReadBefore(n, a) => ReadBefore(Len(maps) + 1, a)
             /\ n > Len(maps) => (ReadBefore(n, a) <=> ReadBefore(Len(maps) + 1, a))
  BY <1>1 DEF ReadBefore
<1>4. \A n \in Nat : Entropy(n, a) <= Entropy(Len(maps) + 1, a)
  BY <1>3, ReadsAreNatural DEF Entropy
<1> QED BY <1>2, <1>3, <1>4 DEF Scanned, Entropy

LEMMA ProcessFilterInv == IInv /\ ProcessFilter => IInv'
<1> SUFFICES ASSUME IInv, ProcessFilter PROVE IInv'
  OBVIOUS
<1>1. /\ step = "filters" /\ maps = <<>>
      /\ UNCHANGED <<options, maps, step, currentMap, touched>>
  BY DEF ProcessFilter, IInv, Shape
<1>2. filterHead' \in Seq(Arguments)
  BY DEF ProcessFilter, IInv, Shape
<1>3. Shape'
  BY <1>1, <1>2 DEF IInv, Shape
<1>4. Sorted' /\ Selection'
  BY <1>1 DEF Sorted, Selection
<1>5. Touched'
  BY <1>1 DEF IInv, Touched
<1> QED BY <1>3, <1>4, <1>5 DEF IInv

LEMMA GotoInv ==
    ASSUME IInv, NEW from, NEW to, Goto(from, to),
           \/ from = "filters" /\ to = "getMaps"
           \/ from = "getMaps" /\ to = "scanMaps"
           \/ from = "scanMaps" /\ to = "readPagemapInfo" /\ currentMap > Len(maps)
           \/ from = "readPagemapInfo" /\ to = "printMaps"
                 /\ (currentMap > Len(maps) \/ ~physical)
           \/ from = "printMaps" /\ to = "releaseMaps"
    PROVE  IInv'
<1>1. /\ step = from /\ step' = to /\ currentMap' = 1
      /\ UNCHANGED <<options, filterHead, maps, touched>>
  BY DEF Goto
<1>2. Shape'
  <2>1. 1 <= Len(maps') + 1
    BY <1>1 DEF IInv, Shape
  <2> QED BY <1>1, <2>1 DEF IInv, Shape, Steps
<1>3. Sorted' /\ Selection'
  BY <1>1, SameList
<1>4. Touched'
  <2> DEFINE last == Len(maps) + 1
  <2>0. currentMap \in Nat /\ Shape /\ Touched
    BY DEF IInv, Shape
  <2> SUFFICES ASSUME NEW a \in Addresses
               PROVE  /\ step' = "getMaps" => touched[a] = 0
                      /\ step' = "scanMaps" => touched[a] = Scanned(1, a)
                      /\ step' = "readPagemapInfo" =>
                            touched[a] = Scanned(last, a) + Entropy(1, a)
                      /\ step' = "printMaps" =>
                            touched[a] = Scanned(last, a) + Entropy(last, a)
    <3>1. step' \notin {"filters", "failure"}
      BY <1>1
    <3> HIDE DEF last
    <3> QED BY <1>1, <3>1, SameReads DEF Touched, last
  <2>1. CASE step' = "getMaps"
    BY <1>1, <2>0, <2>1 DEF Touched
  <2>2. CASE step' = "scanMaps"
    BY <1>1, <2>0, <2>2, WalkBounds DEF Touched
  <2>3. CASE step' = "readPagemapInfo"
    <3>1. touched[a] = Scanned(currentMap, a) /\ currentMap > Len(maps)
      BY <1>1, <2>0, <2>3 DEF Touched
    <3> QED BY <2>0, <2>3, <3>1, WalkBounds, PartsAreNatural
  <2>4. CASE step' = "printMaps"
    <3>1. /\ touched[a] = Scanned(last, a) + Entropy(currentMap, a)
          /\ currentMap > Len(maps) \/ ~physical
      BY <1>1, <2>0, <2>4 DEF Touched
    <3>2. Entropy(currentMap, a) = Entropy(last, a)
      BY <2>0, <3>1, WalkBounds, ReadsAreNatural DEF Entropy
    <3> QED BY <2>4, <3>1, <3>2
  <2> QED BY <1>1, <2>1, <2>2, <2>3, <2>4
<1> QED BY <1>2, <1>3, <1>4 DEF IInv

LEMMA FailsInv == IInv /\ Fails => IInv'
<1> SUFFICES ASSUME IInv, Fails PROVE IInv'
  OBVIOUS
<1>1. /\ step \in {"filters", "getMaps", "readPagemapInfo"} /\ step' = "failure"
      /\ UNCHANGED <<options, filterHead, maps, currentMap, touched>>
  BY DEF Fails
<1>2. Shape'
  BY <1>1 DEF IInv, Shape, Steps
<1>3. Sorted' /\ Selection'
  BY <1>1, SameList
<1>4. Touched'
  <2> DEFINE last == Len(maps) + 1
  <2>0. currentMap \in Nat /\ Shape /\ Touched
    BY DEF IInv, Shape
  <2> SUFFICES ASSUME NEW a \in Addresses
               PROVE  touched[a] <= Scanned(last, a) + Entropy(last, a)
    BY <1>1, SameReads DEF Touched
  <2>1. CASE step = "readPagemapInfo"
    <3>1. touched[a] = Scanned(last, a) + Entropy(currentMap, a)
      BY <2>0, <2>1 DEF Touched
    <3> QED BY <2>0, <3>1, WalkBounds, PartsAreNatural
  <2>2. CASE step # "readPagemapInfo"
    <3>1. touched[a] = 0
      BY <1>1, <2>0, <2>2 DEF Touched
    <3> QED BY <3>1, PartsAreNatural
  <2> QED BY <2>1, <2>2
<1> QED BY <1>2, <1>3, <1>4 DEF IInv

----------------------------------------------------------------------------
(* The walks                                                               *)

\* An address of a region was not read in one before it.
LEMMA NextRegion ==
    ASSUME Shape, Sorted, NEW a \in Addresses, currentMap \in DOMAIN maps
    PROVE  /\ ReadBefore(currentMap + 1, a) <=>
                 ReadBefore(currentMap, a) \/ Chosen(maps[currentMap], a)
           /\ ~(ReadBefore(currentMap, a) /\ Chosen(maps[currentMap], a))
<1>1. ReadBefore(currentMap + 1, a) <=>
         ReadBefore(currentMap, a) \/ Chosen(maps[currentMap], a)
  BY DEF ReadBefore, Shape
<1>2. ~(ReadBefore(currentMap, a) /\ Chosen(maps[currentMap], a))
  <2> SUFFICES ASSUME NEW i \in DOMAIN maps, i < currentMap,
                      Holds(maps[i], a), Holds(maps[currentMap], a)
               PROVE  FALSE
    BY DEF ReadBefore, Chosen
  <2>1. maps[i].end <= maps[currentMap].start
    BY DEF Sorted
  <2>2. maps[i].end \in Nat /\ maps[currentMap].start \in Nat /\ a \in Nat
    BY EntryAt, AddressesAreNatural
  <2> QED BY <2>1, <2>2 DEF Holds
<1> QED BY <1>1, <1>2

LEMMA ScanMapInv == IInv /\ ScanMap => IInv'
<1> SUFFICES ASSUME IInv, ScanMap PROVE IInv'
  OBVIOUS
<1>1. /\ step = "scanMaps" /\ step' = "scanMaps"
      /\ currentMap <= Len(maps) /\ currentMap' = currentMap + 1
      /\ UNCHANGED <<options, filterHead, maps>>
      /\ currentMap \in Nat \ {0} /\ Len(maps) \in Nat
      /\ currentMap \in DOMAIN maps
  BY DEF ScanMap, Walk, IInv, Shape
<1>2. touched' = [a \in Addresses |-> touched[a] +
                    IF Chosen(maps[currentMap], a) THEN ScanReads ELSE 0]
  <2>1. touched \in [Addresses -> Nat]
    BY DEF IInv, Shape
  <2> QED BY <2>1, ReadsAreNatural DEF ScanMap, Chosen
<1>3. Shape'
  <2>1. touched' \in [Addresses -> Nat]
    BY <1>2, ReadsAreNatural DEF IInv, Shape
  <2> QED BY <1>1, <2>1 DEF IInv, Shape
<1>4. Sorted' /\ Selection'
  BY <1>1, SameList
<1>5. Touched'
  <2> SUFFICES ASSUME NEW a \in Addresses
               PROVE  touched'[a] = Scanned(currentMap + 1, a)
    BY <1>1, SameReads DEF Touched
  <2>1. touched[a] = Scanned(currentMap, a)
    BY <1>1 DEF IInv, Touched
  <2> QED BY <1>1, <1>2, <2>1, NextRegion, ReadsAreNatural DEF Scanned, IInv
<1> QED BY <1>3, <1>4, <1>5 DEF IInv

LEMMA PrintMapInv == IInv /\ PrintMap => IInv'
<1> SUFFICES ASSUME IInv, PrintMap PROVE IInv'
  OBVIOUS
<1>1. /\ step = "printMaps" /\ step' = "printMaps" /\ currentMap' = currentMap + 1
      /\ UNCHANGED <<options, filterHead, maps, touched>>
  BY DEF PrintMap, Walk
<1>2. Shape'
  BY <1>1 DEF IInv, Shape
<1>3. Sorted' /\ Selection'
  BY <1>1, SameList
<1>4. Touched'
  BY <1>1, SameReads DEF IInv, Touched
<1> QED BY <1>2, <1>3, <1>4 DEF IInv

LEMMA NumPages ==
    ASSUME NEW m \in Entries, m.start < m.end
    PROVE  numPages(m) \in Nat
<1>1. m.end - m.start \in Nat /\ PageSize \in Nat \ {0}
  BY MapsAssumption DEF Entries, Pages, Addresses
<1>2. \A n \in Nat, d \in Nat \ {0} : n \div d \in Nat
  OBVIOUS
<1> QED BY <1>1, <1>2 DEF numPages

\* readPagemapInfo() changes nothing of a region but its pages.
LEMMA ReadPagesInv == IInv /\ ReadPages => IInv'
<1> SUFFICES ASSUME IInv, ReadPages PROVE IInv'
  OBVIOUS
<1> DEFINE m == maps[currentMap]
<1> DEFINE pages == [j \in 1 .. numPages(m) |-> Readable(m) /\ m.include]
<1>1. /\ step = "readPagemapInfo" /\ step' = "readPagemapInfo"
      /\ currentMap <= Len(maps) /\ currentMap' = currentMap + 1
      /\ UNCHANGED <<options, filterHead>>
      /\ maps' = [maps EXCEPT ![currentMap].pages = pages]
      /\ ReadForEntropy(m)
      /\ currentMap \in Nat \ {0} /\ currentMap \in DOMAIN maps
      /\ maps \in Seq(Entries)
  BY DEF ReadPages, Walk, IInv, Shape
<1>2. pages \in Seq(BOOLEAN)
  <2>1. numPages(m) \in Nat
    BY <1>1, NumPages DEF IInv, Sorted
  <2>2. pages \in [1 .. numPages(m) -> BOOLEAN]
    OBVIOUS
  <2> HIDE DEF pages
  <2> QED BY <2>1, <2>2, BooleanSequence
<1>3. /\ DOMAIN maps' = DOMAIN maps /\ Len(maps') = Len(maps)
      /\ maps' \in Seq(Entries)
  <2> DEFINE new == [m EXCEPT !.pages = pages]
  <2> HIDE DEF pages
  <2>1. new \in Entries
    <3>1. m \in Entries
      BY <1>1
    <3> HIDE DEF m
    <3> QED BY <1>2, <3>1, SetPages
  <2>2. maps' = [maps EXCEPT ![currentMap] = new]
    BY <1>1
  <2>3. maps \in Seq(Entries) /\ currentMap \in DOMAIN maps
    BY <1>1
  <2> HIDE DEF new
  <2> QED BY <2>1, <2>2, <2>3, ReplaceElement
<1>4. \A i \in DOMAIN maps :
         /\ maps'[i].start = maps[i].start /\ maps'[i].end = maps[i].end
         /\ maps'[i].permissions = maps[i].permissions /\ maps'[i].path = maps[i].path
         /\ maps'[i].include = maps[i].include /\ maps'[i].index = maps[i].index
  <2> HIDE DEF pages
  <2> QED BY <1>1 DEF Entries
<1>t. touched' = [a \in Addresses |-> touched[a] + IF Chosen(m, a) THEN PageReads ELSE 0]
  <2> HIDE DEF m
  <2>1. touched \in [Addresses -> Nat]
    BY DEF IInv, Shape
  <2> QED BY <1>1, <2>1, ReadsAreNatural DEF ReadForEntropy, Chosen
<1>5. Shape'
  <2>1. touched' \in [Addresses -> Nat]
    <3> HIDE DEF m
    <3> QED BY <1>t, ReadsAreNatural DEF IInv, Shape
  <2> QED BY <1>1, <1>3, <2>1 DEF IInv, Shape
<1>6. Sorted'
  BY <1>3, <1>4 DEF IInv, Sorted
<1>7. Selection'
  <2>1. \A i \in DOMAIN maps : \A f :
           /\ AtMost(f, i)' <=> AtMost(f, i)
           /\ Surely(f, i)' <=> Surely(f, i)
           /\ Allowed(i)' <=> Allowed(i)
    BY <1>4 DEF AtMost, Surely, Covers, Allowed
  <2> QED BY <1>1, <1>3, <1>4, <2>1 DEF IInv, Selection
<1>8. Touched'
  <2>1. \A a, n : ReadBefore(n, a)' <=> ReadBefore(n, a)
    BY <1>1, <1>3, <1>4 DEF ReadBefore, Chosen, Holds, Readable
  <2>2. \A a, n : /\ Scanned(n, a)' = Scanned(n, a)
                  /\ Entropy(n, a)' = Entropy(n, a)
    BY <1>1, <2>1, SameOptions DEF Scanned, Entropy
  <2> DEFINE last == Len(maps) + 1
  <2> SUFFICES ASSUME NEW a \in Addresses
               PROVE  touched'[a] = Scanned(last, a) + Entropy(currentMap + 1, a)
    BY <1>1, <1>3, <2>2 DEF Touched
  <2>3. touched[a] = Scanned(last, a) + Entropy(currentMap, a)
    BY <1>1 DEF IInv, Touched
  <2>4. touched'[a] = touched[a] + IF Chosen(m, a) THEN PageReads ELSE 0
    <3> HIDE DEF m
    <3> QED BY <1>t
  <2>5. Entropy(currentMap + 1, a)
           = Entropy(currentMap, a) + IF Chosen(m, a) THEN PageReads ELSE 0
    BY <1>1, NextRegion, ReadsAreNatural DEF Entropy, IInv
  <2> HIDE DEF last, m
  <2> QED BY <2>3, <2>4, <2>5, PartsAreNatural, ReadsAreNatural
<1> QED BY <1>5, <1>6, <1>7, <1>8 DEF IInv

----------------------------------------------------------------------------
(* The list grows and shrinks                                              *)

\* The line that is read, and what getMaps() makes of it.
LEMMA ReadLineEntry ==
    ASSUME IInv, ReadLine
    PROVE  \E new \in Entries : \E found \in SUBSET InPath(new.path) :
              /\ maps' = Append(maps, new)
              /\ new.index = Len(maps)
              /\ new.start < new.end
              /\ maps # <<>> => maps[Len(maps)].end <= new.start
              /\ new.include <=> /\ new.path \notin ExcludePaths
                                 /\ \/ filterHead = <<>>
                                    \/ \E i \in DOMAIN filterHead :
                                          Matches(filterHead[i], new, found)
<1>1. PICK s \in Pages, e \in Pages, p \in Permissions, path \in Paths :
         /\ s < e
         /\ maps # <<>> => maps[Len(maps)].end <= s
         /\ \E found \in SUBSET InPath(path) :
               LET m == [index |-> Len(maps), start |-> s, end |-> e,
                         permissions |-> p, path |-> path,
                         include |-> FALSE, pages |-> <<>>]
               IN  maps' = Append(maps, [m EXCEPT !.include = Include(m, found)])
  BY DEF ReadLine
<1> DEFINE m == [index |-> Len(maps), start |-> s, end |-> e,
                 permissions |-> p, path |-> path,
                 include |-> FALSE, pages |-> <<>>]
<1>2. PICK found \in SUBSET InPath(path) :
         maps' = Append(maps, [m EXCEPT !.include = Include(m, found)])
  BY <1>1
<1> DEFINE new == [index |-> Len(maps), start |-> s, end |-> e,
                   permissions |-> p, path |-> path,
                   include |-> Include(m, found), pages |-> <<>>]
<1>3. [m EXCEPT !.include = Include(m, found)] = new
  OBVIOUS
<1>4. new \in Entries
  <2>1. Include(m, found) \in BOOLEAN
    BY DEF Include
  <2>2. Len(maps) \in Nat /\ <<>> \in Seq(BOOLEAN)
    BY DEF IInv, Shape
  <2> QED BY <1>1, <2>1, <2>2 DEF Entries
<1>5. \A f : Matches(f, m, found) <=> Matches(f, new, found)
  BY DEF Matches
<1>6. Include(m, found) <=> /\ path \notin ExcludePaths
                            /\ \/ filterHead = <<>>
                               \/ \E i \in DOMAIN filterHead :
                                     Matches(filterHead[i], new, found)
  <2> HIDE DEF new
  <2> QED BY <1>5 DEF Include
<1> QED BY <1>1, <1>2, <1>3, <1>4, <1>6

LEMMA ReadLineInv == IInv /\ ReadLine => IInv'
<1> SUFFICES ASSUME IInv, ReadLine PROVE IInv'
  OBVIOUS
<1>1. /\ step = "getMaps" /\ step' = "getMaps"
      /\ UNCHANGED <<options, filterHead, currentMap, touched>>
      /\ maps \in Seq(Entries) /\ Len(maps) \in Nat
      /\ filterHead \in Seq(Arguments)
  BY DEF ReadLine, IInv, Shape
<1> DEFINE Read(new, found) ==
         /\ maps' = Append(maps, new)
         /\ new.index = Len(maps)
         /\ new.start < new.end
         /\ maps # <<>> => maps[Len(maps)].end <= new.start
         /\ new.include <=> /\ new.path \notin ExcludePaths
                            /\ \/ filterHead = <<>>
                               \/ \E i \in DOMAIN filterHead :
                                     Matches(filterHead[i], new, found)
<1>line. PICK new \in Entries : \E found \in SUBSET InPath(new.path) : Read(new, found)
  BY ReadLineEntry
<1>2. PICK found \in SUBSET InPath(new.path) : Read(new, found)
  BY <1>line
<1>3. /\ maps' \in Seq(Entries) /\ DOMAIN maps' = 1 .. Len(maps) + 1
      /\ \A i \in DOMAIN maps : i \in 1 .. Len(maps) /\ maps'[i] = maps[i]
      /\ maps'[Len(maps) + 1] = new
  BY <1>1, <1>2
<1>4. Shape'
  BY <1>1, <1>3 DEF IInv, Shape
<1>5. Sorted'
  <2>1. \A i \in DOMAIN maps : maps[i].end <= new.start
    <3> SUFFICES ASSUME NEW i \in DOMAIN maps PROVE maps[i].end <= new.start
      OBVIOUS
    <3>1. Len(maps) \in DOMAIN maps /\ maps # <<>> /\ (i = Len(maps) \/ i < Len(maps))
      BY <1>1
    <3>2. maps[Len(maps)].end <= new.start
      BY <1>2, <3>1
    <3>3. CASE i = Len(maps)
      BY <3>2, <3>3
    <3>4. CASE i < Len(maps)
      <4>1. /\ maps[i].end <= maps[Len(maps)].start
            /\ maps[Len(maps)].start < maps[Len(maps)].end
        BY <3>1, <3>4 DEF IInv, Sorted
      <4>2. /\ maps[i].end \in Nat
            /\ maps[Len(maps)].start \in Nat /\ maps[Len(maps)].end \in Nat
        BY <3>1, EntryAt DEF IInv
      <4>3. new.start \in Nat
        BY AddressesAreNatural DEF Entries, Pages
      <4> QED BY <3>2, <4>1, <4>2, <4>3
    <3> QED BY <3>1, <3>3, <3>4
  <2>2. \A i \in DOMAIN maps' : maps'[i].start < maps'[i].end
    <3> SUFFICES ASSUME NEW i \in DOMAIN maps' PROVE maps'[i].start < maps'[i].end
      OBVIOUS
    <3>1. i \in DOMAIN maps \/ i = Len(maps) + 1
      BY <1>1, <1>3
    <3> QED BY <1>2, <1>3, <3>1 DEF IInv, Sorted
  <2>3. ASSUME NEW i \in DOMAIN maps', NEW j \in DOMAIN maps', i < j
        PROVE  maps'[i].end <= maps'[j].start
    <3>1. i \in DOMAIN maps /\ (j \in DOMAIN maps \/ j = Len(maps) + 1)
      BY <1>1, <1>3, <2>3
    <3> QED BY <1>3, <2>1, <2>3, <3>1 DEF IInv, Sorted
  <2> QED BY <2>2, <2>3 DEF Sorted
<1>6. Selection'
  <2> SUFFICES ASSUME NEW i \in DOMAIN maps'
               PROVE  /\ maps'[i].include =>
                            /\ Allowed(i)'
                            /\ \/ filterHead = <<>>
                               \/ \E f \in Range(filterHead) : AtMost(f, i)'
                      /\ Allowed(i)' /\ (\/ filterHead = <<>>
                                         \/ \E f \in Range(filterHead) : Surely(f, i)') =>
                            maps'[i].include
    BY <1>1 DEF Selection
  <2>1. CASE i \in DOMAIN maps
    <3>1. \A f : /\ AtMost(f, i)' <=> AtMost(f, i)
                 /\ Surely(f, i)' <=> Surely(f, i)
                 /\ Allowed(i)' <=> Allowed(i)
      BY <1>3, <2>1 DEF AtMost, Surely, Allowed
    <3> QED BY <1>1, <1>3, <2>1, <3>1 DEF IInv, Selection
  <2>2. CASE i = Len(maps) + 1
    <3>1. maps'[i] = new /\ i - 1 = new.index /\ (Allowed(i)' <=> new.path \notin ExcludePaths)
      BY <1>1, <1>2, <1>3, <2>2 DEF Allowed
    <3>3. ASSUME NEW f \in Range(filterHead)
          PROVE  /\ Matches(f, new, found) => AtMost(f, i)'
                 /\ Surely(f, i)' => Matches(f, new, found)
      <4>1. f.type \in {"INDEX", "ADDRESS", "PERMISSION", "PATTERN"}
        BY <1>1, MapsAssumption DEF Range
      <4>2. CASE f.type = "INDEX"
        BY <3>1, <4>2 DEF Matches, AtMost, Surely
      <4>3. CASE f.type = "ADDRESS"
        BY <3>1, <4>3 DEF Matches, AtMost, Surely, Covers
      <4>4. CASE f.type = "PERMISSION"
        BY <3>1, <4>4 DEF Matches, AtMost, Surely
      <4>5. CASE f.type = "PATTERN"
        BY <3>1, <4>5 DEF Matches, AtMost, Surely, InPath
      <4> QED BY <4>1, <4>2, <4>3, <4>4, <4>5
    <3>4. Range(filterHead) = {filterHead[k] : k \in DOMAIN filterHead}
      BY DEF Range
    <3> QED BY <1>2, <3>1, <3>3, <3>4
  <2> QED BY <1>1, <1>3, <2>1, <2>2
<1>7. Touched'
  BY <1>1 DEF IInv, Touched
<1> QED BY <1>4, <1>5, <1>6, <1>7 DEF IInv

LEMMA ReleaseMapInv == IInv /\ ReleaseMap => IInv'
<1> SUFFICES ASSUME IInv, ReleaseMap PROVE IInv'
  OBVIOUS
<1>1. /\ step = "releaseMaps" /\ step' = "releaseMaps"
      /\ maps # <<>> /\ maps' = Tail(maps)
      /\ UNCHANGED <<filterHead, currentMap, touched>>
      /\ maps \in Seq(Entries) /\ Len(maps) \in Nat
  BY DEF ReleaseMap, IInv, Shape
<1>2. /\ maps' \in Seq(Entries)
      /\ \A i \in DOMAIN maps' : /\ i \in Nat /\ i + 1 \in DOMAIN maps
                                 /\ maps'[i] = maps[i + 1]
  BY <1>1
<1>3. Shape'
  BY <1>1, <1>2 DEF IInv, Shape
<1>4. Sorted'
  BY <1>2 DEF IInv, Sorted
<1>5. Selection' /\ Touched'
  BY <1>1 DEF Selection, Touched
<1> QED BY <1>3, <1>4, <1>5 DEF IInv

LEMMA ResetConfigInv == IInv /\ ResetConfig => IInv'
<1> SUFFICES ASSUME IInv, ResetConfig PROVE IInv'
  OBVIOUS
<1>1. /\ step' = "ended" /\ maps = <<>> /\ filterHead' = <<>>
      /\ UNCHANGED <<maps, currentMap, touched>>
  BY DEF ResetConfig
<1>2. Shape'
  BY <1>1 DEF IInv, Shape, Steps
<1>3. Sorted' /\ Selection' /\ Touched'
  BY <1>1 DEF Sorted, Selection, Touched
<1> QED BY <1>2, <1>3 DEF IInv

LEMMA StutterInv == IInv /\ UNCHANGED vars => IInv'
<1> SUFFICES ASSUME IInv, UNCHANGED vars PROVE IInv'
  OBVIOUS
<1>1. UNCHANGED <<options, filterHead, maps, step, currentMap, touched>>
  BY DEF vars
<1>2. Shape'
  BY <1>1 DEF IInv, Shape
<1>3. Sorted'
  BY <1>1 DEF IInv, Sorted
<1>4. Selection'
  BY <1>1 DEF IInv, Selection, AtMost, Surely, Allowed
<1>5. Touched'
  BY <1>1, SameReads DEF IInv, Touched
<1> QED BY <1>2, <1>3, <1>4, <1>5 DEF IInv

LEMMA StepIInv == IInv /\ [Next]_vars => IInv'
<1> SUFFICES ASSUME IInv, [Next]_vars PROVE IInv'
  OBVIOUS
<1>1. CASE ProcessFilter \/ ReadLine
  BY <1>1, ProcessFilterInv, ReadLineInv
<1>2. CASE ScanMap \/ ReadPages \/ PrintMap
  BY <1>2, ScanMapInv, ReadPagesInv, PrintMapInv
<1>3. CASE Goto("filters", "getMaps") \/ Goto("getMaps", "scanMaps")
  BY <1>3, GotoInv
<1>4. CASE EndWalk("scanMaps", "readPagemapInfo")
  BY <1>4, GotoInv DEF EndWalk
<1>5. CASE \/ EndWalk("readPagemapInfo", "printMaps")
           \/ ~physical /\ Goto("readPagemapInfo", "printMaps")
           \/ EndWalk("printMaps", "releaseMaps")
  BY <1>5, GotoInv DEF EndWalk
<1>6. CASE ReleaseMap \/ ResetConfig \/ Fails
  BY <1>6, ReleaseMapInv, ResetConfigInv, FailsInv
<1>7. CASE Ended \/ UNCHANGED vars
  BY <1>7, StutterInv DEF Ended
<1> QED BY <1>1, <1>2, <1>3, <1>4, <1>5, <1>6, <1>7 DEF Next

\* Every step of every walk preserves IInv.
LEMMA InvariantHolds == Spec => []IInv
  BY InitIInv, StepIInv, PTL DEF Spec

----------------------------------------------------------------------------
(* What the invariant says                                                 *)

LEMMA ReadsTheSelection == IInv => TouchesTheSelection
<1> DEFINE last == Len(maps) + 1
<1> SUFFICES ASSUME IInv, NEW a \in Addresses
             PROVE  LET selected == \E m \in Range(maps) :
                                       m.include /\ Readable(m) /\ Holds(m, a)
                    IN  /\ step \notin {"releaseMaps", "ended"} =>
                              touched[a] <= IF selected THEN ScanReads + PageReads ELSE 0
                        /\ step = "readPagemapInfo" /\ selected => touched[a] >= ScanReads
                        /\ step = "printMaps" /\ selected => touched[a] = ScanReads + PageReads
  BY DEF TouchesTheSelection
<1>1. (\E m \in Range(maps) : m.include /\ Readable(m) /\ Holds(m, a))
         <=> \E i \in DOMAIN maps : Chosen(maps[i], a)
  BY DEF Range, Chosen
<1>2. \A i \in DOMAIN maps : i < last
  BY DEF IInv, Shape
<1> HIDE DEF last
<1>3. ReadBefore(last, a) <=> \E i \in DOMAIN maps : Chosen(maps[i], a)
  BY <1>2 DEF ReadBefore
<1>4. ReadBefore(currentMap, a) => ReadBefore(last, a)
  BY <1>2 DEF ReadBefore
<1>5. step \in Steps
  BY DEF IInv, Shape
<1>6. touched[a] \in Nat
  BY DEF IInv, Shape
<1>7. step \notin {"releaseMaps", "ended"} =>
         touched[a] <= IF ReadBefore(last, a) THEN ScanReads + PageReads ELSE 0
  BY <1>4, <1>5, <1>6, ReadsAreNatural DEF IInv, Touched, Scanned, Entropy, Steps, last
<1>8. /\ step = "readPagemapInfo" /\ ReadBefore(last, a) => touched[a] >= ScanReads
      /\ step = "printMaps" /\ ReadBefore(last, a) => touched[a] = ScanReads + PageReads
  BY <1>6, ReadsAreNatural DEF IInv, Touched, Scanned, Entropy, last
<1> QED BY <1>1, <1>3, <1>7, <1>8

LEMMA SelectsTheUnion == IInv => SelectionIsTheUnion
<1> SUFFICES ASSUME IInv, step # "releaseMaps", NEW i \in DOMAIN maps
             PROVE  LET filters == Range(filterHead)
                        allowed == maps[i].path \notin ExcludePaths
                    IN  /\ maps[i].include =>
                              allowed /\ (filters = {} \/ \E f \in filters : Selects(f, i))
                        /\ allowed /\ (\/ filters = {}
                                       \/ \E f \in filters : Selects(f, i) /\ ~MayMiss(f)) =>
                              maps[i].include
  BY DEF SelectionIsTheUnion
<1>1. Range(filterHead) = {} <=> filterHead = <<>>
  <2>1. filterHead \in Seq(Arguments)
    BY DEF IInv, Shape
  <2>2. filterHead # <<>> => 1 \in DOMAIN filterHead
    BY <2>1
  <2> QED BY <2>2 DEF Range
<1>2. ASSUME NEW f \in Range(filterHead)
      PROVE  /\ AtMost(f, i) => Selects(f, i)
             /\ Selects(f, i) /\ ~MayMiss(f) => Surely(f, i)
  <2>1. /\ f.type \in {"INDEX", "ADDRESS", "PERMISSION", "PATTERN"}
        /\ f.type = "ADDRESS" => f.address \in Nat
    BY MapsAssumption DEF Range, IInv, Shape
  <2>2. CASE f.type = "INDEX"
    BY <2>2 DEF AtMost, Surely, Selects, Documented, NextDoor, Missed
  <2>3. CASE f.type = "ADDRESS"
    <3>1. /\ maps[i].start \in Nat /\ maps[i].end \in Nat /\ f.address \in Nat
          /\ maps[i].start < maps[i].end
      BY <2>1, <2>3, EntryAt DEF IInv, Sorted
    <3>2. Surely(f, i) <=> maps[i].start <= f.address /\ f.address <= maps[i].end
      BY <2>3 DEF Surely, Covers
    <3>3. Selects(f, i) <=> \/ f.address = maps[i].end
                            \/ maps[i].start <= f.address /\ f.address < maps[i].end
      BY <2>3 DEF Selects, Documented, NextDoor, Missed, Holds
    <3>4. AtMost(f, i) <=> Surely(f, i)
      BY <2>3 DEF AtMost
    <3> QED BY <3>1, <3>2, <3>3, <3>4
  <2>4. CASE f.type = "PERMISSION"
    <3>1. Surely(f, i) <=> f.permissions = maps[i].permissions
      BY <2>4 DEF Surely
    <3>2. Selects(f, i) <=> /\ f.permissions \subseteq maps[i].permissions
                            /\ ~(f.permissions # maps[i].permissions)
      BY <2>4 DEF Selects, Documented, NextDoor, Missed
    <3>3. AtMost(f, i) <=> Surely(f, i)
      BY <2>4 DEF AtMost
    <3> QED BY <3>1, <3>2, <3>3
  <2>5. CASE f.type = "PATTERN"
    BY <2>5 DEF AtMost, Surely, Selects, Documented, NextDoor, Missed, MayMiss
  <2> QED BY <2>1, <2>2, <2>3, <2>4, <2>5
<1> QED BY <1>1, <1>2 DEF IInv, Selection, Allowed

\* A set of natural numbers that is not empty has a least element.
LEMMA Least ==
    ASSUME NEW S \in SUBSET Nat, S # {}
    PROVE  \E n \in S : \A k \in S : n <= k
<1> DEFINE Less == {p \in Nat \X Nat : p[1] < p[2]}
<1>1. IsWellFoundedOn(Less, Nat)
  BY NatLessThanWellFounded DEF OpToRel
<1>2. PICK n \in S : \A k \in S : ~(<<k, n>> \in Less)
  <2> HIDE DEF Less
  <2> QED BY <1>1, WFMin
<1>3. \A k \in S : n <= k
  <2> SUFFICES ASSUME NEW k \in S PROVE n <= k
    OBVIOUS
  <2>1. ~(<<k, n>> \in Less)
    BY <1>2
  <2>2. ~(k < n)
    BY <2>1
  <2> QED BY <2>2
<1> QED BY <1>3

\* getMap() returns the first region that covers the address, if there is one.
LEMMA GetMapFirst ==
    ASSUME Shape, NEW a, NEW i \in DOMAIN maps, Covers(maps[i], a)
    PROVE  /\ getMap(a) \in DOMAIN maps
           /\ Covers(maps[getMap(a)], a)
           /\ \A j \in 1 .. getMap(a) - 1 : ~Covers(maps[j], a)
<1> DEFINE S == {j \in DOMAIN maps : Covers(maps[j], a)}
<1>1. maps \in Seq(Entries) /\ DOMAIN maps = 1 .. Len(maps) /\ Len(maps) \in Nat
  BY DEF Shape
<1>2. PICK n \in S : \A k \in S : n <= k
  <2>1. S \in SUBSET Nat /\ S # {}
    BY <1>1
  <2> HIDE DEF S
  <2> QED BY <2>1, Least
<1>3. \A j \in 1 .. n - 1 : ~Covers(maps[j], a)
  BY <1>1, <1>2
<1>4. getMap(a) = CHOOSE j \in DOMAIN maps :
                     Covers(maps[j], a) /\ \A k \in 1 .. j - 1 : ~Covers(maps[k], a)
  BY DEF getMap
<1> QED BY <1>2, <1>3, <1>4

LEMMA FilterFindsWhatGetMapFinds == IInv => AddressAgreesWithGetMap
<1> SUFFICES ASSUME IInv, NEW f \in Range(filterHead),
                    f.type = "ADDRESS", Len(filterHead) = 1, step # "releaseMaps"
             PROVE  LET found == getMap(f.address)
                    IN  /\ \A i \in DOMAIN maps : maps[i].include =>
                              \/ i = found
                              \/ i = found + 1 /\ maps[i].start = f.address
                                               /\ maps[found].end = f.address
                        /\ found # 0 => maps[found].include \/ maps[found].path \in ExcludePaths
  BY DEF AddressAgreesWithGetMap
<1> DEFINE found == getMap(f.address)
<1>1. Shape /\ Sorted /\ Selection
  BY DEF IInv
<1>2. filterHead \in Seq(Arguments) /\ maps \in Seq(Entries) /\ Len(maps) \in Nat
  BY <1>1 DEF Shape
<1>3. filterHead # <<>> /\ Range(filterHead) = {f}
  <2>1. DOMAIN filterHead = {1}
    BY <1>2
  <2>2. Range(filterHead) = {filterHead[1]}
    BY <2>1 DEF Range
  <2>3. filterHead # <<>>
    BY <2>1
  <2> QED BY <2>2, <2>3
<1>4. f.address \in Nat
  BY <1>2, MapsAssumption DEF Range
<1>5. ASSUME NEW i \in DOMAIN maps, maps[i].include
      PROVE  \/ i = found
             \/ i = found + 1 /\ maps[i].start = f.address /\ maps[found].end = f.address
  <2>1. AtMost(f, i)
    BY <1>1, <1>3, <1>5 DEF Selection
  <2>2. /\ maps[i].start \in Nat /\ maps[i].end \in Nat /\ maps[i].start < maps[i].end
        /\ i \in Nat
    BY <1>1, EntryAt DEF Sorted
  <2>3. Covers(maps[i], f.address)
    BY <1>3, <2>1 DEF AtMost, Surely
  <2>4. /\ found \in DOMAIN maps /\ Covers(maps[found], f.address)
        /\ \A j \in 1 .. found - 1 : ~Covers(maps[j], f.address)
    BY <1>1, <2>3, GetMapFirst
  <2>5. /\ maps[found].start \in Nat /\ maps[found].end \in Nat /\ found \in Nat
        /\ found \in 1 .. Len(maps) /\ i \in 1 .. Len(maps)
    BY <1>1, <2>4, EntryAt
  <2> HIDE DEF found
  <2>6. ~(i < found)
    BY <2>3, <2>4, <2>5
  <2>7. ASSUME found < i
        PROVE  i = found + 1 /\ maps[i].start = f.address /\ maps[found].end = f.address
    <3>1. maps[found].end <= maps[i].start
      BY <1>1, <2>4, <2>7 DEF Sorted
    <3>2. maps[i].start = f.address /\ maps[found].end = f.address
      BY <1>4, <2>2, <2>3, <2>4, <2>5, <3>1 DEF Covers
    <3>3. ASSUME i # found + 1 PROVE FALSE
      <4>1. found + 1 \in DOMAIN maps /\ found < found + 1 /\ found + 1 < i
        BY <1>2, <2>2, <2>5, <2>7, <3>3
      <4>2. /\ maps[found].end <= maps[found + 1].start
            /\ maps[found + 1].start < maps[found + 1].end
            /\ maps[found + 1].end <= maps[i].start
        BY <1>1, <2>4, <4>1 DEF Sorted
      <4>3. maps[found + 1].start \in Nat /\ maps[found + 1].end \in Nat
        BY <1>1, <4>1, EntryAt
      <4> QED BY <1>4, <3>2, <4>2, <4>3
    <3> QED BY <3>2, <3>3
  <2> QED BY <2>2, <2>5, <2>6, <2>7
<1>6. ASSUME found # 0
      PROVE  maps[found].include \/ maps[found].path \in ExcludePaths
  <2>1. PICK i \in DOMAIN maps : Covers(maps[i], f.address)
    BY <1>6 DEF getMap
  <2>2. found \in DOMAIN maps /\ Covers(maps[found], f.address)
    BY <1>1, <2>1, GetMapFirst
  <2>3. Surely(f, found)
    BY <2>2 DEF Surely
  <2> QED BY <1>1, <1>3, <2>2, <2>3 DEF Selection, Allowed
<1> QED BY <1>5, <1>6

----------------------------------------------------------------------------
(* The rows                                                                *)

RowType == [index : Nat, pages : Seq(BOOLEAN),
            says : {"read permission not set", "excluded", "scanned"}]

\* What printMaps() prints of a region.
Says(m) ==
    IF ~Readable(m) THEN "read permission not set"
    ELSE IF ~m.include THEN "excluded"
    ELSE "scanned"
RowFor(m) == [index |-> m.index, says |-> Says(m), pages |-> m.pages]

\* readPagemapInfo() has filled the array of region i.
PagesRead(i) ==
    maps[i].pages = [j \in 1 .. numPages(maps[i]) |-> Readable(maps[i]) /\ maps[i].include]

RowsOk ==
    /\ rows \in Seq(RowType)
    /\ step \in {"filters", "getMaps", "scanMaps", "readPagemapInfo"} => rows = <<>>
    /\ step = "readPagemapInfo" /\ physical =>
          \A i \in DOMAIN maps : i < currentMap => PagesRead(i)
    /\ step = "printMaps" =>
          /\ physical => \A i \in DOMAIN maps : PagesRead(i)
          /\ currentMap <= Len(maps) + 1
          /\ Len(rows) = Cardinality(Shown)
          /\ \A i \in Shown : rows[Place(i)] = RowFor(maps[i])

\* A number behind a set of numbers comes last in it.
LEMMA AddLast ==
    ASSUME NEW S \in SUBSET Nat, IsFiniteSet(S), NEW n \in Nat, \A i \in S : i < n
    PROVE  /\ Cardinality(S) \in Nat
           /\ Cardinality(S \cup {n}) = Cardinality(S) + 1
           /\ {j \in S \cup {n} : j <= n} = S \cup {n}
           /\ \A i \in S : /\ {j \in S \cup {n} : j <= i} = {j \in S : j <= i}
                           /\ Cardinality({j \in S : j <= i}) \in 1 .. Cardinality(S)
<1>1. n \notin S
  OBVIOUS
<1>2. Cardinality(S) \in Nat /\ Cardinality(S \cup {n}) = Cardinality(S) + 1
  BY <1>1, FS_AddElement, FS_CardinalityType
<1>3. {j \in S \cup {n} : j <= n} = S \cup {n}
  <2>1. \A j \in S \cup {n} : j <= n
    OBVIOUS
  <2> QED BY <2>1
<1>4. ASSUME NEW i \in S
      PROVE  /\ {j \in S \cup {n} : j <= i} = {j \in S : j <= i}
             /\ Cardinality({j \in S : j <= i}) \in 1 .. Cardinality(S)
  <2> DEFINE T == {j \in S : j <= i}
  <2>1. {j \in S \cup {n} : j <= i} = T
    OBVIOUS
  <2>2. T \in SUBSET S /\ i \in T
    OBVIOUS
  <2> HIDE DEF T
  <2>3. IsFiniteSet(T) /\ Cardinality(T) <= Cardinality(S) /\ Cardinality(T) \in Nat
    BY <2>2, FS_Subset, FS_CardinalityType
  <2>4. Cardinality(T) # 0
    BY <2>2, <2>3, FS_EmptySet
  <2> QED BY <1>2, <2>1, <2>3, <2>4 DEF T
<1> QED BY <1>2, <1>3, <1>4

LEMMA ShownIsFinite ==
    ASSUME Shape
    PROVE  /\ Shown \in SUBSET Nat /\ IsFiniteSet(Shown)
           /\ \A i \in Shown : i < currentMap
<1>1. currentMap \in Nat
  BY DEF Shape
<1>2. IsFiniteSet(1 .. currentMap - 1)
  BY <1>1, FS_Interval
<1>3. Shown \in SUBSET (1 .. currentMap - 1)
  BY DEF Shown
<1>4. IsFiniteSet(Shown)
  BY <1>2, <1>3, FS_Subset
<1>5. \A i \in 1 .. currentMap - 1 : i \in Nat /\ i < currentMap
  BY <1>1
<1> QED BY <1>3, <1>4, <1>5

\* A step that moves to another function.
LEMMA GotoRows ==
    ASSUME IInv, RowsOk, NEW from, NEW to, Goto(from, to),
           \/ from = "filters" /\ to = "getMaps"
           \/ from = "getMaps" /\ to = "scanMaps"
           \/ from = "scanMaps" /\ to = "readPagemapInfo"
           \/ from = "readPagemapInfo" /\ to = "printMaps"
                 /\ (currentMap > Len(maps) \/ ~physical)
           \/ from = "printMaps" /\ to = "releaseMaps"
    PROVE  RowsOk'
<1>1. /\ step = from /\ step' = to /\ currentMap' = 1
      /\ UNCHANGED <<physical, filterHead, maps, rows>>
  BY DEF Goto, options
<1>2. maps \in Seq(Entries) /\ Len(maps) \in Nat /\ currentMap \in Nat
  BY DEF IInv, Shape
<1>3. rows' \in Seq(RowType)
  BY <1>1 DEF RowsOk
<1>4. \A i : PagesRead(i)' <=> PagesRead(i)
  BY <1>1 DEF PagesRead
<1>5. step' \in {"getMaps", "scanMaps", "readPagemapInfo"} => rows' = <<>>
  BY <1>1 DEF RowsOk
<1>6. step' = "readPagemapInfo" => \A i \in DOMAIN maps' : ~(i < currentMap')
  BY <1>1, <1>2
<1>7. CASE to = "printMaps"
  <2>1. rows = <<>> /\ Len(rows) = 0
    BY <1>1, <1>7 DEF RowsOk
  <2>2. Shown' = {}
    BY <1>1 DEF Shown
  <2>3. Cardinality(Shown') = 0
    BY <2>2, FS_EmptySet
  <2>4. physical => \A i \in DOMAIN maps : PagesRead(i)
    BY <1>1, <1>2, <1>7 DEF RowsOk
  <2>5. 1 <= Len(maps') + 1
    BY <1>1, <1>2
  <2> QED BY <1>1, <1>3, <1>4, <1>7, <2>1, <2>2, <2>3, <2>4, <2>5 DEF RowsOk
<1>8. CASE to # "printMaps"
  BY <1>1, <1>3, <1>5, <1>6, <1>8 DEF RowsOk
<1> QED BY <1>7, <1>8

\* readPagemapInfo() fills the arrays in the order of the list.
LEMMA ReadPagesRows == IInv /\ RowsOk /\ ReadPages => RowsOk'
<1> SUFFICES ASSUME IInv, RowsOk, ReadPages PROVE RowsOk'
  OBVIOUS
<1> DEFINE m == maps[currentMap]
           pages == [j \in 1 .. numPages(m) |-> Readable(m) /\ m.include]
<1>1. /\ step = "readPagemapInfo" /\ step' = "readPagemapInfo" /\ physical
      /\ currentMap <= Len(maps) /\ currentMap' = currentMap + 1
      /\ UNCHANGED <<physical, filterHead, rows>>
      /\ maps' = [maps EXCEPT ![currentMap].pages = pages]
      /\ currentMap \in Nat \ {0} /\ currentMap \in DOMAIN maps
      /\ maps \in Seq(Entries) /\ Len(maps) \in Nat
  BY DEF ReadPages, Walk, options, IInv, Shape
<1>2. /\ DOMAIN maps' = DOMAIN maps
      /\ \A i \in DOMAIN maps : i # currentMap => maps'[i] = maps[i]
      /\ maps'[currentMap] = [m EXCEPT !.pages = pages]
  <2> HIDE DEF pages
  <2> QED BY <1>1
<1>3. m \in Entries
  BY <1>1
<1>4. /\ maps'[currentMap].start = m.start /\ maps'[currentMap].end = m.end
      /\ maps'[currentMap].permissions = m.permissions
      /\ maps'[currentMap].include = m.include
      /\ maps'[currentMap].pages = pages
  <2> HIDE DEF pages, m
  <2> QED BY <1>2, <1>3 DEF Entries
<1>5. ASSUME NEW i \in DOMAIN maps', i < currentMap'
      PROVE  PagesRead(i)'
  <2>1. CASE i = currentMap
    <3>1. /\ numPages(maps'[i]) = numPages(m)
          /\ Readable(maps'[i]) <=> Readable(m)
          /\ maps'[i].include = m.include
          /\ maps'[i].pages = pages
      BY <1>4, <2>1 DEF numPages, Readable
    <3>2. maps'[i].pages =
            [j \in 1 .. numPages(maps'[i]) |-> Readable(maps'[i]) /\ maps'[i].include]
      BY <3>1
    <3> QED BY <3>2 DEF PagesRead
  <2>2. CASE i # currentMap
    <3>1. i \in DOMAIN maps /\ i < currentMap /\ maps'[i] = maps[i]
      BY <1>1, <1>2, <1>5, <2>2
    <3>2. PagesRead(i)
      BY <1>1, <3>1 DEF RowsOk
    <3> QED BY <3>1, <3>2 DEF PagesRead
  <2> QED BY <2>1, <2>2
<1>7. rows' \in Seq(RowType) /\ rows' = <<>>
  BY <1>1 DEF RowsOk
<1> QED BY <1>1, <1>5, <1>7 DEF RowsOk

\* printMaps() appends the row of the region it has come to, or skips it.
LEMMA PrintMapRows == IInv /\ RowsOk /\ PrintMap => RowsOk'
<1> SUFFICES ASSUME IInv, RowsOk, PrintMap PROVE RowsOk'
  OBVIOUS
<1> DEFINE c == currentMap
           m == maps[c]
           skip == filterHead # <<>> /\ ~m.include
<1>1. /\ step = "printMaps" /\ step' = "printMaps"
      /\ c <= Len(maps) /\ currentMap' = c + 1
      /\ UNCHANGED <<physical, filterHead, maps>>
      /\ c \in Nat \ {0} /\ c \in DOMAIN maps
      /\ maps \in Seq(Entries) /\ Len(maps) \in Nat
  <2>1. /\ step = "printMaps" /\ UNCHANGED <<step, physical, filterHead, maps>>
        /\ currentMap <= Len(maps) /\ currentMap' = currentMap + 1
    BY DEF PrintMap, Walk, options
  <2>2. currentMap \in Nat \ {0} /\ maps \in Seq(Entries)
    BY DEF IInv, Shape
  <2> QED BY <2>1, <2>2
<1>2. rows' = IF skip THEN rows ELSE Append(rows, RowFor(m))
  <2>1. rows' = IF skip THEN rows
                ELSE Append(rows, [index |-> m.index,
                                   says |-> IF ~Readable(m) THEN "read permission not set"
                                            ELSE IF ~m.include THEN "excluded"
                                            ELSE "scanned",
                                   pages |-> m.pages])
    BY DEF PrintMap
  <2> HIDE DEF m, skip
  <2> QED BY <2>1 DEF RowFor, Says
<1>3. /\ rows \in Seq(RowType) /\ Len(rows) = Cardinality(Shown)
      /\ \A i \in Shown : rows[Place(i)] = RowFor(maps[i])
  BY <1>1 DEF RowsOk
<1>4. RowFor(m) \in RowType
  <2>1. m \in Entries
    BY <1>1
  <2>2. Says(m) \in {"read permission not set", "excluded", "scanned"}
    <3> HIDE DEF m
    <3> QED BY DEF Says
  <2>3. m.index \in Nat /\ m.pages \in Seq(BOOLEAN)
    <3> HIDE DEF m
    <3> QED BY <2>1 DEF Entries
  <2> HIDE DEF m
  <2> QED BY <2>2, <2>3 DEF RowFor, RowType
<1>5. /\ Shown \in SUBSET Nat /\ IsFiniteSet(Shown)
      /\ \A i \in Shown : i < c
  BY ShownIsFinite DEF IInv
<1>6. Shown' = IF skip THEN Shown ELSE Shown \cup {c}
  <2>1. Shown' = {i \in 1 .. c : filterHead = <<>> \/ maps[i].include}
    BY <1>1 DEF Shown
  <2>2. 1 .. c = (1 .. c - 1) \cup {c}
    BY <1>1
  <2> QED BY <2>1, <2>2 DEF Shown
<1>7. (physical => \A i \in DOMAIN maps : PagesRead(i))'
  BY <1>1 DEF RowsOk, PagesRead
<1>8. currentMap' <= Len(maps') + 1
  BY <1>1
<1>9. CASE skip
  <2>1. rows' = rows /\ Shown' = Shown
    BY <1>2, <1>6, <1>9
  <2>2. \A i : Place(i)' = Place(i) /\ RowFor(maps[i])' = RowFor(maps[i])
    BY <1>1, <2>1 DEF Place, RowFor, Says, Readable
  <2> QED BY <1>1, <1>3, <1>7, <1>8, <2>1, <2>2 DEF RowsOk
<1>10. CASE ~skip
  <2>1. rows' = Append(rows, RowFor(m)) /\ Shown' = Shown \cup {c}
    BY <1>2, <1>6, <1>10
  <2>2. /\ Cardinality(Shown) \in Nat
        /\ Cardinality(Shown \cup {c}) = Cardinality(Shown) + 1
        /\ {j \in Shown \cup {c} : j <= c} = Shown \cup {c}
        /\ \A i \in Shown :
              /\ {j \in Shown \cup {c} : j <= i} = {j \in Shown : j <= i}
              /\ Cardinality({j \in Shown : j <= i}) \in 1 .. Cardinality(Shown)
    BY <1>1, <1>5, AddLast
  <2>3. /\ rows' \in Seq(RowType) /\ Len(rows') = Cardinality(Shown')
        /\ rows'[Cardinality(Shown) + 1] = RowFor(m)
        /\ \A k \in 1 .. Cardinality(Shown) : rows'[k] = rows[k]
    BY <1>3, <1>4, <2>1, <2>2
  <2>4. ASSUME NEW i \in Shown'
        PROVE  rows'[Place(i)'] = RowFor(maps[i])'
    <3>0. RowFor(maps[i])' = RowFor(maps[i]) /\ Place(i)' = Cardinality({j \in Shown' : j <= i})
      BY <1>1 DEF RowFor, Says, Readable, Place
    <3>1. CASE i = c
      <4>1. Place(i)' = Cardinality(Shown) + 1
        BY <2>1, <2>2, <3>0, <3>1
      <4> QED BY <2>3, <3>0, <3>1, <4>1
    <3>2. CASE i \in Shown
      <4>1. Place(i)' = Place(i) /\ Place(i) \in 1 .. Cardinality(Shown)
        BY <2>1, <2>2, <3>0, <3>2 DEF Place
      <4> QED BY <1>3, <2>3, <3>0, <3>2, <4>1
    <3> QED BY <2>1, <3>1, <3>2
  <2> QED BY <1>1, <1>7, <1>8, <2>3, <2>4 DEF RowsOk
<1> QED BY <1>9, <1>10

LEMMA StepRows == IInv /\ RowsOk /\ [Next]_vars => RowsOk'
<1> SUFFICES ASSUME IInv, RowsOk, [Next]_vars PROVE RowsOk'
  OBVIOUS
<1>1. CASE ProcessFilter \/ ReadLine \/ ScanMap
  <2>1. /\ step \in {"filters", "getMaps", "scanMaps"} /\ step' = step
        /\ UNCHANGED rows
    BY <1>1 DEF ProcessFilter, ReadLine, ScanMap, Walk
  <2> QED BY <2>1 DEF RowsOk
<1>2. CASE Goto("filters", "getMaps") \/ Goto("getMaps", "scanMaps")
  BY <1>2, GotoRows
<1>3. CASE EndWalk("scanMaps", "readPagemapInfo")
  BY <1>3, GotoRows DEF EndWalk
<1>4. CASE EndWalk("readPagemapInfo", "printMaps")
  BY <1>4, GotoRows DEF EndWalk
<1>5. CASE ~physical /\ Goto("readPagemapInfo", "printMaps")
  BY <1>5, GotoRows
<1>6. CASE EndWalk("printMaps", "releaseMaps")
  BY <1>6, GotoRows DEF EndWalk
<1>7. CASE ReleaseMap \/ ResetConfig \/ Fails
  <2>1. step' \in {"releaseMaps", "ended", "failure"} /\ UNCHANGED rows
    BY <1>7 DEF ReleaseMap, ResetConfig, Fails
  <2> QED BY <2>1 DEF RowsOk
<1>8. CASE Ended \/ UNCHANGED vars
  <2>1. UNCHANGED <<physical, filterHead, maps, step, currentMap, rows>>
    BY <1>8 DEF Ended, vars, options
  <2>2. Shown' = Shown
    BY <2>1 DEF Shown
  <2>3. \A i : /\ Place(i)' = Place(i) /\ RowFor(maps[i])' = RowFor(maps[i])
               /\ PagesRead(i)' <=> PagesRead(i)
    BY <2>1, <2>2 DEF Place, RowFor, Says, Readable, PagesRead
  <2> QED BY <2>1, <2>2, <2>3 DEF RowsOk
<1> QED BY <1>1, <1>2, <1>3, <1>4, <1>5, <1>6, <1>7, <1>8,
           ReadPagesRows, PrintMapRows DEF Next

LEMMA RowsHold == Spec => []RowsOk
<1>1. Init => RowsOk
  BY DEF Init, RowsOk
<1> QED BY <1>1, InvariantHolds, StepRows, PTL DEF Spec

\* An address of a region was read exactly if the region was selected and
\* readable, because it lies in no other region.
LEMMA TouchedIfRead ==
    ASSUME IInv, step = "printMaps", scanForByte \/ scanForShannon,
           NEW i \in DOMAIN maps,
           NEW a \in Addresses, Holds(maps[i], a)
    PROVE  touched[a] > 0 <=> Readable(maps[i]) /\ maps[i].include
<1>1. touched[a] > 0 <=> ReadBefore(Len(maps) + 1, a)
  BY ReadsAreNatural DEF IInv, Touched, Scanned, Entropy
<1>2. \A k \in DOMAIN maps : k < Len(maps) + 1
  BY DEF IInv, Shape
<1>3. ReadBefore(Len(maps) + 1, a) <=> \E k \in DOMAIN maps : Chosen(maps[k], a)
  BY <1>2 DEF ReadBefore
<1>4. ASSUME NEW k \in DOMAIN maps, Chosen(maps[k], a) PROVE k = i
  <2>1. /\ {maps[i].start, maps[i].end, maps[k].start, maps[k].end, a} \subseteq Nat
        /\ i \in Nat /\ k \in Nat
    BY EntryAt, AddressesAreNatural DEF IInv
  <2>2. /\ i < k => maps[i].end <= maps[k].start
        /\ k < i => maps[k].end <= maps[i].start
    BY DEF IInv, Sorted
  <2> QED BY <1>4, <2>1, <2>2 DEF Chosen, Holds
<1> QED BY <1>1, <1>3, <1>4 DEF Chosen

LEMMA RowsAreRight == IInv /\ RowsOk => RowsTellTheScan
<1> SUFFICES ASSUME IInv, RowsOk, step = "printMaps"
             PROVE  /\ Len(rows) = Cardinality(Shown)
                    /\ \A i \in Shown :
                          LET m       == maps[i]
                              row     == rows[Place(i)]
                              scanned == row.says = "scanned"
                          IN  /\ row.index = m.index
                              /\ row.says = "excluded" => m.path # NoPath
                              /\ scanForByte \/ scanForShannon =>
                                    \A a \in Addresses :
                                       Holds(m, a) => (touched[a] > 0 <=> scanned)
                              /\ physical =>
                                    row.pages = [j \in 1 .. numPages(m) |-> scanned]
  BY DEF RowsTellTheScan
<1>1. Len(rows) = Cardinality(Shown)
  BY DEF RowsOk
<1>2. ASSUME NEW i \in Shown
      PROVE  LET m       == maps[i]
                 row     == rows[Place(i)]
                 scanned == row.says = "scanned"
             IN  /\ row.index = m.index
                 /\ row.says = "excluded" => m.path # NoPath
                 /\ scanForByte \/ scanForShannon =>
                       \A a \in Addresses : Holds(m, a) => (touched[a] > 0 <=> scanned)
                 /\ physical => row.pages = [j \in 1 .. numPages(m) |-> scanned]
  <2> DEFINE row == rows[Place(i)]
             m == maps[i]
  <2>1. i \in DOMAIN maps /\ (filterHead = <<>> \/ m.include)
    <3>1. currentMap <= Len(maps) + 1 /\ currentMap \in Nat /\ maps \in Seq(Entries)
      BY DEF RowsOk, IInv, Shape
    <3> QED BY <3>1 DEF Shown
  <2>2. row = RowFor(m)
    BY DEF RowsOk
  <2>3. /\ row.index = m.index /\ row.says = Says(m) /\ row.pages = m.pages
    BY <2>2 DEF RowFor
  <2>4. row.says = "scanned" <=> Readable(m) /\ m.include
    BY <2>3 DEF Says
  <2>5. row.says = "excluded" => m.path # NoPath
    <3> SUFFICES ASSUME row.says = "excluded" PROVE m.path # NoPath
      OBVIOUS
    <3>1. ~m.include /\ filterHead = <<>>
      BY <2>1, <2>3 DEF Says
    <3>2. ~Allowed(i)
      BY <2>1, <3>1 DEF IInv, Selection
    <3> QED BY <3>2, MapsAssumption DEF Allowed
  <2>6. scanForByte \/ scanForShannon => \A a \in Addresses :
           Holds(m, a) => (touched[a] > 0 <=> row.says = "scanned")
    BY <2>1, <2>4, TouchedIfRead
  <2>7. physical => row.pages = [j \in 1 .. numPages(m) |-> row.says = "scanned"]
    <3> SUFFICES ASSUME physical
                 PROVE  row.pages = [j \in 1 .. numPages(m) |-> row.says = "scanned"]
      OBVIOUS
    <3>1. m.pages = [j \in 1 .. numPages(m) |-> Readable(m) /\ m.include]
      BY <2>1 DEF RowsOk, PagesRead
    <3>2. (row.says = "scanned") = (Readable(m) /\ m.include)
      BY <2>4
    <3> QED BY <2>3, <3>1, <3>2
  <2> QED BY <2>3, <2>5, <2>6, <2>7
<1> QED BY <1>1, <1>2

\* The rows of printMaps() are those of the selected regions, in order, and say
\* of each whether it was read and its pages were asked for (maps.c:386-448).
THEOREM RowsAreTrue == Spec => []RowsTellTheScan
  BY InvariantHolds, RowsHold, RowsAreRight, PTL

\* In an address space of any size, a byte of the selected, readable regions has
\* been read as often as --scan_byte, --shannon and --phys ask for it, up to
\* three times, before the rows are printed; and no other address is ever read.
THEOREM ScanIsExact == Spec => []TouchesTheSelection
  BY InvariantHolds, ReadsTheSelection, PTL

\* Any number of filters, in any order, select the union of what each of them
\* selects as the code compares: what config.h documents, but for the named
\* differences NextDoor, Missed and MayMiss.
THEOREM SelectionIsRight == Spec => []SelectionIsTheUnion
  BY InvariantHolds, SelectsTheUnion, PTL

\* getMap() and a filter for an address differ by the neighbour that begins
\* there at the most, however many regions there are.
THEOREM GetMapAgrees == Spec => []AddressAgreesWithGetMap
  BY InvariantHolds, FilterFindsWhatGetMapFinds, PTL
=============================================================================
