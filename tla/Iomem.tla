------------------------------- MODULE Iomem --------------------------------
(***************************************************************************)
(* iomem.c: the linked list of physical memory regions.                    *)
(*                                                                         *)
(* A region has only a start; it ends where the next one starts, and the   *)
(* last one at MAX_PHYS_ADDR.  The list is a function on 1 .. count: the   *)
(* region 1 is iomem_head, the successor of region i is region i + 1.      *)
(* The loops that walk along the list take one step per region.            *)
(***************************************************************************)
EXTENDS Integers

CONSTANTS
    MaxPhysAddr,    \* MAX_PHYS_ADDR
    Descriptions,   \* the descriptions, cut to MAX_IOMEM_DESCRIPTION
    Unmapped,       \* UNMAPPED_MEMORY_DESCRIPTION
    Requests        \* the addresses that are asked for, and the bounds of the
                    \* regions in the file: some lie past MAX_PHYS_ADDR

ASSUME IomemAssumption ==
    /\ MaxPhysAddr \in Nat
    /\ Unmapped \in Descriptions
    /\ Requests \subseteq Nat

VARIABLES
    count,    \* the number of regions
    regions,  \* the regions, in the order of the list
    call,     \* the function that is under way: "none", "add" or "describe"
    start, end, description,  \* the arguments of add_iomem_region()
    physAddr, \* the argument of get_iomem_region_description()
    current,  \* the region the walk has come to
    answer,   \* the description that was returned last
    fatal     \* FATAL_ERROR ended the process

listVars == <<count, regions>>
argVars  == <<start, end, description, physAddr>>
vars == <<listVars, call, argVars, current, answer, fatal>>

Addresses == 0 .. MaxPhysAddr
Region(s, d) == [start |-> s, description |-> d]

\* Mistaken: a region ends where the next one starts.
EndTouching(i) == IF i = count THEN MaxPhysAddr ELSE regions[i + 1].start

\* getEnd(): the byte before the next region.
End(i) == IF i = count THEN MaxPhysAddr ELSE regions[i + 1].start - 1

\* validate_iomem(): its check is skipped where the start before is 0.
ValidateIomem ==
    /\ regions[1].start = 0
    /\ \A i \in 2 .. count :
          regions[i - 1].start # 0 => regions[i - 1].start < regions[i].start

Init ==
    /\ count = 1 /\ regions = [i \in 1 .. 1 |-> Region(0, Unmapped)]
    /\ call = "none"
    /\ start = 0 /\ end = 0 /\ description = Unmapped
    /\ physAddr = 0
    /\ current = 1
    /\ answer = Unmapped
    /\ fatal = FALSE

----------------------------------------------------------------------------
(* add_iomem_region()                                                      *)

\* read_iomem() hands over the next line of the file.  The list passes the
\* ASSERT( validate_iomem() ), which StrictlySorted implies.
BeginAdd ==
    /\ ~fatal
    /\ call = "none"
    /\ ValidateIomem
    /\ call' = "add"
    /\ \E s, e \in Requests, d \in Descriptions :
          /\ s <= e
          /\ start' = s /\ end' = e /\ description' = d
    /\ current' = 1
    /\ UNCHANGED <<listVars, physAddr, answer, fatal>>

\* Mistaken: the loop goes past a region that ends with the new one.
GoesOnPast == current # count /\ regions[current].start < start /\ End(current) <= end

\* The condition of the loop that finds the region to insert into.
GoesOn == current # count /\ regions[current].start < start /\ End(current) < end

WalkAdd ==
    /\ ~fatal
    /\ call = "add"
    /\ GoesOn
    /\ current' = current + 1
    /\ UNCHANGED <<listVars, call, argVars, answer, fatal>>

\* The list with the region current replaced by the regions new[1 .. n].
Replace(n, new) ==
    /\ count' = count - 1 + n
    /\ regions' = [i \in 1 .. count - 1 + n |->
                      IF i < current THEN regions[i]
                      ELSE IF i < current + n THEN new[i - current + 1]
                      ELSE regions[i - n + 1]]

\* The call returns; its arguments and locals are gone.
Returned ==
    /\ call' = "none"
    /\ start' = 0 /\ end' = 0 /\ description' = Unmapped
    /\ physAddr' = 0
    /\ current' = 1

Added == Returned /\ UNCHANGED <<answer, fatal>>

\* What the loop has stopped at.
Found == ~fatal /\ call = "add" /\ ~GoesOn

\* The region starts, or ends, with the one to add.
SameStart  == regions[current].start = start
SameEnd    == End(current) = end
StartsLeft == regions[current].start < start
EndsRight  == End(current) > end

ReplaceRegion ==
    /\ Found /\ SameStart /\ SameEnd
    /\ Replace(1, <<Region(start, description)>>)
    /\ Added

NewLeft ==
    /\ Found /\ SameStart /\ EndsRight
    /\ Replace(2, <<Region(start, description),
                    Region(end + 1, regions[current].description)>>)
    /\ Added

NewRight ==
    /\ Found /\ StartsLeft /\ SameEnd
    /\ Replace(2, <<regions[current], Region(start, description)>>)
    /\ Added

NewMiddle ==
    /\ Found /\ StartsLeft /\ EndsRight
    /\ Replace(3, <<regions[current], Region(start, description),
                    Region(end + 1, regions[current].description)>>)
    /\ Added

Die ==
    /\ fatal' = TRUE
    /\ UNCHANGED <<listVars, call, argVars, current, answer>>

\* "requested region overlaps and is not valid"
Overlaps ==
    /\ Found
    /\ ~(SameStart \/ StartsLeft) \/ ~(SameEnd \/ EndsRight)
    /\ Die

\* malloc() returns NULL for one of the new regions.
MallocFails ==
    /\ Found
    /\ \/ SameStart /\ EndsRight
       \/ StartsLeft /\ (SameEnd \/ EndsRight)
    /\ Die

AddRegion ==
    \/ BeginAdd \/ WalkAdd
    \/ ReplaceRegion \/ NewLeft \/ NewRight \/ NewMiddle
    \/ Overlaps \/ MallocFails

----------------------------------------------------------------------------
(* get_iomem_region_description()                                          *)

BeginDescribe ==
    /\ ~fatal
    /\ call = "none"
    /\ call' = "describe"
    /\ physAddr' \in Requests
    /\ current' = 1
    /\ UNCHANGED <<listVars, start, end, description, answer, fatal>>

\* Mistaken: the walk stops at a region that starts at the address.
NextStartsStrictlyBefore == current # count /\ regions[current + 1].start < physAddr

NextStartsBefore == current # count /\ regions[current + 1].start <= physAddr

WalkDescribe ==
    /\ ~fatal
    /\ call = "describe"
    /\ IF NextStartsBefore
       THEN current' = current + 1 /\ UNCHANGED <<call, argVars, answer>>
       ELSE answer' = regions[current].description /\ Returned
    /\ UNCHANGED <<listVars, fatal>>

(* release_iomem()                                                         *)

ReleaseIomem ==
    /\ ~fatal
    /\ call = "none"
    /\ count' = 1
    /\ regions' = [i \in 1 .. 1 |-> Region(0, Unmapped)]
    /\ UNCHANGED <<call, argVars, current, answer, fatal>>

----------------------------------------------------------------------------

Ended == fatal /\ UNCHANGED vars

Next == AddRegion \/ BeginDescribe \/ WalkDescribe \/ ReleaseIomem \/ Ended

Spec == Init /\ [][Next]_vars

----------------------------------------------------------------------------

TypeInvariant ==
    /\ count \in Nat \ {0}
    /\ regions \in [1 .. count -> [start : Addresses, description : Descriptions]]
    /\ call \in {"none", "add", "describe"}
    /\ start \in Nat /\ end \in Nat /\ start <= end
    /\ description \in Descriptions
    /\ physAddr \in Nat
    /\ current \in Nat
    /\ call # "none" => current \in 1 .. count
    /\ answer \in Descriptions
    /\ fatal \in BOOLEAN

\* The first region starts at 0 and the starts increase strictly, so that
\* the regions are not empty and cover all addresses: the rules validate_iomem
\* documents (iomem.c:171-175), which are more than what it tests.
StrictlySorted ==
    /\ regions[1].start = 0
    /\ \A i, j \in 1 .. count : i < j => regions[i].start < regions[j].start

\* The loop of add_iomem_region() stops at the only region that could take
\* the new one (iomem.c:308-313): if any region of the list contains the new
\* one, it is the one the loop stopped at, and so a region is refused as
\* overlapping only when there is no place for it.
WalkFindsTheRegion ==
    Found =>
       \A i \in 1 .. count :
          regions[i].start <= start /\ end <= End(i) => i = current

\* The map the list stands for.
RegionAt(a) == CHOOSE i \in 1 .. count : regions[i].start <= a /\ a <= End(i)

Map == INSTANCE PhysMap WITH
    memory  <- [a \in Addresses |-> regions[RegionAt(a)].description],
    borders <- {regions[i].start : i \in 1 .. count},
    request <- CASE call = "none"     -> <<>>
                 [] call = "add"      -> <<start, end, description>>
                 [] call = "describe" -> <<physAddr>>,
    refused <- fatal

\* The list implements the map: an insertion gives its description to the
\* addresses of its region and to no other, it ends the process only when the
\* region crosses a border or there is no memory for a new one, and a lookup
\* returns what the map holds for the address that was asked for.
ImplementsMap == Map!Spec
=============================================================================
