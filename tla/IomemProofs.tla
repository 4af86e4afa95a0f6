---------------------------- MODULE IomemProofs -----------------------------
(***************************************************************************)
(* Proofs about Iomem for any address space, any descriptions and any      *)
(* sequence of calls: the list stays sorted and without gaps, the walk of  *)
(* an insertion stops at the one region that can take it, and the list     *)
(* implements the map of PhysMap.  Then proofs about IomemSummary: the     *)
(* summary of any list counts each of its addresses once, and its bubble   *)
(* sort ends.                                                              *)
(***************************************************************************)
EXTENDS IomemSummary, FiniteSetTheorems, TLAPS

\* What is true of the regions the walks have passed, and of the arguments of
\* the call that is under way.
Passed ==
    /\ call = "add" =>
          /\ start \in Requests /\ end \in Requests
          /\ \A i \in 1 .. current - 1 : End(i) < end
    /\ call = "describe" =>
          /\ physAddr \in Requests
          /\ regions[current].start <= physAddr

IInv == TypeInvariant /\ StrictlySorted /\ Passed

----------------------------------------------------------------------------
(* The list                                                                *)

\* A set of natural numbers that is not empty has a least element.
LEMMA Least ==
    ASSUME NEW S \in SUBSET Nat, S # {}
    PROVE  \E n \in S : \A m \in S : n <= m
<1> DEFINE Less == {p \in Nat \X Nat : p[1] < p[2]}
<1>1. IsWellFoundedOn(Less, Nat)
  BY NatLessThanWellFounded DEF OpToRel
<1>2. PICK n \in S : \A m \in S : ~(<<m, n>> \in Less)
  <2> HIDE DEF Less
  <2> QED BY <1>1, WFMin
<1>3. \A m \in S : n <= m
  <2> SUFFICES ASSUME NEW m \in S PROVE n <= m
    OBVIOUS
  <2>1. ~(<<m, n>> \in Less)
    BY <1>2
  <2>2. ~(m < n)
    BY <2>1
  <2> QED BY <2>2
<1> QED BY <1>3

\* A region is not empty, ends in the address space, and before every later one.
LEMMA EndBounds ==
    TypeInvariant /\ StrictlySorted =>
       \A i \in 1 .. count :
          /\ End(i) \in Addresses
          /\ regions[i].start \in Addresses
          /\ regions[i].start <= End(i)
          /\ \A j \in 1 .. count : i < j => End(i) < regions[j].start
<1> SUFFICES ASSUME TypeInvariant, StrictlySorted, NEW i \in 1 .. count
             PROVE  /\ End(i) \in Addresses
                    /\ regions[i].start \in Addresses
                    /\ regions[i].start <= End(i)
                    /\ \A j \in 1 .. count : i < j => End(i) < regions[j].start
  OBVIOUS
<1>1. /\ count \in Nat \ {0} /\ MaxPhysAddr \in Nat
      /\ \A j \in 1 .. count : regions[j].start \in Addresses
  BY IomemAssumption DEF TypeInvariant
<1>2. \A j, k \in 1 .. count : j < k => regions[j].start < regions[k].start
  BY DEF StrictlySorted
<1>3. CASE i = count
  BY <1>1, <1>3 DEF End, Addresses
<1>4. CASE i # count
  <2>1. i + 1 \in 1 .. count /\ End(i) = regions[i + 1].start - 1
    BY <1>1, <1>4 DEF End
  <2>2. regions[i].start < regions[i + 1].start
    BY <1>1, <1>2, <2>1
  <2>3. \A j \in 1 .. count : i < j => regions[i + 1].start <= regions[j].start
    <3> SUFFICES ASSUME NEW j \in 1 .. count, i < j
                 PROVE  regions[i + 1].start <= regions[j].start
      OBVIOUS
    <3>1. i + 1 = j \/ i + 1 < j
      BY <1>1
    <3> QED BY <1>1, <1>2, <2>1, <3>1 DEF Addresses
  <2> QED BY <1>1, <2>1, <2>2, <2>3 DEF Addresses
<1> QED BY <1>3, <1>4

\* Two regions have no address in common.
LEMMA Disjoint ==
    TypeInvariant /\ StrictlySorted =>
       \A i, j \in 1 .. count, a \in Nat :
          /\ regions[i].start <= a /\ a <= End(i)
          /\ regions[j].start <= a /\ a <= End(j)
          => i = j
<1> SUFFICES ASSUME TypeInvariant, StrictlySorted,
                    NEW i \in 1 .. count, NEW j \in 1 .. count, NEW a \in Nat,
                    regions[i].start <= a, a <= End(i),
                    regions[j].start <= a, a <= End(j), i < j \/ j < i
             PROVE  FALSE
  BY DEF TypeInvariant
<1>1. /\ i < j => End(i) < regions[j].start
      /\ j < i => End(j) < regions[i].start
      /\ {End(i), End(j), regions[i].start, regions[j].start} \subseteq Addresses
  BY EndBounds
<1> QED BY <1>1, IomemAssumption DEF Addresses

\* Every address lies in a region.
LEMMA Covered ==
    TypeInvariant /\ StrictlySorted =>
       \A a \in Addresses :
          \E i \in 1 .. count : regions[i].start <= a /\ a <= End(i)
<1> SUFFICES ASSUME TypeInvariant, StrictlySorted, NEW a \in Addresses
             PROVE  \E i \in 1 .. count : regions[i].start <= a /\ a <= End(i)
  OBVIOUS
<1>1. /\ count \in Nat \ {0} /\ MaxPhysAddr \in Nat /\ a \in Nat /\ a <= MaxPhysAddr
      /\ \A j \in 1 .. count : regions[j].start \in Nat
  BY IomemAssumption DEF TypeInvariant, Addresses
<1> DEFINE Bounds == {n \in Nat : \A j \in 1 .. count : regions[j].start <= a => j <= n}
<1>2. count \in Bounds
  BY <1>1
<1>3. PICK n \in Bounds : \A m \in Bounds : n <= m
  BY <1>2, Least
<1>4. 1 \in 1 .. count /\ regions[1].start <= a
  BY <1>1 DEF StrictlySorted
<1>5. n \in 1 .. count
  BY <1>1, <1>2, <1>3, <1>4
<1>6. regions[n].start <= a
  <2> SUFFICES ASSUME ~(regions[n].start <= a)
               PROVE  n - 1 \in Bounds
    BY <1>3, <1>5
  <2> QED BY <1>1, <1>3, <1>5
<1>7. a <= End(n)
  <2>1. CASE n = count
    BY <1>1, <2>1 DEF End
  <2>2. CASE n # count
    <3>1. n + 1 \in 1 .. count /\ End(n) = regions[n + 1].start - 1
      BY <1>1, <1>5, <2>2 DEF End
    <3>2. ~(regions[n + 1].start <= a)
      BY <1>3, <1>5, <3>1
    <3> QED BY <1>1, <3>1, <3>2
  <2> QED BY <2>1, <2>2
<1> QED BY <1>5, <1>6, <1>7

\* The region of an address is the one that contains it.
LEMMA RegionAtIs ==
    TypeInvariant /\ StrictlySorted =>
       \A a \in Addresses, i \in 1 .. count :
          regions[i].start <= a /\ a <= End(i) => RegionAt(a) = i
<1> SUFFICES ASSUME TypeInvariant, StrictlySorted,
                    NEW a \in Addresses, NEW i \in 1 .. count,
                    regions[i].start <= a, a <= End(i)
             PROVE  RegionAt(a) = i
  OBVIOUS
<1>1. /\ RegionAt(a) \in 1 .. count
      /\ regions[RegionAt(a)].start <= a /\ a <= End(RegionAt(a))
  BY DEF RegionAt
<1>2. a \in Nat
  BY IomemAssumption DEF Addresses
<1> QED BY <1>1, <1>2, Disjoint

----------------------------------------------------------------------------
(* Insertion                                                               *)

\* The list after Replace(n, new): what was before the region current, the new
\* regions, and what was behind it.
LEMMA Replaced ==
    ASSUME TypeInvariant, current \in 1 .. count,
           NEW n \in 1 .. 3, NEW new, Replace(n, new)
    PROVE  /\ count' = count - 1 + n
           /\ DOMAIN regions' = 1 .. count'
           /\ \A i \in 1 .. current - 1 : i \in 1 .. count' /\ regions'[i] = regions[i]
           /\ \A k \in 1 .. n : /\ current - 1 + k \in 1 .. count'
                                /\ regions'[current - 1 + k] = new[k]
           /\ \A i \in current + 1 .. count :
                 i - 1 + n \in 1 .. count' /\ regions'[i - 1 + n] = regions[i]
<1>1. count \in Nat \ {0} /\ current \in Nat
  BY DEF TypeInvariant
<1>2. /\ count' = count - 1 + n
      /\ regions' = [i \in 1 .. count - 1 + n |->
                        IF i < current THEN regions[i]
                        ELSE IF i < current + n THEN new[i - current + 1]
                        ELSE regions[i - n + 1]]
  BY DEF Replace
<1>3. \A i \in 1 .. current - 1 : i \in 1 .. count' /\ regions'[i] = regions[i]
  BY <1>1, <1>2
<1>4. ASSUME NEW k \in 1 .. n
      PROVE  current - 1 + k \in 1 .. count' /\ regions'[current - 1 + k] = new[k]
  <2>1. /\ current - 1 + k \in 1 .. count - 1 + n
        /\ ~(current - 1 + k < current) /\ current - 1 + k < current + n
        /\ current - 1 + k - current + 1 = k
    BY <1>1
  <2> QED BY <1>2, <2>1
<1>5. ASSUME NEW i \in current + 1 .. count
      PROVE  i - 1 + n \in 1 .. count' /\ regions'[i - 1 + n] = regions[i]
  <2>1. /\ i - 1 + n \in 1 .. count - 1 + n
        /\ ~(i - 1 + n < current) /\ ~(i - 1 + n < current + n)
        /\ i - 1 + n - n + 1 = i
    BY <1>1
  <2> QED BY <1>2, <2>1
<1> QED BY <1>2, <1>3, <1>4, <1>5

\* Every position of the list after Replace() is in one of the three parts.
LEMMA Parts ==
    ASSUME TypeInvariant, current \in 1 .. count, NEW n \in 1 .. 3,
           NEW i \in 1 .. count - 1 + n
    PROVE  \/ i \in 1 .. current - 1
           \/ \E k \in 1 .. n : i = current - 1 + k
           \/ \E j \in current + 1 .. count : i = j - 1 + n
<1>1. count \in Nat \ {0} /\ current \in Nat
  BY DEF TypeInvariant
<1>2. CASE i < current
  BY <1>1, <1>2
<1>3. CASE ~(i < current) /\ i < current + n
  <2>1. i - current + 1 \in 1 .. n /\ i = current - 1 + (i - current + 1)
    BY <1>1, <1>3
  <2> QED BY <2>1
<1>4. CASE ~(i < current + n)
  <2>1. i - n + 1 \in current + 1 .. count /\ i = i - n + 1 - 1 + n
    BY <1>1, <1>4
  <2> QED BY <2>1
<1> QED BY <1>2, <1>3, <1>4

\* If the new regions begin where the old one did, increase, and begin before
\* it ended, the list stays sorted.
LEMMA ReplaceSorted ==
    ASSUME TypeInvariant, StrictlySorted, current \in 1 .. count,
           NEW n \in 1 .. 3, NEW new, Replace(n, new),
           \A k \in 1 .. n : new[k] \in [start : Addresses, description : Descriptions],
           new[1].start = regions[current].start,
           \A k, l \in 1 .. n : k < l => new[k].start < new[l].start,
           \A k \in 1 .. n : new[k].start <= End(current)
    PROVE  /\ count' \in Nat \ {0}
           /\ regions' \in [1 .. count' -> [start : Addresses, description : Descriptions]]
           /\ StrictlySorted'
<1> DEFINE Records == [start : Addresses, description : Descriptions]
<1>1. count \in Nat \ {0} /\ current \in Nat /\ MaxPhysAddr \in Nat
  BY IomemAssumption DEF TypeInvariant
<1>2. /\ count' = count - 1 + n
      /\ DOMAIN regions' = 1 .. count'
      /\ \A i \in 1 .. current - 1 : i \in 1 .. count' /\ regions'[i] = regions[i]
      /\ \A k \in 1 .. n : /\ current - 1 + k \in 1 .. count'
                           /\ regions'[current - 1 + k] = new[k]
      /\ \A i \in current + 1 .. count :
            i - 1 + n \in 1 .. count' /\ regions'[i - 1 + n] = regions[i]
  BY Replaced
<1>3. \A i \in 1 .. count : regions[i] \in Records
  BY DEF TypeInvariant
<1>4. \A i \in 1 .. count' : regions'[i] \in Records
  <2> SUFFICES ASSUME NEW i \in 1 .. count - 1 + n PROVE regions'[i] \in Records
    BY <1>2
  <2>1. CASE i \in 1 .. current - 1
    BY <1>1, <1>2, <1>3, <2>1
  <2>2. CASE \E k \in 1 .. n : i = current - 1 + k
    BY <1>2, <2>2
  <2>3. CASE \E j \in current + 1 .. count : i = j - 1 + n
    <3>1. PICK j \in current + 1 .. count : i = j - 1 + n
      BY <2>3
    <3>2. j \in 1 .. count /\ regions'[i] = regions[j]
      BY <1>1, <1>2, <3>1
    <3> QED BY <1>3, <3>2
  <2> QED BY <2>1, <2>2, <2>3, Parts
<1>5. count' \in Nat \ {0}
  BY <1>1, <1>2
<1>6. regions' \in [1 .. count' -> Records]
  <2>1. regions' = [i \in 1 .. count' |-> regions'[i]]
    BY <1>2 DEF Replace
  <2> QED BY <1>4, <2>1
<1>7. regions'[1].start = 0
  <2>1. CASE current = 1
    <3>1. 1 \in 1 .. n /\ current - 1 + 1 = 1
      BY <2>1
    <3> QED BY <1>2, <2>1, <3>1 DEF StrictlySorted
  <2>2. CASE current # 1
    BY <1>1, <1>2, <2>2 DEF StrictlySorted
  <2> QED BY <2>1, <2>2
<1>8. ASSUME NEW i \in 1 .. count', NEW j \in 1 .. count', i < j
      PROVE  regions'[i].start < regions'[j].start
  <2>1. /\ \A a, b \in 1 .. count : a < b => regions[a].start < regions[b].start
        /\ \A a \in 1 .. count : regions[a].start \in Nat
        /\ \A k \in 1 .. n : new[k].start \in Nat
    BY <1>1, <1>3 DEF StrictlySorted, Addresses
  <2>2. /\ End(current) \in Nat
        /\ \A b \in current + 1 .. count : End(current) < regions[b].start
    BY <1>1, EndBounds DEF Addresses
  <2>3. \A k \in 1 .. n : regions[current].start <= new[k].start
    <3> SUFFICES ASSUME NEW k \in 1 .. n PROVE regions[current].start <= new[k].start
      OBVIOUS
    <3>1. 1 \in 1 .. n /\ (k = 1 \/ 1 < k)
      OBVIOUS
    <3> QED BY <2>1, <3>1
  <2>4. /\ i \in 1 .. count - 1 + n /\ j \in 1 .. count - 1 + n
    BY <1>2
  <2>5. CASE i \in 1 .. current - 1
    <3>1. /\ i \in 1 .. count /\ regions'[i].start = regions[i].start
          /\ regions[i].start < regions[current].start
      BY <1>1, <1>2, <2>1, <2>5
    <3>2. CASE j \in 1 .. current - 1
      <4>1. j \in 1 .. count /\ regions'[j] = regions[j]
        BY <1>1, <1>2, <3>2
      <4> QED BY <1>8, <2>1, <3>1, <4>1
    <3>3. CASE \E k \in 1 .. n : j = current - 1 + k
      <4>1. PICK k \in 1 .. n : j = current - 1 + k
        BY <3>3
      <4>2. regions'[j] = new[k]
        BY <1>2, <4>1
      <4>3. /\ regions[i].start \in Nat /\ regions[current].start \in Nat
            /\ new[k].start \in Nat /\ regions[current].start <= new[k].start
        BY <2>1, <2>3, <3>1
      <4> QED BY <3>1, <4>2, <4>3
    <3>4. CASE \E b \in current + 1 .. count : j = b - 1 + n
      <4>1. PICK b \in current + 1 .. count : j = b - 1 + n
        BY <3>4
      <4>2. b \in 1 .. count /\ i < b /\ regions'[j].start = regions[b].start
        BY <1>1, <1>2, <2>5, <4>1
      <4> QED BY <2>1, <3>1, <4>2
    <3> QED BY <2>4, <3>2, <3>3, <3>4, Parts
  <2>6. CASE \E k \in 1 .. n : i = current - 1 + k
    <3>1. PICK k \in 1 .. n : i = current - 1 + k
      BY <2>6
    <3>2. ~(j \in 1 .. current - 1)
      BY <1>1, <1>8, <3>1
    <3>3. CASE \E l \in 1 .. n : j = current - 1 + l
      <4>1. PICK l \in 1 .. n : j = current - 1 + l
        BY <3>3
      <4>2. k < l
        BY <1>1, <1>8, <3>1, <4>1
      <4> QED BY <1>2, <3>1, <4>1, <4>2
    <3>4. CASE \E b \in current + 1 .. count : j = b - 1 + n
      <4>1. PICK b \in current + 1 .. count : j = b - 1 + n
        BY <3>4
      <4>2. /\ new[k].start <= End(current) /\ End(current) < regions[b].start
            /\ regions[b].start \in Nat /\ new[k].start \in Nat
        BY <1>1, <2>1, <2>2
      <4> QED BY <1>2, <2>2, <3>1, <4>1, <4>2
    <3> QED BY <2>4, <3>2, <3>3, <3>4, Parts
  <2>7. CASE \E a \in current + 1 .. count : i = a - 1 + n
    <3>1. PICK a \in current + 1 .. count : i = a - 1 + n
      BY <2>7
    <3>2. ~(j \in 1 .. current - 1) /\ ~(\E k \in 1 .. n : j = current - 1 + k)
      BY <1>1, <1>8, <3>1
    <3>3. PICK b \in current + 1 .. count : j = b - 1 + n
      BY <2>4, <3>2, Parts
    <3>4. a \in 1 .. count /\ b \in 1 .. count /\ a < b
      BY <1>1, <1>8, <3>1, <3>3
    <3> QED BY <1>2, <2>1, <3>1, <3>3, <3>4
  <2> QED BY <2>4, <2>5, <2>6, <2>7, Parts
<1> QED BY <1>5, <1>6, <1>7, <1>8 DEF StrictlySorted

----------------------------------------------------------------------------
(* The invariant                                                           *)

LEMMA InitIInv == Init => IInv
<1> SUFFICES ASSUME Init PROVE IInv
  OBVIOUS
<1>1. /\ count = 1 /\ regions = [i \in 1 .. 1 |-> Region(0, Unmapped)]
      /\ regions[1] = Region(0, Unmapped)
  BY DEF Init
<1>2. /\ Region(0, Unmapped) \in [start : Addresses, description : Descriptions]
      /\ Region(0, Unmapped).start = 0
  BY IomemAssumption DEF Region, Addresses
<1>3. TypeInvariant
  <2>1. regions \in [1 .. count -> [start : Addresses, description : Descriptions]]
    BY <1>1, <1>2
  <2>2. fatal \in BOOLEAN
    BY DEF Init
  <2> QED BY <2>1, <2>2, IomemAssumption DEF Init, TypeInvariant
<1>4. StrictlySorted
  BY <1>1, <1>2 DEF StrictlySorted
<1>5. Passed
  BY DEF Init, Passed
<1> QED BY <1>3, <1>4, <1>5 DEF IInv

LEMMA UnchangedList ==
    ASSUME IInv, UNCHANGED listVars
    PROVE  /\ count' \in Nat \ {0}
           /\ regions' \in [1 .. count' -> [start : Addresses, description : Descriptions]]
           /\ StrictlySorted'
  BY DEF IInv, TypeInvariant, StrictlySorted, listVars

\* A call that returns leaves no arguments to speak of.
LEMMA ReturnedInv ==
    ASSUME IInv, Returned, answer' \in Descriptions, UNCHANGED fatal,
           count' \in Nat \ {0},
           regions' \in [1 .. count' -> [start : Addresses, description : Descriptions]],
           StrictlySorted'
    PROVE  IInv'
<1>1. TypeInvariant'
  <2>1. fatal' \in BOOLEAN
    BY DEF IInv, TypeInvariant
  <2> QED BY <2>1, IomemAssumption DEF Returned, TypeInvariant
<1>2. Passed'
  BY DEF Returned, Passed
<1> QED BY <1>1, <1>2 DEF IInv

\* What is known of the arguments of an insertion.
LEMMA AddArguments ==
    ASSUME IInv, call = "add"
    PROVE  /\ start \in Nat /\ end \in Nat /\ start <= end
           /\ start \in Requests /\ end \in Requests /\ description \in Descriptions
           /\ current \in 1 .. count
           /\ regions[current] \in [start : Addresses, description : Descriptions]
           /\ End(current) \in Addresses /\ regions[current].start <= End(current)
  BY EndBounds DEF IInv, TypeInvariant, Passed

LEMMA RegionFields ==
    ASSUME NEW s, NEW d
    PROVE  /\ Region(s, d).start = s /\ Region(s, d).description = d
           /\ s \in Addresses /\ d \in Descriptions =>
                 Region(s, d) \in [start : Addresses, description : Descriptions]
  BY DEF Region

LEMMA ReplaceRegionInv == IInv /\ ReplaceRegion => IInv'
<1> SUFFICES ASSUME IInv, ReplaceRegion PROVE IInv'
  OBVIOUS
<1> DEFINE new == <<Region(start, description)>>
<1>1. /\ Replace(1, new) /\ Added /\ current \in 1 .. count
      /\ description \in Descriptions
      /\ start = regions[current].start /\ start \in Addresses
      /\ start <= End(current)
      /\ TypeInvariant /\ StrictlySorted
  BY AddArguments DEF ReplaceRegion, Found, SameStart, IInv
<1>2. /\ \A k \in 1 .. 1 : /\ new[k] \in [start : Addresses, description : Descriptions]
                           /\ new[k].start <= End(current)
      /\ \A k, l \in 1 .. 1 : k < l => new[k].start < new[l].start
      /\ new[1].start = regions[current].start
  BY <1>1, RegionFields
<1>3. /\ count' \in Nat \ {0}
      /\ regions' \in [1 .. count' -> [start : Addresses, description : Descriptions]]
      /\ StrictlySorted'
  <2> HIDE DEF new
  <2> QED BY <1>1, <1>2, ReplaceSorted
<1> QED BY <1>1, <1>3, ReturnedInv DEF Added, IInv, TypeInvariant

LEMMA NewLeftInv == IInv /\ NewLeft => IInv'
<1> SUFFICES ASSUME IInv, NewLeft PROVE IInv'
  OBVIOUS
<1> DEFINE new == <<Region(start, description),
                    Region(end + 1, regions[current].description)>>
<1>1. /\ Replace(2, new) /\ Added /\ current \in 1 .. count
      /\ description \in Descriptions /\ regions[current].description \in Descriptions
      /\ start = regions[current].start /\ start \in Addresses
      /\ end + 1 \in Addresses /\ start < end + 1 /\ start \in Nat
      /\ start <= End(current) /\ end + 1 <= End(current)
      /\ TypeInvariant /\ StrictlySorted
  BY AddArguments, IomemAssumption DEF NewLeft, Found, SameStart, EndsRight, IInv,
     Addresses
<1>2. /\ \A k \in 1 .. 2 : /\ new[k] \in [start : Addresses, description : Descriptions]
                           /\ new[k].start <= End(current)
      /\ \A k, l \in 1 .. 2 : k < l => new[k].start < new[l].start
      /\ new[1].start = regions[current].start
  BY <1>1, RegionFields
<1>3. /\ count' \in Nat \ {0}
      /\ regions' \in [1 .. count' -> [start : Addresses, description : Descriptions]]
      /\ StrictlySorted'
  <2> HIDE DEF new
  <2> QED BY <1>1, <1>2, ReplaceSorted
<1> QED BY <1>1, <1>3, ReturnedInv DEF Added, IInv, TypeInvariant

LEMMA NewRightInv == IInv /\ NewRight => IInv'
<1> SUFFICES ASSUME IInv, NewRight PROVE IInv'
  OBVIOUS
<1> DEFINE new == <<regions[current], Region(start, description)>>
<1>1. /\ Replace(2, new) /\ Added /\ current \in 1 .. count
      /\ regions[current] \in [start : Addresses, description : Descriptions]
      /\ description \in Descriptions
      /\ start \in Addresses /\ regions[current].start < start
      /\ regions[current].start <= End(current) /\ start <= End(current)
      /\ TypeInvariant /\ StrictlySorted
  BY AddArguments, IomemAssumption DEF NewRight, Found, StartsLeft, SameEnd, IInv,
     Addresses
<1>2. /\ \A k \in 1 .. 2 : /\ new[k] \in [start : Addresses, description : Descriptions]
                           /\ new[k].start <= End(current)
      /\ \A k, l \in 1 .. 2 : k < l => new[k].start < new[l].start
      /\ new[1].start = regions[current].start
  BY <1>1, RegionFields
<1>3. /\ count' \in Nat \ {0}
      /\ regions' \in [1 .. count' -> [start : Addresses, description : Descriptions]]
      /\ StrictlySorted'
  <2> HIDE DEF new
  <2> QED BY <1>1, <1>2, ReplaceSorted
<1> QED BY <1>1, <1>3, ReturnedInv DEF Added, IInv, TypeInvariant

LEMMA NewMiddleInv == IInv /\ NewMiddle => IInv'
<1> SUFFICES ASSUME IInv, NewMiddle PROVE IInv'
  OBVIOUS
<1> DEFINE new == <<regions[current], Region(start, description),
                    Region(end + 1, regions[current].description)>>
<1>1. /\ Replace(3, new) /\ Added /\ current \in 1 .. count
      /\ regions[current] \in [start : Addresses, description : Descriptions]
      /\ description \in Descriptions /\ regions[current].description \in Descriptions
      /\ start \in Addresses /\ regions[current].start < start
      /\ regions[current].start < end + 1
      /\ end + 1 \in Addresses /\ start < end + 1 /\ start \in Nat
      /\ regions[current].start <= End(current)
      /\ start <= End(current) /\ end + 1 <= End(current)
      /\ TypeInvariant /\ StrictlySorted
  BY AddArguments, IomemAssumption DEF NewMiddle, Found, StartsLeft, EndsRight,
     IInv, Addresses
<1>2. /\ \A k \in 1 .. 3 : /\ new[k] \in [start : Addresses, description : Descriptions]
                           /\ new[k].start <= End(current)
      /\ \A k, l \in 1 .. 3 : k < l => new[k].start < new[l].start
      /\ new[1].start = regions[current].start
  BY <1>1, RegionFields
<1>3. /\ count' \in Nat \ {0}
      /\ regions' \in [1 .. count' -> [start : Addresses, description : Descriptions]]
      /\ StrictlySorted'
  <2> HIDE DEF new
  <2> QED BY <1>1, <1>2, ReplaceSorted
<1> QED BY <1>1, <1>3, ReturnedInv DEF Added, IInv, TypeInvariant

LEMMA BeginAddInv == IInv /\ BeginAdd => IInv'
<1> SUFFICES ASSUME IInv, BeginAdd PROVE IInv'
  OBVIOUS
<1>1. /\ call' = "add" /\ current' = 1
      /\ start' \in Requests /\ end' \in Requests /\ start' <= end'
      /\ description' \in Descriptions
      /\ UNCHANGED listVars /\ UNCHANGED <<physAddr, answer, fatal>>
  BY DEF BeginAdd
<1>2. /\ count' \in Nat \ {0}
      /\ regions' \in [1 .. count' -> [start : Addresses, description : Descriptions]]
      /\ StrictlySorted'
  BY <1>1, UnchangedList
<1>3. TypeInvariant'
  <2>1. fatal' \in BOOLEAN /\ answer' \in Descriptions /\ physAddr' \in Nat
    BY <1>1 DEF IInv, TypeInvariant
  <2> QED BY <1>1, <1>2, <2>1, IomemAssumption DEF TypeInvariant
<1>4. Passed'
  BY <1>1 DEF Passed
<1> QED BY <1>2, <1>3, <1>4 DEF IInv

LEMMA WalkAddInv == IInv /\ WalkAdd => IInv'
<1> SUFFICES ASSUME IInv, WalkAdd PROVE IInv'
  OBVIOUS
<1>1. /\ call = "add" /\ call' = "add" /\ current' = current + 1
      /\ current # count /\ End(current) < end
      /\ UNCHANGED listVars /\ UNCHANGED argVars /\ UNCHANGED <<answer, fatal>>
  BY DEF WalkAdd, GoesOn
<1>2. /\ count' \in Nat \ {0}
      /\ regions' \in [1 .. count' -> [start : Addresses, description : Descriptions]]
      /\ StrictlySorted'
  BY <1>1, UnchangedList
<1>3. current' \in 1 .. count'
  BY <1>1 DEF IInv, TypeInvariant, listVars
<1>4. TypeInvariant'
  <2>1. fatal' \in BOOLEAN
    BY <1>1 DEF IInv, TypeInvariant
  <2> QED BY <1>1, <1>2, <1>3, <2>1 DEF IInv, TypeInvariant, argVars
<1>5. Passed'
  <2>1. \A i \in 1 .. current : End(i) < end
    BY <1>1 DEF IInv, TypeInvariant, Passed
  <2>2. \A i : End(i)' = End(i)
    BY <1>1 DEF End, listVars
  <2>3. \A i \in 1 .. current' - 1 : End(i)' < end'
    BY <1>1, <2>1, <2>2 DEF IInv, TypeInvariant, argVars
  <2> QED BY <1>1, <2>3 DEF IInv, Passed, argVars
<1> QED BY <1>2, <1>4, <1>5 DEF IInv

LEMMA DieInv == IInv /\ Die => IInv'
<1> SUFFICES ASSUME IInv, Die PROVE IInv'
  OBVIOUS
<1>1. /\ UNCHANGED listVars /\ UNCHANGED argVars /\ UNCHANGED <<call, current, answer>>
      /\ fatal' = TRUE
  BY DEF Die
<1>2. /\ count' \in Nat \ {0}
      /\ regions' \in [1 .. count' -> [start : Addresses, description : Descriptions]]
      /\ StrictlySorted'
  BY <1>1, UnchangedList
<1>3. TypeInvariant'
  <2>1. fatal' \in BOOLEAN
    BY <1>1
  <2> QED BY <1>1, <1>2, <2>1 DEF IInv, TypeInvariant, argVars, listVars
<1>4. Passed'
  BY <1>1 DEF IInv, Passed, End, argVars, listVars
<1> QED BY <1>2, <1>3, <1>4 DEF IInv

LEMMA BeginDescribeInv == IInv /\ BeginDescribe => IInv'
<1> SUFFICES ASSUME IInv, BeginDescribe PROVE IInv'
  OBVIOUS
<1>1. /\ call' = "describe" /\ current' = 1 /\ physAddr' \in Requests
      /\ UNCHANGED listVars /\ UNCHANGED <<start, end, description, answer, fatal>>
  BY DEF BeginDescribe
<1>2. /\ count' \in Nat \ {0}
      /\ regions' \in [1 .. count' -> [start : Addresses, description : Descriptions]]
      /\ StrictlySorted'
  BY <1>1, UnchangedList
<1>3. TypeInvariant'
  <2>1. fatal' \in BOOLEAN
    BY <1>1 DEF IInv, TypeInvariant
  <2> QED BY <1>1, <1>2, <2>1, IomemAssumption DEF IInv, TypeInvariant
<1>4. Passed'
  BY <1>1, <1>2, IomemAssumption DEF Passed, StrictlySorted
<1> QED BY <1>2, <1>3, <1>4 DEF IInv

LEMMA WalkDescribeInv == IInv /\ WalkDescribe => IInv'
<1> SUFFICES ASSUME IInv, WalkDescribe PROVE IInv'
  OBVIOUS
<1>1. /\ call = "describe" /\ UNCHANGED listVars /\ UNCHANGED fatal
      /\ current \in 1 .. count /\ count \in Nat
      /\ regions[current].description \in Descriptions
  BY DEF WalkDescribe, IInv, TypeInvariant
<1>2. /\ count' \in Nat \ {0}
      /\ regions' \in [1 .. count' -> [start : Addresses, description : Descriptions]]
      /\ StrictlySorted'
  BY <1>1, UnchangedList
<1>3. CASE NextStartsBefore
  <2>1. /\ current' = current + 1 /\ UNCHANGED <<call, argVars, answer>>
        /\ current # count /\ regions[current + 1].start <= physAddr
    BY <1>3 DEF WalkDescribe, NextStartsBefore
  <2>2. current' \in 1 .. count'
    BY <1>1, <2>1 DEF listVars
  <2>3. TypeInvariant'
    <3>1. fatal' \in BOOLEAN
      BY <1>1 DEF IInv, TypeInvariant
    <3> QED BY <1>2, <2>1, <2>2, <3>1 DEF IInv, TypeInvariant, argVars
  <2>4. Passed'
    BY <1>1, <2>1 DEF IInv, Passed, argVars, listVars
  <2> QED BY <1>2, <2>3, <2>4 DEF IInv
<1>4. CASE ~NextStartsBefore
  <2>1. Returned /\ answer' = regions[current].description
    BY <1>4 DEF WalkDescribe
  <2> QED BY <1>1, <1>2, <2>1, ReturnedInv
<1> QED BY <1>3, <1>4

LEMMA ReleaseIomemInv == IInv /\ ReleaseIomem => IInv'
<1> SUFFICES ASSUME IInv, ReleaseIomem PROVE IInv'
  OBVIOUS
<1>1. /\ count' = 1 /\ regions' = [i \in 1 .. 1 |-> Region(0, Unmapped)]
      /\ regions'[1] = Region(0, Unmapped)
      /\ call = "none" /\ UNCHANGED <<call, current, answer, fatal>> /\ UNCHANGED argVars
  BY DEF ReleaseIomem
<1>2. /\ Region(0, Unmapped) \in [start : Addresses, description : Descriptions]
      /\ Region(0, Unmapped).start = 0
  BY IomemAssumption DEF Region, Addresses
<1>3. StrictlySorted'
  BY <1>1, <1>2 DEF StrictlySorted
<1>4. TypeInvariant'
  <2>1. regions' \in [1 .. count' -> [start : Addresses, description : Descriptions]]
    BY <1>1, <1>2
  <2>2. fatal' \in BOOLEAN
    BY <1>1 DEF IInv, TypeInvariant
  <2> QED BY <1>1, <2>1, <2>2 DEF IInv, TypeInvariant, argVars
<1>5. Passed'
  BY <1>1 DEF Passed
<1> QED BY <1>3, <1>4, <1>5 DEF IInv

LEMMA StepIInv == IInv /\ [Next]_vars => IInv'
<1> SUFFICES ASSUME IInv, [Next]_vars PROVE IInv'
  OBVIOUS
<1>1. CASE BeginAdd
  BY <1>1, BeginAddInv
<1>2. CASE WalkAdd
  BY <1>2, WalkAddInv
<1>3. CASE ReplaceRegion \/ NewLeft \/ NewRight \/ NewMiddle
  BY <1>3, ReplaceRegionInv, NewLeftInv, NewRightInv, NewMiddleInv
<1>4. CASE Overlaps \/ MallocFails
  BY <1>4, DieInv DEF Overlaps, MallocFails
<1>5. CASE BeginDescribe
  BY <1>5, BeginDescribeInv
<1>6. CASE WalkDescribe
  BY <1>6, WalkDescribeInv
<1>7. CASE ReleaseIomem
  BY <1>7, ReleaseIomemInv
<1>8. CASE Ended \/ UNCHANGED vars
  <2>1. /\ UNCHANGED <<count, regions, call, start, end, description>>
        /\ UNCHANGED <<physAddr, current, answer, fatal>>
    BY <1>8 DEF Ended, vars, listVars, argVars
  <2>2. StrictlySorted' /\ Passed'
    BY <2>1 DEF IInv, StrictlySorted, Passed, End
  <2>3. TypeInvariant'
    BY <2>1 DEF IInv, TypeInvariant
  <2> QED BY <2>2, <2>3 DEF IInv
<1> QED BY <1>1, <1>2, <1>3, <1>4, <1>5, <1>6, <1>7, <1>8 DEF Next, AddRegion

\* The loop has stopped at the last region, at one that does not start before
\* the new one, or at one that does not end before it; in each case the later
\* regions start too late, and the ones that were passed end too early.
LEMMA FoundRegion == IInv => WalkFindsTheRegion
<1> SUFFICES ASSUME IInv, Found, NEW i \in 1 .. count,
                    regions[i].start <= start, end <= End(i)
             PROVE  i = current
  BY DEF WalkFindsTheRegion
<1>1. /\ call = "add" /\ ~GoesOn
  BY DEF Found
<1>2. /\ start \in Nat /\ end \in Nat /\ start <= end
      /\ current \in 1 .. count /\ count \in Nat
      /\ \A j \in 1 .. current - 1 : End(j) < end
  BY <1>1 DEF IInv, TypeInvariant, Passed
<1>3. \A j \in 1 .. count :
         /\ End(j) \in Nat /\ regions[j].start \in Nat
         /\ \A k \in 1 .. count : j < k => End(j) < regions[k].start
         /\ regions[j].start <= End(j)
  BY EndBounds, IomemAssumption DEF IInv, Addresses
<1>4. ~(i < current)
  BY <1>2, <1>3
<1>5. ASSUME current < i PROVE FALSE
  <2>1. End(current) < regions[i].start /\ regions[current].start <= End(current)
    BY <1>2, <1>3, <1>5
  <2>2. regions[current].start < start /\ End(current) < end
    BY <1>2, <1>3, <2>1
  <2> QED BY <1>1, <1>2, <1>5, <2>2 DEF GoesOn
<1> QED BY <1>2, <1>4, <1>5

\* Every step of a walk and every outcome of an insertion preserves IInv.
LEMMA InvariantHolds == Spec => []IInv
  BY InitIInv, StepIInv, PTL DEF Spec

\* The list is a list of regions, and the walks never leave it.
THEOREM TypeCorrect == Spec => []TypeInvariant
  BY InvariantHolds, PTL DEF IInv

\* Any sequence of insertions and releases leaves the list sorted and without
\* empty regions.
THEOREM SortedAlways == Spec => []StrictlySorted
  BY InvariantHolds, PTL DEF IInv

\* If any region can take the new one, the walk stops at it.
THEOREM WalkIsRight == Spec => []WalkFindsTheRegion
  BY InvariantHolds, FoundRegion, PTL

----------------------------------------------------------------------------
(* The map the list stands for                                             *)

Memory  == [a \in Addresses |-> regions[RegionAt(a)].description]
Borders == {regions[i].start : i \in 1 .. count}
Request == CASE call = "none"     -> <<>>
             [] call = "add"      -> <<start, end, description>>
             [] call = "describe" -> <<physAddr>>

\* The region to insert into, and the outcome of the tests that have found it.
Contains == regions[current].start <= start /\ end <= End(current)

LEMMA MemoryOf ==
    IInv => \A a \in Addresses, i \in 1 .. count :
               regions[i].start <= a /\ a <= End(i) =>
                  Memory[a] = regions[i].description
  BY RegionAtIs DEF IInv, Memory

LEMMA MemoryOfNext ==
    IInv' => \A a \in Addresses, i \in 1 .. count' :
                regions'[i].start <= a /\ a <= End(i)' =>
                   Memory'[a] = regions'[i].description
<1>1. (IInv => \A a \in Addresses, i \in 1 .. count :
                  regions[i].start <= a /\ a <= End(i) =>
                     Memory[a] = regions[i].description)'
  BY MemoryOf, PTL
<1> QED BY <1>1

\* The insertions keep the ends of the regions they leave alone.
LEMMA ReplacedEnds ==
    ASSUME IInv, current \in 1 .. count, NEW n \in 1 .. 3, NEW new, Replace(n, new),
           new[1].start = regions[current].start
    PROVE  /\ \A i \in 1 .. current - 1 : End(i)' = End(i)
           /\ \A i \in current + 1 .. count : End(i - 1 + n)' = End(i)
           /\ \A k \in 1 .. n, j \in 1 .. count' :
                 j = current - 1 + k =>
                    End(j)' = IF k = n THEN End(current) ELSE new[k + 1].start - 1
<1>1. /\ count' = count - 1 + n
      /\ \A i \in 1 .. current - 1 : regions'[i] = regions[i]
      /\ \A k \in 1 .. n : regions'[current - 1 + k] = new[k]
      /\ \A i \in current + 1 .. count : regions'[i - 1 + n] = regions[i]
  BY Replaced DEF IInv
<1>2. count \in Nat \ {0} /\ current \in Nat
  BY DEF IInv, TypeInvariant
<1>3. \A i : End(i)' = IF i = count' THEN MaxPhysAddr ELSE regions'[i + 1].start - 1
  BY DEF End
<1>4. ASSUME NEW i \in 1 .. current - 1 PROVE End(i)' = End(i)
  <2>1. i # count /\ i # count'
    BY <1>1, <1>2
  <2>2. CASE i = current - 1
    <3>1. i + 1 = current /\ i + 1 = current - 1 + 1 /\ 1 \in 1 .. n
      BY <1>2, <2>2
    <3>2. regions'[i + 1].start = regions[i + 1].start
      BY <1>1, <3>1
    <3> QED BY <1>3, <2>1, <3>2 DEF End
  <2>3. CASE i # current - 1
    <3>1. i + 1 \in 1 .. current - 1
      BY <1>2, <2>3
    <3> QED BY <1>1, <1>3, <2>1, <3>1 DEF End
  <2> QED BY <2>2, <2>3
<1>5. ASSUME NEW i \in current + 1 .. count PROVE End(i - 1 + n)' = End(i)
  <2>1. CASE i = count
    BY <1>1, <1>2, <1>3, <2>1 DEF End
  <2>2. CASE i # count
    <3>1. i + 1 \in current + 1 .. count /\ i - 1 + n + 1 = i + 1 - 1 + n
          /\ i - 1 + n # count'
      BY <1>1, <1>2, <2>2
    <3> QED BY <1>1, <1>3, <2>2, <3>1 DEF End
  <2> QED BY <2>1, <2>2
<1>6. ASSUME NEW k \in 1 .. n, NEW j \in 1 .. count', j = current - 1 + k
      PROVE  End(j)' = IF k = n THEN End(current) ELSE new[k + 1].start - 1
  <2>1. CASE k # n
    <3>1. k + 1 \in 1 .. n /\ j + 1 = current - 1 + (k + 1) /\ j # count'
      BY <1>1, <1>2, <1>6, <2>1
    <3>2. regions'[j + 1] = new[k + 1]
      BY <1>1, <3>1
    <3> QED BY <1>3, <2>1, <3>1, <3>2
  <2>2. CASE k = n /\ current = count
    <3>1. j = count'
      BY <1>1, <1>2, <1>6, <2>2
    <3> QED BY <1>3, <2>2, <3>1 DEF End
  <2>3. CASE k = n /\ current # count
    <3>1. current + 1 \in current + 1 .. count
          /\ j + 1 = current + 1 - 1 + n /\ j # count'
      BY <1>1, <1>2, <1>6, <2>3
    <3>2. regions'[j + 1] = regions[current + 1]
      BY <1>1, <3>1
    <3> QED BY <1>3, <2>3, <3>1, <3>2 DEF End
  <2> QED BY <2>1, <2>2, <2>3
<1> QED BY <1>4, <1>5, <1>6

\* The map after an insertion: the addresses of the region current have the
\* descriptions the new regions give them, the other addresses keep theirs,
\* and the starts of the new regions are new borders.
LEMMA Inserted ==
    ASSUME IInv, IInv', call = "add", Contains,
           NEW n \in 1 .. 3, NEW new, Replace(n, new),
           new[1].start = regions[current].start,
           \A a \in Addresses :
              regions[current].start <= a /\ a <= End(current) =>
                 \E k \in 1 .. n :
                    /\ new[k].start <= a
                    /\ a <= IF k = n THEN End(current) ELSE new[k + 1].start - 1
                    /\ new[k].description = IF start <= a /\ a <= end THEN description
                                            ELSE regions[current].description
    PROVE  /\ Memory' = [a \in Addresses |-> IF start <= a /\ a <= end THEN description
                                             ELSE Memory[a]]
           /\ Borders' = Borders \cup {new[k].start : k \in 1 .. n}
<1>1. /\ count' = count - 1 + n
      /\ \A i \in 1 .. current - 1 : i \in 1 .. count' /\ regions'[i] = regions[i]
      /\ \A k \in 1 .. n : /\ current - 1 + k \in 1 .. count'
                           /\ regions'[current - 1 + k] = new[k]
      /\ \A i \in current + 1 .. count :
            i - 1 + n \in 1 .. count' /\ regions'[i - 1 + n] = regions[i]
  BY Replaced, AddArguments DEF IInv
<1>0. current \in 1 .. count /\ count \in Nat /\ start \in Nat /\ end \in Nat
  BY DEF IInv, TypeInvariant
<1>2. /\ \A i \in 1 .. current - 1 : End(i)' = End(i)
      /\ \A i \in current + 1 .. count : End(i - 1 + n)' = End(i)
      /\ \A k \in 1 .. n, j \in 1 .. count' :
            j = current - 1 + k =>
               End(j)' = IF k = n THEN End(current) ELSE new[k + 1].start - 1
  BY <1>0, ReplacedEnds
<1>3. /\ \A i \in 1 .. count :
            /\ End(i) \in Nat /\ regions[i].start \in Nat
            /\ \A j \in 1 .. count : i < j => End(i) < regions[j].start
      /\ \A a \in Addresses : a \in Nat
  BY EndBounds, IomemAssumption DEF IInv, Addresses
<1>4. ASSUME NEW a \in Addresses
      PROVE  Memory'[a] = IF start <= a /\ a <= end THEN description ELSE Memory[a]
  <2>1. PICK i \in 1 .. count : regions[i].start <= a /\ a <= End(i)
    BY Covered DEF IInv
  <2>2. Memory[a] = regions[i].description
    BY <2>1, MemoryOf
  <2>3. CASE i < current
    <3>1. i \in 1 .. current - 1 /\ ~(start <= a)
      BY <1>0, <1>1, <1>3, <2>1, <2>3 DEF Contains
    <3>2. /\ i \in 1 .. count' /\ regions'[i].start <= a /\ a <= End(i)'
          /\ regions'[i].description = regions[i].description
      BY <1>0, <1>1, <1>2, <2>1, <3>1
    <3> QED BY <2>2, <3>1, <3>2, MemoryOfNext
  <2>4. CASE current < i
    <3>1. i \in current + 1 .. count /\ ~(a <= end)
      BY <1>0, <1>1, <1>3, <2>1, <2>4 DEF Contains
    <3>2. /\ i - 1 + n \in 1 .. count'
          /\ regions'[i - 1 + n].start <= a /\ a <= End(i - 1 + n)'
          /\ regions'[i - 1 + n].description = regions[i].description
      BY <1>0, <1>1, <1>2, <2>1, <3>1
    <3> QED BY <2>2, <3>1, <3>2, MemoryOfNext
  <2>5. CASE i = current
    <3>1. PICK k \in 1 .. n :
             /\ new[k].start <= a
             /\ a <= IF k = n THEN End(current) ELSE new[k + 1].start - 1
             /\ new[k].description = IF start <= a /\ a <= end THEN description
                                     ELSE regions[current].description
      BY <2>1, <2>5
    <3>2. PICK j \in 1 .. count' : j = current - 1 + k
      BY <1>1
    <3>3. /\ regions'[j].start <= a /\ a <= End(j)'
          /\ regions'[j].description = new[k].description
      BY <1>1, <1>2, <3>1, <3>2
    <3> QED BY <2>2, <2>5, <3>1, <3>2, <3>3, MemoryOfNext
  <2> QED BY <1>0, <1>1, <2>3, <2>4, <2>5
<1>5. Memory' = [a \in Addresses |-> IF start <= a /\ a <= end THEN description
                                     ELSE Memory[a]]
  <2>1. Memory' = [a \in Addresses |-> Memory'[a]]
    BY DEF Memory
  <2> QED BY <1>4, <2>1
<1>6. ASSUME NEW b \in Borders' PROVE b \in Borders \cup {new[k].start : k \in 1 .. n}
  <2>1. PICK i \in 1 .. count - 1 + n : b = regions'[i].start
    BY <1>1 DEF Borders
  <2>2. CASE i \in 1 .. current - 1
    BY <1>0, <1>1, <2>1, <2>2 DEF Borders
  <2>3. CASE \E k \in 1 .. n : i = current - 1 + k
    BY <1>0, <1>1, <2>1, <2>3
  <2>4. CASE \E j \in current + 1 .. count : i = j - 1 + n
    <3>1. PICK j \in current + 1 .. count : i = j - 1 + n
      BY <2>4
    <3>2. j \in 1 .. count /\ b = regions[j].start
      BY <1>0, <1>1, <2>1, <3>1
    <3> QED BY <3>2 DEF Borders
  <2> QED BY <1>0, <1>1, <2>2, <2>3, <2>4, Parts DEF IInv
<1>7. ASSUME NEW b \in Borders PROVE b \in Borders'
  <2>1. PICK i \in 1 .. count : b = regions[i].start
    BY DEF Borders
  <2>2. CASE i < current
    <3>1. i \in 1 .. current - 1
      BY <1>0, <1>1, <2>2
    <3> QED BY <1>0, <1>1, <2>1, <3>1 DEF Borders
  <2>3. CASE current < i
    <3>1. i \in current + 1 .. count
      BY <1>0, <1>1, <2>3
    <3> QED BY <1>0, <1>1, <2>1, <3>1 DEF Borders
  <2>4. CASE i = current
    <3>1. 1 \in 1 .. n
      OBVIOUS
    <3> QED BY <1>0, <1>1, <2>1, <2>4, <3>1 DEF Borders
  <2> QED BY <1>0, <1>1, <2>2, <2>3, <2>4
<1>8. ASSUME NEW k \in 1 .. n PROVE new[k].start \in Borders'
  BY <1>1 DEF Borders
<1> QED BY <1>5, <1>6, <1>7, <1>8

----------------------------------------------------------------------------
(* The steps of the list are steps of the map                              *)

LEMMA UnchangedMap ==
    ASSUME UNCHANGED listVars
    PROVE  Memory' = Memory /\ Borders' = Borders
  BY DEF Memory, Borders, RegionAt, End, listVars

Crossing == end > MaxPhysAddr \/ \E b \in Borders : start < b /\ b <= end

\* A region that lies in the region current crosses no border, and one that
\* does not, when the walk has stopped, lies in no region and crosses one.
LEMMA ContainsOrCrosses ==
    ASSUME IInv, Found
    PROVE  Contains <=> ~Crossing
<1>1. /\ start \in Nat /\ end \in Nat /\ start <= end
      /\ current \in 1 .. count /\ count \in Nat /\ MaxPhysAddr \in Nat
  BY IomemAssumption DEF Found, IInv, TypeInvariant
<1>2. \A i \in 1 .. count :
         /\ End(i) \in Nat /\ End(i) <= MaxPhysAddr /\ regions[i].start \in Nat
         /\ \A j \in 1 .. count : i < j => End(i) < regions[j].start
         /\ regions[i].start <= End(i)
  BY EndBounds, IomemAssumption DEF IInv, Addresses
<1>3. ASSUME Contains PROVE ~Crossing
  <2>1. end <= MaxPhysAddr
    BY <1>1, <1>2, <1>3 DEF Contains
  <2>2. ASSUME NEW i \in 1 .. count PROVE ~(start < regions[i].start /\ regions[i].start <= end)
    <3>1. CASE i < current
      BY <1>1, <1>2, <1>3, <3>1 DEF Contains
    <3>2. CASE i = current
      BY <1>1, <1>2, <1>3, <3>2 DEF Contains
    <3>3. CASE current < i
      BY <1>1, <1>2, <1>3, <3>3 DEF Contains
    <3> QED BY <1>1, <3>1, <3>2, <3>3
  <2> QED BY <1>1, <2>1, <2>2 DEF Crossing, Borders
<1>4. ASSUME ~Crossing PROVE Contains
  <2>1. start \in Addresses /\ end <= MaxPhysAddr
    BY <1>1, <1>4 DEF Crossing, Addresses
  <2>2. PICK i \in 1 .. count : regions[i].start <= start /\ start <= End(i)
    BY <2>1, Covered DEF IInv
  <2>3. end <= End(i)
    <3>1. CASE i = count
      BY <2>1, <3>1 DEF End
    <3>2. CASE i # count
      <4>1. i + 1 \in 1 .. count /\ End(i) = regions[i + 1].start - 1
        BY <1>1, <3>2 DEF End
      <4>2. start < regions[i + 1].start
        BY <1>1, <1>2, <2>2, <4>1
      <4>3. ~(regions[i + 1].start <= end)
        BY <1>4, <4>1, <4>2 DEF Crossing, Borders
      <4> QED BY <1>1, <1>2, <4>1, <4>3
    <3> QED BY <3>1, <3>2
  <2>4. i = current
    BY <2>2, <2>3, FoundRegion DEF WalkFindsTheRegion
  <2> QED BY <2>2, <2>3, <2>4 DEF Contains
<1> QED BY <1>3, <1>4

\* The address behind a region is a border, or no address.
LEMMA NextBorder ==
    ASSUME IInv, NEW i \in 1 .. count
    PROVE  End(i) + 1 \in Borders \/ End(i) = MaxPhysAddr
<1>1. count \in Nat
  BY DEF IInv, TypeInvariant
<1>2. CASE i = count
  BY <1>2 DEF End
<1>3. CASE i # count
  <2>1. i + 1 \in 1 .. count /\ End(i) = regions[i + 1].start - 1
    BY <1>1, <1>3 DEF End
  <2>2. regions[i + 1].start \in Nat
    BY <2>1, IomemAssumption DEF IInv, TypeInvariant, Addresses
  <2> QED BY <2>1, <2>2 DEF Borders
<1> QED BY <1>2, <1>3

\* An insertion is served when the list has become the one the map asks for.
LEMMA AddServed ==
    ASSUME IInv, ~fatal, call = "add", ~Crossing, Added,
           Memory' = [a \in Addresses |-> IF start <= a /\ a <= end THEN description
                                          ELSE Memory[a]],
           Borders' = Borders \cup ({start, end + 1} \cap Addresses)
    PROVE  Map!Add
<1>1. /\ start \in Requests /\ end \in Requests /\ description \in Descriptions
  BY AddArguments
<1>2. /\ Request = <<start, end, description>>
      /\ Request' = <<>>
      /\ UNCHANGED <<answer, fatal>>
  BY DEF Request, Added, Returned
<1>3. \E s, e \in Requests, d \in Descriptions :
         /\ Request = <<s, e, d>>
         /\ ~(e > MaxPhysAddr \/ \E b \in Borders : s < b /\ b <= e)
         /\ Memory' = [a \in Addresses |-> IF s <= a /\ a <= e THEN d ELSE Memory[a]]
         /\ Borders' = Borders \cup ({s, e + 1} \cap Addresses)
  BY <1>1, <1>2 DEF Crossing
<1> QED BY <1>2, <1>3 DEF Map!Add, Map!Crosses, Map!Addresses, Addresses,
                          Memory, Borders, Request

LEMMA InsertFacts ==
    ASSUME IInv, Found, Contains
    PROVE  /\ call = "add" /\ ~fatal /\ ~Crossing
           /\ start \in Nat /\ end \in Nat /\ start <= end
           /\ current \in 1 .. count
           /\ regions[current].start \in Addresses /\ End(current) \in Addresses
           /\ regions[current].start \in Borders
           /\ End(current) + 1 \in Borders \/ End(current) = MaxPhysAddr
           /\ \A a \in Addresses : a \in Nat /\ a <= MaxPhysAddr
<1>1. call = "add" /\ ~fatal
  BY DEF Found
<1>2. ~Crossing
  BY ContainsOrCrosses
<1>3. current \in 1 .. count
  BY <1>1, AddArguments
<1> QED BY <1>1, <1>2, <1>3, AddArguments, EndBounds, NextBorder, IomemAssumption
        DEF IInv, Borders, Addresses

LEMMA ReplaceRegionServes == IInv /\ IInv' /\ ReplaceRegion => Map!Add
<1> SUFFICES ASSUME IInv, IInv', ReplaceRegion PROVE Map!Add
  OBVIOUS
<1> DEFINE new == <<Region(start, description)>>
<1>1. /\ Replace(1, new) /\ Added /\ Found /\ Contains
      /\ start = regions[current].start /\ End(current) = end
  <2>1. Found /\ SameStart /\ SameEnd /\ Replace(1, new) /\ Added /\ call = "add"
    BY DEF ReplaceRegion, Found
  <2> QED BY <2>1, AddArguments DEF SameStart, SameEnd, Contains
<1>2. /\ call = "add" /\ ~fatal /\ ~Crossing /\ start \in Borders
      /\ end + 1 \in Borders \/ end = MaxPhysAddr
      /\ end \in Addresses /\ MaxPhysAddr \in Nat
  BY <1>1, InsertFacts, IomemAssumption
<1>3. new[1].start = start /\ new[1].description = description
  BY RegionFields
<1>4. /\ Memory' = [a \in Addresses |-> IF start <= a /\ a <= end THEN description
                                        ELSE Memory[a]]
      /\ Borders' = Borders \cup {new[k].start : k \in 1 .. 1}
  <2> HIDE DEF new
  <2> QED BY <1>1, <1>2, <1>3, Inserted
<1>5. Borders' = Borders \cup ({start, end + 1} \cap Addresses)
  <2>1. {new[k].start : k \in 1 .. 1} = {start}
    BY <1>3
  <2>2. end + 1 \in Addresses => end + 1 \in Borders
    BY <1>2 DEF Addresses
  <2> QED BY <1>2, <1>4, <2>1, <2>2
<1> QED BY <1>1, <1>2, <1>4, <1>5, AddServed

LEMMA NewLeftServes == IInv /\ IInv' /\ NewLeft => Map!Add
<1> SUFFICES ASSUME IInv, IInv', NewLeft PROVE Map!Add
  OBVIOUS
<1> DEFINE new == <<Region(start, description),
                    Region(end + 1, regions[current].description)>>
<1>1. /\ Replace(2, new) /\ Added /\ Found /\ Contains
      /\ start = regions[current].start /\ end < End(current)
  <2>1. Found /\ SameStart /\ EndsRight /\ Replace(2, new) /\ Added /\ call = "add"
    BY DEF NewLeft, Found
  <2> QED BY <2>1, AddArguments, IomemAssumption DEF SameStart, EndsRight, Contains,
     Addresses
<1>2. /\ call = "add" /\ ~fatal /\ ~Crossing /\ start \in Borders
      /\ start \in Nat /\ end \in Nat /\ start <= end
      /\ End(current) \in Nat /\ End(current) <= MaxPhysAddr
      /\ \A a \in Addresses : a \in Nat
  BY <1>1, InsertFacts
<1>3. /\ new[1].start = start /\ new[1].description = description
      /\ new[2].start = end + 1 /\ new[2].description = regions[current].description
  BY RegionFields
<1>4. /\ Memory' = [a \in Addresses |-> IF start <= a /\ a <= end THEN description
                                        ELSE Memory[a]]
      /\ Borders' = Borders \cup {new[k].start : k \in 1 .. 2}
  <2> HIDE DEF new
  <2>1. ASSUME NEW a \in Addresses, regions[current].start <= a, a <= End(current)
        PROVE  \E k \in 1 .. 2 :
                  /\ new[k].start <= a
                  /\ a <= IF k = 2 THEN End(current) ELSE new[k + 1].start - 1
                  /\ new[k].description = IF start <= a /\ a <= end THEN description
                                          ELSE regions[current].description
    <3>1. CASE a <= end
      <4>1. 1 \in 1 .. 2 /\ 1 # 2 /\ a <= new[1 + 1].start - 1
        BY <1>2, <1>3, <3>1
      <4> QED BY <1>1, <1>3, <2>1, <3>1, <4>1
    <3>2. CASE ~(a <= end)
      <4>1. 2 \in 1 .. 2 /\ new[2].start <= a
        BY <1>2, <1>3, <3>2
      <4> QED BY <1>3, <2>1, <3>2, <4>1
    <3> QED BY <3>1, <3>2
  <2> QED BY <1>1, <1>2, <1>3, <2>1, Inserted
<1>5. Borders' = Borders \cup ({start, end + 1} \cap Addresses)
  <2>1. {new[k].start : k \in 1 .. 2} = {start, end + 1}
    BY <1>3
  <2>2. start \in Addresses /\ end + 1 \in Addresses
    BY <1>1, <1>2, IomemAssumption DEF Addresses
  <2> QED BY <1>4, <2>1, <2>2
<1> QED BY <1>1, <1>2, <1>4, <1>5, AddServed

LEMMA NewRightServes == IInv /\ IInv' /\ NewRight => Map!Add
<1> SUFFICES ASSUME IInv, IInv', NewRight PROVE Map!Add
  OBVIOUS
<1> DEFINE new == <<regions[current], Region(start, description)>>
<1>1. /\ Replace(2, new) /\ Added /\ Found /\ Contains
      /\ regions[current].start < start /\ End(current) = end
  <2>1. Found /\ StartsLeft /\ SameEnd /\ Replace(2, new) /\ Added /\ call = "add"
    BY DEF NewRight, Found
  <2> QED BY <2>1, AddArguments, IomemAssumption DEF StartsLeft, SameEnd, Contains,
     Addresses
<1>2. /\ call = "add" /\ ~fatal /\ ~Crossing
      /\ regions[current].start \in Borders /\ regions[current].start \in Nat
      /\ start \in Nat /\ end \in Nat /\ start <= end
      /\ end + 1 \in Borders \/ end = MaxPhysAddr
      /\ end <= MaxPhysAddr
      /\ \A a \in Addresses : a \in Nat
  BY <1>1, InsertFacts
<1>3. /\ new[1] = regions[current]
      /\ new[2].start = start /\ new[2].description = description
  BY RegionFields
<1>4. /\ Memory' = [a \in Addresses |-> IF start <= a /\ a <= end THEN description
                                        ELSE Memory[a]]
      /\ Borders' = Borders \cup {new[k].start : k \in 1 .. 2}
  <2> HIDE DEF new
  <2>1. ASSUME NEW a \in Addresses, regions[current].start <= a, a <= End(current)
        PROVE  \E k \in 1 .. 2 :
                  /\ new[k].start <= a
                  /\ a <= IF k = 2 THEN End(current) ELSE new[k + 1].start - 1
                  /\ new[k].description = IF start <= a /\ a <= end THEN description
                                          ELSE regions[current].description
    <3>1. CASE start <= a
      BY <1>1, <1>3, <2>1, <3>1
    <3>2. CASE ~(start <= a)
      <4>1. 1 \in 1 .. 2 /\ 1 # 2 /\ a <= new[1 + 1].start - 1
        BY <1>2, <1>3, <3>2
      <4> QED BY <1>3, <2>1, <3>2, <4>1
    <3> QED BY <3>1, <3>2
  <2> QED BY <1>1, <1>2, <1>3, <2>1, Inserted
<1>5. Borders' = Borders \cup ({start, end + 1} \cap Addresses)
  <2>1. {new[k].start : k \in 1 .. 2} = {regions[current].start, start}
    BY <1>3
  <2>2. start \in Addresses /\ (end + 1 \in Addresses => end + 1 \in Borders)
    BY <1>2, IomemAssumption DEF Addresses
  <2> QED BY <1>2, <1>4, <2>1, <2>2
<1> QED BY <1>1, <1>2, <1>4, <1>5, AddServed

LEMMA NewMiddleServes == IInv /\ IInv' /\ NewMiddle => Map!Add
<1> SUFFICES ASSUME IInv, IInv', NewMiddle PROVE Map!Add
  OBVIOUS
<1> DEFINE new == <<regions[current], Region(start, description),
                    Region(end + 1, regions[current].description)>>
<1>1. /\ Replace(3, new) /\ Added /\ Found /\ Contains
      /\ regions[current].start < start /\ end < End(current)
  <2>1. Found /\ StartsLeft /\ EndsRight /\ Replace(3, new) /\ Added /\ call = "add"
    BY DEF NewMiddle, Found
  <2> QED BY <2>1, AddArguments, IomemAssumption DEF StartsLeft, EndsRight,
     Contains, Addresses
<1>2. /\ call = "add" /\ ~fatal /\ ~Crossing
      /\ regions[current].start \in Borders /\ regions[current].start \in Nat
      /\ start \in Nat /\ end \in Nat /\ start <= end
      /\ End(current) \in Nat /\ End(current) <= MaxPhysAddr
      /\ \A a \in Addresses : a \in Nat
  BY <1>1, InsertFacts
<1>3. /\ new[1] = regions[current]
      /\ new[2].start = start /\ new[2].description = description
      /\ new[3].start = end + 1 /\ new[3].description = regions[current].description
  BY RegionFields
<1>4. /\ Memory' = [a \in Addresses |-> IF start <= a /\ a <= end THEN description
                                        ELSE Memory[a]]
      /\ Borders' = Borders \cup {new[k].start : k \in 1 .. 3}
  <2> HIDE DEF new
  <2>1. ASSUME NEW a \in Addresses, regions[current].start <= a, a <= End(current)
        PROVE  \E k \in 1 .. 3 :
                  /\ new[k].start <= a
                  /\ a <= IF k = 3 THEN End(current) ELSE new[k + 1].start - 1
                  /\ new[k].description = IF start <= a /\ a <= end THEN description
                                          ELSE regions[current].description
    <3>1. CASE ~(start <= a)
      <4>1. 1 \in 1 .. 3 /\ 1 # 3 /\ a <= new[1 + 1].start - 1
        BY <1>2, <1>3, <3>1
      <4> QED BY <1>3, <2>1, <3>1, <4>1
    <3>2. CASE start <= a /\ a <= end
      <4>1. 2 \in 1 .. 3 /\ 2 # 3 /\ a <= new[2 + 1].start - 1
        BY <1>2, <1>3, <3>2
      <4> QED BY <1>3, <2>1, <3>2, <4>1
    <3>3. CASE start <= a /\ ~(a <= end)
      <4>1. 3 \in 1 .. 3 /\ new[3].start <= a
        BY <1>2, <1>3, <3>3
      <4> QED BY <1>3, <2>1, <3>3, <4>1
    <3> QED BY <3>1, <3>2, <3>3
  <2> QED BY <1>1, <1>2, <1>3, <2>1, Inserted
<1>5. Borders' = Borders \cup ({start, end + 1} \cap Addresses)
  <2>1. {new[k].start : k \in 1 .. 3} = {regions[current].start, start, end + 1}
    BY <1>3
  <2>2. start \in Addresses /\ end + 1 \in Addresses
    BY <1>1, <1>2, IomemAssumption DEF Addresses
  <2> QED BY <1>2, <1>4, <2>1, <2>2
<1> QED BY <1>1, <1>2, <1>4, <1>5, AddServed

\* The region to add, as the map has it under way.
LEMMA AddRequest ==
    ASSUME IInv, Found
    PROVE  \E s, e \in Requests, d \in Descriptions :
              /\ Request = <<s, e, d>>
              /\ s = start /\ e = end
<1>1. call = "add"
  BY DEF Found
<1>2. start \in Requests /\ end \in Requests /\ description \in Descriptions
  BY <1>1, AddArguments
<1>3. Request = <<start, end, description>>
  BY <1>1 DEF Request
<1> QED BY <1>2, <1>3

LEMMA DieChanges ==
    ASSUME Die
    PROVE  /\ Memory' = Memory /\ Borders' = Borders
           /\ Request' = Request /\ answer' = answer /\ fatal' = TRUE
  BY UnchangedMap DEF Die, Request, argVars

LEMMA OverlapsRefuses == IInv /\ Overlaps => Map!Refuse
<1> SUFFICES ASSUME IInv, Overlaps PROVE Map!Refuse
  OBVIOUS
<1>1. Found /\ Die /\ ~fatal /\ call = "add"
  BY DEF Overlaps, Found
<1>2. ~Contains
  BY <1>1, AddArguments, IomemAssumption
  DEF Overlaps, SameStart, SameEnd, StartsLeft, EndsRight, Contains, Addresses
<1>3. Crossing
  BY <1>1, <1>2, ContainsOrCrosses
<1>4. \E s, e \in Requests, d \in Descriptions :
         /\ Request = <<s, e, d>>
         /\ e > MaxPhysAddr \/ \E b \in Borders : s < b /\ b <= e
  BY <1>1, <1>3, AddRequest DEF Crossing
<1>5. /\ Memory' = Memory /\ Borders' = Borders
      /\ Request' = Request /\ answer' = answer /\ fatal' = TRUE
  BY <1>1, DieChanges
<1> QED BY <1>1, <1>4, <1>5 DEF Map!Refuse, Map!Crosses, Map!Addresses, Addresses,
                                Memory, Borders, Request

\* An address strictly inside of a region is no border.
LEMMA InsideNoBorder ==
    ASSUME IInv, NEW i \in 1 .. count, NEW b \in Nat,
           regions[i].start < b, b <= End(i)
    PROVE  b \notin Borders
<1> SUFFICES ASSUME NEW j \in 1 .. count, b = regions[j].start PROVE FALSE
  BY DEF Borders
<1>1. /\ regions[i].start \in Nat /\ End(i) \in Nat /\ regions[j].start \in Nat
      /\ regions[j].start <= End(j) /\ End(j) \in Nat
      /\ regions[i].start <= b
      /\ i \in Nat /\ j \in Nat
  BY EndBounds, IomemAssumption DEF IInv, TypeInvariant, Addresses
<1>2. i = j
  BY <1>1, Disjoint DEF IInv
<1> QED BY <1>1, <1>2

LEMMA MallocFailsOutOfMemory == IInv /\ MallocFails => Map!OutOfMemory
<1> SUFFICES ASSUME IInv, MallocFails PROVE Map!OutOfMemory
  OBVIOUS
<1>1. Found /\ Die /\ ~fatal /\ call = "add"
  BY DEF MallocFails, Found
<1>2. /\ start \in Nat /\ end \in Nat /\ start <= end /\ current \in 1 .. count
      /\ regions[current].start \in Nat /\ End(current) \in Nat
      /\ End(current) <= MaxPhysAddr /\ MaxPhysAddr \in Nat
  BY <1>1, AddArguments, IomemAssumption DEF Addresses
<1>3. Contains
  BY <1>2 DEF MallocFails, SameStart, SameEnd, StartsLeft, EndsRight, Contains
<1>4. ~Crossing
  BY <1>1, <1>3, ContainsOrCrosses
<1>5. ~({start, end + 1} \cap Addresses \subseteq Borders)
  <2>1. CASE SameStart /\ EndsRight
    <3>1. /\ end + 1 \in Nat /\ regions[current].start < end + 1
          /\ end + 1 <= End(current) /\ end + 1 \in Addresses
      BY <1>2, <2>1 DEF SameStart, EndsRight, Addresses
    <3>2. end + 1 \notin Borders
      BY <1>2, <3>1, InsideNoBorder
    <3> QED BY <3>1, <3>2
  <2>2. CASE StartsLeft /\ (SameEnd \/ EndsRight)
    <3>1. regions[current].start < start /\ start <= End(current) /\ start \in Addresses
      BY <1>2, <2>2 DEF StartsLeft, SameEnd, EndsRight, Addresses
    <3>2. start \notin Borders
      BY <1>2, <3>1, InsideNoBorder
    <3> QED BY <3>1, <3>2
  <2> QED BY <2>1, <2>2 DEF MallocFails
<1>6. \E s, e \in Requests, d \in Descriptions :
         /\ Request = <<s, e, d>>
         /\ ~(e > MaxPhysAddr \/ \E b \in Borders : s < b /\ b <= e)
         /\ ~({s, e + 1} \cap Addresses \subseteq Borders)
  BY <1>1, <1>4, <1>5, AddRequest DEF Crossing
<1>7. /\ Memory' = Memory /\ Borders' = Borders
      /\ Request' = Request /\ answer' = answer /\ fatal' = TRUE
  BY <1>1, DieChanges
<1> QED BY <1>1, <1>6, <1>7 DEF Map!OutOfMemory, Map!Crosses, Map!Addresses, Addresses,
                                Memory, Borders, Request

LEMMA BeginRequests == IInv /\ (BeginAdd \/ BeginDescribe) => Map!Request
<1> SUFFICES ASSUME IInv, BeginAdd \/ BeginDescribe PROVE Map!Request
  OBVIOUS
<1>1. /\ ~fatal /\ call = "none" /\ UNCHANGED listVars /\ UNCHANGED <<answer, fatal>>
  BY DEF BeginAdd, BeginDescribe
<1>2. Memory' = Memory /\ Borders' = Borders
  BY <1>1, UnchangedMap
<1>3. Request = <<>>
  BY <1>1 DEF Request
<1>4. Request' \in Map!Calls
  <2>1. CASE BeginAdd
    <3>1. /\ call' = "add" /\ start' \in Requests /\ end' \in Requests /\ start' <= end'
          /\ description' \in Descriptions
      BY <2>1 DEF BeginAdd
    <3>2. Request' = <<start', end', description'>>
      BY <3>1 DEF Request
    <3> QED BY <3>1, <3>2 DEF Map!Calls
  <2>2. CASE BeginDescribe
    <3>1. call' = "describe" /\ physAddr' \in Requests
      BY <2>2 DEF BeginDescribe
    <3>2. Request' = <<physAddr'>>
      BY <3>1 DEF Request
    <3> QED BY <3>1, <3>2 DEF Map!Calls
  <2> QED BY <2>1, <2>2
<1> QED BY <1>1, <1>2, <1>3, <1>4 DEF Map!Request, Memory, Borders, Request

\* The map's variables, by name.
Stutters == /\ Memory' = Memory /\ Borders' = Borders /\ Request' = Request
            /\ answer' = answer /\ fatal' = fatal

LEMMA StutterStep == Stutters => UNCHANGED Map!vars
  BY DEF Stutters, Map!vars, Memory, Borders, Request

LEMMA WalkAddStutters == WalkAdd => Stutters
<1> SUFFICES ASSUME WalkAdd PROVE Stutters
  OBVIOUS
<1>1. UNCHANGED listVars /\ UNCHANGED <<call, answer, fatal>> /\ UNCHANGED argVars
  BY DEF WalkAdd
<1> QED BY <1>1, UnchangedMap DEF Stutters, Request, argVars

LEMMA WalkDescribeServes == IInv /\ WalkDescribe => Map!Describe \/ Stutters
<1> SUFFICES ASSUME IInv, WalkDescribe PROVE Map!Describe \/ Stutters
  OBVIOUS
<1>1. /\ ~fatal /\ call = "describe" /\ UNCHANGED listVars /\ UNCHANGED fatal
  BY DEF WalkDescribe
<1>2. Memory' = Memory /\ Borders' = Borders
  BY <1>1, UnchangedMap
<1>3. CASE NextStartsBefore
  BY <1>1, <1>2, <1>3 DEF WalkDescribe, Stutters, Request, argVars
<1>4. CASE ~NextStartsBefore
  <2>1. Returned /\ answer' = regions[current].description
    BY <1>4 DEF WalkDescribe
  <2>2. /\ physAddr \in Requests /\ physAddr \in Nat /\ MaxPhysAddr \in Nat
        /\ regions[current].start <= physAddr
        /\ current \in 1 .. count /\ count \in Nat
    BY <1>1, IomemAssumption DEF IInv, TypeInvariant, Passed
  <2> DEFINE a == IF physAddr <= MaxPhysAddr THEN physAddr ELSE MaxPhysAddr
  <2>3. a \in Addresses
    BY <2>2 DEF Addresses
  <2>4. regions[current].start <= a
    BY <2>2, EndBounds, IomemAssumption DEF IInv, Addresses
  <2>5. a <= End(current)
    <3>1. CASE current = count
      BY <2>2, <3>1 DEF End
    <3>2. CASE current # count
      <4>1. current + 1 \in 1 .. count /\ ~(regions[current + 1].start <= physAddr)
        BY <1>4, <2>2, <3>2 DEF NextStartsBefore
      <4>2. regions[current + 1].start \in Nat
        BY <4>1, EndBounds, IomemAssumption DEF IInv, Addresses
      <4> QED BY <2>2, <3>2, <4>1, <4>2 DEF End
    <3> QED BY <3>1, <3>2
  <2>6. Memory[a] = regions[current].description
    BY <2>2, <2>3, <2>4, <2>5, MemoryOf
  <2>7. Request = <<physAddr>> /\ Request' = <<>>
    BY <1>1, <2>1 DEF Request, Returned
  <2>8. \E p \in Requests :
           /\ Request = <<p>>
           /\ answer' = Memory[IF p <= MaxPhysAddr THEN p ELSE MaxPhysAddr]
    BY <2>1, <2>2, <2>6, <2>7
  <2>9. Map!Describe
    BY <1>1, <1>2, <2>7, <2>8 DEF Map!Describe, Memory, Borders, Request
  <2> QED BY <2>9
<1> QED BY <1>3, <1>4

\* The list of one region stands for the empty map.
LEMMA EmptyMap ==
    IInv /\ count = 1 /\ regions[1] = Region(0, Unmapped) =>
       Memory = [a \in Addresses |-> Unmapped] /\ Borders = {0}
<1> SUFFICES ASSUME IInv, count = 1, regions[1] = Region(0, Unmapped)
             PROVE  Memory = [a \in Addresses |-> Unmapped] /\ Borders = {0}
  OBVIOUS
<1>1. regions[1].start = 0 /\ regions[1].description = Unmapped
  BY RegionFields
<1>2. ASSUME NEW a \in Addresses PROVE Memory[a] = Unmapped
  <2>1. 1 \in 1 .. count /\ regions[1].start <= a /\ a <= End(1)
    BY <1>1, IomemAssumption DEF End, Addresses
  <2> QED BY <1>1, <2>1, MemoryOf
<1>3. Memory = [a \in Addresses |-> Unmapped]
  BY <1>2 DEF Memory
<1>4. Borders = {0}
  BY <1>1 DEF Borders
<1> QED BY <1>3, <1>4

LEMMA EmptyMapNext ==
    IInv' /\ count' = 1 /\ regions'[1] = Region(0, Unmapped) =>
       Memory' = [a \in Addresses |-> Unmapped] /\ Borders' = {0}
<1>1. (IInv /\ count = 1 /\ regions[1] = Region(0, Unmapped)
         => Memory = [a \in Addresses |-> Unmapped] /\ Borders = {0})'
  BY EmptyMap, PTL
<1> QED BY <1>1 DEF Region

LEMMA ReleaseEmpties == IInv /\ IInv' /\ ReleaseIomem => Map!Release
<1> SUFFICES ASSUME IInv, IInv', ReleaseIomem PROVE Map!Release
  OBVIOUS
<1>1. /\ ~fatal /\ call = "none" /\ UNCHANGED <<call, answer, fatal>>
      /\ count' = 1 /\ regions'[1] = Region(0, Unmapped)
  BY DEF ReleaseIomem
<1>2. Memory' = [a \in Addresses |-> Unmapped] /\ Borders' = {0}
  BY <1>1, EmptyMapNext
<1>3. Request = <<>> /\ Request' = Request
  BY <1>1 DEF Request
<1> QED BY <1>1, <1>2, <1>3 DEF Map!Release, Map!Addresses, Addresses,
                                Memory, Borders, Request

LEMMA InitMap == Init => Map!Init
<1> SUFFICES ASSUME Init PROVE Map!Init
  OBVIOUS
<1>1. /\ IInv /\ count = 1 /\ regions[1] = Region(0, Unmapped)
      /\ call = "none" /\ answer = Unmapped /\ fatal = FALSE
  BY InitIInv DEF Init
<1>2. Memory = [a \in Addresses |-> Unmapped] /\ Borders = {0}
  BY <1>1, EmptyMap
<1>3. Request = <<>>
  BY <1>1 DEF Request
<1> QED BY <1>1, <1>2, <1>3 DEF Map!Init, Map!Addresses, Addresses,
                                Memory, Borders, Request

LEMMA StepMap == IInv /\ IInv' /\ [Next]_vars => [Map!Next]_(Map!vars)
<1> SUFFICES ASSUME IInv, IInv', [Next]_vars PROVE Map!Next \/ UNCHANGED Map!vars
  OBVIOUS
<1>1. CASE BeginAdd \/ BeginDescribe
  BY <1>1, BeginRequests DEF Map!Next
<1>2. CASE WalkAdd
  BY <1>2, WalkAddStutters, StutterStep
<1>3. CASE ReplaceRegion \/ NewLeft \/ NewRight \/ NewMiddle
  BY <1>3, ReplaceRegionServes, NewLeftServes, NewRightServes,
     NewMiddleServes DEF Map!Next
<1>4. CASE Overlaps
  BY <1>4, OverlapsRefuses DEF Map!Next
<1>5. CASE MallocFails
  BY <1>5, MallocFailsOutOfMemory DEF Map!Next
<1>6. CASE WalkDescribe
  BY <1>6, WalkDescribeServes, StutterStep DEF Map!Next
<1>7. CASE ReleaseIomem
  BY <1>7, ReleaseEmpties DEF Map!Next
<1>8. CASE Ended \/ UNCHANGED vars
  <2>1. /\ UNCHANGED listVars /\ UNCHANGED <<call, answer, fatal>> /\ UNCHANGED argVars
    BY <1>8 DEF Ended, vars
  <2>2. Stutters
    BY <2>1, UnchangedMap DEF Stutters, Request, argVars
  <2> QED BY <2>2, StutterStep
<1> QED BY <1>1, <1>2, <1>3, <1>4, <1>5, <1>6, <1>7, <1>8 DEF Next, AddRegion

\* The list implements the map of PhysMap: whatever is added, asked and
\* released, an address has the description of the last region that was added
\* over it, and a region is refused only where it crosses a border.
THEOREM Refinement == Spec => ImplementsMap
<1>1. IInv /\ [Next]_vars => IInv'
  BY StepIInv
<1>2. IInv /\ IInv' /\ [Next]_vars => [Map!Next]_(Map!vars)
  BY StepMap
<1> QED BY InitIInv, InitMap, <1>1, <1>2, PTL DEF Spec, ImplementsMap, Map!Spec

----------------------------------------------------------------------------
(* Counting the addresses of the regions                                   *)

\* The addresses that lie in the regions I.
Within(I) == {a \in Addresses : RegionAt(a) \in I}

\* An address lies in one region.
LEMMA RegionAtType == IInv => \A a \in Addresses : RegionAt(a) \in 1 .. count
<1> SUFFICES ASSUME IInv, NEW a \in Addresses PROVE RegionAt(a) \in 1 .. count
  OBVIOUS
<1>1. \E i \in 1 .. count : regions[i].start <= a /\ a <= End(i)
  BY Covered DEF IInv
<1> QED BY <1>1 DEF RegionAt

LEMMA WithinFinite ==
    ASSUME NEW I
    PROVE  IsFiniteSet(Within(I)) /\ Cardinality(Within(I)) \in Nat
<1>1. 0 \in Int /\ MaxPhysAddr \in Int
  BY IomemAssumption
<1>2. IsFiniteSet(Addresses)
  BY <1>1, FS_Interval DEF Addresses
<1>3. Within(I) \in SUBSET Addresses
  BY DEF Within
<1>4. IsFiniteSet(Within(I))
  BY <1>2, <1>3, FS_Subset
<1> QED BY <1>4, FS_CardinalityType

\* The size summarize_iomem() takes of a region is the number of its addresses.
LEMMA WithinOne ==
    ASSUME IInv, NEW i \in 1 .. count
    PROVE  Cardinality(Within({i})) = SizeOf(i) /\ SizeOf(i) \in Nat \ {0}
<1>1. /\ End(i) \in Addresses /\ regions[i].start \in Addresses
      /\ regions[i].start <= End(i)
  BY EndBounds DEF IInv
<1>2. /\ End(i) \in Nat /\ regions[i].start \in Nat
      /\ End(i) <= MaxPhysAddr /\ MaxPhysAddr \in Nat
  BY <1>1, IomemAssumption DEF Addresses
<1>3. Within({i}) = regions[i].start .. End(i)
  <2>1. ASSUME NEW a \in Within({i}) PROVE a \in regions[i].start .. End(i)
    <3>1. a \in Addresses /\ RegionAt(a) = i
      BY <2>1 DEF Within
    <3>2. \E k \in 1 .. count : regions[k].start <= a /\ a <= End(k)
      BY <3>1, Covered DEF IInv
    <3>3. regions[i].start <= a /\ a <= End(i)
      BY <3>1, <3>2 DEF RegionAt
    <3> QED BY <1>2, <3>1, <3>3 DEF Addresses
  <2>2. ASSUME NEW a \in regions[i].start .. End(i) PROVE a \in Within({i})
    <3>1. a \in Addresses /\ regions[i].start <= a /\ a <= End(i)
      BY <1>2, <2>2 DEF Addresses
    <3>2. RegionAt(a) = i
      BY <3>1, RegionAtIs DEF IInv
    <3> QED BY <3>1, <3>2 DEF Within
  <2> QED BY <2>1, <2>2
<1>4. regions[i].start \in Int /\ End(i) \in Int
  BY <1>2
<1>5. Cardinality(regions[i].start .. End(i)) =
         IF regions[i].start > End(i) THEN 0 ELSE End(i) - regions[i].start + 1
  BY <1>4, FS_Interval
<1>6. Cardinality(Within({i})) = End(i) - regions[i].start + 1
  BY <1>1, <1>2, <1>3, <1>5
<1> QED BY <1>1, <1>2, <1>6 DEF SizeOf

\* Different regions have different addresses.
LEMMA WithinUnion ==
    ASSUME NEW I, NEW J, I \cap J = {}
    PROVE  Cardinality(Within(I \cup J)) = Cardinality(Within(I)) + Cardinality(Within(J))
<1>1. /\ Within(I \cup J) = Within(I) \cup Within(J)
      /\ Within(I) \cap Within(J) = {}
  BY DEF Within
<1>2. IsFiniteSet(Within(I)) /\ IsFiniteSet(Within(J))
  BY WithinFinite
<1>3. Cardinality(Within(I) \cup Within(J)) =
         Cardinality(Within(I)) + Cardinality(Within(J)) - Cardinality(Within(I) \cap Within(J))
  BY <1>2, FS_Union
<1>4. Cardinality(Within(I) \cap Within(J)) = 0
  BY <1>1, FS_EmptySet
<1>5. Cardinality(Within(I)) \in Nat /\ Cardinality(Within(J)) \in Nat
  BY WithinFinite
<1>6. Cardinality(Within(I \cup J)) = Cardinality(Within(I) \cup Within(J))
  BY <1>1
<1> QED BY <1>3, <1>4, <1>5, <1>6

LEMMA WithinAdd ==
    ASSUME IInv, NEW I, NEW i \in 1 .. count, i \notin I
    PROVE  Cardinality(Within(I \cup {i})) = Cardinality(Within(I)) + SizeOf(i)
<1>1. I \cap {i} = {}
  OBVIOUS
<1>2. Cardinality(Within(I \cup {i})) = Cardinality(Within(I)) + Cardinality(Within({i}))
  BY <1>1, WithinUnion
<1> QED BY <1>2, WithinOne

\* No region is empty.
LEMMA WithinEmpty ==
    ASSUME IInv, NEW I \in SUBSET (1 .. count)
    PROVE  Within(I) = {} <=> I = {}
<1>1. I = {} => Within(I) = {}
  BY DEF Within
<1>2. ASSUME NEW i \in I PROVE Within(I) # {}
  <2>1. /\ i \in 1 .. count /\ regions[i].start \in Addresses
        /\ regions[i].start <= End(i)
    BY EndBounds DEF IInv
  <2>2. RegionAt(regions[i].start) = i
    <3>1. regions[i].start <= regions[i].start
      BY <2>1, IomemAssumption DEF Addresses
    <3> QED BY <2>1, <3>1, RegionAtIs DEF IInv
  <2> QED BY <2>1, <2>2 DEF Within
<1> QED BY <1>1, <1>2

LEMMA WithinUnchanged ==
    ASSUME UNCHANGED listVars
    PROVE  \A I : Within(I)' = Within(I)
<1>1. \A a : RegionAt(a)' = RegionAt(a)
  BY DEF RegionAt, End, listVars
<1> QED BY <1>1 DEF Within

\* The recursion of MapThenSumSet: the functions that take each set of regions,
\* up to S, to the size of one of them plus what they take the others to.
Summing(f, S) ==
    [s \in SUBSET S |->
        IF s = {} THEN 0
        ELSE SizeOf(CHOOSE x \in s : TRUE) + f[s \ {CHOOSE x \in s : TRUE}]]

LEMMA SumIs ==
    ASSUME NEW S
    PROVE  MapThenSumSet(SizeOf, S) = (CHOOSE f : f = Summing(f, S))[S]
  BY Zenon DEF MapThenSumSet, MapThenFoldSet, Summing

\* Counting the addresses of each set of regions is such a function.
LEMMA CountingSums ==
    ASSUME IInv, NEW S \in SUBSET (1 .. count)
    PROVE  LET f == [s \in SUBSET S |-> Cardinality(Within(s))]
           IN  f = Summing(f, S)
<1> DEFINE f == [s \in SUBSET S |-> Cardinality(Within(s))]
<1> SUFFICES ASSUME NEW s \in SUBSET S
             PROVE  Cardinality(Within(s)) =
                      IF s = {} THEN 0
                      ELSE SizeOf(CHOOSE x \in s : TRUE) + f[s \ {CHOOSE x \in s : TRUE}]
  BY DEF Summing
<1>1. CASE s = {}
  <2>1. Within(s) = {}
    BY <1>1 DEF Within
  <2> QED BY <1>1, <2>1, FS_EmptySet
<1>2. CASE s # {}
  <2> DEFINE x == CHOOSE y \in s : TRUE
  <2>1. x \in s /\ x \in 1 .. count
    BY <1>2
  <2>2. s \ {x} \in SUBSET S /\ x \notin s \ {x} /\ (s \ {x}) \cup {x} = s
    BY <2>1
  <2>3. f[s \ {x}] = Cardinality(Within(s \ {x}))
    BY <2>2
  <2> HIDE DEF x, f
  <2>4. Cardinality(Within((s \ {x}) \cup {x})) = Cardinality(Within(s \ {x})) + SizeOf(x)
    BY <2>1, <2>2, WithinAdd
  <2>5. Cardinality(Within(s \ {x})) \in Nat /\ SizeOf(x) \in Nat
    BY <2>1, WithinFinite, WithinOne
  <2>6. Cardinality(Within(s)) = Cardinality(Within((s \ {x}) \cup {x}))
    BY <2>2
  <2>7. Cardinality(Within(s)) = SizeOf(x) + f[s \ {x}]
    BY <2>3, <2>4, <2>5, <2>6
  <2> QED BY <1>2, <2>7 DEF x
<1> QED BY <1>1, <1>2

\* And it is the only one: a smallest set on which another one differs would
\* have to be larger than the set without the chosen region.
LEMMA SumsCount ==
    ASSUME IInv, NEW S \in SUBSET (1 .. count), NEW f, f = Summing(f, S)
    PROVE  f[S] = Cardinality(Within(S))
<1> DEFINE Wrong == {s \in SUBSET S : f[s] # Cardinality(Within(s))}
           Sizes == {n \in Nat : \E s \in Wrong : Cardinality(s) = n}
<1> SUFFICES ASSUME S \in Wrong PROVE FALSE
  OBVIOUS
<1>1. \A s \in SUBSET S : IsFiniteSet(s) /\ Cardinality(s) \in Nat
  <2>1. IsFiniteSet(1 .. count)
    <3>1. 1 \in Int /\ count \in Int
      BY DEF IInv, TypeInvariant
    <3> QED BY <3>1, FS_Interval
  <2>2. \A s \in SUBSET S : IsFiniteSet(s)
    BY <2>1, FS_Subset
  <2> QED BY <2>2, FS_CardinalityType
<1>2. Cardinality(S) \in Sizes
  BY <1>1
<1>3. PICK n \in Sizes : \A m \in Sizes : n <= m
  <2> HIDE DEF Wrong
  <2>1. Sizes \in SUBSET Nat /\ Sizes # {}
    BY <1>2
  <2> HIDE DEF Sizes
  <2> QED BY <2>1, Least
<1>4. PICK s \in Wrong : Cardinality(s) = n
  BY <1>3
<1>5. s \in SUBSET S /\ f[s] # Cardinality(Within(s)) /\ IsFiniteSet(s)
  BY <1>1, <1>4
<1>6. f[s] = IF s = {} THEN 0
             ELSE SizeOf(CHOOSE x \in s : TRUE) + f[s \ {CHOOSE x \in s : TRUE}]
  <2>1. f[s] = Summing(f, S)[s]
    OBVIOUS
  <2> QED BY <1>5, <2>1 DEF Summing
<1>7. CASE s = {}
  <2>1. Within(s) = {}
    BY <1>7 DEF Within
  <2> QED BY <1>5, <1>6, <1>7, <2>1, FS_EmptySet
<1>8. CASE s # {}
  <2> DEFINE x == CHOOSE y \in s : TRUE
             r == s \ {x}
  <2>1. x \in s /\ x \in 1 .. count
    BY <1>5, <1>8
  <2>2. r \in SUBSET S /\ x \notin r /\ r \cup {x} = s
    BY <1>5, <2>1
  <2>3. f[s] = SizeOf(x) + f[r]
    BY <1>6, <1>8
  <2> HIDE DEF x
  <2>4. Cardinality(r) < n
    <3>1. Cardinality(r) = Cardinality(s) - 1
      BY <1>5, <2>1, FS_RemoveElement
    <3> QED BY <1>1, <1>4, <1>5, <3>1
  <2> HIDE DEF r
  <2>5. f[r] = Cardinality(Within(r))
    <3> SUFFICES ASSUME f[r] # Cardinality(Within(r)) PROVE FALSE
      OBVIOUS
    <3>1. Cardinality(r) \in Sizes /\ Cardinality(r) \in Nat
      BY <1>1, <2>2
    <3>2. n <= Cardinality(r) /\ n \in Nat
      BY <1>3, <3>1
    <3> QED BY <2>4, <3>1, <3>2
  <2>6. Cardinality(Within(r \cup {x})) = Cardinality(Within(r)) + SizeOf(x)
    BY <2>1, <2>2, WithinAdd
  <2>7. Cardinality(Within(r)) \in Nat /\ SizeOf(x) \in Nat
    BY <2>1, WithinFinite, WithinOne
  <2> QED BY <1>5, <2>2, <2>3, <2>5, <2>6, <2>7
<1> QED BY <1>7, <1>8

\* validate_summary() adds up the sizes of regions and so counts addresses.
LEMMA SumOfRegions ==
    ASSUME IInv, NEW S \in SUBSET (1 .. count)
    PROVE  MapThenSumSet(SizeOf, S) = Cardinality(Within(S))
<1> DEFINE g == CHOOSE f : f = Summing(f, S)
<1>1. \E f : f = Summing(f, S)
  BY CountingSums
<1>2. g = Summing(g, S)
  BY <1>1
<1> HIDE DEF g
<1>3. g[S] = Cardinality(Within(S))
  BY <1>2, SumsCount
<1> QED BY <1>3, SumIs DEF g

----------------------------------------------------------------------------
(* The summary                                                             *)

Records == [size : Nat, description : Descriptions]

\* The regions before region r with description d.
Named(d, r) == {i \in 1 .. count : i < r /\ regions[i].description = d}

\* The list s has one record for each description of a region before r, and its
\* size is the number of addresses of these regions.
Recorded(s, r) ==
    /\ \A j \in 1 .. Len(s) :
          /\ s[j].size = Cardinality(Within(Named(s[j].description, r)))
          /\ Named(s[j].description, r) # {}
    /\ \A i \in 1 .. count : i < r =>
          \E j \in 1 .. Len(s) : s[j].description = regions[i].description
    /\ \A j, k \in 1 .. Len(s) : s[j].description = s[k].description => j = k

\* The records 1 .. n of the list s are in the order of their sizes.
Ascending(s, n) == \A j \in 1 .. n - 1 : s[j].size <= s[j + 1].size

\* The regions of the first n records of the list s, but not of the last one.
Printed(s, n) ==
    {i \in 1 .. count : \E j \in 1 .. Len(s) :
        j <= n /\ j < Len(s) /\ regions[i].description = s[j].description}

SummaryShape ==
    /\ phase \in {"idle", "compose", "sort", "validate", "print", "printed", "crashed"}
    /\ summary \in Seq(Records)
    /\ region \in Nat \ {0} /\ region <= count + 1
    /\ type \in Nat \ {0}
    /\ swapped \in BOOLEAN
    /\ total \in Nat

\* What is true in each phase of the summary.
SummaryPhase ==
    /\ phase = "idle" => summary = <<>> /\ region = 1
    /\ phase \in {"idle", "compose"} => ~swapped
    /\ phase \in {"idle", "compose", "sort", "validate"} => total = 0
    /\ phase \in {"idle", "compose", "validate"} => type = 1
    /\ Composed => region = count + 1 /\ summary # <<>>
    /\ phase = "sort" => type <= Len(summary) /\ (~swapped => Ascending(summary, type))
    /\ phase \in {"validate", "print", "printed"} => Ascending(summary, Len(summary))
    /\ phase \in {"print", "printed"} =>
          /\ type <= Len(summary) + 1
          /\ total = Cardinality(Within(Printed(summary, type - 1)))
    /\ phase = "printed" => type = Len(summary) + 1

SInv == IInv /\ SummaryShape /\ Recorded(summary, region) /\ SummaryPhase

\* The summary of no region is empty.
LEMMA EmptyRecorded == summary = <<>> /\ region = 1 => Recorded(summary, region)
<1> SUFFICES ASSUME summary = <<>>, region = 1 PROVE Recorded(summary, region)
  OBVIOUS
<1>1. Len(summary) = 0 /\ \A j : j \notin 1 .. Len(summary)
  OBVIOUS
<1>2. \A i \in 1 .. count : ~(i < region)
  OBVIOUS
<1> QED BY <1>1, <1>2 DEF Recorded

LEMMA SummaryUnchanged ==
    ASSUME UNCHANGED listVars
    PROVE  \A s, r : /\ Recorded(s, r)' <=> Recorded(s, r)
                     /\ Printed(s, r)' = Printed(s, r)
<1>1. /\ count' = count /\ regions' = regions
      /\ \A I : Within(I)' = Within(I)
  BY WithinUnchanged DEF listVars
<1>2. \A d, r : Named(d, r)' = Named(d, r)
  BY <1>1 DEF Named
<1>3. \A s, r : Recorded(s, r)' <=> Recorded(s, r)
  BY <1>1, <1>2 DEF Recorded
<1>4. \A s, r : Printed(s, r)' = Printed(s, r)
  BY <1>1 DEF Printed
<1> QED BY <1>3, <1>4

\* No summary is under way.
Idle == /\ phase = "idle" /\ summary = <<>> /\ region = 1 /\ type = 1
        /\ swapped = FALSE /\ total = 0

\* Between summaries, the list may change.
LEMMA IdleInv == IInv /\ Idle => SInv
<1> SUFFICES ASSUME IInv, Idle PROVE SInv
  OBVIOUS
<1>1. count \in Nat \ {0}
  BY DEF IInv, TypeInvariant
<1>2. SummaryShape
  <2>1. swapped \in BOOLEAN
    BY DEF Idle
  <2>2. summary \in Seq(Records)
    BY DEF Idle
  <2> QED BY <1>1, <2>1, <2>2 DEF Idle, SummaryShape
<1>3. SummaryPhase
  BY DEF Idle, SummaryPhase, Composed
<1> QED BY <1>2, <1>3, EmptyRecorded DEF Idle, SInv

LEMMA InitSInv == SummaryInit => SInv
  BY InitIInv, IdleInv DEF SummaryInit, Idle

LEMMA IdleInvNext == IInv' /\ Idle' => SInv'
<1>1. (IInv /\ Idle => SInv)'
  BY IdleInv, PTL
<1> QED BY <1>1

LEMMA ListStepInv == SInv /\ ListStep => SInv'
<1> SUFFICES ASSUME SInv, ListStep PROVE SInv'
  OBVIOUS
<1>1. /\ phase = "idle" /\ UNCHANGED <<phase, summary, region, type, swapped, total>>
      /\ Next
  BY DEF ListStep, summaryVars, Next
<1>2. IInv'
  BY <1>1, StepIInv DEF SInv
<1>3. Idle
  BY <1>1 DEF SInv, SummaryPhase, SummaryShape, Idle
<1>4. Idle'
  BY <1>1, <1>3 DEF Idle
<1> QED BY <1>2, <1>4, IdleInvNext

LEMMA ReleaseInv == SInv /\ Release => SInv'
<1> SUFFICES ASSUME SInv, Release PROVE SInv'
  OBVIOUS
<1>1. IInv'
  BY StepIInv DEF SInv, Release, Next
<1>2. Idle'
  BY DEF Release, Idle
<1> QED BY <1>1, <1>2, IdleInvNext

\* summarize_iomem() leaves the list alone.
LEMMA SummarizeKeeps ==
    ASSUME SInv, UNCHANGED vars
    PROVE  /\ IInv' /\ count' = count /\ count \in Nat \ {0} /\ regions' = regions
           /\ \A s, r : /\ Recorded(s, r)' <=> Recorded(s, r)
                        /\ Printed(s, r)' = Printed(s, r)
           /\ \A I : Within(I)' = Within(I)
<1>1. UNCHANGED listVars
  BY DEF vars
<1>2. IInv'
  BY StepIInv DEF SInv
<1> QED BY <1>1, <1>2, SummaryUnchanged, WithinUnchanged DEF SInv, IInv,
   TypeInvariant, listVars

\* The ASSERT of validate_iomem() holds on every list.
LEMMA Validated == IInv => ValidateIomem
<1> SUFFICES ASSUME IInv PROVE ValidateIomem
  OBVIOUS
<1>1. /\ regions[1].start = 0 /\ count \in Nat
      /\ \A i, j \in 1 .. count : i < j => regions[i].start < regions[j].start
  BY DEF IInv, StrictlySorted, TypeInvariant
<1>2. \A i \in 2 .. count : regions[i - 1].start < regions[i].start
  BY <1>1
<1> QED BY <1>1, <1>2 DEF ValidateIomem

LEMMA BeginSummarizeInv == SInv /\ UNCHANGED vars /\ BeginSummarize => SInv'
<1> SUFFICES ASSUME SInv, UNCHANGED vars, BeginSummarize PROVE SInv'
  OBVIOUS
<1>1. ValidateIomem
  BY Validated DEF SInv
<1>2. /\ phase = "idle" /\ phase' = "compose"
      /\ UNCHANGED <<summary, region, type, swapped, total>>
  BY <1>1 DEF BeginSummarize
<1>3. SummaryShape'
  BY <1>2, SummarizeKeeps DEF SInv, SummaryShape
<1>4. SummaryPhase'
  BY <1>2 DEF SInv, SummaryPhase, Composed
<1>5. Recorded(summary, region)'
  BY <1>2, SummarizeKeeps DEF SInv
<1> QED BY <1>3, <1>4, <1>5, SummarizeKeeps DEF SInv

\* The regions with the description of region r are one more after it.
LEMMA NamedNext ==
    ASSUME IInv, NEW r \in 1 .. count, NEW d
    PROVE  /\ r \notin Named(d, r) /\ Named(d, r) \in SUBSET (1 .. count)
           /\ Named(d, r + 1) =
                IF d = regions[r].description THEN Named(d, r) \cup {r} ELSE Named(d, r)
<1>1. count \in Nat
  BY DEF IInv, TypeInvariant
<1>2. \A i \in 1 .. count : i < r + 1 <=> i < r \/ i = r
  BY <1>1
<1> QED BY <1>1, <1>2 DEF Named

LEMMA NamedCount ==
    ASSUME IInv, NEW r \in 1 .. count, NEW d
    PROVE  Cardinality(Within(Named(d, r + 1))) =
              IF d = regions[r].description THEN Cardinality(Within(Named(d, r))) + SizeOf(r)
              ELSE Cardinality(Within(Named(d, r)))
<1>1. CASE d = regions[r].description
  <2>1. Named(d, r + 1) = Named(d, r) \cup {r} /\ r \notin Named(d, r)
    BY <1>1, NamedNext
  <2>2. Cardinality(Within(Named(d, r) \cup {r})) = Cardinality(Within(Named(d, r))) + SizeOf(r)
    BY <2>1, WithinAdd
  <2> QED BY <1>1, <2>1, <2>2, Zenon
<1>2. CASE d # regions[r].description
  <2>1. Named(d, r + 1) = Named(d, r)
    BY <1>2, NamedNext
  <2> QED BY <1>2, <2>1, Zenon
<1> QED BY <1>1, <1>2

\* A description that is new gets a record at the front of the list.
LEMMA RecordedFront ==
    ASSUME IInv, NEW s \in Seq(Records), NEW r \in 1 .. count, Recorded(s, r),
           \A j \in 1 .. Len(s) : s[j].description # regions[r].description,
           NEW rec, rec = [size |-> SizeOf(r), description |-> regions[r].description],
           NEW t, t = <<rec>> \o s
    PROVE  t \in Seq(Records) /\ t # <<>> /\ Recorded(t, r + 1)
<1> DEFINE d == regions[r].description
<1>1. /\ count \in Nat \ {0} /\ d \in Descriptions /\ r \in Nat
      /\ \A i \in 1 .. count : i < r + 1 <=> i < r \/ i = r
  BY DEF IInv, TypeInvariant
<1>2. SizeOf(r) \in Nat
  BY WithinOne
<1>3. rec \in Records /\ rec.size = SizeOf(r) /\ rec.description = d
  BY <1>1, <1>2 DEF Records
<1>4. t \in Seq(Records) /\ t # <<>>
  BY <1>3
<1>5. /\ Len(s) \in Nat /\ Len(t) = Len(s) + 1
      /\ t[1] = rec /\ \A j \in 1 .. Len(s) : t[j + 1] = s[j]
  BY <1>3
<1>6. \A j \in 1 .. Len(t) : j = 1 \/ (j - 1 \in 1 .. Len(s) /\ t[j] = s[j - 1])
  BY <1>5
<1> HIDE DEF d
<1>7. /\ \A j \in 1 .. Len(s) :
            /\ s[j].size = Cardinality(Within(Named(s[j].description, r)))
            /\ Named(s[j].description, r) # {}
            /\ s[j].description # d
      /\ \A i \in 1 .. count : i < r =>
            \E j \in 1 .. Len(s) : s[j].description = regions[i].description
      /\ \A j, k \in 1 .. Len(s) : s[j].description = s[k].description => j = k
  BY DEF Recorded, d
<1>8. Named(d, r) = {}
  <2> SUFFICES ASSUME NEW i \in Named(d, r) PROVE FALSE
    OBVIOUS
  <2>1. i \in 1 .. count /\ i < r /\ regions[i].description = d
    BY DEF Named
  <2> QED BY <1>7, <2>1
<1>9. /\ rec.size = Cardinality(Within(Named(d, r + 1)))
      /\ Named(d, r + 1) # {}
  <2>1. Named(d, r + 1) = Named(d, r) \cup {r}
    BY NamedNext DEF d
  <2>2. Named(d, r + 1) = {r}
    BY <1>8, <2>1
  <2>3. Cardinality(Within(Named(d, r + 1))) = Cardinality(Within({r}))
    BY <2>2
  <2> QED BY <1>3, <2>2, <2>3, WithinOne
<1>10. \A j \in 1 .. Len(s) :
          /\ s[j].size = Cardinality(Within(Named(s[j].description, r + 1)))
          /\ Named(s[j].description, r + 1) # {}
  <2> SUFFICES ASSUME NEW j \in 1 .. Len(s)
               PROVE  /\ s[j].size = Cardinality(Within(Named(s[j].description, r + 1)))
                      /\ Named(s[j].description, r + 1) # {}
    OBVIOUS
  <2>1. /\ s[j].size = Cardinality(Within(Named(s[j].description, r)))
        /\ Named(s[j].description, r) # {} /\ s[j].description # d
    BY <1>7
  <2>2. /\ Cardinality(Within(Named(s[j].description, r + 1)))
              = Cardinality(Within(Named(s[j].description, r)))
        /\ Named(s[j].description, r + 1) = Named(s[j].description, r)
    BY <2>1, NamedNext, NamedCount DEF d
  <2> QED BY <2>1, <2>2
<1>11. \A j \in 1 .. Len(t) :
          /\ t[j].size = Cardinality(Within(Named(t[j].description, r + 1)))
          /\ Named(t[j].description, r + 1) # {}
  <2> SUFFICES ASSUME NEW j \in 1 .. Len(t)
               PROVE  /\ t[j].size = Cardinality(Within(Named(t[j].description, r + 1)))
                      /\ Named(t[j].description, r + 1) # {}
    OBVIOUS
  <2>1. CASE j = 1
    BY <1>3, <1>5, <1>9, <2>1
  <2>2. CASE j # 1
    BY <1>6, <1>10, <2>2
  <2> QED BY <2>1, <2>2
<1>12. \A i \in 1 .. count : i < r + 1 =>
          \E j \in 1 .. Len(t) : t[j].description = regions[i].description
  <2> SUFFICES ASSUME NEW i \in 1 .. count, i < r \/ i = r
               PROVE  \E j \in 1 .. Len(t) : t[j].description = regions[i].description
    BY <1>1
  <2>1. CASE i = r
    <3>1. 1 \in 1 .. Len(t) /\ t[1].description = regions[i].description
      BY <1>3, <1>5, <2>1 DEF d
    <3> QED BY <3>1
  <2>2. CASE i < r
    <3>1. PICK j \in 1 .. Len(s) : s[j].description = regions[i].description
      BY <1>7, <2>2
    <3>2. j + 1 \in 1 .. Len(t) /\ t[j + 1].description = regions[i].description
      BY <1>5, <3>1
    <3> QED BY <3>2
  <2> QED BY <2>1, <2>2
<1>13. \A j, k \in 1 .. Len(t) : t[j].description = t[k].description => j = k
  <2> SUFFICES ASSUME NEW j \in 1 .. Len(t), NEW k \in 1 .. Len(t),
                      t[j].description = t[k].description
               PROVE  j = k
    OBVIOUS
  <2>1. CASE j = 1 \/ k = 1
    BY <1>3, <1>5, <1>6, <1>7, <2>1
  <2>2. CASE j # 1 /\ k # 1
    <3>1. /\ j - 1 \in 1 .. Len(s) /\ k - 1 \in 1 .. Len(s)
          /\ s[j - 1].description = s[k - 1].description
      BY <1>6, <2>2
    <3>2. j - 1 = k - 1
      BY <1>7, <3>1
    <3> QED BY <1>5, <3>2
  <2> QED BY <2>1, <2>2
<1> QED BY <1>4, <1>11, <1>12, <1>13 DEF Recorded

\* A description that has a record grows by the size of the region.
LEMMA RecordedAdd ==
    ASSUME IInv, NEW s \in Seq(Records), NEW r \in 1 .. count, Recorded(s, r),
           NEW a \in 1 .. Len(s), s[a].description = regions[r].description,
           NEW t,
           t = [j \in 1 .. Len(s) |->
                  IF s[j].description = regions[r].description
                  THEN [s[j] EXCEPT !.size = @ + SizeOf(r)] ELSE s[j]]
    PROVE  t \in Seq(Records) /\ t # <<>> /\ Recorded(t, r + 1)
<1> DEFINE d == regions[r].description
<1>1. /\ count \in Nat \ {0} /\ r \in Nat
      /\ \A i \in 1 .. count : i < r + 1 <=> i < r \/ i = r
  BY DEF IInv, TypeInvariant
<1>2. SizeOf(r) \in Nat
  BY WithinOne
<1>3. \A j \in 1 .. Len(s) :
         /\ s[j].size \in Nat /\ s[j].description \in Descriptions
         /\ t[j] \in Records
         /\ t[j].description = s[j].description
         /\ t[j].size = IF s[j].description = d THEN s[j].size + SizeOf(r) ELSE s[j].size
  <2> SUFFICES ASSUME NEW j \in 1 .. Len(s)
               PROVE  /\ s[j].size \in Nat /\ s[j].description \in Descriptions
                      /\ t[j] \in Records
                      /\ t[j].description = s[j].description
                      /\ t[j].size = IF s[j].description = d THEN s[j].size + SizeOf(r)
                                     ELSE s[j].size
    OBVIOUS
  <2>1. s[j] \in Records
    OBVIOUS
  <2>2. t[j] = IF s[j].description = d THEN [s[j] EXCEPT !.size = @ + SizeOf(r)] ELSE s[j]
    OBVIOUS
  <2>3. s[j].size \in Nat /\ s[j].description \in Descriptions
    BY <2>1 DEF Records
  <2> HIDE DEF d
  <2>4. CASE s[j].description = d
    <3>1. t[j] = [s[j] EXCEPT !.size = @ + SizeOf(r)]
      BY <2>2, <2>4
    <3>2. [s[j] EXCEPT !.size = @ + SizeOf(r)] \in Records
      BY <1>2, <2>1 DEF Records
    <3>3. /\ [s[j] EXCEPT !.size = @ + SizeOf(r)].description = s[j].description
          /\ [s[j] EXCEPT !.size = @ + SizeOf(r)].size = s[j].size + SizeOf(r)
      BY <2>1 DEF Records
    <3> QED BY <2>3, <2>4, <3>1, <3>2, <3>3, Zenon
  <2>5. CASE s[j].description # d
    BY <2>1, <2>2, <2>3, <2>5, Zenon
  <2> QED BY <2>4, <2>5
<1>4. Len(s) \in Nat /\ Len(s) >= 1
  OBVIOUS
<1>5. t \in Seq(Records) /\ Len(t) = Len(s) /\ t # <<>>
  <2>1. t \in [1 .. Len(s) -> Records]
    BY <1>3
  <2>2. t \in Seq(Records) /\ Len(t) = Len(s)
    BY <1>4, <2>1
  <2> QED BY <1>4, <2>2
<1> HIDE DEF d
<1>6. /\ \A j \in 1 .. Len(s) :
            /\ s[j].size = Cardinality(Within(Named(s[j].description, r)))
            /\ Named(s[j].description, r) # {}
      /\ \A i \in 1 .. count : i < r =>
            \E j \in 1 .. Len(s) : s[j].description = regions[i].description
      /\ \A j, k \in 1 .. Len(s) : s[j].description = s[k].description => j = k
  BY DEF Recorded
<1>7. \A j \in 1 .. Len(t) :
          /\ t[j].size = Cardinality(Within(Named(t[j].description, r + 1)))
          /\ Named(t[j].description, r + 1) # {}
  <2> SUFFICES ASSUME NEW j \in 1 .. Len(s)
               PROVE  /\ t[j].size = Cardinality(Within(Named(s[j].description, r + 1)))
                      /\ Named(s[j].description, r + 1) # {}
    BY <1>3, <1>5
  <2>1. /\ s[j].size = Cardinality(Within(Named(s[j].description, r)))
        /\ Named(s[j].description, r) # {}
        /\ t[j].size = IF s[j].description = d THEN s[j].size + SizeOf(r) ELSE s[j].size
    BY <1>3, <1>6
  <2>2. Cardinality(Within(Named(s[j].description, r + 1))) =
          IF s[j].description = d THEN Cardinality(Within(Named(s[j].description, r))) + SizeOf(r)
          ELSE Cardinality(Within(Named(s[j].description, r)))
    BY NamedCount DEF d
  <2>3. Named(s[j].description, r + 1) # {}
    <3>1. Named(s[j].description, r) \subseteq Named(s[j].description, r + 1)
      BY <1>1 DEF Named
    <3> QED BY <2>1, <3>1
  <2> QED BY <2>1, <2>2, <2>3
<1>8. \A i \in 1 .. count : i < r + 1 =>
          \E j \in 1 .. Len(t) : t[j].description = regions[i].description
  BY <1>1, <1>3, <1>5, <1>6
<1>9. \A j, k \in 1 .. Len(t) : t[j].description = t[k].description => j = k
  BY <1>3, <1>5, <1>6
<1> QED BY <1>5, <1>7, <1>8, <1>9 DEF Recorded

LEMMA ComposeInv == SInv /\ UNCHANGED vars /\ Compose => SInv'
<1> SUFFICES ASSUME SInv, UNCHANGED vars, Compose PROVE SInv'
  OBVIOUS
<1>1. /\ IInv /\ SummaryShape /\ SummaryPhase /\ Recorded(summary, region)
      /\ phase = "compose" /\ region <= count /\ region' = region + 1
      /\ UNCHANGED <<phase, type, swapped, total>>
  BY DEF Compose, SInv
<1>2. region \in 1 .. count /\ summary \in Seq(Records)
  BY <1>1 DEF SummaryShape, IInv, TypeInvariant
<1>3. /\ summary' \in Seq(Records) /\ summary' # <<>>
      /\ Recorded(summary', region + 1)
  <2>1. CASE Same = {}
    <3>1. \A j \in 1 .. Len(summary) : summary[j].description # regions[region].description
      BY <2>1 DEF Same
    <3>2. summary' = <<[size |-> SizeOf(region),
                        description |-> regions[region].description]>> \o summary
      BY <2>1 DEF Compose
    <3> QED BY <1>1, <1>2, <3>1, <3>2, RecordedFront
  <2>2. CASE Same # {}
    <3>1. PICK a \in 1 .. Len(summary) :
             summary[a].description = regions[region].description
      BY <2>2 DEF Same
    <3>2. summary' = [j \in 1 .. Len(summary) |->
                        IF j \in Same THEN [summary[j] EXCEPT !.size = @ + SizeOf(region)]
                        ELSE summary[j]]
      BY <2>2 DEF Compose
    <3>3. \A j \in 1 .. Len(summary) :
             j \in Same <=> summary[j].description = regions[region].description
      BY DEF Same
    <3>4. summary' = [j \in 1 .. Len(summary) |->
                        IF summary[j].description = regions[region].description
                        THEN [summary[j] EXCEPT !.size = @ + SizeOf(region)]
                        ELSE summary[j]]
      BY <3>2, <3>3
    <3> QED BY <1>1, <1>2, <3>1, <3>4, RecordedAdd
  <2> QED BY <2>1, <2>2
<1>4. IInv' /\ count' = count /\ count \in Nat
  BY SummarizeKeeps
<1>5. Recorded(summary, region)'
  <2>1. Recorded(summary', region')
    BY <1>1, <1>3
  <2> QED BY <2>1, SummarizeKeeps
<1>6. SummaryShape'
  <2>1. region' \in Nat \ {0} /\ region' <= count' + 1
    BY <1>1, <1>2, <1>4
  <2> QED BY <1>1, <1>3, <2>1 DEF SummaryShape
<1>7. SummaryPhase'
  BY <1>1 DEF SummaryPhase, Composed
<1> QED BY <1>4, <1>5, <1>6, <1>7 DEF SInv

\* The end of the composition, and a step that ends the process.
LEMMA EndComposeInv == SInv /\ UNCHANGED vars /\ (EndCompose \/ ComposeCrashes) => SInv'
<1> SUFFICES ASSUME SInv, UNCHANGED vars, EndCompose \/ ComposeCrashes PROVE SInv'
  OBVIOUS
<1>1. /\ phase = "compose" /\ phase' \in {"sort", "crashed"}
      /\ phase' = "sort" => region > count
      /\ UNCHANGED <<summary, region, type, swapped, total>>
  BY DEF EndCompose, ComposeCrashes
<1>2. /\ IInv /\ SummaryShape /\ SummaryPhase /\ Recorded(summary, region)
      /\ IInv' /\ count' = count /\ count \in Nat \ {0}
      /\ Recorded(summary, region)'
  <2>1. Recorded(summary', region')
    BY <1>1 DEF SInv
  <2> QED BY <2>1, SummarizeKeeps DEF SInv
<1>3. SummaryShape'
  BY <1>1, <1>2 DEF SummaryShape
<1>4. phase' = "sort" => region = count + 1 /\ summary # <<>>
  <2> SUFFICES ASSUME region > count PROVE region = count + 1 /\ summary # <<>>
    BY <1>1
  <2>1. region = count + 1
    BY <1>2 DEF SummaryShape
  <2>2. 1 \in 1 .. count /\ 1 < region
    BY <1>2, <2>1
  <2>3. \E j \in 1 .. Len(summary) : summary[j].description = regions[1].description
    BY <1>2, <2>2 DEF Recorded
  <2> QED BY <2>1, <2>3
<1>5. SummaryPhase'
  <2>1. Composed' => region' = count' + 1 /\ summary' # <<>>
    BY <1>1, <1>2, <1>4 DEF Composed
  <2>2. phase' = "sort" => type' <= Len(summary') /\ (~swapped' => Ascending(summary', type'))
    <3> SUFFICES ASSUME phase' = "sort"
                 PROVE  type' <= Len(summary') /\ Ascending(summary', type')
      OBVIOUS
    <3>1. type' = 1 /\ summary' = summary /\ summary # <<>> /\ Len(summary) \in Nat
      BY <1>1, <1>2, <1>4 DEF SummaryPhase, SummaryShape
    <3>2. Len(summary) # 0
      BY <1>2, <3>1 DEF SummaryShape
    <3> QED BY <3>1, <3>2 DEF Ascending
  <2> QED BY <1>1, <1>2, <2>1, <2>2 DEF SummaryPhase
<1> QED BY <1>2, <1>3, <1>5 DEF SInv

\* The list s with its records n and n + 1 swapped.
Exchanged(s, n) == [s EXCEPT ![n] = s[n + 1], ![n + 1] = s[n]]

\* Swapping two records of the list leaves it a list with the same records.
LEMMA RecordedSwap ==
    ASSUME IInv, NEW s \in Seq(Records), NEW r, Recorded(s, r),
           NEW n \in 1 .. Len(s) - 1,
           NEW t, t = Exchanged(s, n)
    PROVE  t \in Seq(Records) /\ Len(t) = Len(s) /\ Recorded(t, r)
<1> DEFINE other(j) == IF j = n THEN n + 1 ELSE IF j = n + 1 THEN n ELSE j
<1>1. Len(s) \in Nat /\ n \in 1 .. Len(s) /\ n + 1 \in 1 .. Len(s)
  OBVIOUS
<1>2. t \in Seq(Records) /\ Len(t) = Len(s)
  BY <1>1 DEF Exchanged
<1>3. \A j \in 1 .. Len(s) :
         other(j) \in 1 .. Len(s) /\ other(other(j)) = j /\ t[j] = s[other(j)]
  BY <1>1 DEF Exchanged
<1> HIDE DEF other
<1>4. \A j \in 1 .. Len(s) : t[other(j)] = s[j]
  BY <1>3
<1>5. /\ \A j \in 1 .. Len(s) :
            /\ s[j].size = Cardinality(Within(Named(s[j].description, r)))
            /\ Named(s[j].description, r) # {}
      /\ \A i \in 1 .. count : i < r =>
            \E j \in 1 .. Len(s) : s[j].description = regions[i].description
      /\ \A j, k \in 1 .. Len(s) : s[j].description = s[k].description => j = k
  BY DEF Recorded
<1>6. \A j \in 1 .. Len(t) :
          /\ t[j].size = Cardinality(Within(Named(t[j].description, r)))
          /\ Named(t[j].description, r) # {}
  <2> SUFFICES ASSUME NEW j \in 1 .. Len(s)
               PROVE  /\ t[j].size = Cardinality(Within(Named(t[j].description, r)))
                      /\ Named(t[j].description, r) # {}
    BY <1>2
  <2>1. other(j) \in 1 .. Len(s) /\ t[j] = s[other(j)]
    BY <1>3
  <2> QED BY <1>5, <2>1, Zenon
<1>7. \A i \in 1 .. count : i < r =>
          \E j \in 1 .. Len(t) : t[j].description = regions[i].description
  <2> SUFFICES ASSUME NEW i \in 1 .. count, i < r
               PROVE  \E j \in 1 .. Len(t) : t[j].description = regions[i].description
    OBVIOUS
  <2>1. PICK j \in 1 .. Len(s) : s[j].description = regions[i].description
    BY <1>5
  <2>2. other(j) \in 1 .. Len(t) /\ t[other(j)] = s[j]
    BY <1>2, <1>3, <1>4
  <2> QED BY <2>1, <2>2
<1>8. \A j, k \in 1 .. Len(t) : t[j].description = t[k].description => j = k
  <2> SUFFICES ASSUME NEW j \in 1 .. Len(s), NEW k \in 1 .. Len(s),
                      t[j].description = t[k].description
               PROVE  j = k
    BY <1>2
  <2>1. other(j) = other(k)
    BY <1>3, <1>5
  <2> QED BY <1>3, <2>1
<1> QED BY <1>2, <1>6, <1>7, <1>8 DEF Recorded

LEMMA CompareInv == SInv /\ UNCHANGED vars /\ Compare => SInv'
<1> SUFFICES ASSUME SInv, UNCHANGED vars, Compare PROVE SInv'
  OBVIOUS
<1>1. /\ IInv /\ SummaryShape /\ SummaryPhase /\ Recorded(summary, region)
      /\ phase = "sort" /\ type < Len(summary) /\ type' = type + 1
      /\ UNCHANGED <<phase, region, total>>
  BY DEF Compare, SInv
<1>2. /\ summary \in Seq(Records) /\ Len(summary) \in Nat /\ type \in Nat \ {0}
      /\ type \in 1 .. Len(summary) - 1
  <2>1. summary \in Seq(Records) /\ type \in Nat \ {0}
    BY <1>1 DEF SummaryShape
  <2> QED BY <1>1, <2>1
<1>3. \A j \in 1 .. Len(summary) : summary[j].size \in Nat
  <2>1. \A j \in 1 .. Len(summary) : summary[j] \in Records
    BY <1>2
  <2> QED BY <2>1 DEF Records
<1>4. /\ summary' \in Seq(Records) /\ Len(summary') = Len(summary)
      /\ Recorded(summary', region)
      /\ swapped' \in BOOLEAN
      /\ ~swapped' => Ascending(summary', type + 1)
  <2>1. CASE summary[type].size > summary[type + 1].size
    <3>1. /\ swapped' = TRUE
          /\ summary' = [summary EXCEPT ![type] = summary[type + 1],
                                        ![type + 1] = summary[type]]
      BY <2>1 DEF Compare, Swap
    <3>2. /\ summary' \in Seq(Records) /\ Len(summary') = Len(summary)
          /\ Recorded(summary', region)
      <4>1. summary' = Exchanged(summary, type)
        BY <3>1 DEF Exchanged
      <4> QED BY <1>1, <1>2, <4>1, RecordedSwap
    <3>3. swapped' \in BOOLEAN
      BY <3>1
    <3>4. ~swapped' => Ascending(summary', type + 1)
      BY <3>1
    <3> QED BY <3>2, <3>3, <3>4
  <2>2. CASE ~(summary[type].size > summary[type + 1].size)
    <3>1. UNCHANGED <<swapped, summary>>
      BY <2>2 DEF Compare
    <3>2. summary[type].size <= summary[type + 1].size
      BY <1>2, <1>3, <2>2
    <3>3. ~swapped => Ascending(summary, type)
      BY <1>1 DEF SummaryPhase
    <3>4. ~swapped => Ascending(summary, type + 1)
      <4>1. \A j \in 1 .. type : j = type \/ j \in 1 .. type - 1
        BY <1>2
      <4> QED BY <1>2, <3>2, <3>3, <4>1 DEF Ascending
    <3>5. swapped' \in BOOLEAN
      BY <1>1, <3>1 DEF SummaryShape
    <3> QED BY <1>1, <1>2, <3>1, <3>4, <3>5
  <2> QED BY <2>1, <2>2
<1>5. IInv' /\ count' = count
  BY SummarizeKeeps
<1>6. Recorded(summary, region)'
  <2>1. Recorded(summary', region')
    BY <1>1, <1>4
  <2> QED BY <2>1, SummarizeKeeps
<1>7. SummaryShape'
  BY <1>1, <1>2, <1>4, <1>5 DEF SummaryShape
<1>8. SummaryPhase'
  <2>1. Composed' => region' = count' + 1 /\ summary' # <<>>
    <3>1. region = count + 1
      BY <1>1 DEF SummaryPhase, Composed
    <3>2. summary' # <<>>
      BY <1>2, <1>4
    <3> QED BY <1>1, <1>5, <3>1, <3>2
  <2>2. type' <= Len(summary') /\ (~swapped' => Ascending(summary', type'))
    BY <1>1, <1>2, <1>4
  <2>3. phase' = "sort" /\ total' = 0
    BY <1>1 DEF SummaryPhase
  <2> QED BY <2>1, <2>2, <2>3 DEF SummaryPhase
<1> QED BY <1>5, <1>6, <1>7, <1>8 DEF SInv

\* A pass that has swapped nothing has found every pair of neighbours in order.
LEMMA EndPassInv == SInv /\ UNCHANGED vars /\ EndPass => SInv'
<1> SUFFICES ASSUME SInv, UNCHANGED vars, EndPass PROVE SInv'
  OBVIOUS
<1>1. /\ IInv /\ SummaryShape /\ SummaryPhase /\ Recorded(summary, region)
      /\ phase = "sort" /\ type >= Len(summary) /\ type' = 1
      /\ UNCHANGED <<summary, region, total>>
  BY DEF EndPass, SInv
<1>2. /\ summary \in Seq(Records) /\ Len(summary) \in Nat /\ type = Len(summary)
      /\ Len(summary) >= 1
  <2>1. summary \in Seq(Records) /\ type \in Nat \ {0} /\ type <= Len(summary)
    BY <1>1 DEF SummaryShape, SummaryPhase
  <2> QED BY <1>1, <2>1
<1>3. /\ phase' \in {"sort", "validate"}
      /\ phase' = "validate" => Ascending(summary, Len(summary))
  <2>1. CASE swapped
    BY <2>1 DEF EndPass
  <2>2. CASE ~swapped
    BY <1>1, <1>2, <2>2 DEF EndPass, SummaryPhase
  <2> QED BY <2>1, <2>2
<1>4. IInv' /\ count' = count
  BY SummarizeKeeps
<1>5. Recorded(summary, region)'
  <2>1. Recorded(summary', region')
    BY <1>1
  <2> QED BY <2>1, SummarizeKeeps
<1>6. SummaryShape'
  <2>1. swapped' \in BOOLEAN
    BY DEF EndPass
  <2> QED BY <1>1, <1>3, <1>4, <2>1 DEF SummaryShape
<1>7. SummaryPhase'
  <2>1. region' = count' + 1 /\ summary' # <<>>
    BY <1>1, <1>4 DEF SummaryPhase, Composed
  <2>2. type' <= Len(summary') /\ Ascending(summary', type')
    BY <1>1, <1>2 DEF Ascending
  <2>3. type' = 1 /\ total' = 0 /\ summary' = summary
    BY <1>1 DEF SummaryPhase
  <2> QED BY <1>3, <2>1, <2>2, <2>3 DEF SummaryPhase
<1> QED BY <1>4, <1>5, <1>6, <1>7 DEF SInv

\* The addresses with a description are those of the regions with it.
LEMMA AddressesOfIs ==
    ASSUME IInv, NEW d
    PROVE  /\ AddressesOf(d) = Within(Named(d, count + 1))
           /\ Named(d, count + 1) = {i \in 1 .. count : regions[i].description = d}
<1>1. count \in Nat
  BY DEF IInv, TypeInvariant
<1>2. Named(d, count + 1) = {i \in 1 .. count : regions[i].description = d}
  BY <1>1 DEF Named
<1>3. \A a \in Addresses : RegionAt(a) \in 1 .. count
  BY RegionAtType
<1> QED BY <1>2, <1>3 DEF AddressesOf, Within

\* The ASSERT of validate_summary() holds after the sort.
LEMMA SummaryValidated == SInv /\ phase = "validate" => ValidateSummary
<1> SUFFICES ASSUME SInv, phase = "validate" PROVE ValidateSummary
  OBVIOUS
<1>1. /\ IInv /\ Recorded(summary, count + 1) /\ summary # <<>>
      /\ Ascending(summary, Len(summary))
  BY DEF SInv, SummaryPhase, Composed
<1>2. ValidateIomem
  BY <1>1, Validated
<1>3. \A j \in 1 .. Len(summary) :
         summary[j].size = MapThenSumSet(SizeOf,
            {i \in 1 .. count : regions[i].description = summary[j].description})
  <2> SUFFICES ASSUME NEW j \in 1 .. Len(summary), NEW d, d = summary[j].description,
                      NEW S, S = {i \in 1 .. count : regions[i].description = d}
               PROVE  summary[j].size = MapThenSumSet(SizeOf, S)
    OBVIOUS
  <2>1. summary[j].size = Cardinality(Within(Named(d, count + 1)))
    BY <1>1 DEF Recorded
  <2>2. Named(d, count + 1) = S
    BY <1>1, AddressesOfIs
  <2>3. S \in SUBSET (1 .. count)
    OBVIOUS
  <2>4. MapThenSumSet(SizeOf, S) = Cardinality(Within(S))
    BY <1>1, <2>3, SumOfRegions
  <2> QED BY <2>1, <2>2, <2>4, Zenon
<1> QED BY <1>1, <1>2, <1>3 DEF ValidateSummary, Ascending

LEMMA ValidateInv == SInv /\ UNCHANGED vars /\ Validate => SInv'
<1> SUFFICES ASSUME SInv, UNCHANGED vars, Validate PROVE SInv'
  OBVIOUS
<1>1. /\ IInv /\ SummaryShape /\ SummaryPhase /\ Recorded(summary, region)
      /\ phase = "validate" /\ phase' = "print"
      /\ UNCHANGED <<summary, region, type, swapped, total>>
  BY SummaryValidated DEF Validate, SInv
<1>2. /\ IInv' /\ count' = count
      /\ \A n : Printed(summary, n)' = Printed(summary', n)
      /\ \A I : Within(I)' = Within(I)
  BY <1>1, SummarizeKeeps
<1>3. Recorded(summary, region)'
  <2>1. Recorded(summary', region')
    BY <1>1
  <2> QED BY <2>1, SummarizeKeeps
<1>4. SummaryShape'
  BY <1>1, <1>2 DEF SummaryShape
<1>5. SummaryPhase'
  <2>1. region' = count' + 1 /\ summary' # <<>> /\ Ascending(summary', Len(summary'))
    BY <1>1, <1>2 DEF SummaryPhase, Composed
  <2>2. /\ type' = 1 /\ total' = 0 /\ type' - 1 = 0 /\ summary' = summary
        /\ Len(summary) \in Nat
    BY <1>1 DEF SummaryPhase, SummaryShape
  <2>3. total' = Cardinality(Within(Printed(summary, type - 1)))'
    <3>1. Printed(summary, 0) = {}
      BY DEF Printed
    <3>2. Within({}) = {}
      BY DEF Within
    <3>3. Cardinality(Within(Printed(summary, 0))) = 0
      BY <3>1, <3>2, FS_EmptySet
    <3>4. Printed(summary, type - 1)' = Printed(summary, 0)
      BY <2>2, SummarizeKeeps
    <3>5. Within(Printed(summary, type - 1))' = Within(Printed(summary, 0))
      BY <3>4, SummarizeKeeps
    <3> QED BY <2>2, <3>3, <3>5
  <2>4. type' <= Len(summary') + 1
    BY <2>2
  <2> QED BY <1>1, <2>1, <2>2, <2>3, <2>4 DEF SummaryPhase
<1> QED BY <1>2, <1>3, <1>4, <1>5 DEF SInv

\* The next record adds its regions, unless it is the last one.
LEMMA PrintedNext ==
    ASSUME IInv, NEW s \in Seq(Records), Recorded(s, count + 1), NEW n \in 1 .. Len(s)
    PROVE  /\ s[n].size \in Nat
           /\ Cardinality(Within(Printed(s, n))) =
                IF n < Len(s) THEN Cardinality(Within(Printed(s, n - 1))) + s[n].size
                ELSE Cardinality(Within(Printed(s, n - 1)))
<1> DEFINE d == s[n].description
<1>1. /\ Len(s) \in Nat /\ n \in Nat
      /\ \A j \in 1 .. Len(s) : j <= n <=> j <= n - 1 \/ j = n
  OBVIOUS
<1>2. /\ s[n].size = Cardinality(Within(Named(d, count + 1)))
      /\ \A j \in 1 .. Len(s) : s[j].description = d => j = n
  BY DEF Recorded
<1>3. Named(d, count + 1) = {i \in 1 .. count : regions[i].description = d}
  BY AddressesOfIs
<1>4. s[n].size \in Nat
  BY <1>2, WithinFinite
<1>5. CASE n < Len(s)
  <2>1. Printed(s, n) = Printed(s, n - 1) \cup Named(d, count + 1)
    BY <1>1, <1>3, <1>5 DEF Printed
  <2>2. Printed(s, n - 1) \cap Named(d, count + 1) = {}
    <3> SUFFICES ASSUME NEW i \in Printed(s, n - 1), i \in Named(d, count + 1) PROVE FALSE
      OBVIOUS
    <3>1. regions[i].description = d
      BY <1>3
    <3>2. PICK j \in 1 .. Len(s) : j <= n - 1 /\ regions[i].description = s[j].description
      BY DEF Printed
    <3>3. j = n
      BY <1>2, <3>1, <3>2
    <3> QED BY <1>1, <3>2, <3>3
  <2> HIDE DEF d
  <2>3. Cardinality(Within(Printed(s, n))) =
           Cardinality(Within(Printed(s, n - 1) \cup Named(d, count + 1)))
    BY <2>1
  <2>4. Cardinality(Within(Printed(s, n - 1) \cup Named(d, count + 1))) =
           Cardinality(Within(Printed(s, n - 1))) + Cardinality(Within(Named(d, count + 1)))
    BY <2>2, WithinUnion
  <2> QED BY <1>2, <1>4, <1>5, <2>3, <2>4
<1>6. CASE ~(n < Len(s))
  <2>1. Printed(s, n) = Printed(s, n - 1)
    BY <1>1, <1>6 DEF Printed
  <2> QED BY <1>4, <1>6, <2>1
<1> QED BY <1>5, <1>6

LEMMA PrintSummaryInv == SInv /\ UNCHANGED vars /\ PrintSummary => SInv'
<1> SUFFICES ASSUME SInv, UNCHANGED vars, PrintSummary PROVE SInv'
  OBVIOUS
<1>1. /\ IInv /\ SummaryShape /\ SummaryPhase /\ Recorded(summary, region)
      /\ phase = "print" /\ UNCHANGED <<summary, region, swapped>>
  BY DEF PrintSummary, SInv
<1>2. /\ summary \in Seq(Records) /\ Len(summary) \in Nat /\ type \in Nat \ {0}
      /\ total \in Nat /\ region = count + 1 /\ summary # <<>>
      /\ type <= Len(summary) + 1 /\ Ascending(summary, Len(summary))
      /\ total = Cardinality(Within(Printed(summary, type - 1)))
  <2>1. summary \in Seq(Records) /\ type \in Nat \ {0} /\ total \in Nat
    BY <1>1 DEF SummaryShape
  <2>2. /\ region = count + 1 /\ summary # <<>> /\ type <= Len(summary) + 1
        /\ Ascending(summary, Len(summary))
        /\ total = Cardinality(Within(Printed(summary, type - 1)))
    BY <1>1 DEF SummaryPhase, Composed
  <2> QED BY <2>1, <2>2
<1>3. /\ phase' \in {"print", "printed"} /\ type' \in Nat \ {0} /\ total' \in Nat
      /\ type' <= Len(summary) + 1
      /\ phase' = "printed" => type' = Len(summary) + 1
      /\ total' = Cardinality(Within(Printed(summary, type' - 1)))
  <2>1. CASE type <= Len(summary)
    <3>1. /\ total' = IF type < Len(summary) THEN total + summary[type].size ELSE total
          /\ type' = type + 1 /\ phase' = phase
      BY <2>1 DEF PrintSummary
    <3>2. type \in 1 .. Len(summary)
      BY <1>2, <2>1
    <3>3. /\ summary[type].size \in Nat
          /\ Cardinality(Within(Printed(summary, type))) =
                IF type < Len(summary)
                THEN Cardinality(Within(Printed(summary, type - 1))) + summary[type].size
                ELSE Cardinality(Within(Printed(summary, type - 1)))
      BY <1>1, <1>2, <3>2, PrintedNext
    <3>4. total' = Cardinality(Within(Printed(summary, type)))
      BY <1>2, <3>1, <3>3
    <3>5. type' - 1 = type
      BY <1>2, <3>1
    <3>6. total' \in Nat
      BY <1>2, <3>1, <3>3
    <3> QED BY <1>1, <1>2, <2>1, <3>1, <3>4, <3>5, <3>6
  <2>2. CASE ~(type <= Len(summary))
    <3>1. phase' = "printed" /\ UNCHANGED <<total, type>>
      BY <2>2 DEF PrintSummary
    <3> QED BY <1>2, <2>2, <3>1
  <2> QED BY <2>1, <2>2
<1>4. IInv' /\ count' = count
  BY SummarizeKeeps
<1>5. Recorded(summary, region)'
  <2>1. Recorded(summary', region')
    BY <1>1
  <2> QED BY <2>1, SummarizeKeeps
<1>6. SummaryShape'
  BY <1>1, <1>3, <1>4 DEF SummaryShape
<1>7. SummaryPhase'
  <2>1. /\ region' = count' + 1 /\ summary' # <<>> /\ Ascending(summary', Len(summary'))
        /\ type' <= Len(summary') + 1
        /\ phase' = "printed" => type' = Len(summary') + 1
    BY <1>1, <1>2, <1>3, <1>4
  <2>2. total' = Cardinality(Within(Printed(summary, type - 1)))'
    <3>1. Printed(summary, type - 1)' = Printed(summary, type' - 1)
      BY <1>1, SummarizeKeeps
    <3>2. Within(Printed(summary, type - 1))' = Within(Printed(summary, type' - 1))
      BY <3>1, SummarizeKeeps
    <3> QED BY <1>3, <3>2
  <2> QED BY <1>3, <2>1, <2>2 DEF SummaryPhase
<1> QED BY <1>4, <1>5, <1>6, <1>7 DEF SInv

LEMMA SummaryStutterInv ==
    SInv /\ UNCHANGED vars /\ UNCHANGED summaryVars => SInv'
<1> SUFFICES ASSUME SInv, UNCHANGED vars, UNCHANGED summaryVars PROVE SInv'
  OBVIOUS
<1>1. /\ UNCHANGED <<phase, summary, region, type, swapped, total>>
      /\ IInv' /\ count' = count
  BY SummarizeKeeps DEF summaryVars
<1>2. Recorded(summary, region)'
  <2>1. Recorded(summary', region')
    BY <1>1 DEF SInv
  <2> QED BY <2>1, SummarizeKeeps
<1>3. SummaryShape'
  BY <1>1 DEF SInv, SummaryShape
<1>4. Within(Printed(summary, type - 1))' = Within(Printed(summary, type - 1))
  <2>1. Printed(summary, type - 1)' = Printed(summary, type - 1)
    BY <1>1, SummarizeKeeps
  <2> QED BY <2>1, SummarizeKeeps
<1>5. SummaryPhase'
  BY <1>1, <1>4 DEF SInv, SummaryPhase, Composed, Ascending
<1> QED BY <1>1, <1>2, <1>3, <1>5 DEF SInv

LEMMA StepSInv == SInv /\ [SummaryNext]_allVars => SInv'
<1> SUFFICES ASSUME SInv, [SummaryNext]_allVars PROVE SInv'
  OBVIOUS
<1>1. CASE ListStep \/ Release
  BY <1>1, ListStepInv, ReleaseInv
<1>2. CASE Summarize
  BY <1>2, BeginSummarizeInv, ComposeInv, EndComposeInv, CompareInv, EndPassInv,
     ValidateInv, PrintSummaryInv, SummaryStutterInv DEF Summarize, Stopped
<1>3. CASE UNCHANGED allVars
  BY <1>3, SummaryStutterInv DEF allVars
<1> QED BY <1>1, <1>2, <1>3 DEF SummaryNext

LEMMA SummaryInvariantHolds == SummarySpec => []SInv
  BY InitSInv, StepSInv, PTL DEF SummarySpec

\* Nothing that is done about the summary disturbs the list: IomemSummary
\* implements Iomem, and through it PhysMap.
THEOREM SummaryKeepsList == SummarySpec => Spec /\ ImplementsMap
<1>1. SummaryInit => Init
  BY DEF SummaryInit
<1>2. [SummaryNext]_allVars => [Next]_vars
  <2>1. ListStep => Next
    BY DEF ListStep, Next
  <2>2. Release => Next
    BY DEF Release, Next
  <2>3. Summarize => UNCHANGED vars
    BY DEF Summarize
  <2>4. UNCHANGED allVars => UNCHANGED vars
    BY DEF allVars
  <2> QED BY <2>1, <2>2, <2>3, <2>4 DEF SummaryNext
<1>3. SummarySpec => Spec
  BY <1>1, <1>2, PTL DEF SummarySpec, Spec
<1> QED BY <1>3, Refinement, PTL

\* Each description that occurs has one record, with the number of its
\* addresses, from the end of the composition on and through the sort.
THEOREM CountedOnce == SummarySpec => []EveryAddressCountedOnce
<1>1. SInv => EveryAddressCountedOnce
  <2> SUFFICES ASSUME SInv, Composed PROVE EveryAddressCountedOnce
    BY DEF EveryAddressCountedOnce
  <2>1. IInv /\ summary \in Seq(Records) /\ Recorded(summary, count + 1) /\ count \in Nat
    BY DEF SInv, SummaryShape, SummaryPhase, IInv, TypeInvariant
  <2>2. \A d : /\ AddressesOf(d) = Within(Named(d, count + 1))
               /\ Named(d, count + 1) = {i \in 1 .. count : regions[i].description = d}
    BY <2>1, AddressesOfIs
  <2>3. \A j \in 1 .. Len(summary) :
           summary[j].size = Cardinality(AddressesOf(summary[j].description))
    <3> SUFFICES ASSUME NEW j \in 1 .. Len(summary)
                 PROVE  summary[j].size = Cardinality(AddressesOf(summary[j].description))
      OBVIOUS
    <3>1. summary[j].size = Cardinality(Within(Named(summary[j].description, count + 1)))
      BY <2>1 DEF Recorded
    <3> QED BY <2>2, <3>1, Zenon
  <2>4. ASSUME NEW d
        PROVE  Cardinality({j \in 1 .. Len(summary) : summary[j].description = d})
                  = IF AddressesOf(d) = {} THEN 0 ELSE 1
    <3> DEFINE J == {j \in 1 .. Len(summary) : summary[j].description = d}
    <3>1. AddressesOf(d) = {} <=> Named(d, count + 1) = {}
      <4>1. Named(d, count + 1) \in SUBSET (1 .. count)
        BY DEF Named
      <4>2. Within(Named(d, count + 1)) = {} <=> Named(d, count + 1) = {}
        BY <2>1, <4>1, WithinEmpty
      <4> QED BY <2>2, <4>2, Zenon
    <3>2. CASE AddressesOf(d) = {}
      <4>1. \A j \in 1 .. Len(summary) : Named(summary[j].description, count + 1) # {}
        BY <2>1 DEF Recorded
      <4>2. J = {}
        BY <3>1, <3>2, <4>1
      <4>3. Cardinality(J) = 0
        BY <4>2, FS_EmptySet
      <4> QED BY <3>2, <4>3
    <3>3. CASE AddressesOf(d) # {}
      <4>1. PICK i \in Named(d, count + 1) : TRUE
        BY <3>1, <3>3
      <4>2. i \in 1 .. count /\ i < count + 1 /\ regions[i].description = d
        BY <4>1 DEF Named
      <4>3. PICK j \in 1 .. Len(summary) : summary[j].description = d
        BY <2>1, <4>2 DEF Recorded
      <4>4. \A k \in 1 .. Len(summary) : summary[k].description = d => k = j
        BY <2>1, <4>3 DEF Recorded
      <4>5. J = {j}
        BY <4>3, <4>4
      <4>6. Cardinality({j}) = 1
        BY FS_Singleton
      <4>7. Cardinality(J) = 1
        BY <4>5, <4>6, Zenon
      <4> QED BY <3>3, <4>7
    <3> QED BY <3>2, <3>3
  <2> QED BY <2>3, <2>4 DEF EveryAddressCountedOnce
<1> QED BY <1>1, SummaryInvariantHolds, PTL

\* What is printed is in increasing order, and no ASSERT of summarize_iomem()
\* ends the process.
THEOREM SortedSummary == SummarySpec => []SortedWhenPrinted
<1>1. SInv => SortedWhenPrinted
  <2> SUFFICES ASSUME SInv PROVE SortedWhenPrinted
    OBVIOUS
  <2>1. phase # "aborted"
    BY DEF SInv, SummaryShape
  <2>2. phase \in {"validate", "print", "printed"} => Ascending(summary, Len(summary))
    BY DEF SInv, SummaryPhase
  <2> QED BY <2>1, <2>2 DEF SortedWhenPrinted, Ascending
<1> QED BY <1>1, SummaryInvariantHolds, PTL

\* In a list that is in order from neighbour to neighbour, the last record is
\* the largest.
LEMMA LastIsLargest ==
    ASSUME NEW s \in Seq(Records), Ascending(s, Len(s)), NEW j \in 1 .. Len(s)
    PROVE  /\ s[j].size \in Nat /\ s[Len(s)].size \in Nat
           /\ s[j].size <= s[Len(s)].size
<1> DEFINE Larger == {n \in Nat : n < Len(s) /\ ~(s[Len(s) - n].size <= s[Len(s)].size)}
<1>1. Len(s) \in Nat /\ Len(s) \in 1 .. Len(s)
  OBVIOUS
<1>2. \A k \in 1 .. Len(s) : s[k].size \in Nat
  <2>1. \A k \in 1 .. Len(s) : s[k] \in Records
    OBVIOUS
  <2> QED BY <2>1 DEF Records
<1>3. ASSUME ~(s[j].size <= s[Len(s)].size) PROVE FALSE
  <2>1. Len(s) - j \in Larger
    <3>1. Len(s) - (Len(s) - j) = j /\ Len(s) - j \in Nat /\ Len(s) - j < Len(s)
      BY <1>1
    <3> QED BY <1>3, <3>1
  <2>2. PICK n \in Larger : \A m \in Larger : n <= m
    BY <2>1, Least
  <2>3. n \in Nat /\ n < Len(s) /\ ~(s[Len(s) - n].size <= s[Len(s)].size)
    OBVIOUS
  <2>4. n # 0
    <3> SUFFICES ASSUME n = 0 PROVE FALSE
      OBVIOUS
    <3>1. Len(s) - n = Len(s)
      BY <1>1
    <3> QED BY <1>1, <1>2, <2>3, <3>1
  <2>5. /\ n - 1 \in Nat /\ n - 1 < Len(s) /\ n - 1 \notin Larger
        /\ Len(s) - n \in 1 .. Len(s) - 1 /\ (Len(s) - n) + 1 = Len(s) - (n - 1)
    BY <1>1, <2>2, <2>3, <2>4
  <2>6. s[Len(s) - (n - 1)].size <= s[Len(s)].size
    BY <2>5
  <2>7. s[Len(s) - n].size <= s[(Len(s) - n) + 1].size
    BY <2>5 DEF Ascending
  <2>8. /\ Len(s) - n \in 1 .. Len(s) /\ Len(s) - (n - 1) \in 1 .. Len(s)
    BY <1>1, <2>5
  <2>9. /\ s[Len(s) - n].size \in Nat /\ s[Len(s) - (n - 1)].size \in Nat
        /\ s[Len(s)].size \in Nat
    BY <1>1, <1>2, <2>8
  <2>10. s[Len(s) - n].size <= s[Len(s) - (n - 1)].size
    BY <2>5, <2>7, Zenon
  <2> QED BY <2>3, <2>6, <2>9, <2>10
<1> QED BY <1>1, <1>2, <1>3

\* Where the unmapped memory is the largest, its record is the last, and what
\* is printed as the total is the number of all other addresses.
THEOREM TotalIsRight == SummarySpec => []TotalIsMappedMemory
<1>1. SInv => TotalIsMappedMemory
  <2> SUFFICES ASSUME SInv, phase = "printed",
                      \A d \in Descriptions \ {Unmapped} :
                         Cardinality(AddressesOf(d)) < Cardinality(AddressesOf(Unmapped))
               PROVE  total = MaxPhysAddr + 1 - Cardinality(AddressesOf(Unmapped))
    BY DEF TotalIsMappedMemory
  <2> DEFINE n == Len(summary)
             last == summary[n].description
  <2>1. /\ IInv /\ summary \in Seq(Records) /\ summary # <<>> /\ count \in Nat
        /\ Recorded(summary, count + 1) /\ Ascending(summary, n)
        /\ total = Cardinality(Within(Printed(summary, n)))
    <3>1. /\ region = count + 1 /\ summary # <<>> /\ Ascending(summary, n)
          /\ type = n + 1
          /\ total = Cardinality(Within(Printed(summary, type - 1)))
      BY DEF SInv, SummaryPhase, Composed
    <3>2. IInv /\ summary \in Seq(Records) /\ Recorded(summary, region) /\ count \in Nat
      BY DEF SInv, SummaryShape, IInv, TypeInvariant
    <3>3. type - 1 = n
      BY <3>1, <3>2
    <3> QED BY <3>1, <3>2, <3>3
  <2>2. n \in Nat /\ n \in 1 .. n
    BY <2>1
  <2>3. \A d : /\ AddressesOf(d) = Within(Named(d, count + 1))
               /\ Named(d, count + 1) = {i \in 1 .. count : regions[i].description = d}
               /\ Cardinality(AddressesOf(d)) \in Nat
    BY <2>1, AddressesOfIs, WithinFinite, Zenon
  <2>4. \A j \in 1 .. n : summary[j].size = Cardinality(AddressesOf(summary[j].description))
    <3> SUFFICES ASSUME NEW j \in 1 .. n
                 PROVE  summary[j].size = Cardinality(AddressesOf(summary[j].description))
      OBVIOUS
    <3>1. summary[j].size = Cardinality(Within(Named(summary[j].description, count + 1)))
      BY <2>1 DEF Recorded
    <3> QED BY <2>3, <3>1, Zenon
  <2>5. \A j \in 1 .. n : summary[j].description \in Descriptions
    <3>1. \A j \in 1 .. n : summary[j] \in Records
      BY <2>1
    <3> QED BY <3>1 DEF Records
  <2> HIDE DEF n
  <2>6. last = Unmapped
    <3> SUFFICES ASSUME last # Unmapped PROVE FALSE
      OBVIOUS
    <3>1. Cardinality(AddressesOf(last)) < Cardinality(AddressesOf(Unmapped))
      BY <2>2, <2>5
    <3>2. AddressesOf(Unmapped) # {}
      <4> SUFFICES ASSUME AddressesOf(Unmapped) = {} PROVE FALSE
        OBVIOUS
      <4>1. Cardinality(AddressesOf(Unmapped)) = 0
        BY FS_EmptySet
      <4> QED BY <2>3, <3>1, <4>1
    <3>3. PICK a \in AddressesOf(Unmapped) : TRUE
      BY <3>2
    <3>4. PICK i \in 1 .. count : regions[i].description = Unmapped
      BY <2>1, <3>3, RegionAtType DEF AddressesOf
    <3>5. i < count + 1
      BY <2>1
    <3>6. PICK j \in 1 .. Len(summary) : summary[j].description = Unmapped
      BY <2>1, <3>4, <3>5 DEF Recorded
    <3>7. /\ summary[j].size <= summary[n].size
          /\ summary[j].size \in Nat /\ summary[n].size \in Nat
      BY <2>1, <3>6, LastIsLargest DEF n
    <3>8. /\ summary[n].size = Cardinality(AddressesOf(last))
          /\ summary[j].size = Cardinality(AddressesOf(Unmapped))
      BY <2>2, <2>4, <3>6 DEF n
    <3> QED BY <3>1, <3>7, <3>8
  <2>7. Within(Printed(summary, n)) = Addresses \ AddressesOf(Unmapped)
    <3>1. ASSUME NEW i \in 1 .. count
          PROVE  i \in Printed(summary, n) <=> regions[i].description # Unmapped
      <4>1. ASSUME i \in Printed(summary, n) PROVE regions[i].description # Unmapped
        <5>1. PICK j \in 1 .. n : j < n /\ regions[i].description = summary[j].description
          BY <4>1 DEF Printed, n
        <5>2. summary[j].description = summary[n].description => j = n
          BY <2>1, <2>2 DEF Recorded, n
        <5> QED BY <2>2, <2>6, <5>1, <5>2
      <4>2. ASSUME regions[i].description # Unmapped PROVE i \in Printed(summary, n)
        <5>1. i < count + 1
          BY <2>1
        <5>2. PICK j \in 1 .. n : summary[j].description = regions[i].description
          BY <2>1, <5>1 DEF Recorded, n
        <5>3. j # n
          BY <2>6, <4>2, <5>2
        <5>4. j <= n /\ j < n
          BY <2>2, <5>3
        <5> QED BY <5>2, <5>4 DEF Printed, n
      <4> QED BY <4>1, <4>2
    <3>2. \A a \in Addresses : RegionAt(a) \in 1 .. count
      BY <2>1, RegionAtType
    <3> QED BY <3>1, <3>2 DEF Within, AddressesOf
  <2>8. /\ IsFiniteSet(Addresses) /\ Cardinality(Addresses) = MaxPhysAddr + 1
        /\ AddressesOf(Unmapped) \subseteq Addresses /\ MaxPhysAddr \in Nat
    <3>1. 0 \in Int /\ MaxPhysAddr \in Int /\ MaxPhysAddr \in Nat
      BY IomemAssumption
    <3>2. /\ IsFiniteSet(0 .. MaxPhysAddr)
          /\ Cardinality(0 .. MaxPhysAddr) =
                IF 0 > MaxPhysAddr THEN 0 ELSE MaxPhysAddr - 0 + 1
      BY <3>1, FS_Interval
    <3>3. AddressesOf(Unmapped) \subseteq Addresses
      BY DEF AddressesOf
    <3> QED BY <3>1, <3>2, <3>3 DEF Addresses
  <2>9. Cardinality(Addresses \ AddressesOf(Unmapped)) =
           Cardinality(Addresses) - Cardinality(Addresses \cap AddressesOf(Unmapped))
    BY <2>8, FS_Difference
  <2>10. Cardinality(Addresses \cap AddressesOf(Unmapped)) = Cardinality(AddressesOf(Unmapped))
    <3>1. Addresses \cap AddressesOf(Unmapped) = AddressesOf(Unmapped)
      BY <2>8
    <3> QED BY <3>1
  <2>11. Cardinality(Within(Printed(summary, n))) = Cardinality(Addresses \ AddressesOf(Unmapped))
    BY <2>7
  <2>12. total = Cardinality(Addresses) - Cardinality(AddressesOf(Unmapped))
    BY <2>1, <2>9, <2>10, <2>11, Zenon
  <2>13. Cardinality(Addresses) = MaxPhysAddr + 1
    BY <2>8
  <2>14. Cardinality(AddressesOf(Unmapped)) \in Nat
    BY <2>3
  <2> HIDE DEF last
  <2> QED BY <2>8, <2>12, <2>13, <2>14
<1> QED BY <1>1, SummaryInvariantHolds, PTL
----------------------------------------------------------------------------
(* The sort ends                                                           *)

\* The pairs of records of the list s that are in the wrong order.
Inversions(s) ==
    {p \in (1 .. Len(s)) \X (1 .. Len(s)) : p[1] < p[2] /\ s[p[1]].size > s[p[2]].size}

\* The steps that the bubble sort may still take: a pass for each pair in the
\* wrong order, one more when this pass has swapped, and the rest of this pass.
SortLeft ==
    Len(summary) * Cardinality(Inversions(summary))
       + (IF swapped THEN Len(summary) ELSE 0) + (Len(summary) - type)

\* There are at most as many pairs in the wrong order as there are pairs.
LEMMA InversionsFinite ==
    ASSUME NEW s, Len(s) \in Nat
    PROVE  /\ IsFiniteSet(Inversions(s))
           /\ Cardinality(Inversions(s)) \in Nat
           /\ Cardinality(Inversions(s)) <= Len(s) * Len(s)
<1> DEFINE Places == 1 .. Len(s)
<1>1. IsFiniteSet(Places) /\ Cardinality(Places) = Len(s)
  <2>1. /\ IsFiniteSet(1 .. Len(s))
        /\ Cardinality(1 .. Len(s)) = IF 1 > Len(s) THEN 0 ELSE Len(s) - 1 + 1
    BY FS_Interval
  <2> QED BY <2>1
<1> HIDE DEF Places
<1>2. IsFiniteSet(Places \X Places)
      /\ Cardinality(Places \X Places) = Cardinality(Places) * Cardinality(Places)
  BY <1>1, FS_Product, Zenon
<1>3. Inversions(s) \in SUBSET (Places \X Places)
  BY DEF Inversions, Places
<1>4. IsFiniteSet(Inversions(s))
      /\ Cardinality(Inversions(s)) <= Cardinality(Places \X Places)
  BY <1>2, <1>3, FS_Subset, Zenon
<1>5. Cardinality(Inversions(s)) \in Nat
  BY <1>4, FS_CardinalityType
<1>6. Cardinality(Places \X Places) = Len(s) * Len(s)
  BY <1>1, <1>2, Zenon
<1> QED BY <1>4, <1>5, <1>6, Zenon

\* Swapping two neighbours that are in the wrong order mends their pair and
\* breaks no other one.
LEMMA SwapMends ==
    ASSUME NEW s \in Seq(Records), NEW n \in 1 .. Len(s) - 1,
           s[n].size > s[n + 1].size,
           NEW t, t = Exchanged(s, n)
    PROVE  Cardinality(Inversions(t)) <= Cardinality(Inversions(s)) - 1
<1> DEFINE other(j) == IF j = n THEN n + 1 ELSE IF j = n + 1 THEN n ELSE j
           I == 1 .. Len(s)
           pair == <<n, n + 1>>
           S == Inversions(t)
           T == Inversions(s) \ {pair}
           f == [p \in S |-> <<other(p[1]), other(p[2])>>]
<1>1. Len(s) \in Nat /\ n \in Nat /\ n \in I /\ n + 1 \in I
  OBVIOUS
<1>2. Len(t) = Len(s) /\ \A j \in I : other(j) \in I /\ t[j] = s[other(j)]
  BY <1>1 DEF Exchanged
<1>3. \A j \in I : s[j].size \in Nat
  <2>1. \A j \in I : s[j] \in Records
    OBVIOUS
  <2> QED BY <2>1 DEF Records
<1>4. \A j, k \in I : other(j) = other(k) => j = k
  BY <1>1
<1>5. \A j, k \in I : j < k /\ ~(j = n /\ k = n + 1) =>
         other(j) < other(k) /\ ~(other(j) = n /\ other(k) = n + 1)
  BY <1>1
<1>6. other(n) = n + 1 /\ other(n + 1) = n
  BY <1>1
<1> HIDE DEF other, I
<1>7. ASSUME NEW p \in S PROVE f[p] \in T
  <2>1. /\ p = <<p[1], p[2]>> /\ p[1] \in I /\ p[2] \in I /\ p[1] < p[2]
        /\ t[p[1]].size > t[p[2]].size
    BY <1>2 DEF Inversions, I
  <2>2. /\ t[p[1]] = s[other(p[1])] /\ t[p[2]] = s[other(p[2])]
        /\ other(p[1]) \in I /\ other(p[2]) \in I
    BY <1>2, <2>1
  <2>3. s[other(p[1])].size > s[other(p[2])].size
    BY <2>1, <2>2, Zenon
  <2>4. ~(p[1] = n /\ p[2] = n + 1)
    <3> SUFFICES ASSUME p[1] = n, p[2] = n + 1 PROVE FALSE
      OBVIOUS
    <3>1. s[n + 1].size > s[n].size
      BY <1>6, <2>3
    <3> QED BY <1>1, <1>3, <3>1
  <2>5. other(p[1]) < other(p[2]) /\ ~(other(p[1]) = n /\ other(p[2]) = n + 1)
    BY <1>5, <2>1, <2>4
  <2>6. f[p] = <<other(p[1]), other(p[2])>>
    OBVIOUS
  <2>7. <<other(p[1]), other(p[2])>> \in Inversions(s)
    BY <2>2, <2>3, <2>5 DEF Inversions, I
  <2>8. <<other(p[1]), other(p[2])>> # pair
    BY <2>5
  <2> QED BY <2>6, <2>7, <2>8
<1>8. ASSUME NEW p \in S, NEW q \in S, f[p] = f[q] PROVE p = q
  <2>1. /\ p = <<p[1], p[2]>> /\ p[1] \in I /\ p[2] \in I
        /\ q = <<q[1], q[2]>> /\ q[1] \in I /\ q[2] \in I
    BY <1>2 DEF Inversions, I
  <2>2. other(p[1]) = other(q[1]) /\ other(p[2]) = other(q[2])
    BY <1>8
  <2>3. p[1] = q[1] /\ p[2] = q[2]
    BY <1>4, <2>1, <2>2
  <2> QED BY <2>1, <2>3
<1>9. IsFiniteSet(Inversions(s)) /\ Cardinality(Inversions(s)) \in Nat
  BY <1>1, InversionsFinite
<1>10. pair \in Inversions(s)
  BY <1>1 DEF Inversions, I
<1>11. IsFiniteSet(T) /\ Cardinality(T) = Cardinality(Inversions(s)) - 1
  BY <1>9, <1>10, FS_RemoveElement
<1> HIDE DEF S, T
<1>12. f \in Injection(S, T)
  <2>1. f \in [S -> T]
    BY <1>7
  <2>2. IsInjective(f)
    BY <1>8 DEF IsInjective
  <2> QED BY <2>1, <2>2 DEF Injection
<1> HIDE DEF f
<1>13. Cardinality(S) <= Cardinality(T)
  BY <1>11, <1>12, FS_Injection, Zenon
<1>14. Cardinality(S) <= Cardinality(Inversions(s)) - 1
  BY <1>11, <1>13, Zenon
<1> QED BY <1>14 DEF S

\* What is known of the list while it is sorted.
LEMMA WhileSorting ==
    ASSUME SInv, phase = "sort"
    PROVE  /\ summary \in Seq(Records) /\ Len(summary) \in Nat
           /\ type \in 1 .. Len(summary) /\ swapped \in BOOLEAN
           /\ Cardinality(Inversions(summary)) \in Nat
<1>1. /\ summary \in Seq(Records) /\ type \in Nat \ {0} /\ swapped \in BOOLEAN
      /\ type <= Len(summary)
  BY DEF SInv, SummaryShape, SummaryPhase
<1>2. Len(summary) \in Nat
  BY <1>1
<1> QED BY <1>1, <1>2, InversionsFinite

\* No more steps are left than there are in a pass for each pair of records,
\* and in two passes more.
SortShort ==
    phase = "sort" =>
       /\ SortLeft \in Nat
       /\ SortLeft <= Len(summary) * (Len(summary) * Len(summary)) + 2 * Len(summary)

\* A step of the sort ends it or leaves fewer steps.
SortCloser == phase = "sort" => phase' = "validate" \/ SortLeft' < SortLeft

\* The product of a number with a larger one is larger.
LEMMA ProductGrows ==
    ASSUME NEW n \in Nat, NEW a \in Nat, NEW b \in Nat, a <= b
    PROVE  n * a <= n * b /\ n * a \in Nat /\ n * b \in Nat
<1>1. n * (b - a) \in Nat /\ n * a \in Nat /\ n * b \in Nat
  OBVIOUS
<1>2. n * b = n * a + n * (b - a)
  OBVIOUS
<1> QED BY <1>1, <1>2

LEMMA SortIsShort == SInv => SortShort
<1> SUFFICES ASSUME SInv, phase = "sort"
             PROVE  /\ SortLeft \in Nat
                    /\ SortLeft <= Len(summary) * (Len(summary) * Len(summary))
                                      + 2 * Len(summary)
  BY DEF SortShort
<1>1. PICK L \in Nat : L = Len(summary)
  BY WhileSorting
<1>2. PICK c \in Nat : c = Cardinality(Inversions(summary))
  BY WhileSorting
<1>3. c <= L * L /\ L * L \in Nat
  BY <1>1, <1>2, InversionsFinite
<1>4. L * c <= L * (L * L) /\ L * c \in Nat /\ L * (L * L) \in Nat
  BY <1>3, ProductGrows
<1>5. PICK w \in {0, L} : w = IF swapped THEN L ELSE 0
  OBVIOUS
<1>6. type \in 1 .. L
  BY <1>1, WhileSorting
<1>7. SortLeft = L * c + w + (L - type)
  BY <1>1, <1>2, <1>5, Zenon DEF SortLeft
<1>8. L * c + w + (L - type) \in Nat /\ L * c + w + (L - type) <= L * (L * L) + 2 * L
  BY <1>4, <1>5, <1>6
<1> QED BY <1>1, <1>7, <1>8, Zenon

\* A comparison leaves fewer steps: it ends sooner, or it mends a pair.
LEMMA CompareCloser == SInv /\ Compare => SortLeft' < SortLeft
<1> SUFFICES ASSUME SInv, Compare PROVE SortLeft' < SortLeft
  OBVIOUS
<1>1. phase = "sort" /\ type < Len(summary) /\ type' = type + 1
  BY DEF Compare
<1>2. /\ summary \in Seq(Records) /\ type \in 1 .. Len(summary) /\ swapped \in BOOLEAN
  BY <1>1, WhileSorting
<1>3. PICK L \in Nat : L = Len(summary)
  BY <1>1, WhileSorting
<1>4. PICK c \in Nat : c = Cardinality(Inversions(summary))
  BY <1>1, WhileSorting
<1>5. type \in 1 .. L - 1 /\ L * c \in Nat
  BY <1>1, <1>2, <1>3
<1>6. PICK w \in {0, L} : w = IF swapped THEN L ELSE 0
  OBVIOUS
<1>7. SortLeft = L * c + w + (L - type)
  BY <1>3, <1>4, <1>6, Zenon DEF SortLeft
<1>8. CASE summary[type].size > summary[type + 1].size
  <2>1. swapped' = TRUE /\ summary' = Exchanged(summary, type)
    BY <1>8 DEF Compare, Swap, Exchanged
  <2>2. PICK t : t = Exchanged(summary, type)
    OBVIOUS
  <2>3. Len(t) = L /\ Len(t) \in Nat
    BY <1>2, <1>3, <2>2 DEF Exchanged
  <2>4. Cardinality(Inversions(t)) <= Cardinality(Inversions(summary)) - 1
    BY <1>2, <1>3, <1>5, <1>8, <2>2, SwapMends
  <2>5. PICK d \in Nat : d = Cardinality(Inversions(t))
    BY <2>3, InversionsFinite
  <2>6. d <= c - 1 /\ c - 1 \in Nat
    BY <1>4, <2>4, <2>5
  <2>7. L * d <= L * (c - 1) /\ L * d \in Nat
    BY <2>6, ProductGrows
  <2>8. L * (c - 1) = L * c - L
    BY <2>6
  <2>9. SortLeft' = L * d + L + (L - (type + 1))
    <3>1. summary' = t
      BY <2>1, <2>2, Zenon
    <3> QED BY <1>1, <2>1, <2>3, <2>5, <3>1, Zenon DEF SortLeft
  <2>10. L * d + L + (L - (type + 1)) < L * c + w + (L - type)
    BY <1>5, <1>6, <2>7, <2>8
  <2> QED BY <1>7, <2>9, <2>10, Zenon
<1>9. CASE ~(summary[type].size > summary[type + 1].size)
  <2>1. swapped' = swapped /\ summary' = summary
    BY <1>9 DEF Compare
  <2>2. SortLeft' = L * c + w + (L - (type + 1))
    BY <1>1, <1>3, <1>4, <1>6, <2>1, Zenon DEF SortLeft
  <2>3. L * c + w + (L - (type + 1)) < L * c + w + (L - type)
    BY <1>5, <1>6
  <2> QED BY <1>7, <2>2, <2>3, Zenon
<1> QED BY <1>8, <1>9

\* A pass ends at the last record: another one follows only a swap.
LEMMA EndPassCloser ==
    SInv /\ EndPass => phase' = "validate" \/ SortLeft' < SortLeft
<1> SUFFICES ASSUME SInv, EndPass, swapped PROVE SortLeft' < SortLeft
  BY DEF EndPass
<1>1. /\ phase = "sort" /\ type >= Len(summary) /\ type' = 1 /\ swapped' = FALSE
      /\ summary' = summary
  BY DEF EndPass
<1>2. type \in 1 .. Len(summary)
  BY <1>1, WhileSorting
<1>3. PICK L \in Nat : L = Len(summary)
  BY <1>1, WhileSorting
<1>4. PICK c \in Nat : c = Cardinality(Inversions(summary))
  BY <1>1, WhileSorting
<1>5. type = L /\ L >= 1 /\ L * c \in Nat
  BY <1>1, <1>2, <1>3
<1>6. SortLeft = L * c + L + (L - type)
  BY <1>3, <1>4, Zenon DEF SortLeft
<1>7. SortLeft' = L * c + 0 + (L - 1)
  BY <1>1, <1>3, <1>4, Zenon DEF SortLeft
<1>8. L * c + 0 + (L - 1) < L * c + L + (L - type)
  BY <1>5
<1> QED BY <1>6, <1>7, <1>8, Zenon

\* The bubble sort ends, whatever the sizes are and however many of them are
\* equal: its steps bring a number down that starts below n * n * n + 2 * n for
\* n records.  There is nothing else that a step can do in this phase.
THEOREM SortEnds == SummarySpec => []SortShort /\ [][SortCloser]_allVars
<1>1. SInv /\ [SummaryNext]_allVars => [SortCloser]_allVars
  <2> SUFFICES ASSUME SInv, SummaryNext, phase = "sort"
               PROVE  phase' = "validate" \/ SortLeft' < SortLeft
    BY DEF SortCloser
  <2>1. Compare \/ EndPass
    BY DEF SummaryNext, ListStep, Release, Summarize, BeginSummarize, Compose,
           ComposeCrashes, EndCompose, Validate, PrintSummary, Stopped
  <2> QED BY <2>1, CompareCloser, EndPassCloser
<1> QED BY <1>1, SortIsShort, SummaryInvariantHolds, PTL DEF SummarySpec
=============================================================================
