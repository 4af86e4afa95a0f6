----------------------------- MODULE PagesProofs ----------------------------
(***************************************************************************)
(* Proofs about Pages for a map of any number of pages with any entries:   *)
(* no descriptor is lost, the rows cover the map, a row differs from its   *)
(* pages in two named ways only, and --phys prints no row it could have    *)
(* merged.                                                                 *)
(***************************************************************************)
EXTENDS Pages, FiniteSetTheorems, TLAPS

Kinds   == {"not read", "swapped", "not present", "present"}
Regions == {"", "System RAM", "Unmapped RAM"}

Texts == [kind : Kinds, type : Types, offset : Nat, pfn : Nat,
          flags : SUBSET Flags, region : Regions]

\* The size a row prints is that of its pages.
Rows == {row \in [first : Nat, last : Nat, bytes : Nat, text : Texts] :
            row.bytes = (row.last - row.first + 1) * PageSize}

\* What getPageInfo() can make of a page.
PageOk(p) ==
    /\ p \in PageInfo
    /\ p.valid \/ Nowhere(p)
    /\ p.swapped => ~ p.present
    /\ ~ p.swapped => p.swap_type = 0 /\ p.swap_offset = 0

PagesOk ==
    /\ \A i \in 1 .. Len(pages) : PageOk(pages[i])
    /\ step \in {"kpagecount", "kpageflags"} => PageOk(page) /\ page.valid
    /\ step \in Files => Len(pages) < NumPages

\* Row r, and the page behind it.
RowOk(r) ==
    /\ rows[r].first \in 1 .. NumPages /\ rows[r].last \in 1 .. NumPages
    /\ rows[r].first <= rows[r].last
    /\ rows[r].first = IF r = 1 THEN 1 ELSE rows[r - 1].last + 1
    /\ rows[r].text = Text(pages[rows[r].last])
    /\ \A k \in rows[r].first .. rows[r].last - 1 :
          SameFlags(pages[k], pages[k + 1])
    /\ ~ includePhysicalPageSummary => rows[r].first = rows[r].last
    /\ includePhysicalPageSummary =>
          \/ rows[r].last = NumPages
          \/ ~ SameFlags(pages[rows[r].last], pages[rows[r].last + 1])

\* The next row begins where the last one ends.
NextRow ==
    /\ step \in Files => rows = <<>>
    /\ rows = <<>> => startPage = 1 /\ step \notin {"close", "done"}
    /\ rows # <<>> =>
          /\ step \in {"print", "close", "done"}
          /\ includePhysicalPageSummary => startPage = rows[Len(rows)].last + 1
          /\ step = "print" => rows[Len(rows)].last < NumPages
          /\ step \in {"close", "done"} => rows[Len(rows)].last = NumPages
    /\ step = "print" /\ ~ includePhysicalPageSummary => rows = <<>>

RowsOk ==
    /\ includePhysicalPageSummary \in BOOLEAN
    /\ rows \in Seq(Rows)
    /\ \A r \in 1 .. Len(rows) : RowOk(r)
    /\ NextRow

IInv == TypeInvariant /\ NoDescriptorLost /\ PagesOk /\ RowsOk

-----------------------------------------------------------------------------
(* The text of a page                                                      *)

LEMMA TextCases ==
    ASSUME NEW p, PageOk(p)
    PROVE  /\ Text(p) \in Texts
           /\ ~ p.valid => Text(p).kind = "not read"
           /\ p.valid /\ p.swapped =>
                 /\ Text(p).kind = "swapped" /\ Text(p).type = p.swap_type
                 /\ Text(p).flags = {} /\ Text(p).region = ""
           /\ p.valid /\ ~ p.swapped /\ ~ p.present => Text(p).kind = "not present"
           /\ p.valid /\ ~ p.swapped /\ p.present =>
                 /\ Text(p).kind = "present" /\ Text(p).type = 0
                 /\ Text(p).flags = p.flags
                 /\ Text(p).region = Description(p.pfn)
<1>1. p \in PageInfo
  BY DEF PageOk
<1>2. /\ p.valid \in BOOLEAN /\ p.swapped \in BOOLEAN /\ p.present \in BOOLEAN
      /\ p.swap_type \in Types /\ p.swap_offset \in Nat /\ p.pfn \in Nat
      /\ p.flags \in SUBSET Flags /\ 0 \in Types /\ {} \in SUBSET Flags
  BY <1>1, PagesAssumption DEF PageInfo
<1>3. Description(p.pfn) \in Regions
  BY DEF Description, Regions
<1>4. CASE ~ p.valid
  BY <1>2, <1>4 DEF Text, Texts, Kinds, Regions
<1>5. CASE p.valid /\ p.swapped
  BY <1>2, <1>5 DEF Text, Texts, Kinds, Regions
<1>6. CASE p.valid /\ ~ p.swapped /\ ~ p.present
  BY <1>2, <1>6 DEF Text, Texts, Kinds, Regions
<1>7. CASE p.valid /\ ~ p.swapped /\ p.present
  BY <1>2, <1>3, <1>7 DEF Text, Texts, Kinds, Regions
<1> QED BY <1>2, <1>4, <1>5, <1>6, <1>7

\* --phys prints neither an offset nor a page frame number.
LEMMA TextOfSummary ==
    ASSUME includePhysicalPageSummary, NEW p, PageOk(p)
    PROVE  Text(p).offset = 0 /\ Text(p).pfn = 0
<1>1. p.valid \in BOOLEAN /\ p.swapped \in BOOLEAN /\ p.present \in BOOLEAN
  BY DEF PageOk, PageInfo
<1>2. CASE ~ p.valid
  BY <1>2 DEF Text
<1>3. CASE p.valid /\ p.swapped
  BY <1>3 DEF Text
<1>4. CASE p.valid /\ ~ p.swapped /\ ~ p.present
  BY <1>4 DEF Text
<1>5. CASE p.valid /\ ~ p.swapped /\ p.present
  BY <1>5 DEF Text
<1> QED BY <1>1, <1>2, <1>3, <1>4, <1>5

\* Nothing but its kind is printed of a page that is nowhere.
LEMMA AbsentText ==
    ASSUME includePhysicalPageSummary, NEW p, NEW q, PageOk(p), PageOk(q),
           Text(p).kind \in {"not read", "not present"}, Text(p).kind = Text(q).kind
    PROVE  Text(p) = Text(q)
<1> DEFINE Plain(kind) == [kind |-> kind, type |-> 0, offset |-> 0, pfn |-> 0,
                           flags |-> {}, region |-> ""]
<1>1. ASSUME NEW x, PageOk(x), Text(x).kind \in {"not read", "not present"}
      PROVE  Text(x) = Plain(Text(x).kind)
  <2>1. x.valid \in BOOLEAN /\ x.swapped \in BOOLEAN /\ x.present \in BOOLEAN
    BY <1>1 DEF PageOk, PageInfo
  <2>2. ~ x.valid \/ (x.valid /\ ~ x.swapped /\ ~ x.present)
    BY <1>1, <2>1, TextCases
  <2>3. CASE ~ x.valid
    BY <2>3 DEF Text
  <2>4. CASE x.valid /\ ~ x.swapped /\ ~ x.present
    BY <2>4 DEF Text
  <2> QED BY <2>2, <2>3, <2>4
<1> HIDE DEF Plain
<1> QED BY <1>1

\* What all pages of a row have in common.
Spoken(text) ==
    IF text.kind \in {"not read", "not present"} THEN <<"nowhere">>
    ELSE <<text.kind, text.type, text.flags \ {"dirty"}, text.region>>

\* Pages that comparePages() finds alike are told the same.
LEMMA SameSpoken ==
    ASSUME NEW p, NEW q, PageOk(p), PageOk(q), SameFlags(p, q)
    PROVE  Spoken(Text(p)) = Spoken(Text(q))
<1>1. CASE Nowhere(p) /\ Nowhere(q)
  BY <1>1, TextCases DEF Spoken, Nowhere
<1>2. CASE p.swapped /\ q.swapped /\ p.swap_type = q.swap_type
  <2>1. p.valid /\ q.valid
    BY <1>2 DEF PageOk, Nowhere
  <2> QED BY <1>2, <2>1, TextCases DEF Spoken
<1>3. CASE Compared(p) = Compared(q)
  <2>1. /\ p.valid = q.valid /\ p.swapped = q.swapped /\ p.present = q.present
        /\ p.swap_type = q.swap_type /\ p.flags \ {"dirty"} = q.flags \ {"dirty"}
        /\ Description(p.pfn) = Description(q.pfn)
    BY <1>3 DEF Compared
  <2>2. p.valid \in BOOLEAN /\ p.swapped \in BOOLEAN /\ p.present \in BOOLEAN
    BY DEF PageOk, PageInfo
  <2> QED BY <2>1, <2>2, TextCases DEF Spoken
<1> QED BY <1>1, <1>2, <1>3 DEF SameFlags

\* The texts of --phys that have it in common differ in the two named ways.
LEMMA SpokenDiffers ==
    ASSUME includePhysicalPageSummary, NEW p, NEW q, PageOk(p), PageOk(q),
           Spoken(Text(p)) = Spoken(Text(q))
    PROVE  \/ Text(p) = Text(q)
           \/ FailureHidden(Text(p), Text(q))
           \/ DirtyIgnored(Text(p), Text(q))
<1> DEFINE Absent(x) == x \in {"not read", "not present"}
<1>1. /\ Text(p) \in Texts /\ Text(q) \in Texts
      /\ Text(p).offset = 0 /\ Text(p).pfn = 0 /\ Text(q).offset = 0 /\ Text(q).pfn = 0
  BY TextCases, TextOfSummary
<1>2. CASE Absent(Text(p).kind)
  <2>1. Absent(Text(q).kind)
    BY <1>2 DEF Spoken
  <2>2. CASE Text(p).kind = Text(q).kind
    BY <1>2, <2>2, AbsentText
  <2>3. CASE Text(p).kind # Text(q).kind
    <3>1. \/ Text(p).kind = "not read" /\ Text(q).kind = "not present"
          \/ Text(p).kind = "not present" /\ Text(q).kind = "not read"
      BY <1>2, <2>1, <2>3
    <3>2. \A a, b : {a, b} = {b, a}
      OBVIOUS
    <3> QED BY <3>1, <3>2, Zenon DEF FailureHidden
  <2> QED BY <2>2, <2>3
<1>3. CASE ~ Absent(Text(p).kind)
  <2>1. ~ Absent(Text(q).kind)
    BY <1>3 DEF Spoken
  <2>2. /\ Text(p).kind = Text(q).kind /\ Text(p).type = Text(q).type
        /\ Text(p).flags \ {"dirty"} = Text(q).flags \ {"dirty"}
        /\ Text(p).region = Text(q).region
    BY <1>3, <2>1 DEF Spoken
  <2>3. [Text(p) EXCEPT !.flags = Text(q).flags] = Text(q)
    BY <1>1, <2>2 DEF Texts
  <2> QED BY <2>2, <2>3 DEF DirtyIgnored
<1> QED BY <1>2, <1>3

\* Pages that are printed alike are found alike.
LEMMA TextsDiffer ==
    ASSUME NEW p, NEW q, PageOk(p), PageOk(q), Text(p) = Text(q)
    PROVE  SameFlags(p, q)
<1>1. /\ p.valid \in BOOLEAN /\ p.swapped \in BOOLEAN /\ p.present \in BOOLEAN
      /\ q.valid \in BOOLEAN /\ q.swapped \in BOOLEAN /\ q.present \in BOOLEAN
  BY DEF PageOk, PageInfo
<1>2. CASE ~ p.valid \/ (~ p.swapped /\ ~ p.present)
  <2>1. Text(q).kind \in {"not read", "not present"}
    BY <1>1, <1>2, TextCases
  <2>2. ~ q.valid \/ (~ q.swapped /\ ~ q.present)
    BY <1>1, <2>1, TextCases
  <2>3. Nowhere(p) /\ Nowhere(q)
    BY <1>2, <2>2 DEF Nowhere, PageOk
  <2> QED BY <2>3 DEF SameFlags
<1>3. CASE p.valid /\ p.swapped
  <2> Text(p).kind = "swapped" /\ Text(p).type = p.swap_type
    BY <1>3, TextCases
  <2>1. Text(q).kind = "swapped" /\ Text(q).type = p.swap_type
    OBVIOUS
  <2>2. q.valid /\ q.swapped
    BY <1>1, <2>1, TextCases
  <2>3. q.swap_type = p.swap_type
    BY <2>1, <2>2, TextCases
  <2> QED BY <1>3, <2>2, <2>3 DEF SameFlags
<1>4. CASE p.valid /\ ~ p.swapped /\ p.present
  <2>1. /\ Text(q).kind = "present" /\ Text(q).flags = p.flags
        /\ Text(q).region = Description(p.pfn)
    BY <1>4, TextCases
  <2>2. q.valid /\ ~ q.swapped /\ q.present
    BY <1>1, <2>1, TextCases
  <2>3. q.flags = p.flags /\ Description(q.pfn) = Description(p.pfn)
    BY <2>1, <2>2, TextCases
  <2>4. /\ p.swap_type = 0 /\ p.swap_offset = 0
        /\ q.swap_type = 0 /\ q.swap_offset = 0
    BY <1>4, <2>2 DEF PageOk
  <2>5. Compared(p) = Compared(q)
    BY <1>1, <1>4, <2>2, <2>3, <2>4 DEF Compared
  <2> QED BY <2>5 DEF SameFlags
<1> QED BY <1>1, <1>2, <1>3, <1>4

-----------------------------------------------------------------------------
(* Runs of pages                                                           *)

\* A set of natural numbers that is not empty has a least element.
LEMMA Least ==
    ASSUME NEW S \in SUBSET Nat, S # {}
    PROVE  \E n \in S : \A m \in S : n <= m
<1> DEFINE Less == {p \in Nat \X Nat : p[1] < p[2]}
<1>1. IsWellFoundedOn(Less, Nat)
  BY NatLessThanWellFounded DEF OpToRel
<1>2. PICK n \in S : \A m \in S : ~ (<<m, n>> \in Less)
  <2> HIDE DEF Less
  <2> QED BY <1>1, WFMin
<1>3. \A m \in S : n <= m
  <2> SUFFICES ASSUME NEW m \in S PROVE n <= m
    OBVIOUS
  <2>1. ~ (<<m, n>> \in Less)
    BY <1>2
  <2>2. ~ (m < n)
    BY <2>1
  <2> QED BY <2>2
<1> QED BY <1>3

\* The choice in RunEnd is there to be made.
LEMMA RunEndIsARun ==
    ASSUME NEW i \in 1 .. NumPages
    PROVE  /\ RunEnd(i) \in i .. NumPages
           /\ \/ RunEnd(i) = NumPages
              \/ ~ SameFlags(pages[RunEnd(i)], pages[RunEnd(i) + 1])
           /\ \A k \in i .. RunEnd(i) - 1 : SameFlags(pages[k], pages[k + 1])
<1> DEFINE Ends(j) == j = NumPages \/ ~ SameFlags(pages[j], pages[j + 1])
           S == {j \in i .. NumPages : Ends(j)}
           IsRunEnd(j) == /\ Ends(j)
                          /\ \A k \in i .. j - 1 : SameFlags(pages[k], pages[k + 1])
<1>0. NumPages \in Nat /\ i \in Nat /\ i <= NumPages
  BY PagesAssumption
<1>1. NumPages \in S
  BY <1>0
<1>2. S \in SUBSET Nat
  BY <1>0
<1>3. PICK j \in S : \A m \in S : j <= m
  <2> HIDE DEF S
  <2> QED BY <1>1, <1>2, Least
<1>4. j \in i .. NumPages /\ Ends(j)
  BY <1>3
<1>5. \A k \in i .. j - 1 : SameFlags(pages[k], pages[k + 1])
  <2> SUFFICES ASSUME NEW k \in i .. j - 1,
                      ~ SameFlags(pages[k], pages[k + 1])
               PROVE  FALSE
    OBVIOUS
  <2>1. k \in i .. NumPages /\ k < j
    BY <1>0, <1>4
  <2>2. k \in S
    BY <2>1
  <2>3. j <= k
    BY <1>3, <2>2
  <2> QED BY <1>0, <1>4, <2>1, <2>3
<1>6. \E m \in i .. NumPages : IsRunEnd(m)
  BY <1>4, <1>5
<1>7. RunEnd(i) = CHOOSE m \in i .. NumPages : IsRunEnd(m)
  BY DEF RunEnd
<1>8. RunEnd(i) \in i .. NumPages /\ IsRunEnd(RunEnd(i))
  <2> HIDE DEF IsRunEnd
  <2> QED BY <1>6, <1>7
<1> QED BY <1>8

\* All pages of a run are told the same as its last one.
LEMMA RunSpoken ==
    ASSUME NEW first \in Nat, NEW last \in Nat,
           \A i \in first .. last : PageOk(pages[i]),
           \A k \in first .. last - 1 : SameFlags(pages[k], pages[k + 1]),
           NEW i \in first .. last
    PROVE  Spoken(Text(pages[last])) = Spoken(Text(pages[i]))
<1> DEFINE Say(j) == Spoken(Text(pages[j]))
           B == {d \in 0 .. last - i : Say(last - d) # Say(last)}
<1>1. B \in SUBSET Nat
  OBVIOUS
<1>2. SUFFICES ASSUME B # {} PROVE FALSE
  <2>1. last - i \in 0 .. last - i /\ last - (last - i) = i
    OBVIOUS
  <2>2. last - i \notin B
    BY <1>2
  <2>3. Say(i) = Say(last)
    BY <2>1, <2>2
  <2> QED BY <2>3
<1>3. PICK d \in B : \A m \in B : d <= m
  <2> HIDE DEF B
  <2> QED BY <1>1, <1>2, Least
<1>4. d \in 0 .. last - i /\ Say(last - d) # Say(last)
  BY <1>3
<1>5. d # 0
  <2>1. last - 0 = last
    OBVIOUS
  <2> QED BY <1>4, <2>1
<1>6. d - 1 \in 0 .. last - i /\ d - 1 < d /\ last - (d - 1) = last - d + 1
  BY <1>4, <1>5
<1>7. d - 1 \notin B
  BY <1>3, <1>6
<1>8. Say(last - d + 1) = Say(last)
  BY <1>6, <1>7
<1>9. last - d \in first .. last - 1 /\ last - d \in first .. last
      /\ last - d + 1 \in first .. last
  BY <1>4, <1>5
<1>10. Say(last - d) = Say(last - d + 1)
  BY <1>9, SameSpoken
<1> QED BY <1>4, <1>8, <1>10

-----------------------------------------------------------------------------
(* Reading                                                                 *)

LEMMA ZeroedOk == Zeroed \in PageInfo /\ PageOk(Zeroed)
  BY PagesAssumption DEF Zeroed, PageInfo, PageOk, Nowhere

LEMMA DecodeOk ==
    ASSUME NEW e \in Entries
    PROVE  Decode(e) \in PageInfo /\ PageOk(Decode(e)) /\ Decode(e).valid
<1>1. /\ e.present \in BOOLEAN /\ e.swapped \in BOOLEAN
      /\ e.swapped => ~ e.present
      /\ e.type \in Types /\ e.offset \in Nat /\ e.pfn \in PFNs
      /\ e.bits \in SUBSET Flags
  BY PagesAssumption DEF Entries, Flags
<1>2. e.offset - (e.offset % 2) \in Nat /\ 0 \in Types /\ 0 \in PFNs
  BY <1>1, PagesAssumption
<1> QED BY <1>1, <1>2 DEF Decode, Zeroed, PageInfo, PageOk, Nowhere

LEMMA FlagsOk ==
    ASSUME NEW p \in PageInfo, PageOk(p), p.valid, NEW flags \in SUBSET PageFlags
    PROVE  LET q == [p EXCEPT !.flags = @ \cup flags]
           IN  q \in PageInfo /\ PageOk(q)
  BY DEF PageOk, PageInfo, Nowhere, Flags

\* A descriptor is opened once.
LEMMA OpenKeeps ==
    ASSUME IInv, NEW f \in Files, OpenCached(f)
    PROVE  /\ cached' \subseteq Files /\ fds' \in [Files -> Nat]
           /\ \A g \in Files : fds'[g] = IF g \in cached' THEN 1 ELSE 0
  BY DEF IInv, TypeInvariant, NoDescriptorLost, OpenCached

\* No row has been printed while pages are read.
LEMMA NoRowsYet ==
    ASSUME IInv, step \in Files, UNCHANGED <<includePhysicalPageSummary, rows, startPage>>,
           step' \in Files \cup {"print"}
    PROVE  RowsOk'
<1>1. rows = <<>> /\ startPage = 1 /\ includePhysicalPageSummary \in BOOLEAN
  BY DEF IInv, RowsOk, NextRow
<1>2. step' \notin {"close", "done"}
  BY DEF Files
<1> QED BY <1>1, <1>2 DEF RowsOk, NextRow

LEMMA StoreKeeps ==
    ASSUME IInv, step \in Files, NEW p \in PageInfo, PageOk(p), Store(p)
    PROVE  /\ page' \in PageInfo
           /\ pages' \in Seq(PageInfo) /\ Len(pages') <= NumPages
           /\ step' = "print" => Len(pages') = NumPages
           /\ step' \in {"pagemap", "print"}
           /\ PagesOk'
<1>1. pages \in Seq(PageInfo) /\ Len(pages) < NumPages /\ NumPages \in Nat
  BY PagesAssumption DEF IInv, TypeInvariant, PagesOk
<1>2. /\ pages' \in Seq(PageInfo) /\ Len(pages') = Len(pages) + 1
      /\ \A i \in 1 .. Len(pages) : pages'[i] = pages[i]
      /\ pages'[Len(pages) + 1] = p
  BY <1>1 DEF Store
<1>3. \A i \in 1 .. Len(pages') : PageOk(pages'[i])
  BY <1>1, <1>2 DEF IInv, PagesOk
<1>4. /\ step' = IF Len(pages) + 1 < NumPages THEN "pagemap" ELSE "print"
      /\ page' = Zeroed
  BY DEF Store
<1>5. /\ step' \in {"pagemap", "print"}
      /\ step' = "print" => Len(pages') = NumPages
      /\ step' = "pagemap" => Len(pages') < NumPages
  BY <1>1, <1>2, <1>4
<1>6. PagesOk'
  BY <1>3, <1>5 DEF PagesOk, Files
<1> QED BY <1>1, <1>2, <1>4, <1>5, <1>6, ZeroedOk

\* What a step of the reading has to show.
LEMMA ReadingKeeps ==
    ASSUME IInv, step \in Files, NEW f \in Files, OpenCached(f),
           UNCHANGED <<includePhysicalPageSummary, rows, startPage>>,
           step' \in Files \cup {"print"},
           page' \in PageInfo, pages' \in Seq(PageInfo), Len(pages') <= NumPages,
           step' = "print" => Len(pages') = NumPages,
           PagesOk'
    PROVE  IInv'
<1>1. startPage' \in 1 .. NumPages + 1
  BY DEF IInv, TypeInvariant
<1>2. step' \notin {"close", "done"}
  BY DEF Files
<1>3. TypeInvariant'
  BY <1>1, <1>2, OpenKeeps DEF TypeInvariant
<1>4. NoDescriptorLost'
  BY <1>2, OpenKeeps DEF NoDescriptorLost
<1> QED BY <1>3, <1>4, NoRowsYet DEF IInv

LEMMA ReadPagemapKeeps == IInv /\ ReadPagemap => IInv'
<1> SUFFICES ASSUME IInv, ReadPagemap PROVE IInv'
  OBVIOUS
<1>1. /\ step = "pagemap" /\ step \in Files /\ "pagemap" \in Files
      /\ OpenCached("pagemap")
      /\ UNCHANGED <<includePhysicalPageSummary, rows, startPage>>
  BY DEF ReadPagemap, Files
<1>2. PICK e \in Entries :
         \/ page' = Decode(e) /\ step' = "kpagecount" /\ UNCHANGED pages
         \/ Store(Zeroed)
  BY DEF ReadPagemap
<1>3. CASE page' = Decode(e) /\ step' = "kpagecount" /\ UNCHANGED pages
  <2>1. page' \in PageInfo /\ PageOk(page') /\ page'.valid
    BY <1>3, DecodeOk
  <2>2. /\ \A i \in 1 .. Len(pages) : PageOk(pages[i])
        /\ Len(pages) < NumPages /\ Len(pages) <= NumPages
        /\ pages \in Seq(PageInfo)
    BY <1>1, PagesAssumption DEF IInv, PagesOk, TypeInvariant
  <2>3. PagesOk'
    BY <1>3, <2>1, <2>2 DEF PagesOk
  <2>4. step' \in Files \cup {"print"} /\ step' # "print"
    BY <1>3 DEF Files
  <2> QED BY <1>1, <1>3, <2>1, <2>2, <2>3, <2>4, ReadingKeeps
<1>4. CASE Store(Zeroed)
  BY <1>1, <1>4, StoreKeeps, ReadingKeeps, ZeroedOk DEF Files
<1> QED BY <1>2, <1>3, <1>4

LEMMA ReadPagecountKeeps == IInv /\ ReadPagecount => IInv'
<1> SUFFICES ASSUME IInv, ReadPagecount PROVE IInv'
  OBVIOUS
<1>1. /\ step = "kpagecount" /\ step \in Files /\ "kpagecount" \in Files
      /\ OpenCached("kpagecount") /\ step' = "kpageflags"
      /\ UNCHANGED <<includePhysicalPageSummary, rows, startPage, page, pages>>
  BY DEF ReadPagecount, Files
<1>2. PagesOk' /\ page \in PageInfo /\ pages \in Seq(PageInfo) /\ Len(pages) <= NumPages
  BY <1>1 DEF IInv, PagesOk, TypeInvariant, Files
<1>3. step' \in Files \cup {"print"} /\ step' # "print"
  BY <1>1 DEF Files
<1> QED BY <1>1, <1>2, <1>3, ReadingKeeps

LEMMA ReadPageflagsKeeps == IInv /\ ReadPageflags => IInv'
<1> SUFFICES ASSUME IInv, ReadPageflags PROVE IInv'
  OBVIOUS
<1>1. /\ step = "kpageflags" /\ step \in Files /\ "kpageflags" \in Files
      /\ OpenCached("kpageflags")
      /\ UNCHANGED <<includePhysicalPageSummary, rows, startPage>>
  BY DEF ReadPageflags, Files
<1>2. PICK flags \in SUBSET PageFlags : Store([page EXCEPT !.flags = @ \cup flags])
  BY DEF ReadPageflags
<1>3. page \in PageInfo /\ PageOk(page) /\ page.valid
  BY <1>1 DEF IInv, PagesOk, TypeInvariant
<1> DEFINE p == [page EXCEPT !.flags = @ \cup flags]
<1>4. p \in PageInfo /\ PageOk(p) /\ Store(p)
  BY <1>2, <1>3, FlagsOk
<1> HIDE DEF p
<1> QED BY <1>1, <1>4, StoreKeeps, ReadingKeeps DEF Files

-----------------------------------------------------------------------------
(* Printing                                                                *)

\* What printing leaves alone keeps its part of the invariant.
LEMMA PrintingKeeps ==
    ASSUME IInv, step = "print",
           UNCHANGED <<includePhysicalPageSummary, cached, fds, page, pages>>,
           step' \in {"print", "close"}, startPage' \in 1 .. NumPages + 1, RowsOk'
    PROVE  IInv'
<1>1. step' \notin Files /\ step' # "done"
  BY DEF Files
<1>2. TypeInvariant'
  BY <1>1 DEF IInv, TypeInvariant
<1>3. NoDescriptorLost'
  BY <1>1 DEF IInv, NoDescriptorLost
<1>4. PagesOk'
  BY <1>1 DEF IInv, PagesOk, Files
<1> QED BY <1>2, <1>3, <1>4 DEF IInv

\* All pages have been read.
LEMMA AllRead ==
    ASSUME IInv, step = "print"
    PROVE  /\ Len(pages) = NumPages /\ NumPages \in Nat \ {0}
           /\ \A i \in 1 .. NumPages : PageOk(pages[i])
  BY PagesAssumption DEF IInv, TypeInvariant, PagesOk

LEMMA RowIs ==
    ASSUME IInv, step = "print", NEW first \in 1 .. NumPages,
           NEW last \in first .. NumPages
    PROVE  /\ Row(first, last) \in Rows
           /\ Row(first, last).first = first /\ Row(first, last).last = last
           /\ Row(first, last).text = Text(pages[last])
<1>1. NumPages \in Nat /\ PageSize \in Nat
  BY PagesAssumption
<1>2. last \in 1 .. NumPages /\ first \in Nat /\ last \in Nat /\ first <= last
  BY <1>1
<1>3. Text(pages[last]) \in Texts
  BY <1>2, AllRead, TextCases
<1>4. last - first + 1 \in Nat
  BY <1>2
<1>5. (last - first + 1) * PageSize \in Nat
  BY <1>1, <1>4
<1> QED BY <1>2, <1>3, <1>5 DEF Row, Rows

LEMMA PrintFullPhysicalPagesKeeps == IInv /\ PrintFullPhysicalPages => IInv'
<1> SUFFICES ASSUME IInv, PrintFullPhysicalPages PROVE IInv'
  OBVIOUS
<1>1. /\ step = "print" /\ ~ includePhysicalPageSummary /\ step' = "close"
      /\ UNCHANGED <<includePhysicalPageSummary, cached, fds, page, pages, startPage>>
      /\ rows' = [i \in 1 .. NumPages |-> Row(i, i)]
  BY DEF PrintFullPhysicalPages, PrintStep
<1>2. NumPages \in Nat \ {0}
  BY PagesAssumption
<1>3. \A i \in 1 .. NumPages :
         /\ Row(i, i) \in Rows
         /\ Row(i, i).first = i /\ Row(i, i).last = i
         /\ Row(i, i).text = Text(pages[i])
  BY <1>1, <1>2, RowIs
<1>4. rows' \in Seq(Rows) /\ Len(rows') = NumPages
  BY <1>1, <1>2, <1>3
<1>5. \A i \in 1 .. NumPages :
         rows'[i].first = i /\ rows'[i].last = i /\ rows'[i].text = Text(pages[i])
  BY <1>1, <1>3
<1>6. \A p : Text(p)' = Text(p)
  BY <1>1 DEF Text
<1>7. \A r \in 1 .. NumPages : RowOk(r)'
  BY <1>1, <1>2, <1>5, <1>6 DEF RowOk
<1>8. NextRow'
  <2>1. rows' # <<>> /\ step' = "close" /\ step' \notin Files
    BY <1>1, <1>2, <1>4 DEF Files
  <2>2. rows'[Len(rows')].last = NumPages
    BY <1>2, <1>4, <1>5
  <2> QED BY <1>1, <2>1, <2>2 DEF NextRow
<1>9. RowsOk' /\ startPage' \in 1 .. NumPages + 1
  BY <1>1, <1>4, <1>7, <1>8 DEF RowsOk, IInv, TypeInvariant
<1> QED BY <1>1, <1>9, PrintingKeeps

LEMMA PrintPageSummaryKeeps == IInv /\ PrintPageSummary => IInv'
<1> SUFFICES ASSUME IInv, PrintPageSummary PROVE IInv'
  OBVIOUS
<1> DEFINE last == RunEnd(startPage)
           row == Row(startPage, last)
<1>1. /\ step = "print" /\ includePhysicalPageSummary
      /\ UNCHANGED <<includePhysicalPageSummary, cached, fds, page, pages>>
      /\ rows' = Append(rows, row)
      /\ startPage' = last + 1
      /\ step' = IF last = NumPages THEN "close" ELSE "print"
  BY DEF PrintPageSummary, PrintStep, NextStart
<1>2. NumPages \in Nat \ {0}
  BY PagesAssumption
<1>3. /\ rows \in Seq(Rows) /\ \A r \in 1 .. Len(rows) : RowOk(r)
      /\ NextRow
  BY DEF IInv, RowsOk
<1>4. /\ rows = <<>> => startPage = 1
      /\ rows # <<>> => /\ startPage = rows[Len(rows)].last + 1
                        /\ rows[Len(rows)].last < NumPages
  BY <1>1, <1>3 DEF NextRow
<1>5. startPage \in 1 .. NumPages
  <2>1. startPage \in 1 .. NumPages + 1
    BY DEF IInv, TypeInvariant
  <2>2. CASE rows = <<>>
    BY <1>2, <1>4, <2>2
  <2>3. CASE rows # <<>>
    <3>1. Len(rows) \in 1 .. Len(rows)
      BY <1>3, <2>3
    <3>2. rows[Len(rows)].last \in 1 .. NumPages
      BY <1>3, <3>1 DEF RowOk
    <3> QED BY <1>2, <1>4, <2>3, <3>2
  <2> QED BY <2>2, <2>3
<1>6. /\ last \in startPage .. NumPages
      /\ \/ last = NumPages
         \/ ~ SameFlags(pages[last], pages[last + 1])
      /\ \A k \in startPage .. last - 1 : SameFlags(pages[k], pages[k + 1])
  BY <1>5, RunEndIsARun
<1> HIDE DEF last
<1>7. /\ row \in Rows /\ row.first = startPage /\ row.last = last
      /\ row.text = Text(pages[last])
  BY <1>1, <1>5, <1>6, RowIs
<1> HIDE DEF row
<1>8. /\ rows' \in Seq(Rows) /\ Len(rows') = Len(rows) + 1
      /\ \A r \in 1 .. Len(rows) : rows'[r] = rows[r]
      /\ rows'[Len(rows) + 1] = row
      /\ Len(rows) \in Nat
  BY <1>1, <1>3, <1>7
<1>9. \A p : Text(p)' = Text(p)
  BY <1>1 DEF Text
<1>phys. includePhysicalPageSummary /\ includePhysicalPageSummary'
  BY <1>1
<1>10. \A r \in 1 .. Len(rows) : RowOk(r)'
  BY <1>1, <1>3, <1>8, <1>9, <1>phys DEF RowOk
<1>11. ASSUME NEW n \in Nat, n = Len(rows), NEW l, l = last,
              NEW p, p = pages[l]
       PROVE  RowOk(n + 1)'
  <2>1. rows'[n + 1].first = IF n + 1 = 1 THEN 1 ELSE rows'[n].last + 1
    <3>1. CASE rows = <<>>
      BY <1>4, <1>7, <1>8, <1>11, <3>1
    <3>2. CASE rows # <<>>
      <4>1. n # 0
        BY <1>3, <1>11, <3>2
      <4>2. rows'[n] = rows[n]
        BY <1>8, <1>11, <4>1
      <4> QED BY <1>4, <1>7, <1>8, <1>11, <3>2, <4>1, <4>2
    <3> QED BY <3>1, <3>2
  <2>2. l \in 1 .. NumPages /\ startPage <= l /\ n + 1 - 1 = n
    BY <1>2, <1>5, <1>6, <1>11
  <2>3. rows'[n + 1] = row
    BY <1>8, <1>11
  <2>4. rows'[n + 1].first = startPage /\ rows'[n + 1].last = l
    BY <1>7, <1>11, <2>3
  <2>5. rows'[n + 1].text = Text(p)'
    BY <1>7, <1>9, <1>11, <2>3
  <2>6. p = pages'[l]
    BY <1>1, <1>11
  <2>7. rows'[n + 1].text = Text(pages[rows[n + 1].last])'
    BY <2>4, <2>5, <2>6
  <2>8. /\ \/ l = NumPages \/ ~ SameFlags(pages'[l], pages'[l + 1])
        /\ \A k \in startPage .. l - 1 : SameFlags(pages'[k], pages'[k + 1])
    BY <1>1, <1>6, <1>11
  <2> QED BY <1>5, <1>phys, <2>1, <2>2, <2>4, <2>7, <2>8 DEF RowOk
<1>12. \A r \in 1 .. Len(rows') : RowOk(r)'
  <2> SUFFICES ASSUME NEW r \in 1 .. Len(rows') PROVE RowOk(r)'
    OBVIOUS
  <2>1. CASE r \in 1 .. Len(rows)
    BY <1>10, <2>1
  <2>2. CASE r = Len(rows) + 1
    <3>1. r - 1 \in Nat /\ r - 1 = Len(rows) /\ r - 1 + 1 = r
      BY <1>8, <2>2
    <3> QED BY <1>11, <3>1
  <2> QED BY <1>8, <2>1, <2>2
<1>13. NextRow'
  <2>1. rows' # <<>> /\ rows'[Len(rows')] = row
    BY <1>8
  <2>2. last # NumPages => last < NumPages
    BY <1>2, <1>5, <1>6
  <2>3. step' \notin Files /\ step' \in {"print", "close"}
    BY <1>1 DEF Files
  <2> QED BY <1>1, <1>7, <2>1, <2>2, <2>3 DEF NextRow
<1>14. RowsOk' /\ startPage' \in 1 .. NumPages + 1 /\ step' \in {"print", "close"}
  <2>1. startPage' \in 1 .. NumPages + 1
    BY <1>1, <1>2, <1>5, <1>6
  <2> QED BY <1>1, <1>8, <1>12, <1>13, <2>1 DEF RowsOk
<1> QED BY <1>1, <1>14, PrintingKeeps

-----------------------------------------------------------------------------
(* The other steps, and the invariant                                      *)

LEMMA InitIInv == Init => IInv
<1> SUFFICES ASSUME Init PROVE IInv
  OBVIOUS
<1>1. /\ step = "pagemap" /\ cached = {} /\ fds = [f \in Files |-> 0]
      /\ page = Zeroed /\ pages = <<>> /\ rows = <<>> /\ startPage = 1
      /\ includePhysicalPageSummary \in BOOLEAN
  BY DEF Init
<1>2. NumPages \in Nat \ {0}
  BY PagesAssumption
<1>3. TypeInvariant
  BY <1>1, <1>2, ZeroedOk DEF TypeInvariant, Files
<1>4. NoDescriptorLost
  BY <1>1 DEF NoDescriptorLost
<1>5. PagesOk
  BY <1>1, <1>2 DEF PagesOk
<1>6. RowsOk
  BY <1>1 DEF RowsOk, NextRow, Files
<1> QED BY <1>3, <1>4, <1>5, <1>6 DEF IInv

\* Nothing is printed any more.
LEMMA EndingKeeps ==
    ASSUME IInv, UNCHANGED <<includePhysicalPageSummary, page, pages, rows, startPage>>,
           \/ step' = "failure" /\ step \in Files
           \/ step = "close" /\ step' = "done"
    PROVE  /\ PagesOk' /\ RowsOk'
           /\ page' \in PageInfo /\ pages' \in Seq(PageInfo)
           /\ Len(pages') <= NumPages /\ startPage' \in 1 .. NumPages + 1
           /\ step' \in Files \cup {"print", "close", "done", "failure"}
           /\ step' \in {"print", "close", "done"} => Len(pages') = NumPages
<1>1. step' \notin Files /\ step' # "print"
  BY DEF Files
<1>2. PagesOk'
  BY <1>1 DEF IInv, PagesOk, Files
<1>3. \A p : Text(p)' = Text(p)
  BY DEF Text
<1>4. \A r \in 1 .. Len(rows) : RowOk(r)'
  BY <1>3 DEF IInv, RowsOk, RowOk
<1>5. NextRow
  BY DEF IInv, RowsOk
<1>6. NextRow'
  BY <1>1, <1>5 DEF NextRow, Files
<1>7. RowsOk'
  BY <1>4, <1>6 DEF IInv, RowsOk
<1> QED BY <1>1, <1>2, <1>7 DEF IInv, TypeInvariant

LEMMA OpenFailsKeeps == IInv /\ OpenFails => IInv'
<1> SUFFICES ASSUME IInv, OpenFails PROVE IInv'
  OBVIOUS
<1>1. /\ step \in Files /\ step' = "failure"
      /\ UNCHANGED <<includePhysicalPageSummary, page, pages, rows, startPage>>
      /\ UNCHANGED <<cached, fds>>
  BY DEF OpenFails
<1>2. cached' \subseteq Files /\ fds' \in [Files -> Nat] /\ NoDescriptorLost'
  BY <1>1 DEF IInv, TypeInvariant, NoDescriptorLost
<1>3. PagesOk' /\ RowsOk'
  BY <1>1, EndingKeeps
<1>4. TypeInvariant'
  BY <1>1, <1>2, EndingKeeps DEF TypeInvariant
<1> QED BY <1>2, <1>3, <1>4 DEF IInv

LEMMA CloseKeeps == IInv /\ Close => IInv'
<1> SUFFICES ASSUME IInv, Close PROVE IInv'
  OBVIOUS
<1>1. /\ step = "close" /\ step' = "done" /\ cached' = {}
      /\ fds' = [f \in Files |-> IF f \in cached THEN fds[f] - 1 ELSE fds[f]]
      /\ UNCHANGED <<includePhysicalPageSummary, page, pages, rows, startPage>>
  BY DEF Close, closePagemap
<1>2. \A f \in Files : fds[f] = IF f \in cached THEN 1 ELSE 0
  BY DEF IInv, NoDescriptorLost
<1>3. fds' = [f \in Files |-> 0]
  BY <1>1, <1>2
<1>4. cached' \subseteq Files /\ fds' \in [Files -> Nat] /\ NoDescriptorLost'
  <2>1. cached' \subseteq Files /\ fds' \in [Files -> Nat]
    BY <1>1, <1>3
  <2>2. \A f \in Files : fds'[f] = IF f \in cached' THEN 1 ELSE 0
    BY <1>1, <1>3
  <2> QED BY <1>1, <2>1, <2>2 DEF NoDescriptorLost
<1>5. PagesOk' /\ RowsOk'
  BY <1>1, EndingKeeps
<1>6. TypeInvariant'
  BY <1>1, <1>4, EndingKeeps DEF TypeInvariant
<1> QED BY <1>4, <1>5, <1>6 DEF IInv

LEMMA NextIInv == IInv /\ [Next]_vars => IInv'
<1> SUFFICES ASSUME IInv, [Next]_vars PROVE IInv'
  OBVIOUS
<1>1. ASSUME UNCHANGED vars PROVE IInv'
  <2>1. /\ TypeInvariant' /\ NoDescriptorLost' /\ PagesOk'
    BY <1>1 DEF IInv, vars, TypeInvariant, NoDescriptorLost, PagesOk
  <2>2. \A p : Text(p)' = Text(p)
    BY <1>1 DEF vars, Text
  <2>3. \A r \in 1 .. Len(rows) : RowOk(r)'
    BY <1>1, <2>2 DEF vars, IInv, RowsOk, RowOk
  <2>4. RowsOk'
    BY <1>1, <2>3 DEF vars, IInv, RowsOk, NextRow
  <2> QED BY <2>1, <2>4 DEF IInv
<1> QED
  BY <1>1, OpenFailsKeeps, ReadPagemapKeeps, ReadPagecountKeeps,
     ReadPageflagsKeeps, PrintFullPhysicalPagesKeeps, PrintPageSummaryKeeps,
     CloseKeeps DEF Next, Ended

\* Every step of the process preserves IInv.
LEMMA InvariantHolds == Spec => []IInv
  BY InitIInv, NextIInv, PTL DEF Spec

-----------------------------------------------------------------------------

\* The model stays in its types, whatever fails.
THEOREM TypeCorrect == Spec => []TypeInvariant
  BY InvariantHolds, PTL DEF IInv

\* The static descriptors of pagemap.c, pagecount.c and pageflags.c account for
\* every open file, whatever fails.
THEOREM Descriptors == Spec => []NoDescriptorLost
  BY InvariantHolds, PTL DEF IInv

\* The rows of --pfn and --phys cover the map without gap or overlap.
THEOREM RowsCoverMap == Spec => []RowsCover
<1>1. IInv => RowsCover
  <2> SUFFICES ASSUME IInv PROVE RowsCover
    OBVIOUS
  <2>1. /\ rows \in Seq(Rows) /\ NextRow
        /\ \A r \in DOMAIN rows : RowOk(r)
    BY DEF IInv, RowsOk
  <2>2. \A r \in DOMAIN rows :
           /\ rows[r].first = IF r = 1 THEN 1 ELSE rows[r - 1].last + 1
           /\ rows[r].first <= rows[r].last
    BY <2>1 DEF RowOk
  <2>3. step \in {"close", "done"} =>
           rows # <<>> /\ rows[Len(rows)].last = NumPages
    BY <2>1 DEF NextRow
  <2> QED BY <2>2, <2>3 DEF RowsCover
<1> QED BY <1>1, InvariantHolds, PTL

\* What a row of --phys says is true of every page it stands for, but for the two
\* named differences: a page that could not be read passes for one that is not
\* present, or the other way round, and `dirty' is that of the last page.
THEOREM RowsSpeak == Spec => []RowSpeaksForItsPages
<1>1. IInv => RowSpeaksForItsPages
  <2> SUFFICES ASSUME IInv, NEW r \in DOMAIN rows,
                      NEW i \in rows[r].first .. rows[r].last
               PROVE  LET row == rows[r].text
                          own == Text(pages[i])
                      IN  \/ row = own
                          \/ /\ includePhysicalPageSummary
                             /\ FailureHidden(row, own) \/ DirtyIgnored(row, own)
    BY DEF RowSpeaksForItsPages
  <2>1. RowOk(r) /\ NextRow /\ r \in 1 .. Len(rows) /\ Len(rows) \in Nat
    BY DEF IInv, RowsOk
  <2>2. NumPages \in Nat \ {0}
    BY PagesAssumption
  <2>3. step \notin Files
    BY <2>1 DEF NextRow
  <2>4. /\ rows[r].first \in 1 .. NumPages /\ rows[r].last \in 1 .. NumPages
        /\ rows[r].text = Text(pages[rows[r].last])
        /\ \A k \in rows[r].first .. rows[r].last - 1 :
              SameFlags(pages[k], pages[k + 1])
    BY <2>1 DEF RowOk
  <2>5. \A k \in 1 .. NumPages : PageOk(pages[k])
    <3>1. step \in {"print", "close", "done"}
      BY <2>1 DEF NextRow
    <3>2. Len(pages) = NumPages
      BY <3>1 DEF IInv, TypeInvariant
    <3> QED BY <3>2 DEF IInv, PagesOk
  <2>6. \A k \in rows[r].first .. rows[r].last : PageOk(pages[k])
    BY <2>2, <2>4, <2>5
  <2>7. Spoken(Text(pages[rows[r].last])) = Spoken(Text(pages[i]))
    <3> DEFINE first == rows[r].first
               last == rows[r].last
    <3>1. /\ first \in Nat /\ last \in Nat /\ i \in first .. last
          /\ \A k \in first .. last : PageOk(pages[k])
          /\ \A k \in first .. last - 1 : SameFlags(pages[k], pages[k + 1])
      BY <2>2, <2>4, <2>6
    <3> HIDE DEF first, last
    <3>2. Spoken(Text(pages[last])) = Spoken(Text(pages[i]))
      BY <3>1, RunSpoken, Zenon
    <3> QED BY <3>2 DEF last
  <2>8. CASE includePhysicalPageSummary
    BY <2>4, <2>6, <2>7, <2>8, SpokenDiffers
  <2>9. CASE ~ includePhysicalPageSummary
    BY <2>1, <2>2, <2>4, <2>9 DEF RowOk
  <2> QED BY <2>8, <2>9
<1> QED BY <1>1, InvariantHolds, PTL

\* --phys prints no two neighbouring rows that say the same.
THEOREM RowsDiffer == Spec => []NeighbouringRowsDiffer
<1>1. IInv => NeighbouringRowsDiffer
  <2> SUFFICES ASSUME IInv, includePhysicalPageSummary,
                      NEW r \in 1 .. Len(rows) - 1,
                      rows[r].text = Text(pages[rows[r + 1].first])
               PROVE  FALSE
    BY DEF NeighbouringRowsDiffer
  <2>1. /\ NextRow /\ Len(rows) \in Nat /\ r \in Nat
        /\ r \in 1 .. Len(rows) /\ r + 1 \in 1 .. Len(rows)
        /\ r + 1 # 1 /\ (r + 1) - 1 = r
        /\ rows # <<>>
    BY DEF IInv, RowsOk
  <2>2. RowOk(r) /\ RowOk(r + 1)
    BY <2>1 DEF IInv, RowsOk
  <2>3. NumPages \in Nat \ {0}
    BY PagesAssumption
  <2>4. /\ rows[r].last \in 1 .. NumPages /\ rows[r + 1].first \in 1 .. NumPages
        /\ rows[r + 1].first = rows[r].last + 1
        /\ rows[r].text = Text(pages[rows[r].last])
        /\ \/ rows[r].last = NumPages
           \/ ~ SameFlags(pages[rows[r].last], pages[rows[r].last + 1])
    BY <2>1, <2>2 DEF RowOk
  <2>5. \A k \in 1 .. NumPages : PageOk(pages[k])
    <3>1. step \in {"print", "close", "done"}
      BY <2>1 DEF NextRow
    <3>2. Len(pages) = NumPages
      BY <3>1 DEF IInv, TypeInvariant
    <3> QED BY <3>2 DEF IInv, PagesOk
  <2>6. rows[r].last # NumPages
    BY <2>3, <2>4
  <2>7. SameFlags(pages[rows[r].last], pages[rows[r].last + 1])
    BY <2>4, <2>5, TextsDiffer
  <2> QED BY <2>4, <2>6, <2>7
<1> QED BY <1>1, InvariantHolds, PTL

-----------------------------------------------------------------------------
(* The sum of the sizes                                                    *)

\* The pages the rows R stand for.
PagesOf(R) == {k \in 1 .. NumPages : \E r \in R : rows[r].first <= k /\ k <= rows[r].last}

LEMMA PagesOfFinite ==
    ASSUME NEW R
    PROVE  IsFiniteSet(PagesOf(R)) /\ Cardinality(PagesOf(R)) \in Nat
<1>1. 1 \in Int /\ NumPages \in Int
  BY PagesAssumption
<1>2. IsFiniteSet(1 .. NumPages)
  BY <1>1, FS_Interval
<1>3. PagesOf(R) \in SUBSET (1 .. NumPages)
  BY DEF PagesOf
<1>4. IsFiniteSet(PagesOf(R))
  BY <1>2, <1>3, FS_Subset
<1> QED BY <1>4, FS_CardinalityType

\* What is known of each row.
LEMMA RowFacts ==
    ASSUME IInv
    PROVE  /\ NumPages \in Nat \ {0} /\ PageSize \in Nat /\ Len(rows) \in Nat
           /\ \A r \in 1 .. Len(rows) :
                 /\ rows[r].first \in 1 .. NumPages /\ rows[r].last \in 1 .. NumPages
                 /\ rows[r].first <= rows[r].last
                 /\ rows[r].first = IF r = 1 THEN 1 ELSE rows[r - 1].last + 1
                 /\ rows[r].bytes = (rows[r].last - rows[r].first + 1) * PageSize
<1>1. /\ rows \in Seq(Rows) /\ \A r \in 1 .. Len(rows) : RowOk(r)
      /\ NumPages \in Nat \ {0} /\ PageSize \in Nat
  BY PagesAssumption DEF IInv, RowsOk
<1>2. \A r \in 1 .. Len(rows) : rows[r] \in Rows
  BY <1>1
<1>3. \A r \in 1 .. Len(rows) :
         rows[r].bytes = (rows[r].last - rows[r].first + 1) * PageSize
  BY <1>2 DEF Rows
<1>4. Len(rows) \in Nat
  BY <1>1
<1>5. \A r \in 1 .. Len(rows) :
         /\ rows[r].first \in 1 .. NumPages /\ rows[r].last \in 1 .. NumPages
         /\ rows[r].first <= rows[r].last
         /\ rows[r].first = IF r = 1 THEN 1 ELSE rows[r - 1].last + 1
  BY <1>1, Zenon DEF RowOk
<1> QED BY <1>1, <1>3, <1>4, <1>5, Zenon

\* A row begins and ends at a page, and not before it begins.
LEMMA RowBounds ==
    ASSUME IInv, NEW r \in 1 .. Len(rows)
    PROVE  /\ rows[r].first \in Nat /\ rows[r].last \in Nat
           /\ rows[r].first <= rows[r].last
<1>1. /\ rows[r].first \in 1 .. NumPages /\ rows[r].last \in 1 .. NumPages
      /\ rows[r].first <= rows[r].last
  BY RowFacts, Zenon
<1> QED BY <1>1, SMT

\* A row ends before every later one begins.
LEMMA RowsApart ==
    ASSUME IInv, NEW r \in 1 .. Len(rows), NEW q \in 1 .. Len(rows), r < q
    PROVE  rows[r].last < rows[q].first
<1> DEFINE Bad == {n \in Nat : r < n /\ n <= Len(rows) /\ ~ (rows[r].last < rows[n].first)}
<1> SUFFICES ASSUME q \in Bad PROVE FALSE
  BY RowFacts
<1>1. PICK n \in Bad : \A m \in Bad : n <= m
  BY Least
<1>2. /\ n \in Nat /\ r \in Nat /\ n \in 1 .. Len(rows) /\ n # 1
      /\ r < n /\ ~ (rows[r].last < rows[n].first)
      /\ n - 1 \in 1 .. Len(rows) /\ n - 1 \in Nat /\ n - 1 \notin Bad
  BY <1>1, RowFacts
<1>3. rows[n].first = rows[n - 1].last + 1
  BY <1>2, RowFacts
<1>4. /\ rows[n - 1].first \in Nat /\ rows[n - 1].last \in Nat /\ rows[r].last \in Nat
      /\ rows[n - 1].first <= rows[n - 1].last
  BY <1>2, RowBounds, Zenon
<1>5. CASE n - 1 = r
  BY <1>2, <1>3, <1>4, <1>5
<1>6. CASE n - 1 # r
  <2>1. r < n - 1 /\ n - 1 <= Len(rows)
    BY <1>2, <1>6
  <2>2. rows[r].last < rows[n - 1].first
    BY <1>2, <2>1
  <2> QED BY <1>2, <1>3, <1>4, <2>2
<1> QED BY <1>5, <1>6

\* One more row, and its pages.
LEMMA PagesOfAdd ==
    ASSUME IInv, NEW R \in SUBSET (1 .. Len(rows)), NEW r \in 1 .. Len(rows), r \notin R
    PROVE  /\ rows[r].bytes \in Nat
           /\ Cardinality(PagesOf(R \cup {r})) * PageSize =
                 rows[r].bytes + Cardinality(PagesOf(R)) * PageSize
<1> DEFINE Own == rows[r].first .. rows[r].last
           n == rows[r].last - rows[r].first + 1
           c == Cardinality(PagesOf(R))
<1>1. /\ rows[r].first \in 1 .. NumPages /\ rows[r].last \in 1 .. NumPages
      /\ rows[r].first <= rows[r].last /\ rows[r].bytes = n * PageSize
      /\ NumPages \in Nat /\ PageSize \in Nat
  BY RowFacts
<1>2. PagesOf(R \cup {r}) = PagesOf(R) \cup Own
  BY <1>1 DEF PagesOf
<1>3. PagesOf(R) \cap Own = {}
  <2> SUFFICES ASSUME NEW k \in PagesOf(R), k \in Own PROVE FALSE
    OBVIOUS
  <2>1. PICK q \in R : rows[q].first <= k /\ k <= rows[q].last
    BY DEF PagesOf
  <2>2. /\ q \in 1 .. Len(rows) /\ q # r /\ k \in Nat
        /\ rows[r].first <= k /\ k <= rows[r].last
    BY <1>1, <2>1
  <2>3. q < r \/ r < q
    BY <2>2, RowFacts
  <2>4. /\ rows[q].first \in Nat /\ rows[q].last \in Nat
    BY <2>2, RowFacts
  <2>5. CASE q < r
    <3>1. rows[q].last < rows[r].first
      BY <2>2, <2>5, RowsApart
    <3> QED BY <1>1, <2>1, <2>2, <2>4, <3>1
  <2>6. CASE r < q
    <3>1. rows[r].last < rows[q].first
      BY <2>2, <2>6, RowsApart
    <3> QED BY <1>1, <2>1, <2>2, <2>4, <3>1
  <2> QED BY <2>3, <2>5, <2>6
<1>4. IsFiniteSet(Own) /\ Cardinality(Own) = n /\ n \in Nat
  <2>1. rows[r].first \in Int /\ rows[r].last \in Int /\ n \in Nat
    BY <1>1
  <2>2. /\ IsFiniteSet(Own)
        /\ Cardinality(Own) = IF rows[r].first > rows[r].last THEN 0 ELSE n
    BY <2>1, FS_Interval
  <2> QED BY <1>1, <2>1, <2>2
<1>5. IsFiniteSet(PagesOf(R)) /\ c \in Nat
  BY PagesOfFinite
<1> HIDE DEF n, c, Own
<1>6. Cardinality(PagesOf(R) \cup Own) =
         Cardinality(PagesOf(R)) + Cardinality(Own) - Cardinality(PagesOf(R) \cap Own)
  BY <1>4, <1>5, FS_Union
<1>7. Cardinality(PagesOf(R) \cap Own) = 0
  BY <1>3, FS_EmptySet
<1>8. Cardinality(PagesOf(R \cup {r})) = Cardinality(PagesOf(R) \cup Own)
  BY <1>2
<1>9. Cardinality(PagesOf(R \cup {r})) = c + n
  BY <1>4, <1>5, <1>6, <1>7, <1>8 DEF c
<1>10. (c + n) * PageSize = n * PageSize + c * PageSize
  BY <1>1, <1>4, <1>5
<1>11. rows[r].bytes \in Nat
  BY <1>1, <1>4
<1> QED BY <1>1, <1>9, <1>10, <1>11, Zenon DEF c

\* The rows of a finished listing stand for all pages.
LEMMA AllPages ==
    ASSUME IInv, step \in {"close", "done"}
    PROVE  PagesOf(1 .. Len(rows)) = 1 .. NumPages
<1>1. rows # <<>> /\ rows[Len(rows)].last = NumPages
  BY DEF IInv, RowsOk, NextRow
<1>2. Len(rows) \in 1 .. Len(rows)
  BY <1>1 DEF IInv, RowsOk
<1> SUFFICES ASSUME NEW k \in 1 .. NumPages
             PROVE  \E r \in 1 .. Len(rows) : rows[r].first <= k /\ k <= rows[r].last
  BY DEF PagesOf
<1> DEFINE After == {n \in Nat : n \in 1 .. Len(rows) /\ k <= rows[n].last}
<1>3. Len(rows) \in After
  BY <1>1, <1>2, RowFacts
<1>4. PICK n \in After : \A m \in After : n <= m
  BY <1>3, Least
<1>5. n \in 1 .. Len(rows) /\ k <= rows[n].last /\ k \in Nat
  BY RowFacts
<1>6. rows[n].first <= k
  <2>1. CASE n = 1
    BY <1>5, <2>1, RowFacts
  <2>2. CASE n # 1
    <3>1. n - 1 \in 1 .. Len(rows) /\ n - 1 \in Nat /\ n - 1 \notin After
      BY <1>4, <1>5, <2>2, RowFacts
    <3>2. ~ (k <= rows[n - 1].last)
      BY <3>1
    <3>3. rows[n].first = rows[n - 1].last + 1 /\ rows[n - 1].last \in Nat
      BY <1>5, <2>2, <3>1, RowFacts
    <3> QED BY <1>5, <3>2, <3>3
  <2> QED BY <2>1, <2>2
<1> QED BY <1>5, <1>6

\* The recursion of FoldSeq: the functions that take each set of rows, up to S,
\* to the size of one of them plus what they take the others to.
Summing(f, S) ==
    [R \in SUBSET S |->
        IF R = {} THEN 0
        ELSE rows[CHOOSE r \in R : TRUE].bytes + f[R \ {CHOOSE r \in R : TRUE}]]

LEMMA FoldIs ==
    FoldSeq(LAMBDA row, sum : row.bytes + sum, 0, rows)
       = (CHOOSE f : f = Summing(f, DOMAIN rows))[DOMAIN rows]
  BY Zenon DEF FoldSeq, FoldFunction, FoldFunctionOnSet, MapThenFoldSet, Summing

\* Counting the bytes of the pages of each set of rows is such a function.
LEMMA CountingSums ==
    ASSUME IInv, NEW S, S = 1 .. Len(rows)
    PROVE  LET f == [R \in SUBSET S |-> Cardinality(PagesOf(R)) * PageSize]
           IN  f = Summing(f, S)
<1> DEFINE f == [R \in SUBSET S |-> Cardinality(PagesOf(R)) * PageSize]
<1> SUFFICES ASSUME NEW R \in SUBSET S
             PROVE  Cardinality(PagesOf(R)) * PageSize =
                      IF R = {} THEN 0
                      ELSE rows[CHOOSE r \in R : TRUE].bytes
                              + f[R \ {CHOOSE r \in R : TRUE}]
  BY DEF Summing
<1>1. CASE R = {}
  <2>1. PagesOf(R) = {}
    BY <1>1 DEF PagesOf
  <2>2. Cardinality(PagesOf(R)) = 0
    BY <2>1, FS_EmptySet
  <2> QED BY <1>1, <2>2, PagesAssumption
<1>2. CASE R # {}
  <2> DEFINE x == CHOOSE r \in R : TRUE
  <2>1. x \in R /\ x \in 1 .. Len(rows)
    BY <1>2
  <2>2. /\ R \ {x} \in SUBSET S /\ R \ {x} \in SUBSET (1 .. Len(rows))
        /\ x \notin R \ {x} /\ (R \ {x}) \cup {x} = R
    BY <2>1
  <2>3. f[R \ {x}] = Cardinality(PagesOf(R \ {x})) * PageSize
    BY <2>2
  <2> HIDE DEF x, f
  <2>4. Cardinality(PagesOf((R \ {x}) \cup {x})) * PageSize =
           rows[x].bytes + Cardinality(PagesOf(R \ {x})) * PageSize
    BY <2>1, <2>2, PagesOfAdd
  <2>5. Cardinality(PagesOf(R)) = Cardinality(PagesOf((R \ {x}) \cup {x}))
    BY <2>2
  <2>6. Cardinality(PagesOf(R)) * PageSize = rows[x].bytes + f[R \ {x}]
    BY <2>3, <2>4, <2>5, Zenon
  <2> QED BY <1>2, <2>6 DEF x
<1> QED BY <1>1, <1>2

\* And it is the only one: a smallest set on which another one differs would
\* have to be larger than the set without the chosen row.
LEMMA SumsCount ==
    ASSUME IInv, NEW S, S = 1 .. Len(rows), NEW f, f = Summing(f, S)
    PROVE  f[S] = Cardinality(PagesOf(S)) * PageSize
<1> DEFINE Wrong == {R \in SUBSET S : f[R] # Cardinality(PagesOf(R)) * PageSize}
           Sizes == {n \in Nat : \E R \in Wrong : Cardinality(R) = n}
<1> SUFFICES ASSUME S \in Wrong PROVE FALSE
  OBVIOUS
<1>1. \A R \in SUBSET S : IsFiniteSet(R) /\ Cardinality(R) \in Nat
  <2>1. IsFiniteSet(1 .. Len(rows))
    <3>1. 1 \in Int /\ Len(rows) \in Int
      BY RowFacts
    <3> QED BY <3>1, FS_Interval
  <2>2. \A R \in SUBSET S : IsFiniteSet(R)
    BY <2>1, FS_Subset
  <2> QED BY <2>2, FS_CardinalityType
<1>2. Cardinality(S) \in Sizes
  BY <1>1
<1>3. PICK n \in Sizes : \A m \in Sizes : n <= m
  <2> HIDE DEF Wrong
  <2>1. Sizes \in SUBSET Nat /\ Sizes # {}
    BY <1>2
  <2> HIDE DEF Sizes
  <2> QED BY <2>1, Least
<1>4. PICK R \in Wrong : Cardinality(R) = n
  BY <1>3
<1>5. R \in SUBSET S /\ f[R] # Cardinality(PagesOf(R)) * PageSize /\ IsFiniteSet(R)
  BY <1>1, <1>4
<1>6. f[R] = IF R = {} THEN 0
             ELSE rows[CHOOSE r \in R : TRUE].bytes + f[R \ {CHOOSE r \in R : TRUE}]
  <2>1. f[R] = Summing(f, S)[R]
    OBVIOUS
  <2> QED BY <1>5, <2>1 DEF Summing
<1>7. CASE R = {}
  <2>1. PagesOf(R) = {}
    BY <1>7 DEF PagesOf
  <2>2. Cardinality(PagesOf(R)) = 0
    BY <2>1, FS_EmptySet
  <2> QED BY <1>5, <1>6, <1>7, <2>2, PagesAssumption
<1>8. CASE R # {}
  <2> DEFINE x == CHOOSE r \in R : TRUE
             Q == R \ {x}
  <2>1. x \in R /\ x \in 1 .. Len(rows)
    BY <1>5, <1>8
  <2>2. Q \in SUBSET S /\ Q \in SUBSET (1 .. Len(rows)) /\ x \notin Q /\ Q \cup {x} = R
    BY <1>5, <2>1
  <2>3. f[R] = rows[x].bytes + f[Q]
    BY <1>6, <1>8
  <2> HIDE DEF x
  <2>4. Cardinality(Q) < n
    <3>1. Cardinality(Q) = Cardinality(R) - 1
      BY <1>5, <2>1, FS_RemoveElement
    <3> QED BY <1>1, <1>4, <1>5, <3>1
  <2> HIDE DEF Q
  <2>5. f[Q] = Cardinality(PagesOf(Q)) * PageSize
    <3> SUFFICES ASSUME f[Q] # Cardinality(PagesOf(Q)) * PageSize PROVE FALSE
      OBVIOUS
    <3>1. Cardinality(Q) \in Sizes /\ Cardinality(Q) \in Nat
      BY <1>1, <2>2
    <3>2. n <= Cardinality(Q) /\ n \in Nat
      BY <1>3, <3>1
    <3> QED BY <2>4, <3>1, <3>2
  <2>6. Cardinality(PagesOf(Q \cup {x})) * PageSize =
           rows[x].bytes + Cardinality(PagesOf(Q)) * PageSize
    BY <2>1, <2>2, PagesOfAdd
  <2>7. Cardinality(PagesOf(R)) = Cardinality(PagesOf(Q \cup {x}))
    BY <2>2
  <2> QED BY <1>5, <2>3, <2>5, <2>6, <2>7, Zenon
<1> QED BY <1>7, <1>8

\* The sizes of the rows add up to the size of their pages, in whatever order
\* they are added.
LEMMA SumOfRows ==
    IInv => FoldSeq(LAMBDA row, sum : row.bytes + sum, 0, rows)
               = Cardinality(PagesOf(1 .. Len(rows))) * PageSize
<1> SUFFICES ASSUME IInv
             PROVE  FoldSeq(LAMBDA row, sum : row.bytes + sum, 0, rows)
                       = Cardinality(PagesOf(1 .. Len(rows))) * PageSize
  OBVIOUS
<1>1. DOMAIN rows = 1 .. Len(rows)
  BY DEF IInv, RowsOk
<1> DEFINE g == CHOOSE f : f = Summing(f, DOMAIN rows)
<1>2. \E f : f = Summing(f, DOMAIN rows)
  BY <1>1, CountingSums
<1>3. g = Summing(g, DOMAIN rows)
  BY <1>2
<1> HIDE DEF g
<1>4. g[DOMAIN rows] = Cardinality(PagesOf(DOMAIN rows)) * PageSize
  BY <1>1, <1>3, SumsCount
<1>5. FoldSeq(LAMBDA row, sum : row.bytes + sum, 0, rows) = g[DOMAIN rows]
  BY FoldIs, Zenon DEF g
<1> QED BY <1>1, <1>4, <1>5, Zenon

\* The rows cover the map without gap or overlap, and the sizes they print add
\* up to its size.
THEOREM RowsPartitionMap == Spec => []RowsPartition
<1>1. IInv /\ RowsCover => RowsPartition
  <2> SUFFICES ASSUME IInv, RowsCover, step \in {"close", "done"}
               PROVE  FoldSeq(LAMBDA row, sum : row.bytes + sum, 0, rows)
                         = NumPages * PageSize
    BY Zenon DEF RowsPartition
  <2>1. PagesOf(1 .. Len(rows)) = 1 .. NumPages
    BY AllPages
  <2>2. 1 \in Int /\ NumPages \in Int /\ NumPages \in Nat \ {0}
    BY PagesAssumption
  <2>3. Cardinality(1 .. NumPages) = IF 1 > NumPages THEN 0 ELSE NumPages - 1 + 1
    BY <2>2, FS_Interval
  <2>4. Cardinality(1 .. NumPages) = NumPages
    BY <2>2, <2>3
  <2>5. Cardinality(PagesOf(1 .. Len(rows))) = NumPages
    BY <2>1, <2>4, Zenon
  <2> QED BY <2>5, SumOfRows, Zenon
<1> QED BY <1>1, InvariantHolds, RowsCoverMap, PTL
=============================================================================
