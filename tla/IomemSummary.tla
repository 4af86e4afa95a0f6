---------------------------- MODULE IomemSummary ----------------------------
(***************************************************************************)
(* summarize_iomem() of iomem.c (--iomem): add up the sizes of the regions *)
(* by description, sort the sums with a bubble sort of a linked list, and  *)
(* print them with a total.                                                *)
(*                                                                         *)
(* It works on the list of module Iomem, whatever calls have built it.     *)
(* The linked list of summaries is a sequence; swapping two of its records *)
(* is what the pointer assignments do.                                     *)
(***************************************************************************)
EXTENDS Iomem, Sequences, FiniteSetsExt

VARIABLES
    phase,        \* "idle", "compose", "sort", "validate", "print", "printed",
                  \* "crashed" at a NULL pointer, or "aborted" by an ASSERT
    summary,      \* the list at iomem_summary_head
    region,       \* the region compose_iomem_summary() adds next
    type,         \* the record sort_ or print_iomem_summary() looks at
    swapped,      \* the flag of the bubble sort
    total         \* totalMappedMemory

summaryVars == <<phase, summary, region, type, swapped, total>>
allVars == <<vars, summaryVars>>

\* getEnd( region ) - region->start + 1
SizeOf(i) == End(i) - regions[i].start + 1

SummaryInit ==
    /\ Init
    /\ phase = "idle"
    /\ summary = <<>>
    /\ region = 1 /\ type = 1
    /\ swapped = FALSE
    /\ total = 0

\* The list is built and asked before it is summarized.
ListStep ==
    /\ phase = "idle"
    /\ AddRegion \/ BeginDescribe \/ WalkDescribe \/ Ended
    /\ UNCHANGED summaryVars

\* release_iomem() releases the summary, too.
Release ==
    /\ phase \in {"idle", "printed"}
    /\ ReleaseIomem
    /\ phase' = "idle"
    /\ summary' = <<>>
    /\ region' = 1 /\ type' = 1
    /\ swapped' = FALSE
    /\ total' = 0

----------------------------------------------------------------------------
(* compose_iomem_summary()                                                 *)

BeginSummarize ==
    /\ ~fatal
    /\ call = "none"
    /\ phase = "idle"
    /\ phase' = IF ValidateIomem THEN "compose" ELSE "aborted"
    /\ UNCHANGED <<summary, region, type, swapped, total>>

\* Mistaken: every region gets a record of its own.
ComposeAlwaysNew ==
    /\ phase = "compose"
    /\ region <= count
    /\ summary' = <<[size |-> SizeOf(region),
                     description |-> regions[region].description]>> \o summary
    /\ region' = region + 1
    /\ UNCHANGED <<phase, type, swapped, total>>

Same == {j \in 1 .. Len(summary) :
            summary[j].description = regions[region].description}

\* One region per step.  A description that is new goes to the front.
Compose ==
    /\ phase = "compose"
    /\ region <= count
    /\ IF Same = {}
       THEN summary' = <<[size |-> SizeOf(region),
                          description |-> regions[region].description]>> \o summary
       ELSE summary' = [j \in 1 .. Len(summary) |->
               IF j \in Same THEN [summary[j] EXCEPT !.size = @ + SizeOf(region)]
               ELSE summary[j]]
    /\ region' = region + 1
    /\ UNCHANGED <<phase, type, swapped, total>>

\* malloc() returns NULL, which is not tested.
ComposeCrashes ==
    /\ phase = "compose"
    /\ region <= count
    /\ Same = {}
    /\ phase' = "crashed"
    /\ UNCHANGED <<summary, region, type, swapped, total>>

EndCompose ==
    /\ phase = "compose"
    /\ region > count
    /\ phase' = "sort"
    /\ UNCHANGED <<summary, region, type, swapped, total>>

----------------------------------------------------------------------------
(* sort_iomem_summary()                                                    *)

Swap == summary' = [summary EXCEPT ![type] = summary[type + 1],
                                   ![type + 1] = summary[type]]

\* Mistaken: records of the same size are swapped, too.
CompareNotStrict ==
    /\ phase = "sort"
    /\ type < Len(summary)
    /\ IF summary[type].size >= summary[type + 1].size
       THEN swapped' = TRUE /\ Swap
       ELSE UNCHANGED <<swapped, summary>>
    /\ type' = type + 1
    /\ UNCHANGED <<phase, region, total>>

\* The inner loop.
Compare ==
    /\ phase = "sort"
    /\ type < Len(summary)
    /\ IF summary[type].size > summary[type + 1].size
       THEN swapped' = TRUE /\ Swap
       ELSE UNCHANGED <<swapped, summary>>
    /\ type' = type + 1
    /\ UNCHANGED <<phase, region, total>>

\* Mistaken: one pass only.
EndOnlyPass ==
    /\ phase = "sort"
    /\ type >= Len(summary)
    /\ type' = 1
    /\ swapped' = FALSE
    /\ phase' = "validate"
    /\ UNCHANGED <<summary, region, total>>

\* while( swapped )
EndPass ==
    /\ phase = "sort"
    /\ type >= Len(summary)
    /\ type' = 1
    /\ swapped' = FALSE
    /\ phase' = IF swapped THEN "sort" ELSE "validate"
    /\ UNCHANGED <<summary, region, total>>

----------------------------------------------------------------------------
(* validate_summary() and print_iomem_summary()                            *)

ValidateSummary ==
    /\ ValidateIomem
    /\ summary # <<>>
    /\ \A j \in 1 .. Len(summary) - 1 : summary[j].size <= summary[j + 1].size
    /\ \A j \in 1 .. Len(summary) :
          summary[j].size = MapThenSumSet(SizeOf,
             {i \in 1 .. count : regions[i].description = summary[j].description})

Validate ==
    /\ phase = "validate"
    /\ phase' = IF ValidateSummary THEN "print" ELSE "aborted"
    /\ UNCHANGED <<summary, region, type, swapped, total>>

\* Mistaken: the last record is added to the total, too.
PrintSummaryAll ==
    /\ phase = "print"
    /\ IF type <= Len(summary)
       THEN /\ total' = total + summary[type].size
            /\ type' = type + 1
            /\ UNCHANGED phase
       ELSE phase' = "printed" /\ UNCHANGED <<total, type>>
    /\ UNCHANGED <<summary, region, swapped>>

\* Every record but the last is added to the total.
PrintSummary ==
    /\ phase = "print"
    /\ IF type <= Len(summary)
       THEN /\ total' = IF type < Len(summary) THEN total + summary[type].size ELSE total
            /\ type' = type + 1
            /\ UNCHANGED phase
       ELSE phase' = "printed" /\ UNCHANGED <<total, type>>
    /\ UNCHANGED <<summary, region, swapped>>

Stopped == phase = "crashed" /\ UNCHANGED summaryVars

Summarize ==
    /\ \/ BeginSummarize
       \/ Compose \/ ComposeCrashes \/ EndCompose
       \/ Compare \/ EndPass
       \/ Validate \/ PrintSummary
       \/ Stopped
    /\ UNCHANGED vars

SummaryNext == ListStep \/ Release \/ Summarize

SummarySpec == SummaryInit /\ [][SummaryNext]_allVars

\* summarize_iomem() runs on: nothing in it waits for anything.
FairSpec ==
    /\ SummarySpec
    /\ WF_allVars(phase # "idle" /\ Summarize)

----------------------------------------------------------------------------

\* The addresses that lie in a region with description d.
AddressesOf(d) == {a \in Addresses : regions[RegionAt(a)].description = d}

\* The summary is complete.
Composed == phase \in {"sort", "validate", "print", "printed"}

\* validate_summary() counts back (iomem.c:226-248): from the end of
\* compose_iomem_summary() on, and through every swap of the sort, each
\* description that occurs has exactly one record, and the size of the record
\* is the number of addresses with that description.
EveryAddressCountedOnce ==
    Composed =>
       /\ \A d \in Descriptions :
             Cardinality({j \in 1 .. Len(summary) : summary[j].description = d})
                = IF AddressesOf(d) = {} THEN 0 ELSE 1
       /\ \A j \in 1 .. Len(summary) :
             summary[j].size = Cardinality(AddressesOf(summary[j].description))

\* validate_summary() (iomem.c:213-224): the sort stops with the sizes in
\* increasing order, after a pass that swapped nothing, and so the ASSERTs of
\* summarize_iomem() (lines 582 and 587) never end the process.
SortedWhenPrinted ==
    /\ phase \in {"validate", "print", "printed"} =>
          \A j \in 1 .. Len(summary) - 1 : summary[j].size <= summary[j + 1].size
    /\ phase # "aborted"

\* "Total Mapped Memory": print_iomem_summary() leaves the last record out of
\* the total, whatever it is.  When the unmapped memory is larger than every
\* other kind of memory, as on every machine that leaves most of the 55-bit
\* address space empty, the total is the number of mapped addresses.
TotalIsMappedMemory ==
    phase = "printed"
    /\ (\A d \in Descriptions \ {Unmapped} :
           Cardinality(AddressesOf(d)) < Cardinality(AddressesOf(Unmapped)))
       => total = MaxPhysAddr + 1 - Cardinality(AddressesOf(Unmapped))

\* The sort ends: a pass without a swap comes, although the sizes may be equal.
SortTerminates == phase = "sort" ~> phase = "validate"
=============================================================================
