------------------------------ MODULE PhysMap -------------------------------
(***************************************************************************)
(* What iomem.c promises: a map from every physical address to the         *)
(* description of the region it lies in.                                   *)
(*                                                                         *)
(* /proc/iomem lists nested regions, outer ones first.  Adding a region    *)
(* gives its description to its addresses and makes its two edges borders; *)
(* a region that would cross a border that is already there is refused.    *)
(***************************************************************************)
EXTENDS Integers

CONSTANTS
    MaxPhysAddr,    \* MAX_PHYS_ADDR
    Descriptions,   \* the descriptions, at most MAX_IOMEM_DESCRIPTION long
    Unmapped,       \* UNMAPPED_MEMORY_DESCRIPTION
    Requests        \* the addresses callers speak of

VARIABLES
    memory,    \* the description of each address
    borders,   \* the addresses at which a region starts
    request,   \* the call that is under way, <<>> if there is none
    answer,    \* the last description that was asked for
    refused    \* a region was refused; the process has ended

vars == <<memory, borders, request, answer, refused>>

Addresses == 0 .. MaxPhysAddr

Init ==
    /\ memory = [a \in Addresses |-> Unmapped]
    /\ borders = {0}
    /\ request = <<>>
    /\ answer = Unmapped
    /\ refused = FALSE

\* The requests callers make: to add a region, or to describe an address.
Calls ==
         {r \in Requests \X Requests \X Descriptions : r[1] <= r[2]}
    \cup {<<a>> : a \in Requests}

Request ==
    /\ ~refused
    /\ request = <<>>
    /\ request' \in Calls
    /\ UNCHANGED <<memory, borders, answer, refused>>

Crosses(start, end) ==
    end > MaxPhysAddr \/ \E b \in borders : start < b /\ b <= end

Add ==
    /\ ~refused
    /\ \E s, e \in Requests, d \in Descriptions :
          /\ request = <<s, e, d>>
          /\ ~Crosses(s, e)
          /\ memory' = [a \in Addresses |-> IF s <= a /\ a <= e THEN d ELSE memory[a]]
          /\ borders' = borders \cup ({s, e + 1} \cap Addresses)
    /\ request' = <<>>
    /\ UNCHANGED <<answer, refused>>

\* A region that crosses a border ends the process.
Refuse ==
    /\ ~refused
    /\ \E s, e \in Requests, d \in Descriptions :
          request = <<s, e, d>> /\ Crosses(s, e)
    /\ refused' = TRUE
    /\ UNCHANGED <<memory, borders, request, answer>>

\* For want of memory, the process may end instead of adding borders.
OutOfMemory ==
    /\ ~refused
    /\ \E s, e \in Requests, d \in Descriptions :
          /\ request = <<s, e, d>>
          /\ ~Crosses(s, e)
          /\ ~({s, e + 1} \cap Addresses \subseteq borders)
    /\ refused' = TRUE
    /\ UNCHANGED <<memory, borders, request, answer>>

\* An address past the last one has the description of the last one.
Describe ==
    /\ ~refused
    /\ \E a \in Requests :
          /\ request = <<a>>
          /\ answer' = memory[IF a <= MaxPhysAddr THEN a ELSE MaxPhysAddr]
    /\ request' = <<>>
    /\ UNCHANGED <<memory, borders, refused>>

Release ==
    /\ ~refused
    /\ request = <<>>
    /\ memory' = [a \in Addresses |-> Unmapped]
    /\ borders' = {0}
    /\ UNCHANGED <<request, answer, refused>>

Next == Request \/ Add \/ Refuse \/ OutOfMemory \/ Describe \/ Release

Spec == Init /\ [][Next]_vars
=============================================================================
