------------------------------ MODULE Allocate ------------------------------
(***************************************************************************)
(* allocate.c: the memory that --malloc, --local and --map_mem create      *)
(* before the scan, and --fill writes to.                                  *)
(*                                                                         *)
(* --local memory is stack memory of a thread of its own.  That thread     *)
(* pushes one frame per allocation, tells main() through a semaphore that  *)
(* all of them exist, and then blocks on a mutex main() holds: while it is *)
(* blocked its frames are alive and their addresses, kept in the array     *)
(* localAllocations, may be used by any thread.  main() lets it return,    *)
(* and the frames die, when it unlocks the mutex.                          *)
(*                                                                         *)
(* A slot of an allocation array holds "null", or the address of memory    *)
(* that is "blank" or "filled" with SHANNON_CONSTANT_FOR_ALLOCATIONS.      *)
(***************************************************************************)
EXTENDS Integers

CONSTANTS
    Fillers,               \* the threads that may call fillPreScanMemory()
    allocateHeapMemory,    \* --malloc
    allocateLocalMemory,   \* --local
    allocateMappedMemory,  \* --map_mem
    numMallocs,            \* --numMalloc
    numLocals              \* --numLocal

\* The ASSERTs of allocatePreScanMemory (allocate.c:127-128 and 144-146).
ASSUME AllocateAssumption ==
    /\ {allocateHeapMemory, allocateLocalMemory, allocateMappedMemory}
          \subseteq BOOLEAN
    /\ numMallocs \in Nat \ {0}
    /\ numLocals \in Nat \ {0}

VARIABLES
    alloc,            \* where main() is in allocate- and releasePreScanMemory
    next,             \* the index i of the loop main() is in
    heapArray,        \* heapAllocations # NULL
    heapAllocations,  \* the slots of that array
    localArray,       \* localAllocations # NULL
    localAllocations, \* the slots of that array
    mappedAllocation, \* "null", "blank" or "filled"
    mutex,            \* who holds it: "nobody", "main" or "local"
    semaphore,        \* the value of localAllocationsReady
    localThread,      \* where localAllocationThread is
    remaining,        \* its argument remainingLocalAllocations
    filling,          \* the part of fillPreScanMemory a thread is in, or "idle"
    slot,             \* the slot it fills next
    fatal             \* FATAL_ERROR ended the process

heapVars  == <<heapArray, heapAllocations>>
localVars == <<localArray, localAllocations>>
syncVars  == <<mutex, semaphore, localThread, remaining>>
fillVars  == <<filling, slot>>
mainVars  == <<alloc, next>>
vars == <<mainVars, heapVars, localVars, mappedAllocation, syncVars,
          fillVars, fatal>>

HeapSlots  == 0 .. numMallocs - 1
LocalSlots == 0 .. numLocals - 1

NoHeap  == [i \in HeapSlots |-> "null"]
NoLocal == [i \in LocalSlots |-> "null"]

\* The stack frame of the allocation in slot i exists from the call that
\* pushed it until the local thread has returned past it.
FrameLive(i) ==
    /\ localThread \in {"recurse", "park", "unwind"}
    /\ remaining <= i

----------------------------------------------------------------------------

Init ==
    /\ alloc = "heapArray" /\ next = 0
    /\ heapArray = FALSE /\ heapAllocations = NoHeap
    /\ localArray = FALSE /\ localAllocations = NoLocal
    /\ mappedAllocation = "null"
    /\ mutex = "nobody" /\ semaphore = 0
    /\ localThread = "none" /\ remaining = 0
    /\ filling = [t \in Fillers |-> "idle"]
    /\ slot = [t \in Fillers |-> 0]
    /\ fatal = FALSE

\* FATAL_ERROR: the process exits, and every thread with it.
Die ==
    /\ fatal' = TRUE
    /\ UNCHANGED <<mainVars, heapVars, localVars, mappedAllocation, syncVars,
                   fillVars>>

----------------------------------------------------------------------------
(* allocatePreScanMemory(), run by main().                                 *)

CallocHeap ==
    /\ ~fatal
    /\ alloc = "heapArray"
    /\ IF ~allocateHeapMemory
       THEN /\ alloc' = "localArray"
            /\ UNCHANGED <<next, heapVars, localVars, mappedAllocation,
                           syncVars, fillVars, fatal>>
       ELSE \/ Die
            \/ /\ heapArray' = TRUE
               /\ heapAllocations' = NoHeap
               /\ alloc' = "malloc"
               /\ next' = 0
               /\ UNCHANGED <<localVars, mappedAllocation, syncVars, fillVars,
                              fatal>>

\* Mistaken: the loop ends one buffer early.
MallocShort ==
    /\ ~fatal
    /\ alloc = "malloc"
    /\ heapAllocations' = [heapAllocations EXCEPT ![next] = "blank"]
    /\ IF next + 2 < numMallocs
       THEN next' = next + 1 /\ UNCHANGED alloc
       ELSE next' = 0 /\ alloc' = "localArray"
    /\ UNCHANGED <<heapArray, localVars, mappedAllocation, syncVars, fillVars,
                   fatal>>

Malloc ==
    /\ ~fatal
    /\ alloc = "malloc"
    /\ \/ Die
       \/ /\ heapAllocations' = [heapAllocations EXCEPT ![next] = "blank"]
          /\ IF next + 1 < numMallocs
             THEN next' = next + 1 /\ UNCHANGED alloc
             ELSE next' = 0 /\ alloc' = "localArray"
          /\ UNCHANGED <<heapArray, localVars, mappedAllocation, syncVars,
                         fillVars, fatal>>

CallocLocal ==
    /\ ~fatal
    /\ alloc = "localArray"
    /\ IF ~allocateLocalMemory
       THEN /\ alloc' = "mmap"
            /\ UNCHANGED <<next, heapVars, localVars, mappedAllocation,
                           syncVars, fillVars, fatal>>
       ELSE \/ Die
            \/ /\ localArray' = TRUE
               /\ localAllocations' = NoLocal
               /\ alloc' = "lock"
               /\ UNCHANGED <<next, heapVars, mappedAllocation, syncVars,
                              fillVars, fatal>>

\* Mistaken: main() does not take the mutex before it creates the thread.
LockMutexNot ==
    /\ ~fatal
    /\ alloc = "lock"
    /\ semaphore' = 0
    /\ alloc' = "create"
    /\ UNCHANGED <<next, heapVars, localVars, mappedAllocation, mutex,
                   localThread, remaining, fillVars, fatal>>

\* pthread_mutex_lock() and sem_init().
LockMutex ==
    /\ ~fatal
    /\ alloc = "lock"
    /\ mutex = "nobody"
    /\ mutex' = "main"
    /\ semaphore' = 0
    /\ alloc' = "create"
    /\ UNCHANGED <<next, heapVars, localVars, mappedAllocation, localThread,
                   remaining, fillVars, fatal>>

CreateLocalThread ==
    /\ ~fatal
    /\ alloc = "create"
    /\ \/ Die
       \/ /\ localThread' = "recurse"
          /\ remaining' = numLocals
          /\ alloc' = "semWait"
          /\ UNCHANGED <<next, heapVars, localVars, mappedAllocation, mutex,
                         semaphore, fillVars, fatal>>

\* Mistaken: main() goes on without waiting for the semaphore.
SemWaitNot ==
    /\ ~fatal
    /\ alloc = "semWait"
    /\ alloc' = "mmap"
    /\ UNCHANGED <<next, heapVars, localVars, mappedAllocation, syncVars,
                   fillVars, fatal>>

SemWait ==
    /\ ~fatal
    /\ alloc = "semWait"
    /\ semaphore > 0
    /\ semaphore' = semaphore - 1
    /\ alloc' = "mmap"
    /\ UNCHANGED <<next, heapVars, localVars, mappedAllocation, mutex,
                   localThread, remaining, fillVars, fatal>>

Mmap ==
    /\ ~fatal
    /\ alloc = "mmap"
    /\ IF ~allocateMappedMemory
       THEN /\ alloc' = "allocated"
            /\ UNCHANGED <<next, heapVars, localVars, mappedAllocation,
                           syncVars, fillVars, fatal>>
       ELSE \/ Die
            \/ /\ mappedAllocation' = "blank"
               /\ alloc' = "allocated"
               /\ UNCHANGED <<next, heapVars, localVars, syncVars, fillVars,
                              fatal>>

AllocateStep ==
    \/ CallocHeap \/ Malloc \/ CallocLocal \/ LockMutex \/ CreateLocalThread
    \/ SemWait \/ Mmap

----------------------------------------------------------------------------
(* allocateLocalMemory_recurse(), run by localAllocationThread.            *)

\* One level of the recursion: push a frame, store its address, recurse.
PushFrame ==
    /\ ~fatal
    /\ localThread = "recurse"
    /\ remaining > 0
    /\ localAllocations' = [localAllocations EXCEPT ![remaining - 1] = "blank"]
    /\ remaining' = remaining - 1
    /\ UNCHANGED <<mainVars, heapVars, localArray, mappedAllocation, mutex,
                   semaphore, localThread, fillVars, fatal>>

\* The innermost call: sem_post() ...
SemPost ==
    /\ ~fatal
    /\ localThread = "recurse"
    /\ remaining = 0
    /\ semaphore' = semaphore + 1
    /\ localThread' = "park"
    /\ UNCHANGED <<mainVars, heapVars, localVars, mappedAllocation, mutex,
                   remaining, fillVars, fatal>>

\* ... and pthread_mutex_lock(), which blocks while main() holds the mutex.
Park ==
    /\ ~fatal
    /\ localThread = "park"
    /\ mutex = "nobody"
    /\ mutex' = "local"
    /\ localThread' = "unwind"
    /\ UNCHANGED <<mainVars, heapVars, localVars, mappedAllocation, semaphore,
                   remaining, fillVars, fatal>>

\* The calls return one by one, then the thread ends; it keeps the mutex.
PopFrame ==
    /\ ~fatal
    /\ localThread = "unwind"
    /\ IF remaining < numLocals
       THEN remaining' = remaining + 1 /\ UNCHANGED localThread
       ELSE localThread' = "ended" /\ UNCHANGED remaining
    /\ UNCHANGED <<mainVars, heapVars, localVars, mappedAllocation, mutex,
                   semaphore, fillVars, fatal>>

LocalStep == PushFrame \/ SemPost \/ Park \/ PopFrame

----------------------------------------------------------------------------
(* fillPreScanMemory(), run by thread t.                                   *)

AfterLocal == IF allocateMappedMemory THEN "mapped" ELSE "idle"
AfterHeap  == IF allocateLocalMemory THEN "local" ELSE AfterLocal
FirstFill  == IF allocateHeapMemory THEN "heap" ELSE AfterHeap

BeginFill(t) ==
    /\ ~fatal
    /\ filling[t] = "idle"
    /\ filling' = [filling EXCEPT ![t] = FirstFill]
    /\ slot' = [slot EXCEPT ![t] = 0]
    /\ UNCHANGED <<mainVars, heapVars, localVars, mappedAllocation, syncVars,
                   fatal>>

\* Mistaken: the last slot of an array is left out.
NextSlotShort(t, num, after) ==
    IF slot[t] + 2 < num
    THEN slot' = [slot EXCEPT ![t] = @ + 1] /\ UNCHANGED filling
    ELSE slot' = [slot EXCEPT ![t] = 0] /\ filling' = [filling EXCEPT ![t] = after]

\* Go to the next slot of an array of num slots, or past the array.
NextSlot(t, num, after) ==
    IF slot[t] + 1 < num
    THEN slot' = [slot EXCEPT ![t] = @ + 1] /\ UNCHANGED filling
    ELSE slot' = [slot EXCEPT ![t] = 0] /\ filling' = [filling EXCEPT ![t] = after]

FillHeap(t) ==
    /\ ~fatal
    /\ filling[t] = "heap"
    /\ heapAllocations' = [heapAllocations EXCEPT ![slot[t]] = "filled"]
    /\ NextSlot(t, numMallocs, AfterHeap)
    /\ UNCHANGED <<mainVars, heapArray, localVars, mappedAllocation, syncVars,
                   fatal>>

\* A slot that holds NULL is skipped (allocate.c:233-236).
FillLocal(t) ==
    /\ ~fatal
    /\ filling[t] = "local"
    /\ localAllocations' =
          IF localAllocations[slot[t]] = "null" THEN localAllocations
          ELSE [localAllocations EXCEPT ![slot[t]] = "filled"]
    /\ NextSlot(t, numLocals, AfterLocal)
    /\ UNCHANGED <<mainVars, heapVars, localArray, mappedAllocation, syncVars,
                   fatal>>

FillMapped(t) ==
    /\ ~fatal
    /\ filling[t] = "mapped"
    /\ mappedAllocation' = "filled"
    /\ filling' = [filling EXCEPT ![t] = "idle"]
    /\ UNCHANGED <<mainVars, heapVars, localVars, syncVars, slot, fatal>>

FillStep(t) == FillHeap(t) \/ FillLocal(t) \/ FillMapped(t)

----------------------------------------------------------------------------
(* releasePreScanMemory(), run by main().                                  *)

BeginRelease ==
    /\ ~fatal
    /\ alloc = "allocated"
    /\ alloc' = IF allocateHeapMemory THEN "free" ELSE "unlock"
    /\ next' = 0
    /\ UNCHANGED <<heapVars, localVars, mappedAllocation, syncVars, fillVars,
                   fatal>>

\* free() one buffer and clear its slot; after the last one, free the array.
FreeHeap ==
    /\ ~fatal
    /\ alloc = "free"
    /\ heapAllocations' = [heapAllocations EXCEPT ![next] = "null"]
    /\ IF next + 1 < numMallocs
       THEN next' = next + 1 /\ UNCHANGED <<alloc, heapArray>>
       ELSE next' = 0 /\ alloc' = "unlock" /\ heapArray' = FALSE
    /\ UNCHANGED <<localVars, mappedAllocation, syncVars, fillVars, fatal>>

\* Mistaken: the local thread is released, but not joined.
UnlockMutexNoJoin ==
    /\ ~fatal
    /\ alloc = "unlock"
    /\ mutex' = IF allocateLocalMemory THEN "nobody" ELSE mutex
    /\ alloc' = "munmap"
    /\ UNCHANGED <<next, heapVars, localVars, mappedAllocation, semaphore,
                   localThread, remaining, fillVars, fatal>>

UnlockMutex ==
    /\ ~fatal
    /\ alloc = "unlock"
    /\ IF allocateLocalMemory
       THEN mutex' = "nobody" /\ alloc' = "join"
       ELSE alloc' = "munmap" /\ UNCHANGED mutex
    /\ UNCHANGED <<next, heapVars, localVars, mappedAllocation, semaphore,
                   localThread, remaining, fillVars, fatal>>

\* pthread_join(), then clear the slots and free the array.
JoinLocalThread ==
    /\ ~fatal
    /\ alloc = "join"
    /\ localThread = "ended"
    /\ localAllocations' = NoLocal
    /\ localArray' = FALSE
    /\ alloc' = "munmap"
    /\ UNCHANGED <<next, heapVars, mappedAllocation, syncVars, fillVars, fatal>>

Munmap ==
    /\ ~fatal
    /\ alloc = "munmap"
    /\ mappedAllocation' = "null"
    /\ alloc' = "released"
    /\ UNCHANGED <<next, heapVars, localVars, syncVars, fillVars, fatal>>

ReleaseStep == FreeHeap \/ UnlockMutex \/ JoinLocalThread \/ Munmap

----------------------------------------------------------------------------
(* The component under any caller that fills memory only between the       *)
(* return of allocate- and the call of releasePreScanMemory.               *)

Done ==
    /\ fatal \/ alloc = "released"
    /\ UNCHANGED vars

Next ==
    \/ AllocateStep
    \/ LocalStep
    \/ \E t \in Fillers : alloc = "allocated" /\ BeginFill(t)
    \/ \E t \in Fillers : FillStep(t)
    \/ (\A t \in Fillers : filling[t] = "idle") /\ BeginRelease
    \/ ReleaseStep
    \/ Done

Spec == Init /\ [][Next]_vars

----------------------------------------------------------------------------

Slot == {"null", "blank", "filled"}

TypeInvariant ==
    /\ alloc \in {"heapArray", "malloc", "localArray", "lock", "create",
                  "semWait", "mmap", "allocated", "free", "unlock", "join",
                  "munmap", "released"}
    /\ next \in HeapSlots
    /\ heapArray \in BOOLEAN /\ heapAllocations \in [HeapSlots -> Slot]
    /\ localArray \in BOOLEAN /\ localAllocations \in [LocalSlots -> Slot]
    /\ mappedAllocation \in Slot
    /\ mutex \in {"nobody", "main", "local"}
    /\ semaphore \in 0 .. 1
    /\ localThread \in {"none", "recurse", "park", "unwind", "ended"}
    /\ remaining \in 0 .. numLocals
    /\ filling \in [Fillers -> {"idle", "heap", "local", "mapped"}]
    /\ slot \in [Fillers -> Nat]
    /\ fatal \in BOOLEAN

\* An address in localAllocations is the address of a live stack frame,
\* except between the moment main() lets the local thread go and the moment
\* it clears the slots (allocate.c:275-284).
NoDanglingLocals ==
    \A i \in LocalSlots :
       localAllocations[i] # "null" => FrameLive(i) \/ alloc = "join"

\* fillPreScanMemory() writes to memory that exists, and it never meets the
\* NULL slot of which it says "This really should never happen"
\* (allocate.c:234): allocation had finished in both threads before it began.
FillsLiveMemory ==
    \A t \in Fillers :
       /\ filling[t] = "heap" =>
             heapArray /\ heapAllocations[slot[t]] # "null"
       /\ filling[t] = "local" =>
             localArray /\ localAllocations[slot[t]] # "null" /\ FrameLive(slot[t])
       /\ filling[t] = "mapped" => mappedAllocation # "null"

\* When allocatePreScanMemory() has returned, everything that was asked for
\* exists, whatever the order in which the two threads ran.
AllocatedIsComplete ==
    alloc = "allocated" =>
       /\ allocateHeapMemory => \A i \in HeapSlots : heapAllocations[i] # "null"
       /\ allocateLocalMemory =>
             \A i \in LocalSlots : localAllocations[i] # "null" /\ FrameLive(i)
       /\ allocateMappedMemory => mappedAllocation # "null"

\* When releasePreScanMemory() has returned, nothing is left: no buffer, no
\* array, no frame and no thread.
ReleasedIsComplete ==
    alloc = "released" =>
       /\ ~heapArray /\ heapAllocations = NoHeap
       /\ ~localArray /\ localAllocations = NoLocal
       /\ mappedAllocation = "null"
       /\ localThread \in {"none", "ended"}

\* A slot that was cleared for good is never written again: the local thread
\* or a filler that came late would store into an array that was freed.
NoLateWrite ==
    [][\A i \in LocalSlots :
          localAllocations[i] = "null" /\ localAllocations'[i] # "null"
             => localArray /\ alloc = "semWait"]_vars
=============================================================================
