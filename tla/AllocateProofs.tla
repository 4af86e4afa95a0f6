--------------------------- MODULE AllocateProofs ---------------------------
(***************************************************************************)
(* Proofs about Allocate for any number of buffers, of stack allocations   *)
(* and of threads that fill them, and for any choice of options.           *)
(*                                                                         *)
(* The argument: the position of main() determines the handshake.  Until   *)
(* it waits on the semaphore there is no local thread; while it waits, the *)
(* slots from remaining on are set; from there to the unlock it holds the  *)
(* mutex, so the local thread is parked at the bottom of its recursion and *)
(* every frame is alive; and nobody fills memory outside of that window.   *)
(* So main() and the local thread never wait for each other, and the steps *)
(* they have left become fewer.                                            *)
(***************************************************************************)
EXTENDS Allocate, TLAPS

\* The positions of main() by what they say about the local allocations.
NotStarted == {"heapArray", "malloc", "localArray", "lock", "create"}
Holding    == {"mmap", "allocated", "free", "unlock"}
Finished   == {"munmap", "released"}

HeapInv ==
    /\ alloc = "heapArray" \/ ~allocateHeapMemory => ~heapArray /\ heapAllocations = NoHeap
    /\ alloc \in {"malloc", "free"} => allocateHeapMemory
    /\ alloc = "malloc" =>
          heapArray /\ \A i \in HeapSlots : i < next => heapAllocations[i] # "null"
    /\ alloc \in {"localArray", "lock", "create", "semWait", "mmap", "allocated"}
       /\ allocateHeapMemory =>
          heapArray /\ \A i \in HeapSlots : heapAllocations[i] # "null"
    /\ alloc = "free" => \A i \in HeapSlots : i < next => heapAllocations[i] = "null"
    /\ alloc \in {"unlock", "join", "munmap", "released"} =>
          ~heapArray /\ heapAllocations = NoHeap

LocalInv ==
    /\ alloc \in {"heapArray", "malloc", "localArray"} \cup Finished \/ ~allocateLocalMemory
          => ~localArray /\ localAllocations = NoLocal
    /\ alloc \in {"lock", "create"} => localArray /\ localAllocations = NoLocal
    /\ alloc \in {"lock", "create", "semWait", "join"} => allocateLocalMemory
    /\ alloc = "semWait" => localArray /\
          \A i \in LocalSlots : localAllocations[i] # "null" <=> remaining <= i
    /\ alloc \in Holding /\ allocateLocalMemory => localArray /\
          \A i \in LocalSlots : localAllocations[i] # "null"

SyncInv ==
    /\ alloc \in NotStarted \/ ~allocateLocalMemory =>
          localThread = "none" /\ semaphore = 0
    /\ alloc \in {"heapArray", "malloc", "localArray", "lock"} => mutex = "nobody"
    /\ alloc \in {"create", "semWait"} => mutex = "main"
    /\ alloc = "semWait" =>
          \/ localThread = "recurse" /\ semaphore = 0
          \/ localThread = "park" /\ semaphore = 1 /\ remaining = 0
    /\ alloc \in Holding /\ allocateLocalMemory =>
          mutex = "main" /\ localThread = "park" /\ semaphore = 0 /\ remaining = 0
    /\ alloc = "join" => localThread \in {"park", "unwind", "ended"} /\ semaphore = 0
    /\ alloc \in Finished /\ allocateLocalMemory =>
          localThread = "ended" /\ semaphore = 0

FillInv ==
    /\ alloc = "allocated" /\ allocateMappedMemory => mappedAllocation # "null"
    /\ alloc = "released" => mappedAllocation = "null"
    /\ \A t \in Fillers :
          /\ filling[t] # "idle" => alloc = "allocated"
          /\ filling[t] = "heap" => allocateHeapMemory /\ slot[t] \in HeapSlots
          /\ filling[t] = "local" => allocateLocalMemory /\ slot[t] \in LocalSlots
          /\ filling[t] = "mapped" => allocateMappedMemory
          /\ filling[t] \in {"idle", "mapped"} => slot[t] = 0

IInv == TypeInvariant /\ HeapInv /\ LocalInv /\ SyncInv /\ FillInv

----------------------------------------------------------------------------

\* What the type invariant and the constants say about the arrays.
LEMMA Arrays ==
    ASSUME TypeInvariant
    PROVE  /\ numMallocs \in Nat /\ numMallocs > 0 /\ HeapSlots = 0 .. numMallocs - 1
           /\ numLocals \in Nat /\ numLocals > 0 /\ LocalSlots = 0 .. numLocals - 1
           /\ next \in HeapSlots /\ remaining \in 0 .. numLocals
           /\ heapAllocations \in [HeapSlots -> Slot]
           /\ localAllocations \in [LocalSlots -> Slot]
           /\ NoHeap \in [HeapSlots -> Slot] /\ NoLocal \in [LocalSlots -> Slot]
           /\ \A i \in HeapSlots : NoHeap[i] = "null"
           /\ \A i \in LocalSlots : NoLocal[i] = "null"
  BY AllocateAssumption
  DEF TypeInvariant, HeapSlots, LocalSlots, NoHeap, NoLocal, Slot

LEMMA InitIInv == Init => IInv
<1> SUFFICES ASSUME Init PROVE IInv
  OBVIOUS
<1>1. TypeInvariant
  <2>1. NoHeap \in [HeapSlots -> Slot] /\ NoLocal \in [LocalSlots -> Slot]
    BY DEF NoHeap, NoLocal, Slot
  <2>2. 0 \in HeapSlots /\ 0 \in 0 .. numLocals /\ 0 \in 0 .. 1
    BY AllocateAssumption DEF HeapSlots
  <2>3. filling \in [Fillers -> {"idle", "heap", "local", "mapped"}]
        /\ slot \in [Fillers -> Nat]
    BY DEF Init
  <2>4. heapArray \in BOOLEAN /\ localArray \in BOOLEAN /\ fatal \in BOOLEAN
    BY Zenon DEF Init
  <2> QED BY <2>1, <2>2, <2>3, <2>4 DEF Init, TypeInvariant, Slot
<1>2. HeapInv /\ LocalInv
  BY DEF Init, HeapInv, LocalInv, Holding, Finished
<1>3. SyncInv /\ FillInv
  BY DEF Init, SyncInv, FillInv, NotStarted, Holding, Finished
<1> QED BY <1>1, <1>2, <1>3 DEF IInv

\* Nothing but the flag changes when the process dies.
LEMMA DieStep == ASSUME IInv, Die PROVE IInv'
  BY DEF IInv, Die, mainVars, heapVars, localVars, syncVars, fillVars,
         TypeInvariant, HeapInv, LocalInv, SyncInv, FillInv, FrameLive

LEMMA CallocHeapStep == ASSUME IInv, CallocHeap, ~Die PROVE IInv'
<1> USE DEF CallocHeap, mainVars, heapVars, localVars, syncVars, fillVars,
   NotStarted, Holding, Finished, IInv
<1>1. TypeInvariant'
  <2>1. next' \in HeapSlots /\ heapAllocations' \in [HeapSlots -> Slot]
    BY Arrays
  <2>2. heapArray' \in BOOLEAN
    BY Zenon DEF TypeInvariant
  <2> QED BY <2>1, <2>2 DEF TypeInvariant
<1>2. HeapInv'
  BY Arrays DEF HeapInv
<1>3. LocalInv'
  BY Arrays DEF LocalInv
<1>4. SyncInv'
  BY Arrays DEF SyncInv, LocalInv
<1>5. FillInv'
  BY Arrays DEF FillInv
<1> QED BY <1>1, <1>2, <1>3, <1>4, <1>5

LEMMA MallocStep == ASSUME IInv, Malloc, ~Die PROVE IInv'
<1>0. /\ alloc = "malloc"
      /\ heapAllocations' = [heapAllocations EXCEPT ![next] = "blank"]
      /\ IF next + 1 < numMallocs
         THEN next' = next + 1 /\ UNCHANGED alloc
         ELSE next' = 0 /\ alloc' = "localArray"
      /\ UNCHANGED <<heapArray, localVars, mappedAllocation, syncVars, fillVars, fatal>>
  BY DEF Malloc
<1> USE DEF IInv
<1>1. TypeInvariant'
  BY <1>0, Arrays DEF TypeInvariant, Slot, localVars, syncVars, fillVars
<1>2. HeapInv'
  <2>1. heapArray /\ allocateHeapMemory
        /\ \A i \in HeapSlots : i < next => heapAllocations[i] # "null"
    BY <1>0 DEF HeapInv
  <2>2. ASSUME NEW i \in HeapSlots, i < next + 1
        PROVE  heapAllocations'[i] # "null"
    <3>1. CASE i = next
      BY <1>0, <3>1, Arrays
    <3>2. CASE i < next
      BY <1>0, <2>1, <3>2, Arrays
    <3> QED BY <2>2, <3>1, <3>2, Arrays
  <2>3. CASE next + 1 < numMallocs
    BY <1>0, <2>1, <2>2, <2>3 DEF HeapInv, heapVars
  <2>4. CASE ~(next + 1 < numMallocs)
    <3>1. \A i \in HeapSlots : heapAllocations'[i] # "null"
      BY <2>2, <2>4, Arrays
    <3> QED BY <1>0, <2>1, <2>4, <3>1 DEF HeapInv
  <2> QED BY <2>3, <2>4
<1>3. LocalInv'
  BY <1>0 DEF LocalInv, localVars, syncVars, Holding, Finished
<1>4. SyncInv'
  BY <1>0 DEF SyncInv, syncVars, NotStarted, Holding, Finished
<1>5. FillInv'
  BY <1>0 DEF FillInv, fillVars
<1> QED BY <1>1, <1>2, <1>3, <1>4, <1>5

LEMMA CallocLocalStep == ASSUME IInv, CallocLocal, ~Die PROVE IInv'
<1> USE DEF CallocLocal, mainVars, heapVars, localVars, syncVars, fillVars,
   NotStarted, Holding, Finished, IInv
<1>1. TypeInvariant'
  BY Arrays DEF TypeInvariant, Slot
<1>2. HeapInv'
  BY Arrays DEF HeapInv
<1>3. LocalInv'
  BY Arrays DEF LocalInv
<1>4. SyncInv'
  BY Arrays DEF SyncInv, LocalInv
<1>5. FillInv'
  BY Arrays DEF FillInv
<1> QED BY <1>1, <1>2, <1>3, <1>4, <1>5

LEMMA CreateLocalThreadStep == ASSUME IInv, CreateLocalThread, ~Die PROVE IInv'
<1> USE DEF CreateLocalThread, mainVars, heapVars, localVars, syncVars, fillVars,
   NotStarted, Holding, Finished, IInv
<1>1. TypeInvariant'
  BY Arrays DEF TypeInvariant, Slot
<1>2. HeapInv'
  BY Arrays DEF HeapInv
<1>3. LocalInv'
  <2>1. localArray /\ localAllocations = NoLocal /\ allocateLocalMemory
    BY DEF LocalInv
  <2>2. \A i \in LocalSlots : localAllocations'[i] # "null" <=> remaining' <= i
    <3>1. remaining' = numLocals /\ localAllocations' = NoLocal
      BY <2>1
    <3> QED BY <3>1, Arrays
  <2> QED BY <2>1, <2>2 DEF LocalInv
<1>4. SyncInv'
  BY Arrays DEF SyncInv, LocalInv
<1>5. FillInv'
  BY Arrays DEF FillInv
<1> QED BY <1>1, <1>2, <1>3, <1>4, <1>5

LEMMA MmapStep == ASSUME IInv, Mmap, ~Die PROVE IInv'
<1> USE DEF Mmap, mainVars, heapVars, localVars, syncVars, fillVars, NotStarted,
   Holding, Finished, IInv
<1>1. TypeInvariant'
  BY Arrays DEF TypeInvariant, Slot
<1>2. HeapInv'
  BY Arrays DEF HeapInv
<1>3. LocalInv'
  BY Arrays DEF LocalInv
<1>4. SyncInv'
  BY Arrays DEF SyncInv, LocalInv
<1>5. FillInv'
  BY Arrays DEF FillInv
<1> QED BY <1>1, <1>2, <1>3, <1>4, <1>5

LEMMA LockMutexStep == ASSUME IInv, LockMutex PROVE IInv'
<1> USE DEF LockMutex, mainVars, heapVars, localVars, syncVars, fillVars,
   NotStarted, Holding, Finished, IInv
<1>1. TypeInvariant'
  BY Arrays DEF TypeInvariant, Slot
<1>2. HeapInv'
  BY Arrays DEF HeapInv
<1>3. LocalInv'
  BY Arrays DEF LocalInv
<1>4. SyncInv'
  BY Arrays DEF SyncInv, LocalInv
<1>5. FillInv'
  BY Arrays DEF FillInv
<1> QED BY <1>1, <1>2, <1>3, <1>4, <1>5

LEMMA SemWaitStep == ASSUME IInv, SemWait PROVE IInv'
<1> USE DEF SemWait, mainVars, heapVars, localVars, syncVars, fillVars, NotStarted,
   Holding, Finished, IInv
<1>1. TypeInvariant'
  BY Arrays DEF TypeInvariant, Slot
<1>2. HeapInv'
  BY Arrays DEF HeapInv
<1>3. LocalInv'
  BY Arrays DEF LocalInv , SyncInv
<1>4. SyncInv'
  BY Arrays DEF SyncInv, LocalInv
<1>5. FillInv'
  BY Arrays DEF FillInv
<1> QED BY <1>1, <1>2, <1>3, <1>4, <1>5

LEMMA PushFrameStep == ASSUME IInv, PushFrame PROVE IInv'
<1> USE DEF PushFrame, mainVars, heapVars, localVars, syncVars, fillVars,
   NotStarted, Holding, Finished, IInv
<1>1. TypeInvariant'
  BY Arrays DEF TypeInvariant, Slot
<1>2. HeapInv'
  BY Arrays DEF HeapInv
<1>3. LocalInv'
  BY Arrays DEF LocalInv, SyncInv
<1>4. SyncInv'
  BY Arrays DEF SyncInv, LocalInv
<1>5. FillInv'
  BY Arrays DEF FillInv
<1> QED BY <1>1, <1>2, <1>3, <1>4, <1>5

LEMMA SemPostStep == ASSUME IInv, SemPost PROVE IInv'
<1> USE DEF SemPost, mainVars, heapVars, localVars, syncVars, fillVars, NotStarted,
   Holding, Finished, IInv
<1>1. TypeInvariant'
  BY Arrays DEF TypeInvariant, Slot, SyncInv
<1>2. HeapInv'
  BY Arrays DEF HeapInv
<1>3. LocalInv'
  BY Arrays DEF LocalInv
<1>4. SyncInv'
  BY Arrays DEF SyncInv, LocalInv
<1>5. FillInv'
  BY Arrays DEF FillInv
<1> QED BY <1>1, <1>2, <1>3, <1>4, <1>5

LEMMA ParkStep == ASSUME IInv, Park PROVE IInv'
<1> USE DEF Park, mainVars, heapVars, localVars, syncVars, fillVars, NotStarted,
   Holding, Finished, IInv
<1>1. TypeInvariant'
  BY Arrays DEF TypeInvariant, Slot
<1>2. HeapInv'
  BY Arrays DEF HeapInv
<1>3. LocalInv'
  BY Arrays DEF LocalInv
<1>4. SyncInv'
  BY Arrays DEF SyncInv, LocalInv
<1>5. FillInv'
  BY Arrays DEF FillInv
<1> QED BY <1>1, <1>2, <1>3, <1>4, <1>5

LEMMA PopFrameStep == ASSUME IInv, PopFrame PROVE IInv'
<1> USE DEF PopFrame, mainVars, heapVars, localVars, syncVars, fillVars, NotStarted,
   Holding, Finished, IInv
<1>1. TypeInvariant'
  BY Arrays DEF TypeInvariant, Slot
<1>2. HeapInv'
  BY Arrays DEF HeapInv
<1>3. LocalInv'
  BY Arrays DEF LocalInv, SyncInv
<1>4. SyncInv'
  BY Arrays DEF SyncInv, LocalInv
<1>5. FillInv'
  BY Arrays DEF FillInv
<1> QED BY <1>1, <1>2, <1>3, <1>4, <1>5

LEMMA BeginReleaseStep == ASSUME IInv, BeginRelease, \A t \in Fillers : filling[t] = "idle" PROVE IInv'
<1> USE DEF BeginRelease, mainVars, heapVars, localVars, syncVars, fillVars,
   NotStarted, Holding, Finished, IInv
<1>1. TypeInvariant'
  BY Arrays DEF TypeInvariant, Slot
<1>2. HeapInv'
  BY Arrays DEF HeapInv
<1>3. LocalInv'
  BY Arrays DEF LocalInv
<1>4. SyncInv'
  BY Arrays DEF SyncInv, LocalInv
<1>5. FillInv'
  BY Arrays DEF FillInv
<1> QED BY <1>1, <1>2, <1>3, <1>4, <1>5

LEMMA FreeHeapStep == ASSUME IInv, FreeHeap PROVE IInv'
<1> USE DEF FreeHeap, mainVars, heapVars, localVars, syncVars, fillVars, NotStarted,
   Holding, Finished, IInv
<1>1. TypeInvariant'
  <2>1. next' \in HeapSlots /\ heapAllocations' \in [HeapSlots -> Slot]
    BY Arrays DEF Slot
  <2>2. heapArray' \in BOOLEAN
    BY Zenon DEF TypeInvariant
  <2> QED BY <2>1, <2>2 DEF TypeInvariant
<1>2. HeapInv'
  BY Arrays DEF HeapInv
<1>3. LocalInv'
  BY Arrays DEF LocalInv
<1>4. SyncInv'
  BY Arrays DEF SyncInv, LocalInv
<1>5. FillInv'
  BY Arrays DEF FillInv
<1> QED BY <1>1, <1>2, <1>3, <1>4, <1>5

LEMMA UnlockMutexStep == ASSUME IInv, UnlockMutex PROVE IInv'
<1> USE DEF UnlockMutex, mainVars, heapVars, localVars, syncVars, fillVars,
   NotStarted, Holding, Finished, IInv
<1>1. TypeInvariant'
  BY Arrays DEF TypeInvariant, Slot
<1>2. HeapInv'
  BY Arrays DEF HeapInv
<1>3. LocalInv'
  BY Arrays DEF LocalInv
<1>4. SyncInv'
  BY Arrays DEF SyncInv, LocalInv
<1>5. FillInv'
  BY Arrays DEF FillInv
<1> QED BY <1>1, <1>2, <1>3, <1>4, <1>5

LEMMA JoinLocalThreadStep == ASSUME IInv, JoinLocalThread PROVE IInv'
<1> USE DEF JoinLocalThread, mainVars, heapVars, localVars, syncVars, fillVars,
   NotStarted, Holding, Finished, IInv
<1>1. TypeInvariant'
  BY Arrays DEF TypeInvariant, Slot
<1>2. HeapInv'
  BY Arrays DEF HeapInv
<1>3. LocalInv'
  BY Arrays DEF LocalInv
<1>4. SyncInv'
  BY Arrays DEF SyncInv, LocalInv
<1>5. FillInv'
  BY Arrays DEF FillInv
<1> QED BY <1>1, <1>2, <1>3, <1>4, <1>5

LEMMA MunmapStep == ASSUME IInv, Munmap PROVE IInv'
<1> USE DEF Munmap, mainVars, heapVars, localVars, syncVars, fillVars, NotStarted,
   Holding, Finished, IInv
<1>1. TypeInvariant'
  BY Arrays DEF TypeInvariant, Slot
<1>2. HeapInv'
  BY Arrays DEF HeapInv
<1>3. LocalInv'
  BY Arrays DEF LocalInv
<1>4. SyncInv'
  BY Arrays DEF SyncInv, LocalInv
<1>5. FillInv'
  BY Arrays DEF FillInv
<1> QED BY <1>1, <1>2, <1>3, <1>4, <1>5

LEMMA BeginFillStep == ASSUME IInv, NEW t \in Fillers, BeginFill(t), alloc = "allocated" PROVE IInv'
<1> USE DEF BeginFill, FirstFill, AfterHeap, AfterLocal, mainVars, heapVars,
   localVars, syncVars, fillVars, NotStarted, Holding, Finished, IInv
<1>1. TypeInvariant'
  BY Arrays DEF TypeInvariant, Slot
<1>2. HeapInv'
  BY Arrays DEF HeapInv
<1>3. LocalInv'
  BY Arrays DEF LocalInv
<1>4. SyncInv'
  BY Arrays DEF SyncInv, LocalInv
<1>5. FillInv'
  BY Arrays DEF FillInv
<1> QED BY <1>1, <1>2, <1>3, <1>4, <1>5

LEMMA FillHeapStep == ASSUME IInv, NEW t \in Fillers, FillHeap(t) PROVE IInv'
<1> USE DEF FillHeap, NextSlot, AfterHeap, AfterLocal, mainVars, heapVars,
   localVars, syncVars, fillVars, NotStarted, Holding, Finished, IInv
<1>1. TypeInvariant'
  <2>1. heapAllocations' \in [HeapSlots -> Slot]
    BY Arrays DEF Slot
  <2>2. /\ filling' \in [Fillers -> {"idle", "heap", "local", "mapped"}]
        /\ slot' \in [Fillers -> Nat]
    BY DEF TypeInvariant
  <2> QED BY <2>1, <2>2 DEF TypeInvariant
<1>2. HeapInv'
  BY Arrays DEF HeapInv, FillInv
<1>3. LocalInv'
  BY Arrays DEF LocalInv
<1>4. SyncInv'
  BY Arrays DEF SyncInv, LocalInv
<1>5. FillInv'
  <2>1. /\ alloc = "allocated" /\ slot[t] \in HeapSlots
        /\ filling \in [Fillers -> {"idle", "heap", "local", "mapped"}]
        /\ slot \in [Fillers -> Nat]
    BY DEF FillInv, TypeInvariant
  <2>2. ASSUME NEW q \in Fillers, q # t
        PROVE  filling'[q] = filling[q] /\ slot'[q] = slot[q]
    BY <2>1, <2>2
  <2>3. CASE slot[t] + 1 < numMallocs
    BY <2>1, <2>2, <2>3, Arrays DEF FillInv
  <2>4. CASE ~(slot[t] + 1 < numMallocs)
    <3>1. slot'[t] = 0 /\ filling'[t] = AfterHeap
      BY <2>1, <2>4
    <3> QED BY <2>1, <2>2, <3>1, Arrays DEF FillInv
  <2> QED BY <2>3, <2>4
<1> QED BY <1>1, <1>2, <1>3, <1>4, <1>5

LEMMA FillLocalStep == ASSUME IInv, NEW t \in Fillers, FillLocal(t) PROVE IInv'
<1> USE DEF FillLocal, NextSlot, AfterHeap, AfterLocal, mainVars, heapVars,
   localVars, syncVars, fillVars, NotStarted, Holding, Finished, IInv
<1>1. TypeInvariant'
  <2>1. localAllocations' \in [LocalSlots -> Slot]
    BY Arrays DEF Slot
  <2>2. /\ filling' \in [Fillers -> {"idle", "heap", "local", "mapped"}]
        /\ slot' \in [Fillers -> Nat]
    BY DEF TypeInvariant
  <2> QED BY <2>1, <2>2 DEF TypeInvariant
<1>2. HeapInv'
  BY Arrays DEF HeapInv
<1>3. LocalInv'
  BY Arrays DEF LocalInv, FillInv
<1>4. SyncInv'
  BY Arrays DEF SyncInv, LocalInv
<1>5. FillInv'
  <2>1. /\ alloc = "allocated" /\ slot[t] \in LocalSlots
        /\ filling \in [Fillers -> {"idle", "heap", "local", "mapped"}]
        /\ slot \in [Fillers -> Nat]
    BY DEF FillInv, TypeInvariant
  <2>2. ASSUME NEW q \in Fillers, q # t
        PROVE  filling'[q] = filling[q] /\ slot'[q] = slot[q]
    BY <2>1, <2>2
  <2>3. CASE slot[t] + 1 < numLocals
    BY <2>1, <2>2, <2>3, Arrays DEF FillInv
  <2>4. CASE ~(slot[t] + 1 < numLocals)
    <3>1. slot'[t] = 0 /\ filling'[t] = AfterLocal
      BY <2>1, <2>4
    <3> QED BY <2>1, <2>2, <3>1, Arrays DEF FillInv
  <2> QED BY <2>3, <2>4
<1> QED BY <1>1, <1>2, <1>3, <1>4, <1>5

LEMMA FillMappedStep == ASSUME IInv, NEW t \in Fillers, FillMapped(t) PROVE IInv'
<1> USE DEF FillMapped, NextSlot, AfterHeap, AfterLocal, mainVars, heapVars,
   localVars, syncVars, fillVars, NotStarted, Holding, Finished, IInv
<1>1. TypeInvariant'
  BY Arrays DEF TypeInvariant, Slot
<1>2. HeapInv'
  BY Arrays DEF HeapInv
<1>3. LocalInv'
  BY Arrays DEF LocalInv
<1>4. SyncInv'
  BY Arrays DEF SyncInv, LocalInv
<1>5. FillInv'
  BY Arrays DEF FillInv
<1> QED BY <1>1, <1>2, <1>3, <1>4, <1>5

LEMMA NextIInv == IInv /\ [Next]_vars => IInv'
<1> SUFFICES ASSUME IInv, [Next]_vars PROVE IInv'
  OBVIOUS
<1>1. CASE Die
  BY <1>1, DieStep
<1>2. CASE AllocateStep /\ ~Die
  BY <1>2, CallocHeapStep, MallocStep, CallocLocalStep, LockMutexStep,
     CreateLocalThreadStep, SemWaitStep, MmapStep DEF AllocateStep
<1>3. CASE LocalStep
  BY <1>3, PushFrameStep, SemPostStep, ParkStep, PopFrameStep DEF LocalStep
<1>4. ASSUME NEW t \in Fillers, alloc = "allocated", BeginFill(t) PROVE IInv'
  BY <1>4, BeginFillStep
<1>5. ASSUME NEW t \in Fillers, FillStep(t) PROVE IInv'
  BY <1>5, FillHeapStep, FillLocalStep, FillMappedStep DEF FillStep
<1>6. CASE (\A t \in Fillers : filling[t] = "idle") /\ BeginRelease
  BY <1>6, BeginReleaseStep
<1>7. CASE ReleaseStep
  BY <1>7, FreeHeapStep, UnlockMutexStep, JoinLocalThreadStep, MunmapStep
  DEF ReleaseStep
<1>8. CASE UNCHANGED vars
  BY <1>8 DEF vars, IInv, mainVars, heapVars, localVars, syncVars, fillVars,
              TypeInvariant, HeapInv, LocalInv, SyncInv, FillInv
<1> QED BY <1>1, <1>2, <1>3, <1>4, <1>5, <1>6, <1>7, <1>8 DEF Next, Done

LEMMA InvariantHolds == Spec => []IInv
  BY InitIInv, NextIInv, PTL DEF Spec

----------------------------------------------------------------------------

\* The type invariant of Allocate, for any sizes, fillers and options.
THEOREM TypeCorrect == Spec => []TypeInvariant
  BY InvariantHolds, PTL DEF IInv

\* The frames of allocateLocalMemory_recurse() outlive the addresses that
\* localAllocations holds, up to the join (allocate.c:275-284).
THEOREM NoDangling == Spec => []NoDanglingLocals
<1>1. IInv => NoDanglingLocals
  <2> SUFFICES ASSUME IInv, NEW i \in LocalSlots, localAllocations[i] # "null"
               PROVE  FrameLive(i) \/ alloc = "join"
    BY DEF NoDanglingLocals
  <2>1. TypeInvariant /\ LocalInv /\ SyncInv /\ i \in Nat
    BY AllocateAssumption DEF IInv, LocalSlots
  <2>2. localAllocations # NoLocal
    BY <2>1, Arrays
  <2>3. alloc = "semWait" \/ (alloc \in Holding /\ allocateLocalMemory) \/ alloc = "join"
    BY <2>1, <2>2 DEF TypeInvariant, LocalInv, Holding, Finished
  <2>4. CASE alloc = "semWait"
    BY <2>1, <2>4 DEF LocalInv, SyncInv, FrameLive
  <2>5. CASE alloc \in Holding /\ allocateLocalMemory
    BY <2>1, <2>5 DEF SyncInv, FrameLive
  <2> QED BY <2>3, <2>4, <2>5
<1> QED BY <1>1, InvariantHolds, PTL

\* What the inductive invariant says of the moments between the calls.
LEMMA AllocatedNow == IInv => AllocatedIsComplete
  BY AllocateAssumption
  DEF IInv, HeapInv, LocalInv, SyncInv, FillInv, AllocatedIsComplete, Holding,
      FrameLive, LocalSlots

LEMMA ReleasedNow == IInv => ReleasedIsComplete
  BY DEF IInv, HeapInv, LocalInv, SyncInv, FillInv, ReleasedIsComplete, Finished

\* ... and of the threads that fill.
LEMMA FillsLiveNow == IInv => FillsLiveMemory
<1> SUFFICES ASSUME IInv, NEW t \in Fillers
             PROVE  /\ filling[t] = "heap" =>
                          heapArray /\ heapAllocations[slot[t]] # "null"
                    /\ filling[t] = "local" =>
                          localArray /\ localAllocations[slot[t]] # "null" /\ FrameLive(slot[t])
                    /\ filling[t] = "mapped" => mappedAllocation # "null"
  BY DEF FillsLiveMemory
<1> USE DEF IInv
<1>1. filling[t] # "idle" => alloc = "allocated"
  BY DEF FillInv
<1>2. ASSUME filling[t] = "heap"
      PROVE  heapArray /\ heapAllocations[slot[t]] # "null"
  BY <1>1, <1>2 DEF FillInv, HeapInv
<1>3. ASSUME filling[t] = "local"
      PROVE  localArray /\ localAllocations[slot[t]] # "null" /\ FrameLive(slot[t])
  <2>1. slot[t] \in LocalSlots /\ alloc \in Holding /\ allocateLocalMemory
    BY <1>1, <1>3 DEF FillInv, Holding
  <2> QED BY <2>1, AllocateAssumption DEF LocalInv, SyncInv, FrameLive, LocalSlots
<1>4. filling[t] = "mapped" => mappedAllocation # "null"
  BY <1>1 DEF FillInv
<1> QED BY <1>2, <1>3, <1>4

\* When allocatePreScanMemory() returns, every allocation exists.
THEOREM AllocatedComplete == Spec => []AllocatedIsComplete
  BY AllocatedNow, InvariantHolds, PTL

\* fillPreScanMemory() only writes to memory that exists, and never skips.
THEOREM FillsLive == Spec => []FillsLiveMemory
  BY FillsLiveNow, InvariantHolds, PTL

\* When releasePreScanMemory() returns, nothing is left of the allocations.
THEOREM ReleasedComplete == Spec => []ReleasedIsComplete
  BY ReleasedNow, InvariantHolds, PTL

\* No slot of localAllocations is set except while main() waits for the
\* semaphore; in particular never after the array was freed.
THEOREM SlotsSetInTime == Spec => NoLateWrite
<1> DEFINE Step == \A i \in LocalSlots :
          localAllocations[i] = "null" /\ localAllocations'[i] # "null"
             => localArray /\ alloc = "semWait"
<1>1. IInv /\ [Next]_vars => [Step]_vars
  <2> SUFFICES ASSUME IInv, Next,
                      NEW i \in LocalSlots,
                      localAllocations[i] = "null", localAllocations'[i] # "null"
               PROVE  localArray /\ alloc = "semWait"
    OBVIOUS
  <2>1. TypeInvariant /\ LocalInv /\ SyncInv
    BY DEF IInv
  <2>2. localAllocations' # localAllocations /\ localAllocations' # NoLocal
    BY <2>1, Arrays
  <2>3. CASE PushFrame
    BY <2>1, <2>3 DEF PushFrame, TypeInvariant, LocalInv, SyncInv, NotStarted,
       Holding, Finished
  <2>4. ASSUME NEW t \in Fillers, FillLocal(t) PROVE FALSE
    BY <2>1, <2>4, Arrays DEF FillLocal
  <2>5. CASE ~PushFrame /\ \A t \in Fillers : ~FillLocal(t)
    BY <2>2, <2>5
    DEF Next, Done, vars, Die, heapVars, localVars, syncVars, fillVars, mainVars,
        AllocateStep, CallocHeap, Malloc, CallocLocal, LockMutex,
        CreateLocalThread, SemWait, Mmap, LocalStep, SemPost, Park, PopFrame,
        BeginFill, FillStep, FillHeap, FillMapped, BeginRelease, ReleaseStep,
        FreeHeap, UnlockMutex, JoinLocalThread, Munmap
  <2> QED BY <2>3, <2>4, <2>5
<1>2. Spec => [][Step]_vars
  BY <1>1, InvariantHolds, PTL DEF Spec
<1> QED BY <1>2 DEF NoLateWrite
----------------------------------------------------------------------------
(* The handshake ends                                                      *)

\* The calls of main() that block: pthread_mutex_lock(), sem_wait() and
\* pthread_join() (allocate.c:159, 171 and 276).
MainWaits ==
    \/ alloc = "lock" /\ mutex # "nobody"
    \/ alloc = "semWait" /\ semaphore = 0
    \/ alloc = "join" /\ localThread # "ended"

\* The local thread exists, has not ended, and is not blocked by the mutex.
LocalGoes ==
    \/ localThread \in {"recurse", "unwind"}
    \/ localThread = "park" /\ mutex = "nobody"

\* main() and the local thread never wait for each other.
NobodyWaitsForMain == MainWaits => LocalGoes

\* The steps main() has still to take in allocate- and releasePreScanMemory.
MainLeft ==
    IF alloc = "heapArray" THEN 2 * numMallocs + 10
    ELSE IF alloc = "malloc" THEN (numMallocs + 9) + (numMallocs - next)
    ELSE IF alloc = "localArray" THEN numMallocs + 9
    ELSE IF alloc = "lock" THEN numMallocs + 8
    ELSE IF alloc = "create" THEN numMallocs + 7
    ELSE IF alloc = "semWait" THEN numMallocs + 6
    ELSE IF alloc = "mmap" THEN numMallocs + 5
    ELSE IF alloc = "allocated" THEN numMallocs + 4
    ELSE IF alloc = "free" THEN 3 + (numMallocs - next)
    ELSE IF alloc = "unlock" THEN 3
    ELSE IF alloc = "join" THEN 2
    ELSE IF alloc = "munmap" THEN 1
    ELSE 0

\* The steps the local thread has still to take, if it is created.
LocalLeft ==
    IF localThread = "none" THEN 2 * numLocals + 4
    ELSE IF localThread = "recurse" THEN (numLocals + 3) + remaining
    ELSE IF localThread = "park" THEN numLocals + 2
    ELSE IF localThread = "unwind" THEN (numLocals - remaining) + 1
    ELSE 0

\* The steps of main() and of the local thread.
Handshake == AllocateStep \/ LocalStep \/ BeginRelease \/ ReleaseStep

\* Each of them leaves fewer steps, of one and not more of the other, unless
\* it is the last one of the process; filling memory leaves both as they are.
HandshakeCloser ==
    /\ Handshake => fatal' \/ MainLeft' + LocalLeft' < MainLeft + LocalLeft
    /\ ~Handshake => UNCHANGED <<MainLeft, LocalLeft>>
    /\ MainLeft' <= MainLeft /\ LocalLeft' <= LocalLeft

\* Once main() has let the local thread go, nobody takes the mutex from it.
LetGo == alloc = "join" /\ localThread = "park" => mutex = "nobody"

LEMMA LetGoStep == IInv /\ LetGo /\ [Next]_vars => LetGo'
<1> SUFFICES ASSUME IInv, LetGo, [Next]_vars, alloc' = "join", localThread' = "park"
             PROVE  mutex' = "nobody"
  BY DEF LetGo
<1>1. SyncInv
  BY DEF IInv
<1>2. CASE UnlockMutex
  BY <1>2 DEF UnlockMutex
<1>3. CASE ~UnlockMutex /\ ~Park
  <2>1. alloc = "join"
    BY <1>3
    DEF Next, Done, vars, Die, heapVars, localVars, syncVars, fillVars, mainVars,
        AllocateStep, CallocHeap, Malloc, CallocLocal, LockMutex,
        CreateLocalThread, SemWait, Mmap, LocalStep, PushFrame, SemPost, PopFrame,
        BeginFill, FillStep, FillHeap, FillLocal, FillMapped, BeginRelease,
        ReleaseStep, FreeHeap, JoinLocalThread, Munmap
  <2>2. localThread \in {"park", "unwind", "ended"}
    BY <1>1, <2>1 DEF SyncInv
  <2>3. UNCHANGED <<mutex, localThread>>
    BY <1>3, <2>1, <2>2
    DEF Next, Done, vars, Die, heapVars, localVars, syncVars, fillVars, mainVars,
        AllocateStep, CallocHeap, Malloc, CallocLocal, LockMutex,
        CreateLocalThread, SemWait, Mmap, LocalStep, PushFrame, SemPost, PopFrame,
        BeginFill, FillStep, FillHeap, FillLocal, FillMapped, BeginRelease,
        ReleaseStep, FreeHeap, JoinLocalThread, Munmap
  <2> QED BY <2>1, <2>3 DEF LetGo
<1>4. CASE Park
  BY <1>4 DEF Park
<1> QED BY <1>2, <1>3, <1>4

LEMMA NoWait == IInv /\ LetGo => NobodyWaitsForMain
  BY DEF IInv, TypeInvariant, SyncInv, LetGo, NobodyWaitsForMain, MainWaits, LocalGoes

\* Whenever main() is blocked, the local thread is not: the mutex is locked by
\* nobody when main() wants it, the semaphore is posted before the thread asks
\* for the mutex, and the mutex is unlocked before main() joins the thread.
THEOREM NoMutualWait == Spec => []NobodyWaitsForMain
<1>1. Init => LetGo
  BY DEF Init, LetGo
<1> QED BY <1>1, LetGoStep, NoWait, InvariantHolds, PTL DEF Spec

\* A step of main() leaves the local thread where it is, or creates it.
LEMMA MainCloser ==
    ASSUME IInv, AllocateStep \/ BeginRelease \/ ReleaseStep, ~fatal'
    PROVE  MainLeft' < MainLeft /\ LocalLeft' <= LocalLeft
<1>1. /\ numMallocs \in Nat \ {0} /\ numLocals \in Nat \ {0}
      /\ next \in 0 .. numMallocs - 1 /\ remaining \in 0 .. numLocals
  BY Arrays DEF IInv
<1>2. CASE CallocHeap \/ Malloc
  BY <1>1, <1>2 DEF CallocHeap, Malloc, Die, MainLeft, LocalLeft, syncVars
<1>3. CASE CallocLocal \/ LockMutex \/ SemWait \/ Mmap
  BY <1>1, <1>3 DEF CallocLocal, LockMutex, SemWait, Mmap, Die, MainLeft, LocalLeft,
     syncVars
<1>4. CASE CreateLocalThread
  <2>1. localThread = "none"
    BY <1>4 DEF IInv, SyncInv, NotStarted, CreateLocalThread
  <2> QED BY <1>1, <1>4, <2>1 DEF CreateLocalThread, Die, MainLeft, LocalLeft
<1>5. CASE BeginRelease \/ FreeHeap
  BY <1>1, <1>5 DEF BeginRelease, FreeHeap, MainLeft, LocalLeft, syncVars
<1>6. CASE UnlockMutex \/ JoinLocalThread \/ Munmap
  BY <1>1, <1>6 DEF UnlockMutex, JoinLocalThread, Munmap, MainLeft, LocalLeft, syncVars
<1> QED BY <1>2, <1>3, <1>4, <1>5, <1>6 DEF AllocateStep, ReleaseStep

LEMMA Lefts == IInv => MainLeft \in Nat /\ LocalLeft \in Nat
<1> SUFFICES ASSUME IInv PROVE MainLeft \in Nat /\ LocalLeft \in Nat
  OBVIOUS
<1>1. /\ numMallocs \in Nat \ {0} /\ numLocals \in Nat \ {0}
      /\ next \in 0 .. numMallocs - 1 /\ remaining \in 0 .. numLocals
  BY Arrays DEF IInv
<1> QED BY <1>1 DEF MainLeft, LocalLeft

\* A step of the local thread leaves main() where it is.
LEMMA LocalCloser ==
    ASSUME IInv, LocalStep
    PROVE  MainLeft' <= MainLeft /\ LocalLeft' < LocalLeft
<1>1. /\ numMallocs \in Nat \ {0} /\ numLocals \in Nat \ {0}
      /\ next \in 0 .. numMallocs - 1 /\ remaining \in 0 .. numLocals
  BY Arrays DEF IInv
<1>2. UNCHANGED mainVars
  BY DEF LocalStep, PushFrame, SemPost, Park, PopFrame
<1>3. MainLeft' <= MainLeft
  <2>1. MainLeft' = MainLeft
    BY <1>2 DEF MainLeft, mainVars
  <2>2. MainLeft \in Nat
    BY Lefts
  <2> QED BY <2>1, <2>2
<1>4. CASE PushFrame \/ SemPost
  BY <1>1, <1>3, <1>4 DEF PushFrame, SemPost, LocalLeft
<1>5. CASE Park \/ PopFrame
  BY <1>1, <1>3, <1>5 DEF Park, PopFrame, LocalLeft
<1> QED BY <1>4, <1>5 DEF LocalStep

LEMMA SmallerSum ==
    ASSUME NEW m \in Nat, NEW n \in Nat, NEW l \in Nat, NEW k \in Nat,
           n <= m, k <= l, n < m \/ k < l
    PROVE  n + k < m + l /\ n <= m /\ k <= l
  OBVIOUS

LEMMA HandshakeStep == IInv /\ IInv' /\ Next => HandshakeCloser
<1> SUFFICES ASSUME IInv, IInv', Next PROVE HandshakeCloser
  OBVIOUS
<1>1. /\ MainLeft \in Nat /\ LocalLeft \in Nat
      /\ (MainLeft \in Nat /\ LocalLeft \in Nat)'
  <2>1. IInv' => (MainLeft \in Nat /\ LocalLeft \in Nat)'
    BY Lefts, PTL
  <2> QED BY Lefts, <2>1
<1>2. CASE Handshake /\ ~fatal'
  <2>1. CASE LocalStep
    <3>1. MainLeft' <= MainLeft /\ LocalLeft' < LocalLeft
      BY <2>1, LocalCloser
    <3>2. LocalLeft' <= LocalLeft
      BY <1>1, <3>1
    <3>3. /\ MainLeft' + LocalLeft' < MainLeft + LocalLeft
          /\ MainLeft' <= MainLeft /\ LocalLeft' <= LocalLeft
      BY <1>1, <3>1, <3>2, SmallerSum, Zenon
    <3> QED BY <1>2, <3>3, Zenon DEF HandshakeCloser
  <2>2. CASE AllocateStep \/ BeginRelease \/ ReleaseStep
    <3>1. MainLeft' < MainLeft /\ LocalLeft' <= LocalLeft
      BY <1>2, <2>2, MainCloser
    <3>2. MainLeft' <= MainLeft
      BY <1>1, <3>1
    <3>3. /\ MainLeft' + LocalLeft' < MainLeft + LocalLeft
          /\ MainLeft' <= MainLeft /\ LocalLeft' <= LocalLeft
      BY <1>1, <3>1, <3>2, SmallerSum, Zenon
    <3> QED BY <1>2, <3>3, Zenon DEF HandshakeCloser
  <2> QED BY <1>2, <2>1, <2>2 DEF Handshake
<1>3. CASE ~Handshake \/ fatal'
  <2>1. UNCHANGED <<mainVars, syncVars>>
    BY <1>3
    DEF Next, Done, vars, Die, heapVars, localVars, syncVars, fillVars, mainVars,
        Handshake, AllocateStep, CallocHeap, Malloc, CallocLocal, LockMutex,
        CreateLocalThread, SemWait, Mmap, LocalStep, PushFrame, SemPost, Park,
        PopFrame, BeginFill, FillStep, FillHeap, FillLocal, FillMapped,
        BeginRelease, ReleaseStep, FreeHeap, UnlockMutex, JoinLocalThread, Munmap
  <2>2. UNCHANGED <<MainLeft, LocalLeft>>
    BY <2>1 DEF mainVars, syncVars, MainLeft, LocalLeft
  <2> QED BY <1>1, <1>3, <2>2 DEF HandshakeCloser
<1> QED BY <1>2, <1>3

\* Allocating and releasing come to their end, for any number of buffers and of
\* stack allocations: main() and the local thread bring a number down that is at
\* most 2 * numMallocs + 2 * numLocals + 14, and whoever fills memory in
\* between does not raise it.
THEOREM HandshakeEnds ==
    Spec => /\ [](MainLeft + LocalLeft \in 0 .. 2 * numMallocs + 2 * numLocals + 14)
            /\ [][HandshakeCloser]_vars
<1>1. IInv => MainLeft + LocalLeft \in 0 .. 2 * numMallocs + 2 * numLocals + 14
  <2> SUFFICES ASSUME IInv
               PROVE  MainLeft + LocalLeft \in 0 .. 2 * numMallocs + 2 * numLocals + 14
    OBVIOUS
  <2>1. /\ numMallocs \in Nat \ {0} /\ numLocals \in Nat \ {0}
        /\ next \in 0 .. numMallocs - 1 /\ remaining \in 0 .. numLocals
    BY Arrays DEF IInv
  <2>2. MainLeft \in 0 .. 2 * numMallocs + 10 /\ LocalLeft \in 0 .. 2 * numLocals + 4
    BY <2>1 DEF MainLeft, LocalLeft
  <2> QED BY <2>1, <2>2
<1>2. IInv /\ IInv' /\ [Next]_vars => [HandshakeCloser]_vars
  BY HandshakeStep
<1> QED BY <1>1, <1>2, InvariantHolds, PTL DEF Spec
=============================================================================
