-------------------------- MODULE SelfScanProofs ---------------------------
(***************************************************************************)
(* Proofs about SelfScan for any number of workers, any sizes and any      *)
(* options: threads use memory and files only while they are there, the    *)
(* scan sees what was prepared, main() leaves nothing behind, nobody waits *)
(* for ever, and main() and its workers come to an end.                    *)
(*                                                                         *)
(* The invariants of the two components are those of AllocateProofs and    *)
(* FilesProofs.  What is left to prove is that the threads call them as    *)
(* they have to be called: where main() is says how far the components     *)
(* are, and which threads there are; and a thread is inside of a function  *)
(* only where its own program calls it.                                    *)
(***************************************************************************)
EXTENDS SelfScan, TLAPS

M == INSTANCE AllocateProofs WITH Fillers <- Threads
F == INSTANCE FilesProofs WITH Readers <- Threads

----------------------------------------------------------------------------
(* The components                                                          *)

\* The assumptions of the components hold.
LEMMA ComponentAssumptions ==
    /\ {allocateHeapMemory, allocateLocalMemory, allocateMappedMemory}
          \subseteq BOOLEAN
    /\ numMallocs \in Nat \ {0}
    /\ numLocals \in Nat \ {0}
    /\ {openFileWithBlockIO, openFileWithStreamIO, openFileWithMapIO,
        blockMayFail, streamMayFail} \subseteq BOOLEAN
    /\ blockSize \in Nat /\ streamSize \in Nat /\ mmapSize \in Nat
    /\ fileBufferSize \in Nat \ {0}
    /\ oneMegabyte \in Nat
  BY SelfScanAssumption

\* A step the memory takes, on its own or for a thread that may call it.
MemoryCall ==
    \/ Memory!AllocateStep \/ Memory!LocalStep
    \/ \E t \in Threads : alloc = "allocated" /\ Memory!BeginFill(t)
    \/ \E t \in Threads : Memory!FillStep(t)
    \/ (\A t \in Threads : filling[t] = "idle") /\ Memory!BeginRelease
    \/ Memory!ReleaseStep

FilesCall ==
    \/ PreScanFiles!OpenStep
    \/ \E t \in Threads : files = "open" /\ PreScanFiles!BeginRead(t)
    \/ \E t \in Threads : PreScanFiles!ReadStep(t)
    \/ (\A t \in Threads : reading[t] = "idle") /\ PreScanFiles!BeginClose
    \/ PreScanFiles!CloseStep

LEMMA SameMemory == MemoryCall => M!Next
  BY DEF MemoryCall, M!Next, M!AllocateStep, M!LocalStep, M!BeginFill, M!FillStep,
     M!BeginRelease, M!ReleaseStep,
     Memory!AllocateStep, Memory!LocalStep, Memory!BeginFill, Memory!FillStep,
        Memory!BeginRelease, Memory!ReleaseStep,
     M!CallocHeap, M!Malloc, M!CallocLocal, M!LockMutex, M!CreateLocalThread,
        M!SemWait, M!Mmap,
     M!PushFrame, M!SemPost, M!Park, M!PopFrame, M!FillHeap, M!FillLocal,
        M!FillMapped, M!FreeHeap, M!UnlockMutex, M!JoinLocalThread, M!Munmap,
     Memory!CallocHeap, Memory!Malloc, Memory!CallocLocal, Memory!LockMutex,
        Memory!CreateLocalThread, Memory!SemWait, Memory!Mmap,
     Memory!PushFrame, Memory!SemPost, Memory!Park, Memory!PopFrame,
        Memory!FillHeap, Memory!FillLocal, Memory!FillMapped, Memory!FreeHeap,
        Memory!UnlockMutex, Memory!JoinLocalThread, Memory!Munmap,
     M!Die, M!mainVars, M!heapVars, M!localVars, M!syncVars, M!fillVars, M!NextSlot,
        M!AfterHeap, M!AfterLocal, M!FirstFill, M!NoHeap, M!NoLocal, M!HeapSlots,
        M!LocalSlots,
     Memory!Die, Memory!mainVars, Memory!heapVars, Memory!localVars,
        Memory!syncVars, Memory!fillVars, Memory!NextSlot, Memory!AfterHeap,
        Memory!AfterLocal, Memory!FirstFill, Memory!NoHeap, Memory!NoLocal,
        Memory!HeapSlots, Memory!LocalSlots
LEMMA SameFiles == FilesCall => F!Next
  BY Zenon DEF FilesCall, F!Next, F!OpenStep, F!BeginRead, F!ReadStep, F!BeginClose,
     F!CloseStep,
     PreScanFiles!OpenStep, PreScanFiles!BeginRead, PreScanFiles!ReadStep,
        PreScanFiles!BeginClose, PreScanFiles!CloseStep,
     F!OpenBlock, F!OpenStream, F!OpenMap, F!Open, F!ReadBlock, F!ReadBlockFails,
        F!SeekBlock, F!SeekBlockFails, F!ReadStream, F!ReadStreamFails,
           F!TestStream, F!RewindStream,
        F!ReadMap, F!CloseBlock, F!CloseStream, F!CloseMap, F!Close, F!Got,
        F!AfterBlock, F!AfterStream, F!FirstRead, F!fileVars,
     PreScanFiles!OpenBlock, PreScanFiles!OpenStream, PreScanFiles!OpenMap,
        PreScanFiles!Open, PreScanFiles!ReadBlock, PreScanFiles!ReadBlockFails,
        PreScanFiles!SeekBlock, PreScanFiles!SeekBlockFails, PreScanFiles!ReadStream,
        PreScanFiles!ReadStreamFails, PreScanFiles!TestStream,
        PreScanFiles!RewindStream, PreScanFiles!ReadMap, PreScanFiles!CloseBlock,
        PreScanFiles!CloseStream, PreScanFiles!CloseMap, PreScanFiles!Close,
        PreScanFiles!Got, PreScanFiles!AfterBlock, PreScanFiles!AfterStream,
        PreScanFiles!FirstRead, PreScanFiles!fileVars

\* Whatever thread calls the memory, and also if the process dies elsewhere,
\* the invariant of Allocate goes on to hold.
LEMMA MemoryStep ==
    ASSUME M!IInv, MemoryCall \/ (UNCHANGED memoryVars /\ fatal' \in {fatal, TRUE})
    PROVE  M!IInv'
<1>1. CASE MemoryCall
  BY <1>1, SameMemory, ComponentAssumptions, M!NextIInv
<1>2. CASE UNCHANGED memoryVars /\ fatal' = fatal
  <2>1. UNCHANGED M!vars
    BY <1>2 DEF memoryVars, M!vars, M!mainVars, M!heapVars, M!localVars, M!syncVars,
       M!fillVars
  <2> QED BY <2>1, ComponentAssumptions, M!NextIInv
<1>3. CASE UNCHANGED memoryVars /\ fatal' = TRUE
  <2>1. M!Die
    BY <1>3 DEF memoryVars, M!Die, M!mainVars, M!heapVars, M!localVars, M!syncVars,
       M!fillVars
  <2> QED BY <2>1, ComponentAssumptions, M!DieStep
<1> QED BY <1>1, <1>2, <1>3

\* The same for Files.
LEMMA FilesStep ==
    ASSUME F!IInv, FilesCall \/ (UNCHANGED filesVars /\ fatal' \in {fatal, TRUE})
    PROVE  F!IInv'
<1>1. CASE FilesCall
  BY <1>1, SameFiles, ComponentAssumptions, F!NextIInv
<1>2. CASE UNCHANGED filesVars /\ fatal' \in {fatal, TRUE}
  <2>1. fatal' \in BOOLEAN /\ F!TypeInvariant
    BY <1>2 DEF F!IInv, F!TypeInvariant
  <2>2. /\ files' = files /\ opened' = opened
        /\ UNCHANGED <<blockOffset, streamOffset, streamEof, reading, numRead,
                       blockTouched, blockWarned, seekFailed>>
    BY <1>2 DEF filesVars
  <2>3. /\ files' \in {"openBlock", "openStream", "openMap", "open",
                       "closeBlock", "closeStream", "closeMap", "closed"}
        /\ opened' \subseteq {"block", "stream", "map"}
    BY <2>1, <2>2 DEF F!TypeInvariant
  <2> QED BY <2>1, <2>2, <2>3, ComponentAssumptions, F!MainStep
<1> QED BY <1>1, <1>2

----------------------------------------------------------------------------
(* What a call leaves alone                                                *)

Allocating == {"heapArray", "malloc", "localArray", "lock", "create", "semWait", "mmap"}
Releasing  == {"free", "unlock", "join", "munmap"}
Opening    == {"openBlock", "openStream", "openMap"}
Closing    == {"closeBlock", "closeStream", "closeMap"}

\* Only the thread that fills moves in its function, and only main() moves
\* through allocation and release.
LEMMA AllocateEffect ==
    ASSUME Memory!AllocateStep
    PROVE  /\ ~fatal /\ fatal' \in {fatal, TRUE} /\ UNCHANGED <<filling, slot>>
           /\ alloc \in Allocating /\ alloc' \in Allocating \cup {"allocated"}
  BY DEF Memory!AllocateStep, Memory!CallocHeap, Memory!Malloc, Memory!CallocLocal,
     Memory!LockMutex,
     Memory!CreateLocalThread, Memory!SemWait, Memory!Mmap, Memory!Die,
        Memory!mainVars, Memory!fillVars, Allocating

LEMMA LocalEffect ==
    ASSUME Memory!LocalStep
    PROVE  /\ ~fatal
           /\ UNCHANGED <<alloc, filling, slot, heapAllocations, mappedAllocation, fatal>>
  BY DEF Memory!LocalStep, Memory!PushFrame, Memory!SemPost, Memory!Park,
     Memory!PopFrame,
     Memory!mainVars, Memory!heapVars, Memory!fillVars

LEMMA BeginFillEffect ==
    ASSUME NEW t \in Threads, Memory!BeginFill(t)
    PROVE  /\ ~fatal /\ filling[t] = "idle"
           /\ filling' = [filling EXCEPT ![t] = Memory!FirstFill]
           /\ slot' = [slot EXCEPT ![t] = 0]
           /\ UNCHANGED <<alloc, heapAllocations, localAllocations, mappedAllocation, fatal>>
  BY DEF Memory!BeginFill, Memory!mainVars, Memory!heapVars, Memory!localVars

LEMMA FillEffect ==
    ASSUME M!IInv, NEW t \in Threads, Memory!FillStep(t)
    PROVE  /\ ~fatal /\ UNCHANGED <<alloc, fatal>>
           /\ filling[t] # "idle"
           /\ \A u \in Threads : u # t => filling'[u] = filling[u]
<1>1. filling \in [Threads -> {"idle", "heap", "local", "mapped"}]
  BY DEF M!IInv, M!TypeInvariant
<1> QED
  BY <1>1 DEF Memory!FillStep, Memory!FillHeap, Memory!FillLocal, Memory!FillMapped,
     Memory!NextSlot,
     Memory!mainVars

LEMMA ReleaseEffect ==
    ASSUME Memory!BeginRelease \/ Memory!ReleaseStep
    PROVE  /\ ~fatal /\ UNCHANGED <<filling, slot, fatal>>
           /\ alloc \in {"allocated"} \cup Releasing
           /\ alloc' \in Releasing \cup {"released"}
           /\ alloc = "allocated" => Memory!BeginRelease
  BY DEF Memory!BeginRelease, Memory!ReleaseStep, Memory!FreeHeap,
     Memory!UnlockMutex, Memory!JoinLocalThread,
     Memory!Munmap, Memory!fillVars, Releasing

\* Which files are open follows from how far main() is.
Opened ==
    /\ files \in {"openStream", "openMap", "open", "closeBlock"} /\ openFileWithBlockIO
          => "block" \in opened
    /\ files \in {"openMap", "open", "closeBlock", "closeStream"} /\ openFileWithStreamIO
          => "stream" \in opened
    /\ files \in {"open", "closeBlock", "closeStream", "closeMap"} /\ openFileWithMapIO
          => "map" \in opened
    /\ files \in {"closeStream", "closeMap", "closed"} => "block" \notin opened
    /\ files \in {"closeMap", "closed"} => "stream" \notin opened
    /\ files = "closed" => "map" \notin opened
    /\ \A t \in Threads :
          /\ reading[t] \in {"read", "lseek"} => openFileWithBlockIO
          /\ reading[t] \in {"fread", "feof", "rewind"} => openFileWithStreamIO
          /\ reading[t] = "map" => openFileWithMapIO

LEMMA OpenEffect ==
    ASSUME Opened, PreScanFiles!OpenStep
    PROVE  /\ ~fatal /\ fatal' \in {fatal, TRUE} /\ UNCHANGED reading
           /\ files \in Opening /\ files' \in Opening \cup {"open"}
           /\ Opened'
  BY DEF PreScanFiles!OpenStep, PreScanFiles!OpenBlock, PreScanFiles!OpenStream,
     PreScanFiles!OpenMap,
     PreScanFiles!Open, PreScanFiles!fileVars, Opening, Opened

LEMMA CloseEffect ==
    ASSUME Opened, PreScanFiles!BeginClose \/ PreScanFiles!CloseStep
    PROVE  /\ ~fatal /\ UNCHANGED <<reading, fatal>>
           /\ files \in {"open"} \cup Closing /\ files' \in Closing \cup {"closed"}
           /\ files = "open" => PreScanFiles!BeginClose
           /\ Opened'
  BY DEF PreScanFiles!BeginClose, PreScanFiles!CloseStep, PreScanFiles!CloseBlock,
     PreScanFiles!CloseStream,
     PreScanFiles!CloseMap, PreScanFiles!Close, Closing, Opened

LEMMA BeginReadEffect ==
    ASSUME F!IInv, Opened, NEW t \in Threads, PreScanFiles!BeginRead(t)
    PROVE  /\ ~fatal /\ fatal' \in {fatal, TRUE} /\ reading[t] = "idle"
           /\ reading' \in {reading, [reading EXCEPT ![t] = PreScanFiles!FirstRead]}
           /\ UNCHANGED <<files, opened, blockTouched, blockWarned>>
           /\ Opened'
<1>1. reading \in [Threads -> F!Phases]
  BY DEF F!IInv, F!TypeInvariant
<1> QED
  BY <1>1 DEF PreScanFiles!BeginRead, PreScanFiles!FirstRead,
     PreScanFiles!AfterBlock, PreScanFiles!AfterStream,
    Opened

LEMMA ReadEffect ==
    ASSUME F!IInv, Opened, NEW t \in Threads, PreScanFiles!ReadStep(t)
    PROVE  /\ ~fatal /\ UNCHANGED <<files, opened, fatal>>
           /\ reading[t] # "idle"
           /\ \A u \in Threads : u # t => reading'[u] = reading[u]
           /\ Opened'
<1>1. reading \in [Threads -> F!Phases]
  BY DEF F!IInv, F!TypeInvariant
<1> USE <1>1 DEF PreScanFiles!AfterBlock, PreScanFiles!AfterStream,
   PreScanFiles!fileVars, Opened
<1>2. CASE PreScanFiles!ReadBlock(t)
  BY <1>2 DEF PreScanFiles!ReadBlock
<1>3. CASE PreScanFiles!ReadBlockFails(t)
  BY <1>3 DEF PreScanFiles!ReadBlockFails
<1>4. CASE PreScanFiles!SeekBlock(t) \/ PreScanFiles!SeekBlockFails(t)
  BY <1>4 DEF PreScanFiles!SeekBlock, PreScanFiles!SeekBlockFails
<1>5. CASE PreScanFiles!ReadStream(t)
  BY <1>5 DEF PreScanFiles!ReadStream
<1>6. CASE PreScanFiles!ReadStreamFails(t)
  BY <1>6 DEF PreScanFiles!ReadStreamFails
<1>7. CASE PreScanFiles!TestStream(t)
  BY <1>7 DEF PreScanFiles!TestStream
<1>8. CASE PreScanFiles!RewindStream(t)
  BY <1>8 DEF PreScanFiles!RewindStream
<1>9. CASE PreScanFiles!ReadMap(t)
  BY <1>9 DEF PreScanFiles!ReadMap
<1> QED BY <1>2, <1>3, <1>4, <1>5, <1>6, <1>7, <1>8, <1>9 DEF PreScanFiles!ReadStep

----------------------------------------------------------------------------
(* The threads                                                             *)

Alone == {"readPreScanFiles", "reading", "fillPreScanMemory", "filling"}
Scan  == {"getMaps", "scanMaps", "readPagemapInfo", "closeThreads"}
After == {"releasePreScanMemory", "closePreScanFiles", "return"}
Steps == {"openPreScanFiles", "allocatePreScanMemory", "createThreads", "join"}
            \cup Alone \cup Scan \cup After

WorkerSteps == {"none", "while", "read", "reading", "fill", "filling", "ended"}

\* Where main() is says how far the components are ...
Position ==
    /\ step \in Steps
    /\ step = "openPreScanFiles" => files \in Opening /\ alloc = "heapArray"
    /\ step = "allocatePreScanMemory" => files = "open" /\ alloc \in Allocating
    /\ step \in Alone \cup Scan \cup {"createThreads", "join"} =>
          files = "open" /\ alloc = "allocated"
    /\ step = "releasePreScanMemory" => files = "open" /\ alloc \in {"allocated"} \cup Releasing
    /\ step = "closePreScanFiles" => files \in {"open"} \cup Closing /\ alloc = "released"
    /\ step = "return" => files = "closed" /\ alloc = "released"

\* ... and which workers there are.
Crew ==
    /\ numThreads \in 0 .. MaxThreads /\ index \in Nat
    /\ step \in Alone => numThreads = 0
    /\ step \notin {"createThreads", "join"} => index = 0
    /\ step = "createThreads" => index <= numThreads /\ numThreads > 0
    /\ step = "join" => index < numThreads
    /\ worker \in [Workers -> WorkerSteps]
    /\ \A w \in Workers :
          /\ step \in {"openPreScanFiles", "allocatePreScanMemory"} \cup Alone => worker[w] = "none"
          /\ step = "createThreads" => (worker[w] = "none" <=> index <= w)
          /\ step \in Scan \cup {"join"} => (worker[w] = "none" <=> numThreads <= w)
          /\ step = "join" /\ w < index => worker[w] = "ended"
          /\ step \in After => worker[w] = IF w < numThreads THEN "ended" ELSE "none"

\* A thread is inside of a function where its own program calls it.
Activity ==
    /\ reading[main] # "idle" => step = "reading"
    /\ filling[main] # "idle" => step = "filling"
    /\ \A w \in Workers : /\ reading[w] # "idle" => worker[w] = "reading"
                          /\ filling[w] # "idle" => worker[w] = "filling"

Inv == M!IInv /\ F!IInv /\ Opened /\ Position /\ Crew /\ Activity

\* A worker that has not ended and may call a component: it is there.
LEMMA WorkersLive ==
    ASSUME Position, Crew, NEW w \in Workers, worker[w] \notin {"none", "ended"}
    PROVE  /\ step \in Scan \cup {"createThreads", "join"}
           /\ files = "open" /\ alloc = "allocated"
  BY DEF Position, Crew, Steps, After

\* Outside of the calls, nobody is inside of a function.
LEMMA NobodyInside ==
    ASSUME Position, Crew, Activity, step \in After
    PROVE  \A t \in Threads : reading[t] = "idle" /\ filling[t] = "idle"
  BY DEF Crew, Activity, Threads, After, Alone

\* The types the effects of the calls refer to.
LEMMA Functions ==
    ASSUME Inv
    PROVE  /\ reading \in [Threads -> F!Phases]
           /\ filling \in [Threads -> {"idle", "heap", "local", "mapped"}]
  BY DEF Inv, F!IInv, F!TypeInvariant, M!IInv, M!TypeInvariant

\* The components, and what is open, in a step that calls at most one of them.
LEMMA ComponentStep ==
    ASSUME Inv, fatal' \in {fatal, TRUE},
           \/ MemoryCall /\ UNCHANGED filesVars
           \/ UNCHANGED <<memoryVars, filesVars>>
    PROVE  M!IInv' /\ F!IInv' /\ Opened'
<1>1. UNCHANGED filesVars
  OBVIOUS
<1>2. Opened'
  BY <1>1 DEF Inv, Opened, filesVars
<1>3. M!IInv'
  BY MemoryStep DEF Inv
<1>4. F!IInv'
  BY <1>1, FilesStep DEF Inv
<1> QED BY <1>2, <1>3, <1>4

LEMMA InitInv == Init => Inv
<1> SUFFICES ASSUME Init PROVE Inv
  OBVIOUS
<1>1. M!IInv
  <2>1. M!Init
    BY DEF Init, Memory!Init, M!Init, Memory!NoHeap, Memory!NoLocal, M!NoHeap,
       M!NoLocal,
       Memory!HeapSlots, Memory!LocalSlots, M!HeapSlots, M!LocalSlots
  <2> QED BY <2>1, ComponentAssumptions, M!InitIInv
<1>2. F!IInv
  <2>1. F!Init
    BY DEF Init, PreScanFiles!Init, F!Init
  <2> QED BY <2>1, ComponentAssumptions, F!InitIInv
<1>3. Opened /\ Position
  BY DEF Init, PreScanFiles!Init, Memory!Init, Opened, Position, Steps, Opening,
     Alone, Scan, After
<1>4. Crew
  <2>1. worker \in [Workers -> WorkerSteps]
    BY DEF Init, WorkerSteps
  <2> QED BY <2>1 DEF Init, Crew, Alone, Scan, After
<1>5. Activity
  BY DEF Init, PreScanFiles!Init, Memory!Init, Activity, Threads
<1> QED BY <1>1, <1>2, <1>3, <1>4, <1>5 DEF Inv

----------------------------------------------------------------------------
(* The steps of main()                                                     *)

LEMMA OpenInv == ASSUME Inv, OpenPreScanFiles, UNCHANGED options PROVE Inv'
<1>1. /\ step = "openPreScanFiles" /\ PreScanFiles!OpenStep
      /\ step' = IF files' = "open" THEN "allocatePreScanMemory" ELSE step
      /\ UNCHANGED <<memoryVars, index, threadVars>>
  BY DEF OpenPreScanFiles
<1>2. /\ ~fatal /\ fatal' \in {fatal, TRUE} /\ UNCHANGED reading
      /\ files \in Opening /\ files' \in Opening \cup {"open"}
      /\ Opened'
  BY <1>1, OpenEffect DEF Inv
<1>3. M!IInv' /\ F!IInv'
  BY <1>1, <1>2, MemoryStep, FilesStep DEF Inv, FilesCall
<1>4. Position' /\ Crew' /\ Activity'
  BY <1>1, <1>2 DEF Inv, Position, Crew, Activity, memoryVars, threadVars, options,
     Steps, Alone, Scan, After, Opening, Allocating
<1> QED BY <1>2, <1>3, <1>4 DEF Inv

LEMMA AllocateInv == ASSUME Inv, AllocatePreScanMemory, UNCHANGED options PROVE Inv'
<1>1. /\ step = "allocatePreScanMemory" /\ Memory!AllocateStep
      /\ step' = IF alloc' # "allocated" THEN step
                 ELSE IF numThreads = 0 THEN "readPreScanFiles" ELSE "createThreads"
      /\ UNCHANGED <<filesVars, index, threadVars>>
  BY DEF AllocatePreScanMemory
<1>2. /\ fatal' \in {fatal, TRUE} /\ UNCHANGED filling
      /\ alloc \in Allocating /\ alloc' \in Allocating \cup {"allocated"}
  BY <1>1, AllocateEffect
<1>3. M!IInv' /\ F!IInv' /\ Opened'
  BY <1>1, <1>2, ComponentStep DEF MemoryCall
<1>4. Position' /\ Activity'
  BY <1>1, <1>2 DEF Inv, Position, Activity, filesVars, threadVars, options,
     Steps, Alone, Scan, After, Allocating
<1>5. Crew'
  BY <1>1, <1>2, SelfScanAssumption DEF Inv, Crew, Workers, threadVars, options,
     Steps, Alone, Scan, After
<1> QED BY <1>3, <1>4, <1>5 DEF Inv

\* main() goes on from one of its positions with finished components.
LEMMA GotoInv ==
    ASSUME Inv, NEW from, NEW to, Goto(from, to), UNCHANGED options,
           \/ from \in Alone \ {"reading", "filling"} /\ to \in Alone \cup Scan
           \/ from = "reading" /\ reading[main] = "idle" /\ to \in Alone \cup Scan
           \/ from = "filling" /\ filling[main] = "idle" /\ to \in Alone \cup Scan
           \/ from \in Scan /\ to \in Scan
    PROVE  Inv'
<1>1. /\ step = from /\ step' = to
      /\ UNCHANGED <<memoryVars, filesVars, fatal, index, threadVars, options>>
  BY DEF Goto
<1>2. M!IInv' /\ F!IInv' /\ Opened'
  BY <1>1, ComponentStep
<1>3. Position' /\ Activity'
  BY <1>1 DEF Inv, Position, Activity, memoryVars, filesVars, threadVars,
     Steps, Alone, Scan
<1>4. Crew'
  BY <1>1, SelfScanAssumption DEF Inv, Crew, Workers, threadVars, options, Alone,
     Scan, After
<1> QED BY <1>2, <1>3, <1>4 DEF Inv

LEMMA ReadInv == ASSUME Inv, ReadPreScanFiles, UNCHANGED options PROVE Inv'
<1>1. CASE \/ ~readFileContents /\ Goto("readPreScanFiles", "fillPreScanMemory")
           \/ reading[main] = "idle" /\ Goto("reading", "fillPreScanMemory")
  BY <1>1, GotoInv DEF Alone
<1>2. CASE /\ step = "readPreScanFiles"
           /\ PreScanFiles!BeginRead(main)
           /\ step' = "reading"
           /\ UNCHANGED <<memoryVars, index, threadVars>>
  <2>1. main \in Threads /\ files = "open"
    BY <1>2 DEF Inv, Position, Threads, Alone
  <2>2. /\ fatal' \in {fatal, TRUE} /\ reading[main] = "idle"
        /\ reading' \in {reading, [reading EXCEPT ![main] = PreScanFiles!FirstRead]}
        /\ UNCHANGED <<files, opened>> /\ Opened'
    BY <1>2, <2>1, BeginReadEffect DEF Inv
  <2>3. M!IInv' /\ F!IInv'
    BY <1>2, <2>1, <2>2, MemoryStep, FilesStep DEF Inv, FilesCall
  <2>4. Position' /\ Crew'
    BY <1>2, <2>2 DEF Inv, Position, Crew, memoryVars, threadVars, options, Steps,
       Alone, Scan, After
  <2>5. \A w \in Workers : reading'[w] = reading[w]
    BY <2>2, Functions, SelfScanAssumption DEF Threads
  <2>6. Activity'
    BY <1>2, <2>5 DEF Inv, Activity, memoryVars, threadVars
  <2> QED BY <2>2, <2>3, <2>4, <2>6 DEF Inv
<1>3. CASE /\ step = "reading"
           /\ PreScanFiles!ReadStep(main)
           /\ UNCHANGED <<memoryVars, mainVars, threadVars>>
  <2>1. main \in Threads
    BY DEF Threads
  <2>2. /\ UNCHANGED <<files, opened, fatal>> /\ Opened'
        /\ \A u \in Threads : u # main => reading'[u] = reading[u]
    BY <1>3, <2>1, ReadEffect DEF Inv
  <2>3. M!IInv' /\ F!IInv'
    BY <1>3, <2>1, <2>2, MemoryStep, FilesStep DEF Inv, FilesCall
  <2>4. Position' /\ Crew'
    BY <1>3, <2>2 DEF Inv, Position, Crew, memoryVars, mainVars, threadVars, options
  <2>5. \A w \in Workers : reading'[w] = reading[w]
    BY <2>2, SelfScanAssumption DEF Threads
  <2>6. Activity'
    BY <1>3, <2>5 DEF Inv, Activity, memoryVars, mainVars, threadVars
  <2> QED BY <2>2, <2>3, <2>4, <2>6 DEF Inv
<1> QED BY <1>1, <1>2, <1>3 DEF ReadPreScanFiles

LEMMA FillInv == ASSUME Inv, FillPreScanMemory, UNCHANGED options PROVE Inv'
<1>1. CASE \/ ~fillAllocatedMemory /\ Goto("fillPreScanMemory", "getMaps")
           \/ filling[main] = "idle" /\ Goto("filling", "getMaps")
  BY <1>1, GotoInv DEF Alone, Scan
<1>2. CASE /\ step = "fillPreScanMemory"
           /\ Memory!BeginFill(main)
           /\ step' = "filling"
           /\ UNCHANGED <<filesVars, index, threadVars>>
  <2>1. main \in Threads /\ alloc = "allocated"
    BY <1>2 DEF Inv, Position, Threads, Alone
  <2>2. /\ filling' = [filling EXCEPT ![main] = Memory!FirstFill]
        /\ UNCHANGED <<alloc, fatal>>
    BY <1>2, <2>1, BeginFillEffect
  <2>3. M!IInv' /\ F!IInv' /\ Opened'
    BY <1>2, <2>1, <2>2, ComponentStep DEF MemoryCall
  <2>4. Position' /\ Crew'
    BY <1>2, <2>2 DEF Inv, Position, Crew, filesVars, threadVars, options, Steps,
       Alone, Scan, After
  <2>5. \A w \in Workers : filling'[w] = filling[w]
    BY <2>2, Functions, SelfScanAssumption DEF Threads
  <2>6. Activity'
    BY <1>2, <2>5 DEF Inv, Activity, filesVars, threadVars
  <2> QED BY <2>3, <2>4, <2>6 DEF Inv
<1>3. CASE /\ step = "filling"
           /\ Memory!FillStep(main)
           /\ UNCHANGED <<filesVars, mainVars, threadVars>>
  <2>1. main \in Threads
    BY DEF Threads
  <2>2. /\ UNCHANGED <<alloc, fatal>>
        /\ \A u \in Threads : u # main => filling'[u] = filling[u]
    BY <1>3, <2>1, FillEffect DEF Inv
  <2>3. M!IInv' /\ F!IInv' /\ Opened'
    BY <1>3, <2>1, <2>2, ComponentStep DEF MemoryCall
  <2>4. Position' /\ Crew'
    BY <1>3, <2>2 DEF Inv, Position, Crew, filesVars, mainVars, threadVars, options
  <2>5. \A w \in Workers : filling'[w] = filling[w]
    BY <2>2, SelfScanAssumption DEF Threads
  <2>6. Activity'
    BY <1>3, <2>5 DEF Inv, Activity, filesVars, mainVars, threadVars
  <2> QED BY <2>3, <2>4, <2>6 DEF Inv
<1> QED BY <1>1, <1>2, <1>3 DEF FillPreScanMemory

\* The steps of createThreads() and closeThreads() call no component.
LEMMA CreateInv == ASSUME Inv, CreateThreads, UNCHANGED options PROVE Inv'
<1>1. /\ step = "createThreads" /\ fatal' \in {fatal, TRUE}
      /\ UNCHANGED <<memoryVars, filesVars, runningThreads, options>>
  BY DEF CreateThreads
<1>2. M!IInv' /\ F!IInv' /\ Opened'
  BY <1>1, ComponentStep
<1>3. numThreads \in 0 .. MaxThreads /\ index \in Nat /\ index <= numThreads /\ MaxThreads \in Nat
  BY <1>1, SelfScanAssumption DEF Inv, Crew
<1>4. CASE /\ index < numThreads
           /\ worker' = [worker EXCEPT ![index] = "while"]
           /\ index' = index + 1
           /\ UNCHANGED step
  <2>1. index \in Workers /\ worker[index] = "none"
    BY <1>1, <1>3, <1>4 DEF Inv, Crew, Workers
  <2>2. Position' /\ Crew'
    BY <1>1, <1>3, <1>4, <2>1 DEF Inv, Position, Crew, Workers, WorkerSteps, memoryVars,
       filesVars, options, Alone, Scan, After
  <2>3. Activity'
    BY <1>1, <1>4, <2>1 DEF Inv, Activity, Crew, memoryVars, filesVars
  <2> QED BY <1>2, <2>2, <2>3 DEF Inv
<1>5. CASE UNCHANGED <<worker, mainVars>>
  BY <1>1, <1>2, <1>5 DEF Inv, Position, Crew, Activity, memoryVars, filesVars,
     mainVars, options
<1>6. CASE /\ ~(index < numThreads)
           /\ step' = "getMaps" /\ index' = 0
           /\ UNCHANGED worker
  <2>1. Position' /\ Activity'
    BY <1>1, <1>6 DEF Inv, Position, Activity, memoryVars, filesVars, Steps, Alone,
       Scan, After
  <2>2. Crew'
    BY <1>1, <1>3, <1>6 DEF Inv, Crew, Workers, options, Alone, Scan, After
  <2> QED BY <1>2, <2>1, <2>2 DEF Inv
<1> QED BY <1>4, <1>5, <1>6 DEF CreateThreads

LEMMA CloseThreadsInv == ASSUME Inv, CloseThreads, UNCHANGED options PROVE Inv'
<1>1. /\ step = "closeThreads"
      /\ step' = IF numThreads > 0 THEN "join" ELSE "releasePreScanMemory"
      /\ UNCHANGED <<memoryVars, filesVars, fatal, index, worker, options>>
  BY DEF CloseThreads
<1>2. M!IInv' /\ F!IInv' /\ Opened'
  BY <1>1, ComponentStep
<1>3. Position' /\ Activity'
  BY <1>1 DEF Inv, Position, Activity, memoryVars, filesVars, Steps, Alone, Scan, After
<1>4. Crew'
  BY <1>1, SelfScanAssumption DEF Inv, Crew, Workers, options, Alone, Scan, After
<1> QED BY <1>2, <1>3, <1>4 DEF Inv

LEMMA JoinInv == ASSUME Inv, JoinThread, UNCHANGED options PROVE Inv'
<1>1. /\ step = "join" /\ worker[index] = "ended"
      /\ IF index + 1 < numThreads
         THEN index' = index + 1 /\ UNCHANGED step
         ELSE step' = "releasePreScanMemory" /\ index' = 0
      /\ UNCHANGED <<memoryVars, filesVars, fatal, threadVars, options>>
  BY DEF JoinThread
<1>2. M!IInv' /\ F!IInv' /\ Opened'
  BY <1>1, ComponentStep
<1>3. Position' /\ Activity'
  BY <1>1 DEF Inv, Position, Activity, memoryVars, filesVars, threadVars, Steps,
     Alone, Scan, After
<1>4. Crew'
  BY <1>1, SelfScanAssumption DEF Inv, Crew, Workers, threadVars, options, Alone,
     Scan, After
<1> QED BY <1>2, <1>3, <1>4 DEF Inv

LEMMA ReleaseInv == ASSUME Inv, ReleasePreScanMemory, UNCHANGED options PROVE Inv'
<1>1. /\ step = "releasePreScanMemory"
      /\ Memory!BeginRelease \/ Memory!ReleaseStep
      /\ step' = IF alloc' = "released" THEN "closePreScanFiles" ELSE step
      /\ UNCHANGED <<filesVars, index, threadVars, options>>
  BY DEF ReleasePreScanMemory
<1>2. /\ UNCHANGED <<filling, fatal>>
      /\ alloc \in {"allocated"} \cup Releasing /\ alloc' \in Releasing \cup {"released"}
  BY <1>1, ReleaseEffect
<1>3. \A t \in Threads : filling[t] = "idle"
  BY <1>1, NobodyInside DEF Inv, After
<1>4. M!IInv' /\ F!IInv' /\ Opened'
  BY <1>1, <1>2, <1>3, ComponentStep DEF MemoryCall
<1>5. Position' /\ Activity'
  BY <1>1, <1>2 DEF Inv, Position, Activity, filesVars, threadVars, Steps, Alone,
     Scan, After, Releasing
<1>6. Crew'
  BY <1>1 DEF Inv, Crew, threadVars, options, Alone, Scan, After
<1> QED BY <1>4, <1>5, <1>6 DEF Inv

LEMMA CloseInv == ASSUME Inv, ClosePreScanFiles, UNCHANGED options PROVE Inv'
<1>1. /\ step = "closePreScanFiles"
      /\ PreScanFiles!BeginClose \/ PreScanFiles!CloseStep
      /\ step' = IF files' = "closed" THEN "return" ELSE step
      /\ UNCHANGED <<memoryVars, index, threadVars, options>>
  BY DEF ClosePreScanFiles
<1>2. /\ UNCHANGED <<reading, fatal>> /\ Opened'
      /\ files \in {"open"} \cup Closing /\ files' \in Closing \cup {"closed"}
  BY <1>1, CloseEffect DEF Inv
<1>3. \A t \in Threads : reading[t] = "idle"
  BY <1>1, NobodyInside DEF Inv, After
<1>4. M!IInv' /\ F!IInv'
  BY <1>1, <1>2, <1>3, MemoryStep, FilesStep DEF Inv, FilesCall
<1>5. Position' /\ Activity'
  BY <1>1, <1>2 DEF Inv, Position, Activity, memoryVars, threadVars, Steps, Alone,
     Scan, After, Closing
<1>6. Crew'
  BY <1>1 DEF Inv, Crew, threadVars, options, Alone, Scan, After
<1> QED BY <1>2, <1>4, <1>5, <1>6 DEF Inv

----------------------------------------------------------------------------
(* The steps of the other threads                                          *)

LEMMA LocalThreadInv == ASSUME Inv, LocalThreadStep PROVE Inv'
<1>1. /\ Memory!LocalStep
      /\ UNCHANGED <<options, filesVars, mainVars, threadVars>>
  BY DEF LocalThreadStep
<1>2. UNCHANGED <<alloc, filling, fatal>>
  BY <1>1, LocalEffect
<1>3. M!IInv' /\ F!IInv' /\ Opened'
  BY <1>1, <1>2, ComponentStep DEF MemoryCall
<1> QED
  BY <1>1, <1>2, <1>3 DEF Inv, Position, Crew, Activity, filesVars, mainVars,
     threadVars, options

\* A worker at one of its positions goes to another one, or stays; main() and
\* the other threads do nothing.
LEMMA WorkerMoves ==
    ASSUME Inv, NEW w \in Workers, NEW to \in WorkerSteps \ {"none"},
           worker[w] \notin {"none", "ended"},
           worker' = [worker EXCEPT ![w] = to],
           UNCHANGED <<options, mainVars, files, alloc>>
    PROVE  Position' /\ Crew'
<1>1. Position'
  BY DEF Inv, Position, mainVars
<1>2. step \in Scan \cup {"createThreads", "join"}
  BY WorkersLive DEF Inv
<1>3. Crew'
  BY <1>2 DEF Inv, Crew, mainVars, options, Alone, Scan, After
<1> QED BY <1>1, <1>3

LEMMA WorkerGotoInv ==
    ASSUME Inv, NEW w \in Workers, NEW from, NEW to,
           WorkerGoto(w, from, to), UNCHANGED options,
           from \in {"while", "read", "fill"}
              \/ (from = "reading" /\ reading[w] = "idle")
              \/ (from = "filling" /\ filling[w] = "idle"),
           to \in WorkerSteps \ {"none"}
    PROVE  Inv'
<1>1. /\ worker[w] = from /\ worker' = [worker EXCEPT ![w] = to]
      /\ UNCHANGED <<memoryVars, filesVars, fatal, mainVars, runningThreads>>
  BY DEF WorkerGoto
<1>2. M!IInv' /\ F!IInv' /\ Opened'
  BY <1>1, ComponentStep
<1>3. Position' /\ Crew'
  BY <1>1, WorkerMoves DEF memoryVars, filesVars
<1>4. Activity'
  BY <1>1 DEF Inv, Activity, Crew, memoryVars, filesVars, mainVars
<1> QED BY <1>2, <1>3, <1>4 DEF Inv

LEMMA WorkerReadInv ==
    ASSUME Inv, NEW w \in Workers, WorkerRead(w), UNCHANGED options
    PROVE  Inv'
<1>0. w \in Threads /\ w # main /\ worker \in [Workers -> WorkerSteps]
  BY SelfScanAssumption DEF Threads, Inv, Crew
<1>1. CASE \/ ~readFileContents /\ WorkerGoto(w, "read", "fill")
           \/ reading[w] = "idle" /\ WorkerGoto(w, "reading", "fill")
  BY <1>1, WorkerGotoInv DEF WorkerSteps
<1>2. CASE /\ worker[w] = "read"
           /\ PreScanFiles!BeginRead(w)
           /\ worker' = [worker EXCEPT ![w] = "reading"]
           /\ UNCHANGED <<memoryVars, mainVars, runningThreads>>
  <2>1. files = "open"
    BY <1>2, WorkersLive DEF Inv
  <2>2. /\ fatal' \in {fatal, TRUE} /\ UNCHANGED <<files, opened>> /\ Opened'
        /\ reading' \in {reading, [reading EXCEPT ![w] = PreScanFiles!FirstRead]}
    BY <1>0, <1>2, BeginReadEffect DEF Inv
  <2>3. M!IInv' /\ F!IInv'
    BY <1>0, <1>2, <2>1, <2>2, MemoryStep, FilesStep DEF Inv, FilesCall
  <2>4. Position' /\ Crew'
    BY <1>2, <2>2, WorkerMoves DEF memoryVars, WorkerSteps
  <2>5. \A t \in Threads : t # w => reading'[t] = reading[t]
    BY <2>2, Functions
  <2>6. Activity'
    BY <1>0, <1>2, <2>5, SelfScanAssumption DEF Inv, Activity, Threads, memoryVars,
       mainVars
  <2> QED BY <2>2, <2>3, <2>4, <2>6 DEF Inv
<1>3. CASE /\ worker[w] = "reading"
           /\ PreScanFiles!ReadStep(w)
           /\ UNCHANGED <<memoryVars, mainVars, threadVars>>
  <2>1. /\ UNCHANGED <<files, opened, fatal>> /\ Opened'
        /\ \A t \in Threads : t # w => reading'[t] = reading[t]
    BY <1>0, <1>3, ReadEffect DEF Inv
  <2>2. M!IInv' /\ F!IInv'
    BY <1>0, <1>3, <2>1, MemoryStep, FilesStep DEF Inv, FilesCall
  <2>3. Position' /\ Crew'
    BY <1>3, <2>1 DEF Inv, Position, Crew, memoryVars, mainVars, threadVars, options
  <2>4. Activity'
    BY <1>0, <1>3, <2>1, SelfScanAssumption DEF Inv, Activity, Threads, memoryVars,
       mainVars, threadVars
  <2> QED BY <2>1, <2>2, <2>3, <2>4 DEF Inv
<1> QED BY <1>1, <1>2, <1>3 DEF WorkerRead

LEMMA WorkerFillInv ==
    ASSUME Inv, NEW w \in Workers, WorkerFill(w), UNCHANGED options
    PROVE  Inv'
<1>0. w \in Threads /\ w # main /\ worker \in [Workers -> WorkerSteps]
  BY SelfScanAssumption DEF Threads, Inv, Crew
<1>1. CASE \/ ~fillAllocatedMemory /\ WorkerGoto(w, "fill", "while")
           \/ filling[w] = "idle" /\ WorkerGoto(w, "filling", "while")
  BY <1>1, WorkerGotoInv DEF WorkerSteps
<1>2. CASE /\ worker[w] = "fill"
           /\ Memory!BeginFill(w)
           /\ worker' = [worker EXCEPT ![w] = "filling"]
           /\ UNCHANGED <<filesVars, mainVars, runningThreads>>
  <2>1. alloc = "allocated"
    BY <1>2, WorkersLive DEF Inv
  <2>2. /\ filling' = [filling EXCEPT ![w] = Memory!FirstFill]
        /\ UNCHANGED <<alloc, fatal>>
    BY <1>0, <1>2, BeginFillEffect
  <2>3. M!IInv' /\ F!IInv' /\ Opened'
    BY <1>0, <1>2, <2>1, <2>2, ComponentStep DEF MemoryCall
  <2>4. Position' /\ Crew'
    BY <1>2, <2>2, WorkerMoves DEF filesVars, WorkerSteps
  <2>5. \A t \in Threads : t # w => filling'[t] = filling[t]
    BY <2>2, Functions
  <2>6. Activity'
    BY <1>0, <1>2, <2>5, SelfScanAssumption DEF Inv, Activity, Threads, filesVars,
       mainVars
  <2> QED BY <2>3, <2>4, <2>6 DEF Inv
<1>3. CASE /\ worker[w] = "filling"
           /\ Memory!FillStep(w)
           /\ UNCHANGED <<filesVars, mainVars, threadVars>>
  <2>1. /\ UNCHANGED <<alloc, fatal>>
        /\ \A t \in Threads : t # w => filling'[t] = filling[t]
    BY <1>0, <1>3, FillEffect DEF Inv
  <2>2. M!IInv' /\ F!IInv' /\ Opened'
    BY <1>0, <1>3, <2>1, ComponentStep DEF MemoryCall
  <2>3. Position' /\ Crew'
    BY <1>3, <2>1 DEF Inv, Position, Crew, filesVars, mainVars, threadVars, options
  <2>4. Activity'
    BY <1>0, <1>3, <2>1, SelfScanAssumption DEF Inv, Activity, Threads, filesVars,
       mainVars, threadVars
  <2> QED BY <2>2, <2>3, <2>4 DEF Inv
<1> QED BY <1>1, <1>2, <1>3 DEF WorkerFill

LEMMA NextInv == Inv /\ [Next]_vars => Inv'
<1> SUFFICES ASSUME Inv, [Next]_vars PROVE Inv'
  OBVIOUS
<1>1. CASE MainStep
  <2>1. CASE GetMaps \/ ScanMaps \/ ReadPagemapInfo
    BY <1>1, <2>1, GotoInv DEF MainStep, GetMaps, ScanMaps, ReadPagemapInfo, Scan
  <2> QED BY <1>1, <2>1, OpenInv, AllocateInv, ReadInv, FillInv, CreateInv,
     CloseThreadsInv, JoinInv,
             ReleaseInv, CloseInv DEF MainStep
<1>2. CASE LocalThreadStep
  BY <1>2, LocalThreadInv
<1>3. ASSUME NEW w \in Workers, WorkerStep(w) PROVE Inv'
  <2>1. CASE WhileRunning(w)
    BY <1>3, <2>1, WorkerGotoInv DEF WorkerStep, WhileRunning, WorkerSteps
  <2> QED BY <1>3, <2>1, WorkerReadInv, WorkerFillInv DEF WorkerStep
<1>4. CASE UNCHANGED vars
  <2>1. M!IInv' /\ F!IInv' /\ Opened'
    BY <1>4, ComponentStep DEF vars
  <2> QED BY <1>4, <2>1 DEF Inv, Position, Crew, Activity, vars, memoryVars,
     filesVars, mainVars, threadVars, options
<1> QED BY <1>1, <1>2, <1>3, <1>4 DEF Next, Returned

\* Every step of every thread preserves the invariant.
LEMMA InvariantHolds == Spec => []Inv
  BY InitInv, NextInv, PTL DEF Spec

----------------------------------------------------------------------------

\* No thread fills memory that is not there (allocate.c:214-251), for any
\* number of workers.
THEOREM FillsLive == Spec => []FillsLiveMemory
<1>1. Inv => M!FillsLiveMemory
  BY ComponentAssumptions, M!FillsLiveNow DEF Inv
<1>2. M!FillsLiveMemory => FillsLiveMemory
  BY DEF FillsLiveMemory, M!FillsLiveMemory, Memory!FillsLiveMemory, M!FrameLive,
     Memory!FrameLive
<1> QED BY <1>1, <1>2, InvariantHolds, PTL

\* No thread reads a file that is not open: the ASSERTs of readPreScanFiles()
\* hold (files.c:113, 139, 159 and 160).
THEOREM ReadsOpen == Spec => []ReadsOpenFiles
<1>1. Inv => ReadsOpenFiles
  <2> SUFFICES ASSUME Inv, NEW t \in Threads, reading[t] # "idle"
               PROVE  /\ reading[t] \in {"read", "lseek"} => "block" \in opened
                      /\ reading[t] \in {"fread", "feof", "rewind"} => "stream" \in opened
                      /\ reading[t] = "map" => "map" \in opened
    BY DEF ReadsOpenFiles
  <2>1. CASE t = main
    BY <2>1 DEF Inv, Activity, Position, Opened, Alone
  <2>2. CASE t \in Workers
    BY <2>2, WorkersLive DEF Inv, Activity, Opened
  <2> QED BY <2>1, <2>2 DEF Threads
<1> QED BY <1>1, InvariantHolds, PTL

\* The process that is scanned is the one that was prepared.
THEOREM ScanPrepared == Spec => []ScanSeesPreparedProcess
<1>1. Inv => ScanSeesPreparedProcess
  <2> SUFFICES ASSUME Inv, step \in {"getMaps", "scanMaps", "readPagemapInfo"}
               PROVE  /\ alloc = "allocated" /\ Memory!AllocatedIsComplete
                      /\ files = "open"
                      /\ openFileWithBlockIO => "block" \in opened
                      /\ openFileWithStreamIO => "stream" \in opened
                      /\ openFileWithMapIO => "map" \in opened
    BY DEF ScanSeesPreparedProcess
  <2>1. alloc = "allocated" /\ files = "open"
    BY DEF Inv, Position, Scan
  <2>2. M!AllocatedIsComplete
    BY ComponentAssumptions, M!AllocatedNow DEF Inv
  <2>3. Memory!AllocatedIsComplete
    BY <2>2 DEF Memory!AllocatedIsComplete, M!AllocatedIsComplete, Memory!HeapSlots,
       M!HeapSlots,
       Memory!LocalSlots, M!LocalSlots, Memory!FrameLive, M!FrameLive
  <2> QED BY <2>1, <2>3 DEF Inv, Opened
<1> QED BY <1>1, InvariantHolds, PTL

\* main() returns when every thread has ended and everything is given back.
THEOREM Clean == Spec => []CleanExit
<1>1. Inv => CleanExit
  <2> SUFFICES ASSUME Inv, step = "return"
               PROVE  /\ \A w \in 0 .. numThreads - 1 : worker[w] = "ended"
                      /\ Memory!ReleasedIsComplete /\ alloc = "released"
                      /\ opened = {}
    BY DEF CleanExit
  <2>1. alloc = "released" /\ files = "closed"
    BY DEF Inv, Position
  <2>2. M!ReleasedIsComplete
    BY ComponentAssumptions, M!ReleasedNow DEF Inv
  <2>3. Memory!ReleasedIsComplete
    BY <2>2 DEF Memory!ReleasedIsComplete, M!ReleasedIsComplete, Memory!NoHeap,
       M!NoHeap,
       Memory!NoLocal, M!NoLocal, Memory!HeapSlots, M!HeapSlots, Memory!LocalSlots,
          M!LocalSlots
  <2>4. opened = {}
    BY <2>1 DEF Inv, Opened, F!IInv, F!TypeInvariant
  <2>5. \A w \in 0 .. numThreads - 1 : worker[w] = "ended"
    BY SelfScanAssumption DEF Inv, Crew, After, Workers
  <2> QED BY <2>1, <2>3, <2>4, <2>5
<1> QED BY <1>1, InvariantHolds, PTL

----------------------------------------------------------------------------
(* Without workers                                                         *)

\* What main() has filled when it is inside of fillPreScanMemory(): all that
\* is before the part, and the slot, it has come to.
FilledSoFar ==
    /\ allocateHeapMemory => \A i \in Memory!HeapSlots :
          \/ filling[main] = "heap" /\ slot[main] <= i
          \/ heapAllocations[i] = "filled"
    /\ allocateLocalMemory => \A i \in Memory!LocalSlots :
          \/ filling[main] = "heap"
          \/ filling[main] = "local" /\ slot[main] <= i
          \/ localAllocations[i] = "filled"
    /\ allocateMappedMemory =>
          filling[main] # "idle" \/ mappedAllocation = "filled"

FillDone ==
    fillAllocatedMemory =>
       /\ step = "filling" => FilledSoFar
       /\ step \in {"getMaps", "scanMaps"} => AllFilled

ReadDone ==
    readFileContents /\ openFileWithBlockIO /\ ~blockWarned =>
       \/ step = "reading" /\ (fatal \/ reading[main] \in {"read", "lseek"})
       \/ step \notin {"reading", "fillPreScanMemory", "filling", "getMaps", "scanMaps"}
       \/ blockTouched = 0 .. blockSize - 1

Prepared == numThreads = 0 => FillDone /\ ReadDone

LEMMA NoWorkers ==
    ASSUME Inv, numThreads = 0, NEW w \in Workers
    PROVE  worker[w] = "none"
  BY SelfScanAssumption DEF Inv, Position, Crew, Workers, Steps, After

\* Steps that are neither in the memory nor in the files.
LEMMA PreparedGoto ==
    ASSUME Prepared, numThreads = 0, numThreads' = 0,
           UNCHANGED <<memoryVars, filesVars, fatal, options>>,
           step # "reading" \/ step' = "reading" \/ reading[main] = "idle",
           step # "filling" \/ step' = "filling" \/ filling[main] = "idle",
           step' \in {"reading", "filling"} => step' = step,
           fillAllocatedMemory /\ step' \in {"getMaps", "scanMaps"} =>
              step \in {"filling", "getMaps", "scanMaps"},
           readFileContents /\ step' \in {"fillPreScanMemory", "getMaps", "scanMaps"} =>
              (step = "reading" /\ ~fatal) \/ step \in {"fillPreScanMemory", "filling", "getMaps", "scanMaps"}
    PROVE  Prepared'
<1>1. FillDone /\ ReadDone
  BY DEF Prepared
<1>2. ReadDone'
  BY <1>1 DEF ReadDone, filesVars, options
<1>3. FillDone'
  BY <1>1 DEF FillDone, FilledSoFar, AllFilled, memoryVars, options,
     Memory!HeapSlots, Memory!LocalSlots
<1> QED BY <1>2, <1>3 DEF Prepared

\* The types of what the memory holds, when it is allocated.
LEMMA Allocated ==
    ASSUME Inv, alloc = "allocated"
    PROVE  /\ numMallocs \in Nat \ {0} /\ numLocals \in Nat \ {0}
           /\ Memory!HeapSlots = 0 .. numMallocs - 1 /\ Memory!LocalSlots = 0 .. numLocals - 1
           /\ heapAllocations \in [Memory!HeapSlots -> {"null", "blank", "filled"}]
           /\ localAllocations \in [Memory!LocalSlots -> {"null", "blank", "filled"}]
           /\ filling \in [Threads -> {"idle", "heap", "local", "mapped"}]
           /\ slot \in [Threads -> Nat]
           /\ allocateLocalMemory => \A i \in Memory!LocalSlots : localAllocations[i] # "null"
           /\ ~Memory!PushFrame
<1>1. M!TypeInvariant /\ M!LocalInv /\ M!SyncInv
  BY DEF Inv, M!IInv
<1>2. ~Memory!PushFrame
  BY <1>1, SelfScanAssumption DEF M!SyncInv, M!Holding, Memory!PushFrame
<1> QED
  BY <1>1, <1>2, SelfScanAssumption
  DEF M!TypeInvariant, M!LocalInv, M!Holding, Memory!HeapSlots, M!HeapSlots,
     Memory!LocalSlots, M!LocalSlots, M!Slot

\* The local thread does not write while the memory is in use.
LEMMA PreparedLocal ==
    ASSUME Inv, Prepared, numThreads = 0, LocalThreadStep
    PROVE  Prepared'
<1>1. /\ Memory!LocalStep /\ UNCHANGED <<options, filesVars, mainVars, threadVars>>
  BY DEF LocalThreadStep
<1>2. UNCHANGED <<alloc, filling, slot, heapAllocations, mappedAllocation, fatal>>
  BY <1>1, LocalEffect
<1>3. FillDone /\ ReadDone
  BY DEF Prepared
<1>4. ReadDone'
  BY <1>1, <1>2, <1>3 DEF ReadDone, filesVars, options, mainVars
<1>5. CASE alloc = "allocated"
  <2>1. ~Memory!PushFrame
    BY <1>5, Allocated
  <2>2. localAllocations' = localAllocations
    BY <1>1, <2>1 DEF Memory!LocalStep, Memory!SemPost, Memory!Park,
       Memory!PopFrame, Memory!localVars
  <2>3. FillDone'
    BY <1>1, <1>2, <1>3, <2>2
    DEF FillDone, FilledSoFar, AllFilled, options, mainVars, Memory!HeapSlots,
       Memory!LocalSlots
  <2> QED BY <1>4, <2>3 DEF Prepared
<1>6. CASE alloc # "allocated"
  <2>1. step \notin Alone \cup Scan
    BY <1>6 DEF Inv, Position
  <2>2. FillDone'
    BY <1>1, <2>1 DEF FillDone, mainVars, Alone, Scan
  <2> QED BY <1>4, <2>2 DEF Prepared
<1> QED BY <1>5, <1>6

\* main() fills slot by slot, and array by array.
LEMMA PreparedFill ==
    ASSUME Inv, Prepared, numThreads = 0, FillPreScanMemory, UNCHANGED options
    PROVE  Prepared'
<1>0. FillDone /\ ReadDone /\ main \in Threads
  BY DEF Prepared, Threads
<1>1. CASE \/ ~fillAllocatedMemory /\ Goto("fillPreScanMemory", "getMaps")
           \/ filling[main] = "idle" /\ Goto("filling", "getMaps")
  BY <1>1, PreparedGoto DEF Goto, options
<1>2. CASE /\ step = "fillPreScanMemory"
           /\ Memory!BeginFill(main)
           /\ step' = "filling"
           /\ UNCHANGED <<filesVars, index, threadVars>>
  <2>1. alloc = "allocated"
    BY <1>2 DEF Inv, Position, Alone
  <2>2. /\ filling' = [filling EXCEPT ![main] = Memory!FirstFill]
        /\ slot' = [slot EXCEPT ![main] = 0]
        /\ UNCHANGED <<heapAllocations, localAllocations, mappedAllocation, fatal>>
    BY <1>0, <1>2, BeginFillEffect
  <2>3. filling'[main] = Memory!FirstFill /\ slot'[main] = 0
    BY <1>0, <2>1, <2>2, Allocated
  <2>4. FilledSoFar'
    BY <2>1, <2>2, <2>3, Allocated, SelfScanAssumption
    DEF FilledSoFar, Memory!FirstFill, Memory!AfterHeap, Memory!AfterLocal,
       Memory!HeapSlots, Memory!LocalSlots
  <2>5. FillDone' /\ ReadDone'
    BY <1>0, <1>2, <2>2, <2>4 DEF FillDone, ReadDone, filesVars, options
  <2> QED BY <2>5 DEF Prepared
<1>3. CASE /\ step = "filling"
           /\ Memory!FillStep(main)
           /\ UNCHANGED <<filesVars, mainVars, threadVars>>
  <2>1. alloc = "allocated"
    BY <1>3 DEF Inv, Position, Alone
  <2>2. fatal' = fatal
    BY <1>0, <1>3, FillEffect DEF Inv
  <2>3. ASSUME fillAllocatedMemory PROVE FilledSoFar'
    <3>0. FilledSoFar
      BY <1>0, <1>3, <2>3 DEF FillDone
    <3> USE <1>0, <2>1, <3>0, Allocated, SelfScanAssumption
        DEF FilledSoFar, Memory!NextSlot, Memory!AfterHeap, Memory!AfterLocal,
           Memory!HeapSlots, Memory!LocalSlots,
            Memory!heapVars, Memory!localVars
    <3>1. CASE Memory!FillHeap(main)
      BY <3>1 DEF Memory!FillHeap
    <3>2. CASE Memory!FillLocal(main)
      BY <3>2 DEF Memory!FillLocal
    <3>3. CASE Memory!FillMapped(main)
      BY <3>3 DEF Memory!FillMapped
    <3> QED BY <1>3, <3>1, <3>2, <3>3 DEF Memory!FillStep
  <2>4. FillDone' /\ ReadDone'
    BY <1>0, <1>3, <2>2, <2>3 DEF FillDone, ReadDone, filesVars, mainVars, options
  <2> QED BY <2>4 DEF Prepared
<1> QED BY <1>1, <1>2, <1>3 DEF FillPreScanMemory

\* main() leaves the loop over the --block file when it was read.
LEMMA PreparedRead ==
    ASSUME Inv, Prepared, numThreads = 0, ReadPreScanFiles, UNCHANGED options
    PROVE  Prepared'
<1>0. FillDone /\ ReadDone /\ main \in Threads
  BY DEF Prepared, Threads
<1>1. CASE \/ ~readFileContents /\ Goto("readPreScanFiles", "fillPreScanMemory")
           \/ reading[main] = "idle" /\ Goto("reading", "fillPreScanMemory")
  BY <1>1, PreparedGoto DEF Goto, options
<1>2. CASE /\ step = "readPreScanFiles"
           /\ PreScanFiles!BeginRead(main)
           /\ step' = "reading"
           /\ UNCHANGED <<memoryVars, index, threadVars>>
  <2>1. reading \in [Threads -> F!Phases]
    BY Functions
  <2>2. fatal' \/ (reading' = [reading EXCEPT ![main] = PreScanFiles!FirstRead])
    BY <1>2 DEF PreScanFiles!BeginRead
  <2>3. ReadDone'
    BY <1>0, <1>2, <2>1, <2>2 DEF ReadDone, PreScanFiles!FirstRead
  <2> QED BY <1>2, <2>3 DEF Prepared, FillDone
<1>3. CASE /\ step = "reading"
           /\ PreScanFiles!ReadStep(main)
           /\ UNCHANGED <<memoryVars, mainVars, threadVars>>
  <2>1. /\ reading \in [Threads -> F!Phases] /\ F!IInv
        /\ ~fatal /\ fatal' = fatal
    BY <1>0, <1>3, Functions, ReadEffect DEF Inv
  <2>2. reading[main] = "lseek" /\ ~blockWarned => blockTouched = 0 .. blockSize - 1
    BY <1>0, <2>1 DEF F!IInv, F!Unread
  <2>3. ASSUME readFileContents, openFileWithBlockIO, ~blockWarned', reading'[main] \notin {"read", "lseek"}
        PROVE  blockTouched' = 0 .. blockSize - 1
    <3> USE <1>0, <1>3, <2>1, <2>2, <2>3 DEF ReadDone
    <3>1. CASE PreScanFiles!ReadBlock(main)
      BY <3>1 DEF PreScanFiles!ReadBlock
    <3>2. CASE PreScanFiles!ReadBlockFails(main)
      BY <3>2 DEF PreScanFiles!ReadBlockFails
    <3>3. CASE PreScanFiles!SeekBlock(main) \/ PreScanFiles!SeekBlockFails(main)
      BY <3>3 DEF PreScanFiles!SeekBlock, PreScanFiles!SeekBlockFails
    <3>4. CASE PreScanFiles!ReadStream(main)
      BY <3>4 DEF PreScanFiles!ReadStream
    <3>5. CASE PreScanFiles!ReadStreamFails(main)
      BY <3>5 DEF PreScanFiles!ReadStreamFails
    <3>6. CASE PreScanFiles!TestStream(main)
      BY <3>6 DEF PreScanFiles!TestStream
    <3>7. CASE PreScanFiles!RewindStream(main)
      BY <3>7 DEF PreScanFiles!RewindStream
    <3>8. CASE PreScanFiles!ReadMap(main)
      BY <3>8 DEF PreScanFiles!ReadMap
    <3> QED BY <3>1, <3>2, <3>3, <3>4, <3>5, <3>6, <3>7, <3>8 DEF PreScanFiles!ReadStep
  <2>4. ReadDone' /\ FillDone'
    BY <1>3, <2>3 DEF ReadDone, FillDone, mainVars, options
  <2> QED BY <2>4 DEF Prepared
<1> QED BY <1>1, <1>2, <1>3 DEF ReadPreScanFiles

LEMMA InitPrepared == Init => Prepared
  BY DEF Init, Prepared, FillDone, ReadDone

LEMMA NextPrepared == Inv /\ Prepared /\ [Next]_vars => Prepared'
<1> SUFFICES ASSUME Inv, Prepared, [Next]_vars PROVE Prepared'
  OBVIOUS
<1>0. numThreads' = numThreads
  BY DEF Next, MainStep, LocalThreadStep, WorkerStep, Returned, options, vars
<1>1. CASE numThreads # 0
  BY <1>0, <1>1 DEF Prepared
<1>2. CASE numThreads = 0 /\ MainStep
  <2>1. UNCHANGED options /\ FillDone /\ ReadDone
    BY <1>2 DEF MainStep, Prepared
  <2>2. CASE OpenPreScanFiles
    BY <2>1, <2>2 DEF OpenPreScanFiles, Prepared, FillDone, ReadDone
  <2>3. CASE AllocatePreScanMemory
    BY <2>1, <2>3 DEF AllocatePreScanMemory, Prepared, FillDone, ReadDone
  <2>4. CASE CreateThreads
    BY <1>2, <2>4 DEF CreateThreads, Inv, Crew
  <2>5. CASE GetMaps \/ ScanMaps \/ ReadPagemapInfo
    BY <1>0, <1>2, <2>1, <2>5, PreparedGoto DEF GetMaps, ScanMaps, ReadPagemapInfo, Goto
  <2>6. CASE CloseThreads \/ JoinThread \/ ReleasePreScanMemory \/ ClosePreScanFiles
    BY <2>6 DEF CloseThreads, JoinThread, ReleasePreScanMemory, ClosePreScanFiles,
       Prepared, FillDone, ReadDone
  <2> QED BY <1>2, <2>1, <2>2, <2>3, <2>4, <2>5, <2>6, PreparedRead,
     PreparedFill DEF MainStep
<1>3. CASE numThreads = 0 /\ LocalThreadStep
  BY <1>3, PreparedLocal
<1>4. ASSUME NEW w \in Workers, numThreads = 0, WorkerStep(w) PROVE FALSE
  BY <1>4, NoWorkers DEF WorkerStep, WhileRunning, WorkerRead, WorkerFill, WorkerGoto
<1>5. CASE UNCHANGED vars
  BY <1>5 DEF vars, options, memoryVars, filesVars, mainVars, Prepared, FillDone,
     ReadDone, FilledSoFar, AllFilled,
     Memory!HeapSlots, Memory!LocalSlots
<1> QED BY <1>1, <1>2, <1>3, <1>4, <1>5 DEF Next, Returned

\* Without --threads, everything that is to be filled is filled and everything
\* that is to be read is read when the scan begins.
THEOREM PreparedWhenAlone == Spec => []PreparedAlone
<1>1. Inv /\ Prepared => PreparedAlone
  BY DEF Prepared, FillDone, ReadDone, PreparedAlone, FilledBeforeScan, ReadBeforeScan
<1>2. Spec => []Prepared
  BY InitPrepared, NextPrepared, InvariantHolds, PTL DEF Spec
<1> QED BY <1>1, <1>2, InvariantHolds, PTL

----------------------------------------------------------------------------
(* Everybody comes to an end                                               *)

\* The slots a thread has still to fill, and the most there can be.
FillLeft(t) ==
    IF filling[t] = "heap" THEN (numLocals + 1) + (numMallocs - slot[t])
    ELSE IF filling[t] = "local" THEN 1 + (numLocals - slot[t])
    ELSE IF filling[t] = "mapped" THEN 1
    ELSE 0
FillTop == numLocals + numMallocs + 2

\* What a reader counts at most in the loop of the --stream file.
StreamLimit == oneMegabyte + fileBufferSize

\* The calls a thread has still to make in readPreScanFiles(), and the most
\* there can be.
MapTop    == mmapSize + 2
StreamTop == MapTop + 4 + 2 * StreamLimit
ReadTop   == StreamTop + blockSize + 2
ReadLeft(t) ==
    IF reading[t] = "read"
      THEN (StreamTop + 1) + (IF numRead[t] < blockSize THEN blockSize - numRead[t] ELSE 0)
    ELSE IF reading[t] = "lseek" THEN StreamTop
    ELSE IF reading[t] = "fread" THEN (MapTop + 2) + 2 * (StreamLimit - numRead[t])
    ELSE IF reading[t] = "feof"
      THEN (MapTop + (IF streamEof THEN 1 ELSE 3)) + 2 * (StreamLimit - numRead[t])
    ELSE IF reading[t] = "rewind" THEN MapTop
    ELSE IF reading[t] = "map"
      THEN IF numRead[t] < mmapSize THEN 1 + (mmapSize - numRead[t]) ELSE 1
    ELSE 0

\* The constants in these numbers.
LEMMA Sizes ==
    /\ MaxThreads \in Nat
    /\ numMallocs \in Nat /\ numMallocs > 0 /\ numLocals \in Nat /\ numLocals > 0
    /\ blockSize \in Nat /\ streamSize \in Nat /\ mmapSize \in Nat
    /\ fileBufferSize \in Nat /\ fileBufferSize > 0 /\ oneMegabyte \in Nat
  BY SelfScanAssumption

LEMMA FillLeftIs ==
    ASSUME Inv, NEW t \in Threads
    PROVE  FillLeft(t) \in Nat /\ FillLeft(t) < FillTop
<1>1. /\ filling[t] = "heap" => slot[t] \in 0 .. numMallocs - 1
      /\ filling[t] = "local" => slot[t] \in 0 .. numLocals - 1
  BY DEF Inv, M!IInv, M!FillInv, M!HeapSlots, M!LocalSlots
<1> QED BY <1>1, Sizes DEF FillLeft, FillTop

LEMMA ReadLeftIs ==
    ASSUME Inv, NEW t \in Threads
    PROVE  ReadLeft(t) \in Nat /\ ReadLeft(t) < ReadTop
<1>1. numRead[t] \in Nat
  BY DEF Inv, F!IInv, F!TypeInvariant
<1>2. reading[t] \in {"fread", "feof"} => numRead[t] <= StreamLimit
  BY DEF Inv, F!IInv, F!StreamReadBounded, StreamLimit
<1>3. PICK n \in Nat : n = numRead[t]
  BY <1>1
<1>4. PICK l \in Nat : l = StreamLimit
  BY Sizes DEF StreamLimit
<1> QED BY <1>2, <1>3, <1>4, Sizes DEF ReadLeft, ReadTop, StreamTop, MapTop

\* A step of fillPreScanMemory() leaves fewer slots to fill, and others theirs.
LEMMA FillCloser ==
    ASSUME Inv, NEW t \in Threads, Memory!FillStep(t)
    PROVE  /\ FillLeft(t)' < FillLeft(t)
           /\ \A u \in Threads : u # t => FillLeft(u)' = FillLeft(u)
<1>1. /\ filling[t] = "heap" => slot[t] \in 0 .. numMallocs - 1
      /\ filling[t] = "local" => slot[t] \in 0 .. numLocals - 1
      /\ slot \in [Threads -> Nat]
      /\ filling \in [Threads -> {"idle", "heap", "local", "mapped"}]
  BY DEF Inv, M!IInv, M!TypeInvariant, M!FillInv, M!HeapSlots, M!LocalSlots
<1>2. \A u \in Threads : u # t => filling'[u] = filling[u] /\ slot'[u] = slot[u]
  BY <1>1 DEF Memory!FillStep, Memory!FillHeap, Memory!FillLocal, Memory!FillMapped,
     Memory!NextSlot
<1>3. \A u \in Threads : u # t => FillLeft(u)' = FillLeft(u)
  BY <1>2 DEF FillLeft
<1>4. CASE Memory!FillHeap(t)
  <2>1. filling[t] = "heap"
    BY <1>4 DEF Memory!FillHeap
  <2>2. CASE slot[t] + 1 < numMallocs
    <3>1. slot'[t] = slot[t] + 1 /\ filling'[t] = "heap"
      BY <1>1, <1>4, <2>1, <2>2 DEF Memory!FillHeap, Memory!NextSlot
    <3> QED BY <1>1, <1>3, <2>1, <3>1, Sizes DEF FillLeft
  <2>3. CASE ~(slot[t] + 1 < numMallocs)
    <3>1. slot'[t] = 0 /\ filling'[t] \in {"idle", "local", "mapped"}
      BY <1>1, <1>4, <2>3 DEF Memory!FillHeap, Memory!NextSlot, Memory!AfterHeap,
         Memory!AfterLocal
    <3> QED BY <1>1, <1>3, <2>1, <3>1, Sizes DEF FillLeft
  <2> QED BY <2>2, <2>3
<1>5. CASE Memory!FillLocal(t)
  <2>1. filling[t] = "local"
    BY <1>5 DEF Memory!FillLocal
  <2>2. CASE slot[t] + 1 < numLocals
    <3>1. slot'[t] = slot[t] + 1 /\ filling'[t] = "local"
      BY <1>1, <1>5, <2>1, <2>2 DEF Memory!FillLocal, Memory!NextSlot
    <3> QED BY <1>1, <1>3, <2>1, <3>1, Sizes DEF FillLeft
  <2>3. CASE ~(slot[t] + 1 < numLocals)
    <3>1. slot'[t] = 0 /\ filling'[t] \in {"idle", "mapped"}
      BY <1>1, <1>5, <2>3 DEF Memory!FillLocal, Memory!NextSlot, Memory!AfterLocal
    <3> QED BY <1>1, <1>3, <2>1, <3>1, Sizes DEF FillLeft
  <2> QED BY <2>2, <2>3
<1>6. CASE Memory!FillMapped(t)
  <2>1. filling[t] = "mapped" /\ filling'[t] = "idle"
    BY <1>1, <1>6 DEF Memory!FillMapped
  <2> QED BY <1>3, <2>1 DEF FillLeft
<1> QED BY <1>4, <1>5, <1>6 DEF Memory!FillStep

\* A step of readPreScanFiles() leaves fewer calls to make, and the others no
\* more than they had, but for rewind(): it clears the end-of-file flag that
\* another reader is about to test (files.c:154-155).
LEMMA ReadCloser ==
    ASSUME Inv, ~streamMayFail, NEW t \in Threads, PreScanFiles!ReadStep(t)
    PROVE  /\ ReadLeft(t)' < ReadLeft(t)
           /\ \A u \in Threads : u # t =>
                 reading[t] = "rewind" \/ ReadLeft(u)' <= ReadLeft(u)
<1>1. /\ reading \in [Threads -> F!Phases] /\ numRead \in [Threads -> Nat]
      /\ streamEof \in BOOLEAN /\ blockOffset \in 0 .. blockSize
      /\ streamOffset \in 0 .. streamSize
  BY DEF Inv, F!IInv, F!TypeInvariant
<1>2. \A u \in Threads : reading[u] \in {"fread", "feof"} => numRead[u] <= StreamLimit
  BY DEF Inv, F!IInv, F!StreamReadBounded, StreamLimit
<1>3. \A u \in Threads : u # t => reading'[u] = reading[u] /\ numRead'[u] = numRead[u]
  BY <1>1 DEF PreScanFiles!ReadStep, PreScanFiles!ReadBlock,
     PreScanFiles!ReadBlockFails,
     PreScanFiles!SeekBlock, PreScanFiles!SeekBlockFails, PreScanFiles!ReadStream,
        PreScanFiles!ReadStreamFails,
     PreScanFiles!TestStream, PreScanFiles!RewindStream, PreScanFiles!ReadMap
<1>4. reading[t] = "rewind" \/ (streamEof => streamEof')
  BY <1>1 DEF PreScanFiles!ReadStep, PreScanFiles!ReadBlock,
     PreScanFiles!ReadBlockFails,
     PreScanFiles!SeekBlock, PreScanFiles!SeekBlockFails, PreScanFiles!ReadStream,
        PreScanFiles!ReadStreamFails,
     PreScanFiles!TestStream, PreScanFiles!RewindStream, PreScanFiles!ReadMap
<1>5. \A u \in Threads : u # t => reading[t] = "rewind" \/ ReadLeft(u)' <= ReadLeft(u)
  <2> SUFFICES ASSUME NEW u \in Threads, u # t, reading[t] # "rewind"
               PROVE  ReadLeft(u)' <= ReadLeft(u)
    OBVIOUS
  <2>1. reading'[u] = reading[u] /\ numRead'[u] = numRead[u] /\ (streamEof => streamEof')
    BY <1>3, <1>4
  <2>2. numRead[u] \in Nat /\ StreamLimit \in Nat /\ MapTop \in Nat /\ StreamTop \in Nat
    BY <1>1, Sizes DEF StreamLimit, MapTop, StreamTop
  <2> QED BY <2>1, <2>2, Sizes DEF ReadLeft
<1>6. PICK n \in Nat : n = numRead[t]
  BY <1>1
<1>7. PICK l \in Nat : l = StreamLimit
  BY Sizes DEF StreamLimit
<1>8. PICK m \in Nat : m = MapTop /\ m = mmapSize + 2
  BY Sizes DEF MapTop
<1>9. PICK s \in Nat : s = StreamTop /\ s = (m + 4) + 2 * l
  <2>1. StreamTop = (m + 4) + 2 * l
    BY <1>7, <1>8 DEF StreamTop
  <2>2. (m + 4) + 2 * l \in Nat
    OBVIOUS
  <2> QED BY <2>1, <2>2
<1>10. CASE PreScanFiles!ReadBlock(t)
  <2>0. PreScanFiles!Got(blockOffset, blockSize) \in Nat
    BY <1>1, Sizes DEF PreScanFiles!Got
  <2>1. PICK r \in Nat : r = PreScanFiles!Got(blockOffset, blockSize)
    BY <2>0
  <2>2. /\ reading[t] = "read" /\ numRead'[t] = n + r
        /\ reading'[t] = IF r > 0 /\ n + r < blockSize THEN "read" ELSE "lseek"
    BY <1>1, <1>6, <1>10, <2>1 DEF PreScanFiles!ReadBlock
  <2> QED BY <1>5, <1>6, <1>9, <2>2, Sizes DEF ReadLeft
<1>11. CASE \/ PreScanFiles!ReadBlockFails(t)
            \/ PreScanFiles!SeekBlock(t) \/ PreScanFiles!SeekBlockFails(t)
  <2>1. \/ reading[t] = "read" /\ reading'[t] = "lseek"
        \/ /\ reading[t] = "lseek" /\ numRead'[t] = 0
           /\ reading'[t] \in {"fread", "map", "idle"}
    BY <1>1, <1>11 DEF PreScanFiles!ReadBlockFails, PreScanFiles!SeekBlock,
       PreScanFiles!SeekBlockFails,
       PreScanFiles!AfterBlock, PreScanFiles!AfterStream
  <2> QED BY <1>5, <1>6, <1>7, <1>8, <1>9, <2>1, Sizes DEF ReadLeft
<1>12. CASE PreScanFiles!ReadStream(t)
  <2>0. PreScanFiles!Got(streamOffset, streamSize) \in Nat
    BY <1>1, Sizes DEF PreScanFiles!Got
  <2>1. PICK r \in Nat : r = PreScanFiles!Got(streamOffset, streamSize)
    BY <2>0
  <2>2. /\ reading[t] = "fread" /\ numRead'[t] = n + r /\ reading'[t] = "feof"
        /\ r = 0 => streamEof' = TRUE
    BY <1>1, <1>6, <1>12, <2>1, Sizes DEF PreScanFiles!ReadStream
  <2>3. n + r <= l
    <3>1. n <= oneMegabyte /\ r <= fileBufferSize
      BY <1>1, <1>6, <2>1, <2>2, Sizes DEF PreScanFiles!Got, Inv, F!IInv,
         F!StreamReadBounded
    <3> QED BY <1>7, <3>1, Sizes DEF StreamLimit
  <2> QED BY <1>5, <1>6, <1>7, <1>8, <2>2, <2>3 DEF ReadLeft
<1>13. CASE PreScanFiles!TestStream(t)
  <2>1. /\ reading[t] = "feof" /\ numRead'[t] = n /\ streamEof' = streamEof
        /\ reading'[t] \in {"fread", "rewind"}
        /\ streamEof => reading'[t] = "rewind"
    BY <1>1, <1>6, <1>13 DEF PreScanFiles!TestStream
  <2>2. n <= l
    BY <1>2, <1>6, <1>7, <2>1
  <2> QED BY <1>1, <1>5, <1>6, <1>7, <1>8, <2>1, <2>2 DEF ReadLeft
<1>14. CASE PreScanFiles!RewindStream(t)
  <2>1. reading[t] = "rewind" /\ numRead'[t] = 0 /\ reading'[t] \in {"map", "idle"}
    BY <1>1, <1>14 DEF PreScanFiles!RewindStream, PreScanFiles!AfterStream
  <2> QED BY <1>5, <1>8, <2>1, Sizes DEF ReadLeft
<1>15. CASE PreScanFiles!ReadMap(t)
  <2>1. /\ reading[t] = "map"
        /\ \/ n < mmapSize /\ numRead'[t] = n + 1 /\ reading'[t] = "map"
           \/ reading'[t] = "idle"
    BY <1>1, <1>6, <1>15 DEF PreScanFiles!ReadMap
  <2> QED BY <1>5, <1>6, <2>1, Sizes DEF ReadLeft
<1>16. ~PreScanFiles!ReadStreamFails(t)
  BY DEF PreScanFiles!ReadStreamFails
<1> QED BY <1>10, <1>11, <1>12, <1>13, <1>14, <1>15, <1>16 DEF PreScanFiles!ReadStep

\* The steps of main() and the local thread in the calls that main() makes.
LEMMA SameHandshake ==
    Memory!AllocateStep \/ Memory!LocalStep \/ Memory!BeginRelease \/ Memory!ReleaseStep
       => M!Handshake
  BY DEF M!Handshake, M!AllocateStep, M!LocalStep, M!BeginRelease, M!ReleaseStep,
     Memory!AllocateStep, Memory!LocalStep, Memory!BeginRelease, Memory!ReleaseStep,
     M!CallocHeap, M!Malloc, M!CallocLocal, M!LockMutex, M!CreateLocalThread,
        M!SemWait, M!Mmap,
     M!PushFrame, M!SemPost, M!Park, M!PopFrame, M!FreeHeap, M!UnlockMutex,
        M!JoinLocalThread, M!Munmap,
     Memory!CallocHeap, Memory!Malloc, Memory!CallocLocal, Memory!LockMutex,
        Memory!CreateLocalThread, Memory!SemWait, Memory!Mmap,
     Memory!PushFrame, Memory!SemPost, Memory!Park, Memory!PopFrame, Memory!FreeHeap,
        Memory!UnlockMutex, Memory!JoinLocalThread, Memory!Munmap,
     M!Die, M!mainVars, M!heapVars, M!localVars, M!syncVars, M!fillVars, M!NoHeap,
        M!NoLocal, M!HeapSlots, M!LocalSlots,
     Memory!Die, Memory!mainVars, Memory!heapVars, Memory!localVars,
        Memory!syncVars, Memory!fillVars, Memory!NoHeap, Memory!NoLocal,
        Memory!HeapSlots, Memory!LocalSlots

\* The steps main() and the local thread have left in them.
HandshakeLeft == M!MainLeft + M!LocalLeft

LEMMA HandshakeLeftIs == ASSUME M!IInv PROVE HandshakeLeft \in Nat
<1>1. M!MainLeft \in Nat /\ M!LocalLeft \in Nat
  BY ComponentAssumptions, M!Lefts
<1>2. \A a, b \in Nat : a + b \in Nat
  OBVIOUS
<1> QED BY <1>1, <1>2, Zenon DEF HandshakeLeft

\* What main() calls there leaves fewer steps ...
LEMMA HandshakeCloser ==
    ASSUME M!IInv, M!IInv',
           \/ Memory!AllocateStep \/ Memory!LocalStep \/ Memory!ReleaseStep
           \/ (\A t \in Threads : filling[t] = "idle") /\ Memory!BeginRelease,
           ~fatal'
    PROVE  HandshakeLeft' < HandshakeLeft
<1>1. M!Handshake
  BY SameHandshake
<1>2. M!Next
  BY SameMemory DEF MemoryCall
<1>3. M!HandshakeCloser
  BY <1>2, ComponentAssumptions, M!HandshakeStep
<1> QED BY <1>1, <1>3, Zenon DEF M!HandshakeCloser, HandshakeLeft

\* ... and what a thread does when it fills memory leaves them as they are.
LEMMA HandshakeSame ==
    ASSUME \/ \E t \in Threads : Memory!BeginFill(t) \/ Memory!FillStep(t)
           \/ UNCHANGED memoryVars
    PROVE  UNCHANGED HandshakeLeft
<1>1. UNCHANGED <<alloc, next, localThread, remaining>>
  BY DEF Memory!BeginFill, Memory!FillStep, Memory!FillHeap, Memory!FillLocal,
     Memory!FillMapped, Memory!mainVars, Memory!syncVars, memoryVars
<1> QED BY <1>1 DEF HandshakeLeft, M!MainLeft, M!LocalLeft

\* The files main() has still to open and to close.
FilesLeft ==
    IF files = "openBlock" THEN 8
    ELSE IF files = "openStream" THEN 7
    ELSE IF files = "openMap" THEN 6
    ELSE IF files = "open" THEN 5
    ELSE IF files = "closeBlock" THEN 4
    ELSE IF files = "closeStream" THEN 3
    ELSE IF files = "closeMap" THEN 2
    ELSE 1

LEMMA FilesCloser ==
    ASSUME \/ PreScanFiles!OpenStep \/ PreScanFiles!BeginClose
           \/ PreScanFiles!CloseStep,
           ~fatal'
    PROVE  FilesLeft' < FilesLeft
  BY DEF FilesLeft, PreScanFiles!OpenStep, PreScanFiles!OpenBlock,
     PreScanFiles!OpenStream,
     PreScanFiles!OpenMap, PreScanFiles!Open, PreScanFiles!BeginClose,
     PreScanFiles!CloseStep, PreScanFiles!CloseBlock, PreScanFiles!CloseStream,
     PreScanFiles!CloseMap, PreScanFiles!Close

\* The other calls main() has still to make.
CallsTop == ((MaxThreads + 7) + FillTop) + ReadTop
CallsLeft ==
    IF step \in {"openPreScanFiles", "allocatePreScanMemory"} THEN CallsTop + (MaxThreads + 2)
    ELSE IF step = "readPreScanFiles" THEN CallsTop + 1
    ELSE IF step = "reading" THEN ((MaxThreads + 7) + FillTop) + ReadLeft(main)
    ELSE IF step = "fillPreScanMemory" THEN (MaxThreads + 6) + FillTop
    ELSE IF step = "filling" THEN (MaxThreads + 5) + FillLeft(main)
    ELSE IF step = "createThreads" THEN (MaxThreads + 5) + (numThreads - index)
    ELSE IF step = "getMaps" THEN MaxThreads + 4
    ELSE IF step = "scanMaps" THEN MaxThreads + 3
    ELSE IF step = "readPagemapInfo" THEN MaxThreads + 2
    ELSE IF step = "closeThreads" THEN MaxThreads + 1
    ELSE IF step = "join" THEN numThreads - index
    ELSE 0

\* All steps that main() and the local thread have still to take.
MainAhead == (CallsLeft + FilesLeft) + HandshakeLeft

LEMMA Tops == FillTop \in Nat /\ ReadTop \in Nat /\ MaxThreads \in Nat
  BY Sizes DEF FillTop, ReadTop, StreamTop, MapTop, StreamLimit

LEMMA CallsLeftIs == ASSUME Inv PROVE CallsLeft \in Nat
<1>1. main \in Threads
  BY DEF Threads
<1>2. PICK f \in Nat : f = FillLeft(main)
  BY <1>1, FillLeftIs
<1>3. PICK r \in Nat : r = ReadLeft(main)
  BY <1>1, ReadLeftIs
<1>4. /\ numThreads \in Nat /\ index \in Nat
      /\ step = "createThreads" => index <= numThreads
      /\ step = "join" => index < numThreads
  BY Tops DEF Inv, Crew
<1> QED BY <1>2, <1>3, <1>4, Tops DEF CallsLeft, CallsTop

LEMMA MainAheadIs == ASSUME Inv PROVE MainAhead \in Nat
<1>1. CallsLeft \in Nat /\ FilesLeft \in Nat /\ HandshakeLeft \in Nat
  BY CallsLeftIs, HandshakeLeftIs DEF FilesLeft, Inv
<1>2. \A a, b, c \in Nat : (a + b) + c \in Nat
  OBVIOUS
<1> QED BY <1>1, <1>2, Zenon DEF MainAhead

\* A sum is smaller when one summand is, and the others are not larger.
LEMMA SmallerSum ==
    ASSUME NEW a \in Nat, NEW b \in Nat, NEW c \in Nat,
           NEW d \in Nat, NEW e \in Nat, NEW f \in Nat,
           d <= a, e <= b, f <= c, d < a \/ e < b \/ f < c
    PROVE  (d + e) + f < (a + b) + c
  OBVIOUS

LEMMA PartsAre == Inv => CallsLeft \in Nat /\ FilesLeft \in Nat /\ HandshakeLeft \in Nat
<1> SUFFICES ASSUME Inv
             PROVE  CallsLeft \in Nat /\ FilesLeft \in Nat /\ HandshakeLeft \in Nat
  OBVIOUS
<1>1. FilesLeft \in Nat
  BY DEF FilesLeft
<1> QED BY <1>1, CallsLeftIs, HandshakeLeftIs DEF Inv

LEMMA FillsAre == Inv => \A t \in Threads : FillLeft(t) \in Nat /\ FillLeft(t) < FillTop
  BY FillLeftIs

LEMMA ReadsAre == Inv => \A t \in Threads : ReadLeft(t) \in Nat /\ ReadLeft(t) < ReadTop
  BY ReadLeftIs

\* A step is one forward when it is in one of the three parts.
LEMMA AheadByParts ==
    ASSUME Inv, Inv',
           CallsLeft' = CallsLeft \/ CallsLeft' < CallsLeft,
           FilesLeft' = FilesLeft \/ FilesLeft' < FilesLeft,
           HandshakeLeft' = HandshakeLeft \/ HandshakeLeft' < HandshakeLeft,
           CallsLeft' < CallsLeft \/ FilesLeft' < FilesLeft \/ HandshakeLeft' < HandshakeLeft
    PROVE  MainAhead' < MainAhead
<1>1. /\ CallsLeft \in Nat /\ FilesLeft \in Nat /\ HandshakeLeft \in Nat
      /\ (CallsLeft \in Nat /\ FilesLeft \in Nat /\ HandshakeLeft \in Nat)'
  <2>1. Inv' => (CallsLeft \in Nat /\ FilesLeft \in Nat /\ HandshakeLeft \in Nat)'
    BY PartsAre, PTL
  <2> QED BY PartsAre, <2>1
<1>2. \A x, y \in Nat : x = y \/ x < y => x <= y
  OBVIOUS
<1>3. CallsLeft' <= CallsLeft /\ FilesLeft' <= FilesLeft /\ HandshakeLeft' <= HandshakeLeft
  BY <1>1, <1>2, Zenon
<1> QED BY <1>1, <1>3, SmallerSum, Zenon DEF MainAhead

\* A step that only main() is concerned with.
LEMMA CallsForward ==
    ASSUME Inv, Inv', UNCHANGED <<files, HandshakeLeft>>, CallsLeft' < CallsLeft
    PROVE  MainAhead' < MainAhead
<1>1. FilesLeft' = FilesLeft
  BY DEF FilesLeft
<1> QED BY <1>1, AheadByParts

\* main() goes forward with each of its calls before the scan ...
LEMMA OpenForward ==
    ASSUME Inv, Inv', OpenPreScanFiles, ~fatal' PROVE MainAhead' < MainAhead
<1>1. /\ step = "openPreScanFiles" /\ step' \in {"openPreScanFiles", "allocatePreScanMemory"}
      /\ PreScanFiles!OpenStep /\ UNCHANGED memoryVars
  BY DEF OpenPreScanFiles
<1>2. FilesLeft' < FilesLeft /\ HandshakeLeft' = HandshakeLeft
  BY <1>1, FilesCloser, HandshakeSame
<1>3. CallsLeft' = CallsLeft
  BY <1>1 DEF CallsLeft
<1> QED BY <1>2, <1>3, AheadByParts

LEMMA AllocateForward ==
    ASSUME Inv, Inv', AllocatePreScanMemory, UNCHANGED options, ~fatal'
    PROVE  MainAhead' < MainAhead
<1>1. /\ step = "allocatePreScanMemory"
      /\ step' \in {"allocatePreScanMemory", "readPreScanFiles", "createThreads"}
      /\ Memory!AllocateStep /\ UNCHANGED <<filesVars, index, options>>
  BY DEF AllocatePreScanMemory
<1>2. FilesLeft' = FilesLeft
  BY <1>1 DEF FilesLeft, filesVars
<1>3. HandshakeLeft' < HandshakeLeft
  BY <1>1, HandshakeCloser DEF Inv
<1>4. /\ index = 0 /\ index' = 0 /\ numThreads' = numThreads
      /\ numThreads \in Nat /\ numThreads <= MaxThreads
  BY <1>1, Tops DEF Inv, Crew, options
<1>5. CallsLeft' = CallsLeft \/ CallsLeft' < CallsLeft
  BY <1>1, <1>4, Tops DEF CallsLeft, CallsTop
<1> QED BY <1>2, <1>3, <1>5, AheadByParts

LEMMA ReadForward ==
    ASSUME Inv, Inv', ReadPreScanFiles, ~streamMayFail, ~fatal'
    PROVE  MainAhead' < MainAhead
<1>1. main \in Threads
  BY DEF Threads
<1>2. /\ ReadLeft(main) \in Nat /\ ReadLeft(main) < ReadTop
      /\ (ReadLeft(main) \in Nat /\ ReadLeft(main) < ReadTop)'
  <2>1. Inv' => (\A t \in Threads : ReadLeft(t) \in Nat /\ ReadLeft(t) < ReadTop)'
    BY ReadsAre, PTL
  <2> QED BY <1>1, <2>1, ReadsAre
<1>3. UNCHANGED <<files, HandshakeLeft>>
  <2>1. UNCHANGED files
    BY <1>1, BeginReadEffect, ReadEffect DEF ReadPreScanFiles, Goto, filesVars, Inv
  <2>2. UNCHANGED memoryVars
    BY DEF ReadPreScanFiles, Goto
  <2> QED BY <2>1, <2>2, HandshakeSame
<1>4. CallsLeft' < CallsLeft
  <2>1. CASE step = "readPreScanFiles" /\ step' \in {"fillPreScanMemory", "reading"}
    BY <1>2, <2>1, Tops DEF CallsLeft, CallsTop
  <2>2. CASE step = "reading" /\ step' = "fillPreScanMemory"
    BY <1>2, <2>2, Tops DEF CallsLeft
  <2>3. CASE step = "reading" /\ PreScanFiles!ReadStep(main) /\ UNCHANGED mainVars
    <3>1. step' = "reading"
      BY <2>3 DEF mainVars
    <3>2. ReadLeft(main)' < ReadLeft(main)
      BY <1>1, <2>3, ReadCloser
    <3> QED BY <1>2, <2>3, <3>1, <3>2, Tops DEF CallsLeft
  <2> QED BY <2>1, <2>2, <2>3 DEF ReadPreScanFiles, Goto
<1> QED BY <1>3, <1>4, CallsForward

LEMMA FillForward ==
    ASSUME Inv, Inv', FillPreScanMemory PROVE MainAhead' < MainAhead
<1>1. main \in Threads
  BY DEF Threads
<1>2. /\ FillLeft(main) \in Nat /\ FillLeft(main) < FillTop
      /\ (FillLeft(main) \in Nat /\ FillLeft(main) < FillTop)'
  <2>1. Inv' => (\A t \in Threads : FillLeft(t) \in Nat /\ FillLeft(t) < FillTop)'
    BY FillsAre, PTL
  <2> QED BY <1>1, <2>1, FillsAre
<1>3. UNCHANGED <<files, HandshakeLeft>>
  <2>1. UNCHANGED files
    BY DEF FillPreScanMemory, Goto, filesVars
  <2>2. (\E t \in Threads : Memory!BeginFill(t) \/ Memory!FillStep(t)) \/ UNCHANGED memoryVars
    BY <1>1 DEF FillPreScanMemory, Goto
  <2> QED BY <2>1, <2>2, HandshakeSame
<1>4. CallsLeft' < CallsLeft
  <2>1. CASE step = "fillPreScanMemory" /\ step' \in {"getMaps", "filling"}
    BY <1>2, <2>1, Tops DEF CallsLeft
  <2>2. CASE step = "filling" /\ step' = "getMaps"
    BY <1>2, <2>2, Tops DEF CallsLeft
  <2>3. CASE step = "filling" /\ Memory!FillStep(main) /\ UNCHANGED mainVars
    <3>1. step' = "filling"
      BY <2>3 DEF mainVars
    <3>2. FillLeft(main)' < FillLeft(main)
      BY <1>1, <2>3, FillCloser
    <3> QED BY <1>2, <2>3, <3>1, <3>2, Tops DEF CallsLeft
  <2> QED BY <2>1, <2>2, <2>3 DEF FillPreScanMemory, Goto
<1> QED BY <1>3, <1>4, CallsForward

\* ... while it starts the workers, scans and joins them ...
LEMMA ThreadsForward ==
    ASSUME Inv, Inv', CreateThreads \/ CloseThreads \/ JoinThread, UNCHANGED options, ~fatal'
    PROVE  MainAhead' < MainAhead
<1>1. UNCHANGED <<files, HandshakeLeft>>
  <2>1. UNCHANGED <<memoryVars, filesVars>>
    BY DEF CreateThreads, CloseThreads, JoinThread
  <2> QED BY <2>1, HandshakeSame DEF filesVars
<1>2. /\ numThreads' = numThreads /\ numThreads \in Nat /\ numThreads <= MaxThreads
      /\ index \in Nat
      /\ step = "createThreads" => index <= numThreads
      /\ step = "closeThreads" => index = 0
      /\ step = "join" => index < numThreads
  BY Tops DEF Inv, Crew, options
<1>3. CASE CreateThreads
  <2>1. /\ step = "createThreads"
        /\ \/ index < numThreads /\ index' = index + 1 /\ step' = step
           \/ step' = "getMaps"
    BY <1>3 DEF CreateThreads
  <2>2. CallsLeft' < CallsLeft
    BY <1>2, <2>1, Tops DEF CallsLeft
  <2> QED BY <1>1, <2>2, CallsForward
<1>4. CASE CloseThreads
  <2>1. step = "closeThreads" /\ step' \in {"join", "releasePreScanMemory"} /\ index' = index
    BY <1>4 DEF CloseThreads
  <2>2. CallsLeft' < CallsLeft
    BY <1>2, <2>1, Tops DEF CallsLeft
  <2> QED BY <1>1, <2>2, CallsForward
<1>5. CASE JoinThread
  <2>1. /\ step = "join"
        /\ \/ index' = index + 1 /\ step' = step
           \/ step' = "releasePreScanMemory"
    BY <1>5 DEF JoinThread
  <2>2. CallsLeft' < CallsLeft
    BY <1>2, <2>1, Tops DEF CallsLeft
  <2> QED BY <1>1, <2>2, CallsForward
<1> QED BY <1>3, <1>4, <1>5

LEMMA ScanForward ==
    ASSUME Inv, Inv', GetMaps \/ ScanMaps \/ ReadPagemapInfo PROVE MainAhead' < MainAhead
<1>1. UNCHANGED <<memoryVars, filesVars>>
  BY DEF GetMaps, ScanMaps, ReadPagemapInfo, Goto
<1>2. UNCHANGED <<files, HandshakeLeft>>
  BY <1>1, HandshakeSame DEF filesVars
<1>3. CallsLeft' < CallsLeft
  BY Tops DEF GetMaps, ScanMaps, ReadPagemapInfo, Goto, CallsLeft
<1> QED BY <1>2, <1>3, CallsForward

\* ... and when it gives everything back.
LEMMA ReleaseForward ==
    ASSUME Inv, Inv', ReleasePreScanMemory, ~fatal' PROVE MainAhead' < MainAhead
<1>1. /\ step = "releasePreScanMemory"
      /\ step' \in {"releasePreScanMemory", "closePreScanFiles"}
      /\ Memory!BeginRelease \/ Memory!ReleaseStep
      /\ UNCHANGED filesVars
  BY DEF ReleasePreScanMemory
<1>2. FilesLeft' = FilesLeft
  BY <1>1 DEF FilesLeft, filesVars
<1>3. \A t \in Threads : filling[t] = "idle"
  BY <1>1, NobodyInside DEF Inv, After
<1>4. HandshakeLeft' < HandshakeLeft
  BY <1>1, <1>3, HandshakeCloser DEF Inv
<1>5. CallsLeft' = CallsLeft
  BY <1>1 DEF CallsLeft
<1> QED BY <1>2, <1>4, <1>5, AheadByParts

LEMMA CloseForward ==
    ASSUME Inv, Inv', ClosePreScanFiles, ~fatal' PROVE MainAhead' < MainAhead
<1>1. /\ step = "closePreScanFiles" /\ step' \in {"closePreScanFiles", "return"}
      /\ PreScanFiles!BeginClose \/ PreScanFiles!CloseStep
      /\ UNCHANGED memoryVars
  BY DEF ClosePreScanFiles
<1>2. FilesLeft' < FilesLeft /\ HandshakeLeft' = HandshakeLeft
  BY <1>1, FilesCloser, HandshakeSame
<1>3. CallsLeft' = CallsLeft
  BY <1>1 DEF CallsLeft
<1> QED BY <1>2, <1>3, AheadByParts

LEMMA MainForward ==
    ASSUME Inv, Inv', MainStep, ~streamMayFail, ~fatal' PROVE MainAhead' < MainAhead
  BY OpenForward, AllocateForward, ReadForward, FillForward, ThreadsForward,
     ScanForward,
     ReleaseForward, CloseForward DEF MainStep

\* The local thread goes forward, too.
LEMMA LocalForward ==
    ASSUME Inv, Inv', LocalThreadStep PROVE MainAhead' < MainAhead
<1>1. /\ Memory!LocalStep /\ UNCHANGED <<options, filesVars, mainVars, threadVars>>
  BY DEF LocalThreadStep
<1>2. UNCHANGED <<filling, slot, fatal>> /\ ~fatal
  BY <1>1, LocalEffect
<1>3. HandshakeLeft' < HandshakeLeft
  BY <1>1, <1>2, HandshakeCloser DEF Inv
<1>4. CallsLeft' = CallsLeft /\ FilesLeft' = FilesLeft
  BY <1>1, <1>2 DEF CallsLeft, FilesLeft, ReadLeft, FillLeft, options, filesVars,
     mainVars
<1> QED BY <1>3, <1>4, AheadByParts

\* A worker neither helps nor hinders main().
LEMMA WorkerApart ==
    ASSUME Inv, NEW w \in Workers, WorkerStep(w) PROVE UNCHANGED MainAhead
<1>1. w \in Threads /\ step \notin {"reading", "filling"}
  <2>1. worker[w] \notin {"none", "ended"}
    BY DEF WorkerStep, WhileRunning, WorkerRead, WorkerFill, WorkerGoto
  <2>2. step \in Scan \cup {"createThreads", "join"}
    BY <2>1, WorkersLive DEF Inv
  <2> QED BY <2>2 DEF Threads, Scan
<1>2. UNCHANGED <<mainVars, options>>
  BY DEF WorkerStep, WhileRunning, WorkerRead, WorkerFill, WorkerGoto
<1>3. CallsLeft' = CallsLeft
  BY <1>1, <1>2 DEF CallsLeft, mainVars, options
<1>4. FilesLeft' = FilesLeft
  <2>1. UNCHANGED files
    BY <1>1, BeginReadEffect, ReadEffect
    DEF WorkerStep, WhileRunning, WorkerRead, WorkerFill, WorkerGoto, filesVars, Inv
  <2> QED BY <2>1 DEF FilesLeft
<1>5. HandshakeLeft' = HandshakeLeft
  <2>1. (\E t \in Threads : Memory!BeginFill(t) \/ Memory!FillStep(t)) \/ UNCHANGED memoryVars
    BY <1>1 DEF WorkerStep, WhileRunning, WorkerRead, WorkerFill, WorkerGoto
  <2> QED BY <2>1, HandshakeSame
<1> QED BY <1>3, <1>4, <1>5, Zenon DEF MainAhead

\* Every step of main() and of the local thread leaves fewer of them to take,
\* unless it is the last one of the process; the workers do not change that.
MainCloser ==
    /\ MainStep \/ LocalThreadStep => fatal' \/ MainAhead' < MainAhead
    /\ (\E w \in Workers : WorkerStep(w)) => UNCHANGED MainAhead

\* main() comes to its return, for any sizes and any number of workers: there is
\* a number that each of its steps brings down, and no worker raises it.  Its
\* own loops over the files end if fread() does not fail, as files.c:151-154 need.
THEOREM MainEnds ==
    Spec => /\ [](MainAhead \in Nat)
            /\ [][~streamMayFail => MainCloser]_vars
<1>1. Inv /\ Inv' /\ [Next]_vars => [~streamMayFail => MainCloser]_vars
  <2> SUFFICES ASSUME Inv, Inv', ~streamMayFail PROVE MainCloser
    OBVIOUS
  <2>1. CASE fatal'
    BY <2>1, WorkerApart DEF MainCloser
  <2>2. CASE ~fatal'
    BY <2>2, MainForward, LocalForward, WorkerApart DEF MainCloser
  <2> QED BY <2>1, <2>2
<1>2. Inv => MainAhead \in Nat
  BY MainAheadIs
<1> QED BY <1>1, <1>2, InvariantHolds, PTL DEF Spec

----------------------------------------------------------------------------
(* The workers come home                                                   *)

\* The steps a worker has still to take when it is not to start a new round.
RoundLeft(w) ==
    IF worker[w] = "read" THEN (5 + FillTop) + ReadTop
    ELSE IF worker[w] = "reading" THEN (4 + FillTop) + ReadLeft(w)
    ELSE IF worker[w] = "fill" THEN 3 + FillTop
    ELSE IF worker[w] = "filling" THEN 2 + FillLeft(w)
    ELSE IF worker[w] = "while" THEN 1
    ELSE 0

\* The workers that may call rewind() before they have finished their round.
ToRewind ==
    {w \in Workers : \/ worker[w] = "read"
                     \/ reading[w] \in {"read", "lseek", "fread", "feof", "rewind"}}

\* A step of a worker leaves fewer for itself, and not more for any other one,
\* but for a rewind(), after which one worker less will call it.  No step of
\* another thread leaves more.
RoundCloser ==
    /\ ToRewind' \subseteq ToRewind
    /\ \A w \in Workers :
          /\ WorkerStep(w) => RoundLeft(w)' < RoundLeft(w)
          /\ RoundLeft(w)' <= RoundLeft(w) \/ ToRewind' # ToRewind

\* The workers are told to stop when main() is about to join them.
Told == ~runningThreads => step \in {"join"} \cup After

LEMMA InitTold == Init => Told
  BY DEF Init, Told

LEMMA NextTold == Inv /\ Told /\ [Next]_vars => Told'
<1> SUFFICES ASSUME Inv, Told, [Next]_vars PROVE Told'
  OBVIOUS
<1>1. CASE CloseThreads
  BY <1>1 DEF CloseThreads, Told, After
<1>2. CASE MainStep /\ ~CloseThreads
  BY <1>2 DEF MainStep, Told, After, OpenPreScanFiles, AllocatePreScanMemory,
     ReadPreScanFiles, FillPreScanMemory, CreateThreads, GetMaps, ScanMaps,
     ReadPagemapInfo, JoinThread, ReleasePreScanMemory, ClosePreScanFiles, Goto,
     threadVars, mainVars
<1>3. CASE UNCHANGED <<step, runningThreads>>
  BY <1>3 DEF Told
<1>4. LocalThreadStep \/ (\E w \in Workers : WorkerStep(w)) \/ UNCHANGED vars =>
         UNCHANGED <<step, runningThreads>>
  BY DEF LocalThreadStep, WorkerStep, WhileRunning, WorkerRead, WorkerFill, WorkerGoto,
     vars, threadVars, mainVars
<1> QED BY <1>1, <1>2, <1>3, <1>4 DEF Next, Returned

LEMMA RoundsAre == Inv => \A w \in Workers : RoundLeft(w) \in Nat
<1> SUFFICES ASSUME Inv, NEW w \in Workers PROVE RoundLeft(w) \in Nat
  OBVIOUS
<1>1. w \in Threads
  BY DEF Threads
<1>2. FillLeft(w) \in Nat /\ ReadLeft(w) \in Nat
  BY <1>1, FillLeftIs, ReadLeftIs
<1> QED BY <1>2, Tops DEF RoundLeft

\* A round goes on.
LEMMA ReadRound ==
    ASSUME Inv, Inv', NEW w \in Workers, WorkerRead(w), ~streamMayFail
    PROVE  /\ ToRewind' \subseteq ToRewind
           /\ RoundLeft(w)' < RoundLeft(w)
           /\ \A v \in Workers :
                 v # w => RoundLeft(v)' <= RoundLeft(v) \/ ToRewind' # ToRewind
<1>1. /\ w \in Threads /\ Workers \subseteq Threads
      /\ worker \in [Workers -> WorkerSteps] /\ reading \in [Threads -> F!Phases]
      /\ \A v \in Workers : reading[v] # "idle" => worker[v] = "reading"
  BY Functions DEF Threads, Inv, Crew, Activity
<1>2. /\ FillLeft(w) \in Nat /\ FillLeft(w) < FillTop
      /\ ReadLeft(w) \in Nat /\ ReadLeft(w) < ReadTop
      /\ (ReadLeft(w) \in Nat /\ ReadLeft(w) < ReadTop)'
      /\ \A v \in Workers : RoundLeft(v) \in Nat
  <2>1. Inv' => (\A t \in Threads : ReadLeft(t) \in Nat /\ ReadLeft(t) < ReadTop)'
    BY ReadsAre, PTL
  <2> QED BY <1>1, <2>1, ReadsAre, FillsAre, RoundsAre
<1>3. UNCHANGED memoryVars
  BY DEF WorkerRead, WorkerGoto
<1>4. \A t \in Threads : FillLeft(t)' = FillLeft(t)
  BY <1>3 DEF FillLeft, memoryVars
<1>5. CASE \/ ~readFileContents /\ WorkerGoto(w, "read", "fill")
           \/ reading[w] = "idle" /\ WorkerGoto(w, "reading", "fill")
  <2>1. /\ worker[w] \in {"read", "reading"} /\ worker' = [worker EXCEPT ![w] = "fill"]
        /\ UNCHANGED filesVars
    BY <1>5 DEF WorkerGoto
  <2>2. \A t \in Threads : ReadLeft(t)' = ReadLeft(t)
    BY <2>1 DEF ReadLeft, filesVars
  <2>3. ToRewind' \subseteq ToRewind
    BY <1>1, <2>1 DEF ToRewind, filesVars
  <2>4. RoundLeft(w)' < RoundLeft(w)
    BY <1>1, <1>2, <2>1, Tops DEF RoundLeft
  <2>5. \A v \in Workers : v # w => RoundLeft(v)' = RoundLeft(v)
    BY <1>1, <1>4, <2>1, <2>2 DEF RoundLeft
  <2> QED BY <1>2, <2>3, <2>4, <2>5
<1>6. CASE /\ worker[w] = "read"
           /\ PreScanFiles!BeginRead(w)
           /\ worker' = [worker EXCEPT ![w] = "reading"]
  <2>1. /\ \A t \in Threads : t # w => reading'[t] = reading[t] /\ numRead'[t] = numRead[t]
        /\ streamEof' = streamEof
    BY <1>1, <1>6 DEF PreScanFiles!BeginRead, Inv, F!IInv, F!TypeInvariant
  <2>2. \A t \in Threads : t # w => ReadLeft(t)' = ReadLeft(t)
    BY <2>1 DEF ReadLeft
  <2>3. ToRewind' \subseteq ToRewind
    BY <1>1, <1>6, <2>1 DEF ToRewind
  <2>4. RoundLeft(w)' < RoundLeft(w)
    BY <1>1, <1>2, <1>6, Tops DEF RoundLeft
  <2>5. \A v \in Workers : v # w => RoundLeft(v)' = RoundLeft(v)
    BY <1>1, <1>4, <1>6, <2>2 DEF RoundLeft
  <2> QED BY <1>2, <2>3, <2>4, <2>5
<1>7. CASE /\ worker[w] = "reading"
           /\ PreScanFiles!ReadStep(w)
           /\ UNCHANGED threadVars
  <2>1. /\ \A t \in Threads : t # w => reading'[t] = reading[t]
        /\ worker' = worker
    BY <1>1, <1>7, ReadEffect DEF Inv, threadVars
  <2>2. /\ ReadLeft(w)' < ReadLeft(w)
        /\ \A t \in Threads : t # w => reading[w] = "rewind" \/ ReadLeft(t)' <= ReadLeft(t)
    BY <1>1, <1>7, ReadCloser
  <2>3. /\ reading[w] \in {"map"} => reading'[w] \in {"map", "idle"}
        /\ reading[w] = "rewind" => reading'[w] \in {"map", "idle"}
        /\ reading[w] # "idle"
    BY <1>1, <1>7 DEF PreScanFiles!ReadStep, PreScanFiles!ReadBlock,
       PreScanFiles!ReadBlockFails, PreScanFiles!SeekBlock,
          PreScanFiles!SeekBlockFails, PreScanFiles!ReadStream,
       PreScanFiles!ReadStreamFails, PreScanFiles!TestStream, PreScanFiles!RewindStream,
       PreScanFiles!ReadMap, PreScanFiles!AfterStream
  <2>4. ToRewind' \subseteq ToRewind
    BY <1>1, <2>1, <2>3 DEF ToRewind, F!Phases
  <2>5. reading[w] = "rewind" => ToRewind' # ToRewind
    BY <1>1, <1>7, <2>1, <2>3 DEF ToRewind
  <2>6. RoundLeft(w)' < RoundLeft(w)
    BY <1>1, <1>2, <1>7, <2>1, <2>2, Tops DEF RoundLeft
  <2>7. ASSUME NEW v \in Workers, v # w, reading[w] # "rewind"
        PROVE  RoundLeft(v)' <= RoundLeft(v)
    <3>1. ReadLeft(v)' <= ReadLeft(v) /\ ReadLeft(v) \in Nat
      BY <1>1, <2>2, <2>7, ReadsAre
    <3>2. ReadLeft(v)' \in Nat
      <4>1. Inv' => (\A t \in Threads : ReadLeft(t) \in Nat /\ ReadLeft(t) < ReadTop)'
        BY ReadsAre, PTL
      <4> QED BY <1>1, <4>1
    <3>3. FillLeft(v)' = FillLeft(v) /\ FillLeft(v) \in Nat
      BY <1>1, <1>4, FillsAre
    <3> QED BY <2>1, <3>1, <3>2, <3>3, Tops DEF RoundLeft
  <2> QED BY <2>4, <2>5, <2>6, <2>7
<1> QED BY <1>5, <1>6, <1>7 DEF WorkerRead

LEMMA FillRound ==
    ASSUME Inv, Inv', NEW w \in Workers, WorkerFill(w)
    PROVE  /\ ToRewind' = ToRewind
           /\ RoundLeft(w)' < RoundLeft(w)
           /\ \A v \in Workers : v # w => RoundLeft(v)' = RoundLeft(v)
<1>1. /\ w \in Threads /\ Workers \subseteq Threads
      /\ worker \in [Workers -> WorkerSteps] /\ reading \in [Threads -> F!Phases]
      /\ \A v \in Workers : reading[v] # "idle" => worker[v] = "reading"
  BY Functions DEF Threads, Inv, Crew, Activity
<1>2. /\ FillLeft(w) \in Nat /\ FillLeft(w) < FillTop
      /\ (FillLeft(w) \in Nat /\ FillLeft(w) < FillTop)'
  <2>1. Inv' => (\A t \in Threads : FillLeft(t) \in Nat /\ FillLeft(t) < FillTop)'
    BY FillsAre, PTL
  <2> QED BY <1>1, <2>1, FillsAre
<1>3. UNCHANGED filesVars
  BY DEF WorkerFill, WorkerGoto
<1>4. \A t \in Threads : ReadLeft(t)' = ReadLeft(t)
  BY <1>3 DEF ReadLeft, filesVars
<1>5. /\ worker[w] \in {"fill", "filling"}
      /\ worker'[w] \in {"while", "filling"}
      /\ \A v \in Workers : v # w => worker'[v] = worker[v]
  BY <1>1 DEF WorkerFill, WorkerGoto, threadVars
<1>6. ToRewind' = ToRewind
  BY <1>1, <1>3, <1>5 DEF ToRewind, filesVars
<1>7. /\ \A t \in Threads : t # w => FillLeft(t)' = FillLeft(t)
      /\ worker[w] = "filling" /\ worker'[w] = "filling" => FillLeft(w)' < FillLeft(w)
  <2>1. CASE UNCHANGED memoryVars /\ worker'[w] = "while"
    BY <2>1 DEF FillLeft, memoryVars
  <2>2. CASE Memory!BeginFill(w) /\ worker[w] = "fill"
    <3>1. \A t \in Threads : t # w => filling'[t] = filling[t] /\ slot'[t] = slot[t]
      BY <1>1, <2>2 DEF Memory!BeginFill, Inv, M!IInv, M!TypeInvariant
    <3> QED BY <2>2, <3>1 DEF FillLeft
  <2>3. CASE Memory!FillStep(w)
    BY <1>1, <2>3, FillCloser
  <2> QED BY <1>1, <2>1, <2>2, <2>3 DEF WorkerFill, WorkerGoto
<1>8. RoundLeft(w)' < RoundLeft(w)
  <2>1. worker[w] = "filling" \/ worker'[w] \in {"while", "filling"}
    BY <1>5
  <2> QED BY <1>2, <1>5, <1>7, Tops DEF RoundLeft
<1>9. \A v \in Workers : v # w => RoundLeft(v)' = RoundLeft(v)
  BY <1>1, <1>4, <1>5, <1>7 DEF RoundLeft
<1> QED BY <1>6, <1>8, <1>9

\* A worker that tests the flag is not sent round again.
LEMMA WhileRound ==
    ASSUME Inv, NEW w \in Workers, WhileRunning(w), ~runningThreads
    PROVE  /\ ToRewind' = ToRewind
           /\ RoundLeft(w)' < RoundLeft(w)
           /\ \A v \in Workers : v # w => RoundLeft(v)' = RoundLeft(v)
<1>1. /\ worker[w] = "while" /\ worker' = [worker EXCEPT ![w] = "ended"]
      /\ UNCHANGED <<memoryVars, filesVars>>
  BY DEF WhileRunning, WorkerGoto
<1>2. worker \in [Workers -> WorkerSteps]
  BY DEF Inv, Crew
<1>3. ToRewind' = ToRewind
  BY <1>1, <1>2 DEF ToRewind, filesVars
<1>4. RoundLeft(w)' < RoundLeft(w)
  BY <1>1, <1>2 DEF RoundLeft
<1>5. \A v \in Workers : v # w => RoundLeft(v)' = RoundLeft(v)
  BY <1>1, <1>2 DEF RoundLeft, ReadLeft, FillLeft, memoryVars, filesVars
<1> QED BY <1>3, <1>4, <1>5

\* What main() and the local thread do meanwhile does not concern the workers.
LEMMA MainApart ==
    ASSUME Inv, Told, ~runningThreads, MainStep \/ LocalThreadStep
    PROVE  ToRewind' = ToRewind /\ \A w \in Workers : RoundLeft(w)' = RoundLeft(w)
<1>1. UNCHANGED <<worker, reading, numRead, streamEof, filling, slot>>
  <2>1. CASE LocalThreadStep
    BY <2>1, LocalEffect DEF LocalThreadStep, filesVars, threadVars
  <2>2. CASE JoinThread
    BY <2>2 DEF JoinThread, memoryVars, filesVars, threadVars
  <2>3. CASE ReleasePreScanMemory
    BY <2>3, ReleaseEffect DEF ReleasePreScanMemory, filesVars, threadVars
  <2>4. CASE ClosePreScanFiles
    BY <2>4 DEF ClosePreScanFiles, memoryVars, threadVars, PreScanFiles!BeginClose,
       PreScanFiles!CloseStep, PreScanFiles!CloseBlock, PreScanFiles!CloseStream,
       PreScanFiles!CloseMap, PreScanFiles!Close
  <2>5. step \in {"join"} \cup After
    BY DEF Told
  <2> QED BY <2>1, <2>2, <2>3, <2>4, <2>5 DEF MainStep, After, OpenPreScanFiles,
     AllocatePreScanMemory, ReadPreScanFiles, FillPreScanMemory, CreateThreads, GetMaps,
     ScanMaps, ReadPagemapInfo, CloseThreads, Goto
<1> QED BY <1>1 DEF ToRewind, RoundLeft, ReadLeft, FillLeft

LEMMA RoundsStay == Inv' => (\A w \in Workers : RoundLeft(w) \in Nat)'
<1> QED BY RoundsAre, PTL

\* Once main() has cleared runningThreads (threads.c:98), every worker ends,
\* whatever the others do to the file positions it uses: nobody starts another
\* round, a worker can be sent round its loops again only by a rewind(), and
\* each of them calls it once at most before it is home.
THEOREM WorkersEnd ==
    Spec => /\ [](\A w \in Workers : RoundLeft(w) \in Nat)
            /\ [][~streamMayFail /\ ~runningThreads => RoundCloser]_vars
<1>1. ASSUME Inv, Inv', Told, ~streamMayFail, ~runningThreads,
             NEW w \in Workers, WorkerStep(w)
      PROVE  /\ ToRewind' \subseteq ToRewind
             /\ RoundLeft(w)' < RoundLeft(w)
             /\ \A v \in Workers :
                   v # w => RoundLeft(v)' <= RoundLeft(v) \/ ToRewind' # ToRewind
  <2>1. \A v \in Workers : RoundLeft(v) \in Nat
    BY <1>1, RoundsAre
  <2>2. CASE WhileRunning(w)
    BY <1>1, <2>1, <2>2, WhileRound
  <2>3. CASE WorkerRead(w)
    BY <1>1, <2>3, ReadRound
  <2>4. CASE WorkerFill(w)
    BY <1>1, <2>1, <2>4, FillRound
  <2> QED BY <1>1, <2>2, <2>3, <2>4 DEF WorkerStep
<1>2. Inv /\ Inv' /\ Told /\ [Next]_vars
         => [~streamMayFail /\ ~runningThreads => RoundCloser]_vars
  <2> SUFFICES ASSUME Inv, Inv', Told, Next, ~streamMayFail, ~runningThreads, vars' # vars
               PROVE  RoundCloser
    OBVIOUS
  <2>1. \A v \in Workers : RoundLeft(v) \in Nat /\ RoundLeft(v)' \in Nat
    BY RoundsAre, RoundsStay
  <2>2. CASE MainStep \/ LocalThreadStep
    <3>1. ToRewind' = ToRewind /\ \A v \in Workers : RoundLeft(v)' = RoundLeft(v)
      BY <2>2, MainApart
    <3>2. \A v \in Workers : RoundLeft(v)' <= RoundLeft(v)
      BY <2>1, <3>1
    <3>3. \A v \in Workers : WorkerStep(v) => RoundLeft(v)' < RoundLeft(v)
      BY <1>1
    <3> QED BY <3>1, <3>2, <3>3 DEF RoundCloser
  <2>3. ASSUME NEW w \in Workers, WorkerStep(w) PROVE RoundCloser
    <3>1. ToRewind' \subseteq ToRewind
      BY <1>1, <2>3
    <3>2. \A v \in Workers : WorkerStep(v) => RoundLeft(v)' < RoundLeft(v)
      BY <1>1
    <3>3. ASSUME NEW v \in Workers
          PROVE  RoundLeft(v)' <= RoundLeft(v) \/ ToRewind' # ToRewind
      <4>1. CASE v = w
        BY <2>1, <2>3, <3>2, <4>1
      <4>2. CASE v # w
        BY <1>1, <2>3, <4>2
      <4> QED BY <4>1, <4>2
    <3> QED BY <3>1, <3>2, <3>3 DEF RoundCloser
  <2> QED BY <2>2, <2>3 DEF Next, Returned
<1> QED BY <1>2, InitTold, NextTold, RoundsAre, InvariantHolds, PTL DEF Spec

----------------------------------------------------------------------------
(* Nobody waits for ever                                                   *)

\* The program of worker w has a next step; it waits for nobody.
WorkerGoes(w) ==
    \/ worker[w] \in {"while", "read", "fill"}
    \/ worker[w] = "reading" /\ reading[w] \in PreScanFiles!Phases
    \/ worker[w] = "filling" /\ filling[w] \in {"idle", "heap", "local", "mapped"}

\* The program of main() has a next step, and the call it makes does not block.
MainGoes ==
    \/ step = "openPreScanFiles" /\ files \in Opening
    \/ step = "allocatePreScanMemory" /\ alloc \in Allocating /\ ~M!MainWaits
    \/ step \in {"readPreScanFiles", "fillPreScanMemory"}
    \/ step = "reading" /\ reading[main] \in PreScanFiles!Phases
    \/ step = "filling" /\ filling[main] \in {"idle", "heap", "local", "mapped"}
    \/ step \in {"createThreads", "getMaps", "scanMaps", "readPagemapInfo", "closeThreads"}
    \/ step = "join" /\ worker[index] = "ended"
    \/ step = "releasePreScanMemory" /\ alloc \in {"allocated"} \cup Releasing /\ ~M!MainWaits
    \/ step = "closePreScanFiles" /\ files \in {"open"} \cup Closing

\* main() goes on, or it waits for a thread that goes on.
SomebodyGoes ==
    ~fatal /\ step # "return" =>
       \/ MainGoes
       \/ step \in {"allocatePreScanMemory", "releasePreScanMemory"} /\ M!LocalGoes
       \/ step = "join" /\ index \in Workers /\ WorkerGoes(index)

LEMMA MemoryMoves == Inv /\ Next => MemoryCall \/ UNCHANGED memoryVars
<1> SUFFICES ASSUME Inv, Next PROVE MemoryCall \/ UNCHANGED memoryVars
  OBVIOUS
<1>1. CASE MainStep
  <2>1. CASE FillPreScanMemory
    <3>1. main \in Threads /\ (step \in Alone => alloc = "allocated")
      BY DEF Threads, Inv, Position
    <3> QED BY <2>1, <3>1 DEF FillPreScanMemory, Goto, MemoryCall, Alone
  <2>2. CASE ReleasePreScanMemory
    <3>1. \A t \in Threads : filling[t] = "idle"
      BY <2>2, NobodyInside DEF ReleasePreScanMemory, Inv, After
    <3> QED BY <2>2, <3>1 DEF ReleasePreScanMemory, MemoryCall
  <2> QED BY <1>1, <2>1, <2>2 DEF MainStep, OpenPreScanFiles, AllocatePreScanMemory,
     ReadPreScanFiles, CreateThreads, GetMaps, ScanMaps, ReadPagemapInfo, CloseThreads,
     JoinThread, ClosePreScanFiles, Goto, MemoryCall
<1>2. CASE LocalThreadStep
  BY <1>2 DEF LocalThreadStep, MemoryCall
<1>3. ASSUME NEW w \in Workers, WorkerStep(w) PROVE MemoryCall \/ UNCHANGED memoryVars
  <2>1. w \in Threads
    BY DEF Threads
  <2>2. worker[w] = "fill" => alloc = "allocated"
    BY WorkersLive DEF Inv
  <2> QED BY <1>3, <2>1, <2>2 DEF WorkerStep, WhileRunning, WorkerRead, WorkerFill,
     WorkerGoto, MemoryCall
<1>4. CASE UNCHANGED vars
  BY <1>4 DEF vars
<1> QED BY <1>1, <1>2, <1>3, <1>4 DEF Next, Returned

\* The whole process never comes to a stand: neither in the handshake of
\* allocate.c (159, 171, 275-276), which is proved where it is modelled, nor
\* at the pthread_join() of a worker (threads.c:102).
THEOREM NoDeadlock == Spec => []SomebodyGoes
<1>1. Init => M!LetGo
  BY DEF Init, Memory!Init, M!LetGo
<1>2. Inv /\ M!LetGo /\ [Next]_vars => M!LetGo'
  <2> SUFFICES ASSUME Inv, M!LetGo, [Next]_vars PROVE M!LetGo'
    OBVIOUS
  <2>1. CASE MemoryCall
    BY <2>1, SameMemory, ComponentAssumptions, M!LetGoStep DEF Inv
  <2>2. CASE UNCHANGED memoryVars
    BY <2>2 DEF M!LetGo, memoryVars
  <2> QED BY <2>1, <2>2, MemoryMoves DEF vars
<1>3. Inv /\ M!LetGo => SomebodyGoes
  <2> SUFFICES ASSUME Inv, M!LetGo, step # "return"
               PROVE  \/ MainGoes
                      \/ step \in {"allocatePreScanMemory", "releasePreScanMemory"} /\ M!LocalGoes
                      \/ step = "join" /\ index \in Workers /\ WorkerGoes(index)
    BY DEF SomebodyGoes
  <2>1. M!MainWaits => M!LocalGoes
    BY ComponentAssumptions, M!NoWait DEF Inv, M!NobodyWaitsForMain
  <2>2. CASE step \in {"allocatePreScanMemory", "releasePreScanMemory"}
    BY <2>1, <2>2 DEF Inv, Position, MainGoes
  <2>3. main \in Threads /\ PreScanFiles!Phases = F!Phases
    BY DEF Threads, PreScanFiles!Phases, F!Phases
  <2>4. CASE step \in {"openPreScanFiles", "closePreScanFiles"} \cup Alone \cup Scan
                       \cup {"createThreads"}
    BY <2>3, <2>4, Functions DEF Inv, Position, MainGoes, Alone, Scan
  <2>5. CASE step = "join"
    <3>1. /\ index \in Workers /\ worker[index] \in WorkerSteps \ {"none"}
          /\ index \in Threads
      BY <2>5, SelfScanAssumption DEF Inv, Crew, Workers, Threads
    <3> QED BY <2>3, <2>5, <3>1, Functions DEF MainGoes, WorkerGoes, WorkerSteps
  <2> QED BY <2>2, <2>4, <2>5 DEF Inv, Position, Steps, After
<1> QED BY <1>1, <1>2, <1>3, InvariantHolds, PTL DEF Spec

----------------------------------------------------------------------------
(* The process keeps to what its parts leave to their callers              *)

LEMMA FilesMoves == Inv /\ Next => FilesCall \/ UNCHANGED filesVars
<1> SUFFICES ASSUME Inv, Next PROVE FilesCall \/ UNCHANGED filesVars
  OBVIOUS
<1>1. CASE MainStep
  <2>1. CASE ReadPreScanFiles
    <3>1. main \in Threads /\ (step \in Alone => files = "open")
      BY DEF Threads, Inv, Position
    <3> QED BY <2>1, <3>1 DEF ReadPreScanFiles, Goto, FilesCall, Alone
  <2>2. CASE ClosePreScanFiles
    <3>1. \A t \in Threads : reading[t] = "idle"
      BY <2>2, NobodyInside DEF ClosePreScanFiles, Inv, After
    <3> QED BY <2>2, <3>1 DEF ClosePreScanFiles, FilesCall
  <2> QED BY <1>1, <2>1, <2>2 DEF MainStep, OpenPreScanFiles, AllocatePreScanMemory,
     FillPreScanMemory, CreateThreads, GetMaps, ScanMaps, ReadPagemapInfo, CloseThreads,
     JoinThread, ReleasePreScanMemory, Goto, FilesCall
<1>2. CASE LocalThreadStep
  BY <1>2 DEF LocalThreadStep
<1>3. ASSUME NEW w \in Workers, WorkerStep(w) PROVE FilesCall \/ UNCHANGED filesVars
  <2>1. w \in Threads
    BY DEF Threads
  <2>2. worker[w] = "read" => files = "open"
    BY WorkersLive DEF Inv
  <2> QED BY <1>3, <2>1, <2>2 DEF WorkerStep, WhileRunning, WorkerRead, WorkerFill,
     WorkerGoto, FilesCall
<1>4. CASE UNCHANGED vars
  BY <1>4 DEF vars
<1> QED BY <1>1, <1>2, <1>3, <1>4 DEF Next, Returned

\* Nothing revives the process.
LEMMA FatalStays == Inv /\ Next => fatal' \in {fatal, TRUE}
<1> SUFFICES ASSUME Inv, Next PROVE fatal' \in {fatal, TRUE}
  OBVIOUS
<1>0. main \in Threads /\ \A w \in Workers : w \in Threads
  BY DEF Threads
<1>1. CASE MainStep
  <2>1. CASE OpenPreScanFiles
    BY <2>1, OpenEffect DEF OpenPreScanFiles, Inv
  <2>2. CASE AllocatePreScanMemory
    BY <2>2, AllocateEffect DEF AllocatePreScanMemory
  <2>3. CASE ReadPreScanFiles
    BY <1>0, <2>3, BeginReadEffect, ReadEffect DEF ReadPreScanFiles, Goto, Inv
  <2>4. CASE FillPreScanMemory
    BY <1>0, <2>4, BeginFillEffect, FillEffect DEF FillPreScanMemory, Goto, Inv
  <2>5. CASE ReleasePreScanMemory
    BY <2>5, ReleaseEffect DEF ReleasePreScanMemory
  <2>6. CASE ClosePreScanFiles
    BY <2>6, CloseEffect DEF ClosePreScanFiles, Inv
  <2> QED BY <1>1, <2>1, <2>2, <2>3, <2>4, <2>5, <2>6 DEF MainStep, CreateThreads,
     GetMaps, ScanMaps, ReadPagemapInfo, CloseThreads, JoinThread, Goto
<1>2. CASE LocalThreadStep
  BY <1>2, LocalEffect DEF LocalThreadStep
<1>3. ASSUME NEW w \in Workers, WorkerStep(w) PROVE fatal' \in {fatal, TRUE}
  <2>1. CASE WhileRunning(w)
    BY <2>1 DEF WhileRunning, WorkerGoto
  <2>2. CASE WorkerRead(w)
    BY <1>0, <2>2, BeginReadEffect, ReadEffect DEF WorkerRead, WorkerGoto, Inv
  <2>3. CASE WorkerFill(w)
    BY <1>0, <2>3, BeginFillEffect, FillEffect DEF WorkerFill, WorkerGoto, Inv
  <2> QED BY <1>3, <2>1, <2>2, <2>3 DEF WorkerStep
<1>4. CASE UNCHANGED vars
  BY <1>4 DEF vars
<1> QED BY <1>1, <1>2, <1>3, <1>4 DEF Next, Returned

\* A FATAL_ERROR in the one part ends the process for the other.
EndedElsewhere(part) == fatal' = TRUE /\ UNCHANGED part

\* main() and its workers keep to what Allocate and Files leave to their callers:
\* they fill only between allocation and release and read only between opening
\* and closing, and main() releases and closes only when nobody is inside.
\* Whatever the threads do, the two parts are seen to take their own steps.
THEOREM CallersKeepTheRules ==
    Spec => /\ Memory!Init /\ [][Memory!Next \/ EndedElsewhere(memoryVars)]_(Memory!vars)
            /\ PreScanFiles!Init
            /\ [][PreScanFiles!Next \/ EndedElsewhere(filesVars)]_(PreScanFiles!vars)
<1>1. Init => Memory!Init /\ PreScanFiles!Init
  BY DEF Init
<1>2. Inv /\ [Next]_vars => [Memory!Next \/ EndedElsewhere(memoryVars)]_(Memory!vars)
  <2> SUFFICES ASSUME Inv, [Next]_vars, ~ EndedElsewhere(memoryVars)
               PROVE  Memory!Next \/ UNCHANGED Memory!vars
    OBVIOUS
  <2>1. CASE MemoryCall
    BY <2>1 DEF MemoryCall, Memory!Next
  <2>2. CASE UNCHANGED <<memoryVars, fatal>>
    BY <2>2 DEF memoryVars, Memory!vars, Memory!mainVars, Memory!heapVars,
       Memory!localVars, Memory!syncVars, Memory!fillVars
  <2> QED BY <2>1, <2>2, MemoryMoves, FatalStays DEF vars, EndedElsewhere
<1>3. Inv /\ [Next]_vars =>
         [PreScanFiles!Next \/ EndedElsewhere(filesVars)]_(PreScanFiles!vars)
  <2> SUFFICES ASSUME Inv, [Next]_vars, ~ EndedElsewhere(filesVars)
               PROVE  PreScanFiles!Next \/ UNCHANGED PreScanFiles!vars
    OBVIOUS
  <2>1. CASE FilesCall
    BY <2>1 DEF FilesCall, PreScanFiles!Next
  <2>2. CASE UNCHANGED <<filesVars, fatal>>
    BY <2>2 DEF filesVars, PreScanFiles!vars
  <2> QED BY <2>1, <2>2, FilesMoves, FatalStays DEF vars, EndedElsewhere
<1> QED BY <1>1, <1>2, <1>3, InvariantHolds, PTL DEF Spec
=============================================================================
