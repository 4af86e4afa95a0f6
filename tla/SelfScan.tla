------------------------------ MODULE SelfScan ------------------------------
(***************************************************************************)
(* memscan scanning its own process: the scanSelf branch of main() in      *)
(* memscan.c (98-139), composed with the worker threads of threads.c, the  *)
(* memory of allocate.c (module Allocate) and the files of files.c         *)
(* (module Files).                                                         *)
(*                                                                         *)
(* Three kinds of threads run at the same time: main(), the thread that    *)
(* holds the --local memory, and the workers of --threads, which read the  *)
(* files and fill the memory in a loop until main() tells them to stop.    *)
(* Nothing but the order of main()'s calls keeps a worker from using       *)
(* memory that was released or a file that was closed.                     *)
(***************************************************************************)
EXTENDS Integers

CONSTANTS
    MaxThreads,            \* bound: --threads is at most this
    main,                  \* the initial thread
    allocateHeapMemory, allocateLocalMemory, allocateMappedMemory,
    numMallocs, numLocals,
    openFileWithBlockIO, openFileWithStreamIO, openFileWithMapIO,
    blockSize, streamSize, mmapSize, fileBufferSize, oneMegabyte,
    blockMayFail, streamMayFail

Workers == 0 .. MaxThreads - 1
Threads == Workers \cup {main}

\* The ASSERTs of allocatePreScanMemory (allocate.c:127-128 and 144-146), and
\* what sizes are.
ASSUME SelfScanAssumption ==
    /\ MaxThreads \in Nat
    /\ main \notin Workers
    /\ {allocateHeapMemory, allocateLocalMemory, allocateMappedMemory,
        openFileWithBlockIO, openFileWithStreamIO, openFileWithMapIO,
        blockMayFail, streamMayFail} \subseteq BOOLEAN
    /\ {numMallocs, numLocals, fileBufferSize} \subseteq Nat \ {0}
    /\ {blockSize, streamSize, mmapSize, oneMegabyte} \subseteq Nat

VARIABLES
    numThreads,          \* --threads
    readFileContents,    \* --read
    fillAllocatedMemory, \* --fill
    alloc, next, heapArray, heapAllocations, localArray, localAllocations,
    mappedAllocation, mutex, semaphore, localThread, remaining, filling, slot,
    files, opened, blockOffset, streamOffset, streamEof, reading, numRead,
    blockTouched, blockWarned, seekFailed,
    fatal,            \* FATAL_ERROR ended the process, whoever called it
    step,             \* the call of main() that comes next or is under way
    index,            \* index i of the loops in createThreads and closeThreads
    runningThreads,   \* "While this is true, the threads will run"
    worker            \* where each worker thread is in workerThread()

memoryVars == <<alloc, next, heapArray, heapAllocations, localArray,
                localAllocations, mappedAllocation, mutex, semaphore,
                localThread, remaining, filling, slot>>
filesVars  == <<files, opened, blockOffset, streamOffset, streamEof, reading,
                numRead, blockTouched, blockWarned, seekFailed>>
threadVars == <<runningThreads, worker>>
mainVars   == <<step, index>>
options    == <<numThreads, readFileContents, fillAllocatedMemory>>
vars == <<options, memoryVars, filesVars, fatal, mainVars, threadVars>>

Memory == INSTANCE Allocate WITH Fillers <- Threads
PreScanFiles == INSTANCE Files WITH Readers <- Threads

----------------------------------------------------------------------------

Init ==
    /\ numThreads \in 0 .. MaxThreads
    /\ readFileContents \in BOOLEAN
    /\ fillAllocatedMemory \in BOOLEAN
    /\ Memory!Init
    /\ PreScanFiles!Init
    /\ step = "openPreScanFiles"
    /\ index = 0
    /\ runningThreads = TRUE
    /\ worker = [w \in Workers |-> "none"]

\* main() goes from one call to the next, and nothing else changes.
Goto(from, to) ==
    /\ ~fatal
    /\ step = from
    /\ step' = to
    /\ UNCHANGED <<memoryVars, filesVars, fatal, index, threadVars>>

----------------------------------------------------------------------------
(* Before the scan.                                                        *)

OpenPreScanFiles ==
    /\ step = "openPreScanFiles"
    /\ PreScanFiles!OpenStep
    /\ step' = IF files' = "open" THEN "allocatePreScanMemory" ELSE step
    /\ UNCHANGED <<memoryVars, index, threadVars>>

AllocatePreScanMemory ==
    /\ step = "allocatePreScanMemory"
    /\ Memory!AllocateStep
    /\ step' = IF alloc' # "allocated" THEN step
               ELSE IF numThreads = 0 THEN "readPreScanFiles" ELSE "createThreads"
    /\ UNCHANGED <<filesVars, index, threadVars>>

\* Without workers main() itself reads the files and fills the memory.
ReadPreScanFiles ==
    \/ ~readFileContents /\ Goto("readPreScanFiles", "fillPreScanMemory")
    \/ /\ readFileContents
       /\ step = "readPreScanFiles"
       /\ PreScanFiles!BeginRead(main)
       /\ step' = "reading"
       /\ UNCHANGED <<memoryVars, index, threadVars>>
    \/ /\ step = "reading"
       /\ PreScanFiles!ReadStep(main)
       /\ UNCHANGED <<memoryVars, mainVars, threadVars>>
    \/ reading[main] = "idle" /\ Goto("reading", "fillPreScanMemory")

FillPreScanMemory ==
    \/ ~fillAllocatedMemory /\ Goto("fillPreScanMemory", "getMaps")
    \/ /\ fillAllocatedMemory
       /\ step = "fillPreScanMemory"
       /\ Memory!BeginFill(main)
       /\ step' = "filling"
       /\ UNCHANGED <<filesVars, index, threadVars>>
    \/ /\ step = "filling"
       /\ Memory!FillStep(main)
       /\ UNCHANGED <<filesVars, mainVars, threadVars>>
    \/ filling[main] = "idle" /\ Goto("filling", "getMaps")

\* One round of the loop in createThreads(), or its end.
CreateThreads ==
    /\ ~fatal
    /\ step = "createThreads"
    /\ IF index < numThreads
       THEN \/ /\ worker' = [worker EXCEPT ![index] = "while"]
               /\ index' = index + 1
               /\ UNCHANGED <<fatal, step>>
            \/ /\ fatal' = TRUE
               /\ UNCHANGED <<worker, mainVars>>
       ELSE /\ step' = "getMaps"
            /\ index' = 0
            /\ UNCHANGED <<fatal, worker>>
    /\ UNCHANGED <<memoryVars, filesVars, runningThreads>>

(* The scan.  --sleep, a delay before it, changes no state.                *)

\* Mistaken: main() releases the memory while the workers are running.
ReadPagemapInfoThenRelease == Goto("readPagemapInfo", "releasePreScanMemory")

GetMaps         == Goto("getMaps", "scanMaps")
ScanMaps        == Goto("scanMaps", "readPagemapInfo")
ReadPagemapInfo == Goto("readPagemapInfo", "closeThreads")

(* After the scan.                                                         *)

\* Mistaken: the workers are told to stop, but not joined.
CloseThreadsNoJoin ==
    /\ ~fatal
    /\ step = "closeThreads"
    /\ runningThreads' = FALSE
    /\ step' = "releasePreScanMemory"
    /\ UNCHANGED <<memoryVars, filesVars, fatal, index, worker>>

\* Mistaken: the workers are joined, but not told to stop.
CloseThreadsStillRunning ==
    /\ ~fatal
    /\ step = "closeThreads"
    /\ step' = IF numThreads > 0 THEN "join" ELSE "releasePreScanMemory"
    /\ UNCHANGED <<memoryVars, filesVars, fatal, index, threadVars>>

CloseThreads ==
    /\ ~fatal
    /\ step = "closeThreads"
    /\ IF numThreads > 0
       THEN runningThreads' = FALSE /\ step' = "join"
       ELSE step' = "releasePreScanMemory" /\ UNCHANGED runningThreads
    /\ UNCHANGED <<memoryVars, filesVars, fatal, index, worker>>

\* Mistaken: only the first worker is joined.
JoinFirstThread ==
    /\ ~fatal
    /\ step = "join"
    /\ worker[index] = "ended"
    /\ step' = "releasePreScanMemory"
    /\ UNCHANGED <<memoryVars, filesVars, fatal, index, threadVars>>

\* pthread_join() of the workers one after the other.
JoinThread ==
    /\ ~fatal
    /\ step = "join"
    /\ worker[index] = "ended"
    /\ IF index + 1 < numThreads
       THEN index' = index + 1 /\ UNCHANGED step
       ELSE step' = "releasePreScanMemory" /\ index' = 0
    /\ UNCHANGED <<memoryVars, filesVars, fatal, threadVars>>

ReleasePreScanMemory ==
    /\ step = "releasePreScanMemory"
    /\ Memory!BeginRelease \/ Memory!ReleaseStep
    /\ step' = IF alloc' = "released" THEN "closePreScanFiles" ELSE step
    /\ UNCHANGED <<filesVars, index, threadVars>>

ClosePreScanFiles ==
    /\ step = "closePreScanFiles"
    /\ PreScanFiles!BeginClose \/ PreScanFiles!CloseStep
    /\ step' = IF files' = "closed" THEN "return" ELSE step
    /\ UNCHANGED <<memoryVars, index, threadVars>>

MainStep ==
    /\ \/ OpenPreScanFiles \/ AllocatePreScanMemory
       \/ ReadPreScanFiles \/ FillPreScanMemory \/ CreateThreads
       \/ GetMaps \/ ScanMaps \/ ReadPagemapInfo
       \/ CloseThreads \/ JoinThread
       \/ ReleasePreScanMemory \/ ClosePreScanFiles
    /\ UNCHANGED options

----------------------------------------------------------------------------
(* workerThread(), run by worker w.                                        *)

WorkerGoto(w, from, to) ==
    /\ ~fatal
    /\ worker[w] = from
    /\ worker' = [worker EXCEPT ![w] = to]
    /\ UNCHANGED <<memoryVars, filesVars, fatal, mainVars, runningThreads>>

\* while( runningThreads ); the flag is loaded from memory in every round.
WhileRunning(w) ==
    WorkerGoto(w, "while", IF runningThreads THEN "read" ELSE "ended")

WorkerRead(w) ==
    \/ ~readFileContents /\ WorkerGoto(w, "read", "fill")
    \/ /\ readFileContents
       /\ worker[w] = "read"
       /\ PreScanFiles!BeginRead(w)
       /\ worker' = [worker EXCEPT ![w] = "reading"]
       /\ UNCHANGED <<memoryVars, mainVars, runningThreads>>
    \/ /\ worker[w] = "reading"
       /\ PreScanFiles!ReadStep(w)
       /\ UNCHANGED <<memoryVars, mainVars, threadVars>>
    \/ reading[w] = "idle" /\ WorkerGoto(w, "reading", "fill")

WorkerFill(w) ==
    \/ ~fillAllocatedMemory /\ WorkerGoto(w, "fill", "while")
    \/ /\ fillAllocatedMemory
       /\ worker[w] = "fill"
       /\ Memory!BeginFill(w)
       /\ worker' = [worker EXCEPT ![w] = "filling"]
       /\ UNCHANGED <<filesVars, mainVars, runningThreads>>
    \/ /\ worker[w] = "filling"
       /\ Memory!FillStep(w)
       /\ UNCHANGED <<filesVars, mainVars, threadVars>>
    \/ filling[w] = "idle" /\ WorkerGoto(w, "filling", "while")

WorkerStep(w) ==
    /\ WhileRunning(w) \/ WorkerRead(w) \/ WorkerFill(w)
    /\ UNCHANGED options

LocalThreadStep ==
    /\ Memory!LocalStep
    /\ UNCHANGED <<options, filesVars, mainVars, threadVars>>

Returned ==
    /\ fatal \/ step = "return"
    /\ UNCHANGED vars

Next ==
    \/ MainStep
    \/ LocalThreadStep
    \/ \E w \in Workers : WorkerStep(w)
    \/ Returned

Spec == Init /\ [][Next]_vars

\* The operating system lets every thread that can run, run.
FairSpec ==
    /\ Spec
    /\ WF_vars(MainStep)
    /\ WF_vars(LocalThreadStep)
    /\ \A w \in Workers : WF_vars(WorkerStep(w))
----------------------------------------------------------------------------

\* No thread, main() or worker, is inside of fillPreScanMemory() when the
\* memory it writes to is not there (allocate.c:214-251).
FillsLiveMemory == Memory!FillsLiveMemory

\* No thread is inside of readPreScanFiles() when the file it reads is not
\* open: the ASSERTs at files.c:113, 139, 159 and 160 hold whenever they are
\* evaluated, and no read goes to a descriptor that was closed.
ReadsOpenFiles ==
    \A t \in Threads :
       /\ reading[t] \in {"read", "lseek"} => "block" \in opened
       /\ reading[t] \in {"fread", "feof", "rewind"} => "stream" \in opened
       /\ reading[t] = "map" => "map" \in opened

\* The pages the scan walks over are the ones getMaps() listed: from there
\* to the end of readPagemapInfo() all pre-scan memory stays allocated, the
\* frames of the local thread included, and all files stay open.
ScanSeesPreparedProcess ==
    step \in {"getMaps", "scanMaps", "readPagemapInfo"} =>
       /\ alloc = "allocated" /\ Memory!AllocatedIsComplete
       /\ files = "open"
       /\ openFileWithBlockIO => "block" \in opened
       /\ openFileWithStreamIO => "stream" \in opened
       /\ openFileWithMapIO => "map" \in opened

\* Memory that --fill is to fill "before the scan" (config.c:83-84).
AllFilled ==
    /\ allocateHeapMemory => \A i \in Memory!HeapSlots : heapAllocations[i] = "filled"
    /\ allocateLocalMemory => \A i \in Memory!LocalSlots : localAllocations[i] = "filled"
    /\ allocateMappedMemory => mappedAllocation = "filled"

\* "--fill  Fill the local, malloc'd and/or mapped memory with data before the
\* scan" (config.c:83-84): when the scan begins, everything is filled.
FilledBeforeScan ==
    step = "scanMaps" /\ fillAllocatedMemory => AllFilled

\* --read is one of the pre-scan options (config.c:71-75): when the scan
\* begins, every position of the --block file was read, unless a read failed
\* and memscan said so.
ReadBeforeScan ==
    step = "scanMaps" /\ readFileContents /\ openFileWithBlockIO /\ ~blockWarned
       => blockTouched = 0 .. blockSize - 1

\* Without --threads, main() has done both itself before it scans, in the
\* loops its workers would share.
PreparedAlone == numThreads = 0 => FilledBeforeScan /\ ReadBeforeScan

\* When main() returns, every thread has ended and everything is given back.
CleanExit ==
    step = "return" =>
       /\ \A w \in 0 .. numThreads - 1 : worker[w] = "ended"
       /\ Memory!ReleasedIsComplete /\ alloc = "released"
       /\ opened = {}

\* main() returns, or a FATAL_ERROR ends the process.  In particular every
\* worker falls out of its loops once runningThreads is false, although the
\* rewinds of the others can make a worker miss the end of the stream file.
Terminates == <>(fatal \/ step = "return")
=============================================================================
