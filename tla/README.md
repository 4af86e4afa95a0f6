# memscan: a verification project

memscan scans the memory of a process: it lists the process's mapped regions
from `/proc/$PID/maps`, looks up their pages in `/proc/$PID/pagemap`,
`/proc/kpagecount` and `/proc/kpageflags`, names the physical regions they lie
in from `/proc/iomem`, and prints what it finds. Before it scans *itself* it
can prepare the process: open and read files, allocate heap, stack and mapped
memory, fill it with data, and run worker threads that keep doing so while the
scan is under way.

The modules in this directory describe that program, the configurations
model-check them on small instances, and the proof modules prove the most
important results for every instance. A module is checked with
`tlc -config <X>.cfg <MC module>`, a proof module with `tlapm <Module>.tla`.

## Inventory

| part | source | state it keeps | operations |
|---|---|---|---|
| main program | `memscan.c` | where it is; parent or child | choose one of four branches, call the other parts in order |
| configuration | `config.c` | the option variables, the list of filters | `processOptions`, `processFilters`, `validateConfig`, `reset_config` |
| pre-scan files | `files.c` | one descriptor, one `FILE*`, one mapping, with their offsets | open, read (by several threads), close |
| pre-scan memory | `allocate.c` | heap slots, the stack slots of a second thread, a mapping, a mutex, a semaphore | allocate, fill (by several threads), release |
| worker threads | `threads.c` | `runningThreads`, the thread handles | create, loop, stop and join |
| virtual memory maps | `maps.c` | a list of regions, each included or not, with their pages | list and filter, look up, scan, read page information, print, release |
| pages | `pagemap.c`, `pageflags.c`, `pagecount.c` | three cached descriptors | decode a page, print a page, summarise a run of pages, close |
| physical memory regions | `iomem.c` | a linked list of regions, a linked list of totals | insert, look up, validate, summarise and sort, release |
| trimming | `trim.c` | none; works in the caller's buffer | `trim`, `trim_left`, `trim_right`, `trim_edges` |
| conversion | `convert.c` | none | option text to number, with scale or base |
| entropy, assembly, colours | `shannon.c`, `assembly.c`, headers | none | arithmetic, instructions, constants |

**How they interact.** By direct calls, in the order `main()` prescribes, and
by global variables. `config.c` fills the option variables every other part
reads. `maps.c` calls `pagemap.c` once per page; `pagemap.c` asks `iomem.c` for
the region. `convert.c` and `iomem.c` call `trim.c`. With `--local`,
`allocate.c` starts a thread whose stack *is* the allocation; with `--threads`,
`threads.c` starts workers that call into `files.c` and `allocate.c` while
`main()` goes on. With `--fork` there are two processes, which share nothing
but the output.

**What is hard.**

* The local thread and `main()` hand over an array of stack addresses: a
  semaphore says the frames exist, a mutex keeps the thread from returning, and
  a join lets it go (`allocate.c:159-173`, `276-288`).
* The workers run the read loops on *one* file offset and *one* end-of-file
  flag, and each resets them (`files.c:112-157`).
* Nothing but the order of the calls at the end of `main()` keeps a worker from
  using memory or files that are gone (`memscan.c:136-138`).
* Insertion into the region list depends on comparisons of inclusive bounds
  over any history of nested insertions (`iomem.c:308-395`).
* The bubble sort of the totals relinks a singly linked list and depends on a
  strict comparison to end (`iomem.c:513-544`).
* `trim()` keeps two unsigned counters in step with a string it is rewriting
  (`trim.c:137-238`).
* Option checks are spread over helpers that compare variables with their
  defaults, and numbers are cut to the width of their variable
  (`config.c:208-689`).
* Filters of four kinds sit on one list in the reverse of the order given, and
  a region is selected by any of them; what is selected, read, looked up page by
  page and printed is then decided at four places (`maps.c:221-450`).
* A number passes through `trim()`, `strtoull()`, `errno`, a remainder and a
  product, each of which has an error of its own (`convert.c:20-94`).
* The rows of `--phys` come from a comparison of neighbours by one list of
  fields and are printed from another (`pagemap.c:303-410`).

**What makes each part correct.** Files: a read round covers the whole file
and leaves it rewound, whoever shares it, unless the seek fails. Memory: every address used is live,
and nothing outlives release. Threads: use before release, scan of a prepared
process, and an end. Regions: the list is a map from addresses to
descriptions. Totals: every address is counted once. Trimming: the documented
result, and no byte behind the string. Configuration: only one target, the one
that was asked for. Maps: the scan reads the bytes of the selected, readable regions
and no others, each as often as the options ask, the selection is what the
filters say, and the rows tell the truth about it. Conversion: an accepted number
is the one that was written. Pages: rows that cover the region, speak for all
their pages and cannot be shortened. Where the code falls short of one of these,
the property names the exception (see below).

`PROJECT.json` lists the individual hazards with the line at which each bites
and the properties that watch it.

## Modules

| module | of | depends on |
|---|---|---|
| `Files` | `files.c` | |
| `Allocate` | `allocate.c` | |
| `SelfScan` | `threads.c` and the self-scan branch of `main()` | instances of `Files` and `Allocate` |
| `PhysMap` | what `iomem.c` promises (abstract) | |
| `Iomem` | the region list of `iomem.c` | refines `PhysMap` |
| `IomemSummary` | the totals of `iomem.c` | extends `Iomem` |
| `Config` | `config.c`: options and rules, as operators | |
| `Memscan` | `memscan.c`: all branches and both processes | extends `Config` |
| `Maps` | `maps.c`, the filters of `config.c` | |
| `Trim` | `trim.c` | |
| `Convert` | `convert.c` | extends `Trim` |
| `Pages` | `pagemap.c`, `pagecount.c`, `pageflags.c`, page loops of `maps.c` | |
| `FilesProofs`, `AllocateProofs`, `IomemProofs`, `MapsProofs`, `TrimProofs`, `PagesProofs`, `MemscanProofs` | theorems | each extends its component and `TLAPS`; `IomemProofs` extends `IomemSummary` and `TrimProofs` extends `Convert` |
| `SelfScanProofs` | theorems | extends `SelfScan`, instances of `FilesProofs` and `AllocateProofs` |

The `MC` modules add the symmetry sets and the input sets the configurations
need. None of the modules uses a `RECURSIVE` operator, so that all of them can
be proved about.

### Files

The three open-or-close sequences of `main()` are `OpenStep` and `CloseStep`;
`opened` is which of `block_fd`, `stream_fd` and `mmapBuffer` is valid. Each
thread in `readPreScanFiles()` has its own `reading` (the next library call)
and `numRead`; `blockOffset`, `streamOffset` and `streamEof` are shared, as the
descriptor and the `FILE*` are. One action is one library call with the tests on
local data that follow it. A file is a number of units, a buffer takes
`fileBufferSize` of them. `blockTouched` is a history variable: the positions
that were ever read. A failing `read()` prints a warning and leaves the loop
(the `continue` of a `do ... while` tests the loop condition); a failing
`fread()` returns 0 and does not set the end-of-file flag. A failing `lseek()`
(`SeekBlockFails`) prints a warning and leaves the offset of all readers where it
is; `seekFailed` is a history variable that says so until a later `lseek()`
succeeds. Files for which `lseek()` always fails (a FIFO, a terminal) have an
`st_size` of 0, and what can be read from them is not modelled; the run lets
`lseek()` fail on a file with contents. A failing `close()`, which prints a
warning, is left out.

### Allocate

`alloc` is the position of `main()` in `allocatePreScanMemory()` and
`releasePreScanMemory()`, `localThread` and `remaining` that of the recursion in
the local thread. A slot is `"null"`, `"blank"` or `"filled"`. A frame is live
when the recursion has pushed it and not yet popped it (`FrameLive`): the
address in the slot and the life of the frame are separate things, and their
agreement is what is checked. Failing `calloc`, `malloc`, `mmap` and
`pthread_create` end the process (`fatal`). Filling one allocation is one step.

### SelfScan

`main()` statement by statement between `openPreScanFiles()` and
`closePreScanFiles()`, `createThreads()` and `closeThreads()` with their loop
index, and each worker in `workerThread()`. The memory and the files are
instances of `Allocate` and `Files` with all threads as fillers and readers; the
callers that those two modules leave open (any caller that fills between
allocation and release, any caller that reads between open and close) are here
replaced by the real ones. `--read`, `--fill` and the number of threads are
chosen in the initial state.

### Iomem, PhysMap, IomemSummary

The linked list is a function on `1 .. count`; a region has a start and ends
before its successor, as in the code. Both walks take a step per region; the
five outcomes of `add_iomem_region()` are actions. `BeginAdd` has the
precondition `validate_iomem()`, an `ASSERT` in the code.

`PhysMap` is the promise: a function from addresses to descriptions, a set of
borders, and a request under way. `ImplementsMap` maps the list to it, the
walks to stuttering, and the final step of a call to the step that serves the
request. A wrong region split, a wrong neighbour, a lookup off by one, or a
refusal without need would each be a step `PhysMap` does not have.

`IomemSummary` goes on where `Iomem` stops: whatever calls have built the list,
it can be summarized when no call is under way. `phase` is the function of
`summarize_iomem()` that runs: the totals are composed region by region, the
bubble sort takes one comparison per step, `validate_summary()` decides between
printing and `"aborted"`, the failure of an `ASSERT`, and the total is added up
record by record. The list of totals is a sequence; a swap of neighbours is an
exchange in it. `compose_iomem_summary()` does not test what `malloc()` returns
(`iomem.c:569`); that is the phase `"crashed"`.

### Config, Memscan

`config` is a record of the option variables; paths are set or not set, numbers
are members of `Values` and are converted to the width of their variable
(`AsInt` is the conversion to `int`, modulo `UINT_MAX + 1`; the limits of the
types are constants).
`Memscan` processes any `MaxOptions` options one by one, then filters, then
validates, and takes the branch that `main()` takes. Each call is a step that
may fail wherever the code can end in `FATAL_ERROR`. `held` is what a process
has and must give back. `fork()` copies the record of the process, so that the
child goes on with the same code in the second component of each variable.

### Maps

The filters are pushed one by one, then `main()` calls `getMaps()`,
`scanMaps()`, `readPagemapInfo()`, `printMaps()` and `releaseMaps()`; each walk
takes one step per region. A line of `/proc/self/maps` is any region that the
kernel can write there: behind the one before it, in whole pages, with any
permissions and path. `%s` cuts a path at its first blank, so that paths are
model values here. A record of `pages` is the flag `okToRead` that
`getPageInfo()` was called with; what it does besides reading the page is in
`Pages`. `touched` counts how often the process has read each address, and is a
history variable. Three options say how often that is: `--scan_byte` and
`--shannon` each read a selected region (`ScanReads`), and `--shannon` with
`--pfn` or `--phys` reads it once more, page by page (`PageReads`).

What a filter selects is stated twice. `Documented` is what the usage text and
the comment at `struct Filter` say of it; `Selects` is that with the three
differences the code has, each under its name: `NextDoor`, `Missed` and `MayMiss`.
`SelectionIsTheUnion`, which the run checks, says that these are all;
`FiltersAsDocumented` says that there are none, and does not hold.

The pattern of a filter is stored without a terminator (`config.c:422-426`), so
`strstr()` looks for the pattern followed by whatever is behind it in memory: of
the paths that contain a pattern, the model matches any subset. A failing
`calloc()`, `malloc()`, `fopen()` or `fclose()` ends the process.

### Trim

A buffer with a string and what is behind it. `trim()` is the state machine of
the code: `state`, `index`, `distance`, one execution of the outer `switch` per
step. The copy loop of `shift_left()` and the other
three functions are operators on buffers.

### Convert

A conversion is a call of `trim()` on its argument, step by step as in `Trim`,
and then one step that does the rest of the function on the trimmed text.
`strtoull()` is external and modelled by what the C standard says of it: spaces,
a sign, for base 16 a `0x`, digits, the rest, and a number that does not fit.
(The build asks for C17, in which base 2 has no prefix.) Numbers go up to
`ULLONG_MAX` (31 in the run); sizes wrap in the product, as they do in 64 bits.
`caller` tells a conversion from a call of `trim()` or its relatives for their
own sake.

### Pages

One process reads `NumPages` pages, each from up to three files, whose
descriptors are opened by the first page that needs them and cached; the
entries of `pagemap` are chosen freely among the legal ones (not present,
swapped, present). Then the rows of `--pfn` or `--phys` are printed and the
files are closed. Of the thirty flags, one stands for those of `pagemap`, one
for those of `kpageflags` that are compared, and `dirty` for itself, because it
is the one flag that is printed and not compared. `Text` is what is printed.

A row of `--phys` prints its last page for all of its pages.
`RowSpeaksForItsPages` compares what it prints with what each page would print,
and allows two differences, both of which the code has: a page that could not be
read and one that is not present share a row (`FailureHidden`), and so do pages
that differ in `dirty` (`DirtyIgnored`). `RowsCombineIdentical` allows none, and
does not hold.

## Runs

| run | shows | bounds |
|---|---|---|
| `files_shared` | offsets and end-of-file flag are reset whenever nobody is reading, the block offset unless the last `lseek()` failed; the first reader out leaves a file read completely; the one-megabyte limit holds for each reader | 3 readers, a file of 5 units with buffers of 2, all kinds of files, `read()`, `fread()` and `lseek()` may fail |
| `files_stuck` | the stream loop does not end when `fread()` keeps failing | 1 reader |
| `allocate_safety` | addresses and frames live and die together; fills go to live memory; allocation and release are complete; no slot is written late | 3 + 3 allocations, 3 fillers |
| `selfscan` | no worker uses released memory or a closed file; the scan sees the prepared process; without workers everything is filled and read first; `main()` returns, and cleanly | 0 to 2 workers, 2 + 2 allocations, a block file of 3 units, an empty stream file |
| `selfscan_fill_race` | with workers, the scan can come before the first fill | at most 1 worker |
| `iomem` | sortedness, the walk finds the only place, and the refinement of `PhysMap`; each address is counted once through every swap; the sort sorts and ends, and no `ASSERT` fails; the total is the mapped memory | 5 addresses, requests up to two past the end, 3 descriptions, any sequence of calls |
| `memscan_options` | the branch taken is the target named; only the own process is scanned; the parent prints last; every return is clean; every process ends | any 3 options and 1 filter; numbers 0, 6, 7 and 9 with a 3-bit `int` |
| `memscan_aborts` | a configuration that validates can fail an `ASSERT` | 1 option |
| `maps` | the selected readable regions are read as often as the options ask, and nothing else is; the selection is the union of what each filter selects, which is what is documented but for three named differences; `getMap()` and an address filter agree; the rows tell what was done | up to 3 regions in 3 pages of 2 bytes, 2 of 6 filters, 3 paths of which 1 is excluded, 3 sets of permissions, all settings of the three options |
| `text` | the documented result of the four trimming functions, nothing behind the string is touched, the loop ends, counters in range; a size that fits and digits behind a prefix are what was written; what is refused, and which texts without digits are accepted all the same | all buffers of 6 characters over two letters, two spaces, terminator; all texts of 4 characters over 8 symbols and a space, and of 5 over 4 of them; 5-bit numbers |
| `pages_rows` | no descriptor is lost; rows cover the region, print what their pages would print but for two named differences, and neighbours differ | all maps of 3 pages, every read failing or not |
| `pages_region` | the printed region is that of the frame *number* | 2 pages |

**Why these bounds are enough to be interesting.** Three readers and a file of
two and a half buffers give a reader that reads in the middle while one has
reset and one is at the end. Three allocations make a first, an inner and a last
frame. Two workers are the least that share a loop with each other and not only
with `main()`, and an empty stream file is the case in which each can clear the
flag the other waits for with the fewest steps. Five addresses and three
descriptions admit all five outcomes of an insertion, nested twice, at both ends
of the address space and past it, and totals of 3, 1, 1 and of 2, 2, 1: equal
sizes in every order, descriptions that occur in several regions, and the
unmapped memory as the largest and as not the largest. With a 3-bit `int`, 6 and
7 become negative, 7 becomes -1, the default of `scanPid`, and 9 is cut to 1.
Six characters give leading, inner and trailing runs of two kinds of spaces at
once. Four and five characters make signs, both prefixes, one behind the other,
digits of three bases, both units and what is none; with 5 bits, the units 3 and
5 and the digit 11 make numbers and products that just fit and that do not.
Three regions can be adjacent or apart, and an address can lie in one, between
two that touch, in a gap and past the last; two filters can agree, overlap and
contradict the excluded path. Three pages give a first, an inner and a last row,
and rows of one, two and three pages. Deadlock is checked in every run: each
module has an explicit final step.

The type invariants are proved for every instance (below). Of those, only that
of `Trim` is also a property of a run, because the range of its unsigned
counters is a question of its own.

**Fairness.** `Terminates` in `SelfScan` assumes that each thread that can take
a step is scheduled (weak fairness of the steps of each thread), which the
operating system's scheduler gives; nothing is assumed about the order of
threads, about a `read()` or `lseek()` succeeding, or about a thread winning a
race for the flag. It is assumed that `fread()` does not fail (`streamMayFail` is
`FALSE` in `SelfScan.cfg`): where it does, the program need not end, which is
what `files_stuck` shows. The mutex is held by one side only once, so weak fairness suffices for
it. That workers cannot clear each other's flag for ever follows from
`runningThreads`: once it is false, each worker ends its round with a smaller
number of competitors. `StreamReadTerminates` assumes a fair reader;
`EveryProcessEnds` fair processes; `SortTerminates` (a sort that has begun
reaches `validate_summary()`) and `Terminates` of `Trim` (also behind a
conversion) that a function that was called runs.

### Where code and documentation disagree

* **`files_stuck`** (`files.c:154`): the loop tests `feof()` and never
  `ferror()`, so on a stream whose `fread()` fails (a directory, for instance)
  it runs for ever.
* **`selfscan_fill_race`** (`memscan.c:117`): `--fill` is documented to fill
  "before the scan"; with `--threads` the scan does not wait for it.
* **`memscan_aborts`** (`config.c:616`): `validateConfig()` accepts sizes of
  zero, which fail an `ASSERT` in `allocate.c`, and a `--pid` that is -1 as an
  `int`, which reaches "We should never get here".
* **`pages_region`** (`pagemap.c:210`, `364`): the region of a page is looked
  up with its frame number where a physical address is expected.

Three more are stated and have no run of their own; each can be checked by
naming it as the invariant of a configuration.

* `FiltersAsDocumented` (in `Maps.cfg`): the filters do not select what is
  documented, for three reasons. `NextDoor`: `maps.h:23` calls `pAddressEnd` "the
  byte just *after* the end" and the usage text asks for "the region that has
  the address" (`config.c:58`), but the filter (`maps.c:236`) takes that byte as
  inside, and of two adjacent regions selects both. `Missed`: "include regions
  with that permission set" (`config.c:59-60`, and `config.h:226-228`), but all
  three permissions are compared (`maps.c:242-244`), so that `+r` does not select
  a region that is writable, too. `MayMiss`: the pattern of a filter is not
  terminated (`config.c:422-426`), and `strstr()` looks for more than the pattern.
* `RowsCombineIdentical` (in `PagesRegion.cfg`): "combine identical
  into one row" (`pagemap.c:295-296`), but two pages that differ only in `dirty`, or of which
  one was not present and the other could not be read, share a row although their
  text differs.
* `SwapOffsetDecoded` (in `PagesRegion.cfg`): the mask of the swap offset drops its
  lowest bit (`pagemap.c:134`).

Others came up while modelling. The models do what the code does, and the
properties say where they stop because of it:

* `convert.h:30` and `52` promise "the number or a fatal error". A size that
  does not fit is accepted as `ULLONG_MAX` or as the product modulo 2^64
  (`convert.c:39-59`), a unit without a number as 0; behind a prefix or without
  one, the empty text is accepted as 0 and `-1` as `ULLONG_MAX`. `0x0b1` is
  converted in base 2 (`convert.c:78`), although it has the prefix `0x`.
  `PrefixedAsWritten` says of the empty text and of `0x0b1` what the code makes of
  them, and leaves open a sign, a space or a second `0x` behind the prefix
  (`MoreThanDigits`).
* `getMap()` (`maps.c:313`), too, takes the byte after a region as inside: of two
  adjacent regions it finds the wrong one at the border.
* A page that could not be read keeps the zeros of `memset()`
  (`pagemap.c:123-126`).
* `compose_iomem_summary()` uses the result of `malloc()` untested
  (`iomem.c:569`).

## Proofs

`AllocateProofs` proves `TypeInvariant`, `NoDanglingLocals`,
`FillsLiveMemory`, `AllocatedIsComplete`, `ReleasedIsComplete` and
`NoLateWrite` for any set of fillers, any number of allocations and any choice
of options. The only assumption is `AllocateAssumption`: the options are
Booleans and the numbers of allocations are at least one, as the `ASSERT`s of
`allocatePreScanMemory()` demand.

None of the safety properties is inductive. That a slot is set says nothing of
the frame; that the frame is alive follows from where the local thread is; and
where it can be follows from where `main()` is. The inductive invariant
`IInv` therefore says, for each position of `main()`, what the heap array
(`HeapInv`), the local array (`LocalInv`), the mutex, semaphore and local thread
(`SyncInv`) and the fillers (`FillInv`) are. Its core: while `main()` waits, the
slots from `remaining` on are set and the semaphore is 0 until the last frame;
from then until the unlock, `main()` holds the mutex and the local thread is
parked with all frames pushed.

Two theorems say that the handshake ends. `NoMutualWait`: whenever `main()` is
blocked at the mutex, the semaphore or the join, the local thread is not. What
this needs beyond `IInv` is `LetGo`: `main()` joins only after it has let go of
the mutex, and nobody takes it from the parked thread. `HandshakeEnds`: every
step of `main()` (`MainLeft`) and of the local thread (`LocalLeft`) decreases
the steps they have left, at most `2 * numMallocs + 2 * numLocals + 14`, and no
filler raises them.

`FilesProofs` proves `TypeInvariant`, `RewoundWhenIdle`, `BlockContentsRead` and
`StreamReadBounded` for any set of readers, any sizes and any options, from
`FilesAssumption` (sizes are natural numbers, the buffer is not empty). The
strengthening is `Unread`: as long as a position of the file was never read and
no read failed, nobody is at the reset, everything before the shared offset was
read, and no reader has counted more than the offset. So a reader that has
counted the whole file, or was told there is no more, proves that the offset
was at the end, and then everything was read. `RewoundWhenIdle` (`Rewound`) has
the condition `~seekFailed`; `BlockContentsRead` and `StreamReadBounded` hold
whether `lseek()` fails or not.

`SelfScanProofs` proves `FillsLiveMemory`, `ReadsOpenFiles`,
`ScanSeesPreparedProcess`, `CleanExit` and `PreparedAlone` for any number of
workers, allocations and sizes, from `SelfScanAssumption`. It composes the two
proofs above: both are instantiated with all threads as callers, and a step of
`SelfScan` is shown to be a step of each instance or to leave its variables
alone (`SameMemory`, `SameFiles`), so that their invariants hold here without
being proved again. What is new is who calls: `Position` relates where `main()`
is to how far the two components are, `Crew` says which workers exist and which
have ended at each step of `main()`, `Activity` that a thread is inside of a
function only where its program calls it, and `Opened` which descriptors are
valid. From these, a worker that has not ended is behind the allocation and before
the join, which is why it finds its memory and files. `Prepared` adds how much
`main()` has filled and read when it works alone.

`CallersKeepTheRules` states the composition: `Allocate` and `Files` leave to
their callers when to fill, read, release and close, under conditions; the
threads of `SelfScan` meet them, so that each step of the process is a step of
`Allocate`, and one of `Files`, or nothing to it, or a fatal error elsewhere.

Three theorems say that the process comes to its end, as far as that is a safety
property. `NoDeadlock`: `main()` has a next step that does not block, or it
waits for the local thread or the worker it joins, and that one has a next step.
`MainEnds`: every step of `main()` and of the local thread decreases
`MainAhead`, the sum of the calls `main()` has left with those inside of its own
reading and filling (`CallsLeft`), the files to open and close (`FilesLeft`) and
the handshake (`HandshakeLeft`, taken over from `AllocateProofs`); no worker
raises it. `WorkersEnd` is about the race for the file positions: once
`runningThreads` is false, a step of a worker leaves itself fewer steps
(`RoundLeft`) and the others not more, except for `rewind()`, which clears the
end-of-file flag that another reader is about to test and sends that one round
its loop again. But then there is one worker less in `ToRewind`, those that can
still call `rewind()`, and nothing adds to that set: a lexicographic order
without infinite descent. Both have the condition `~streamMayFail`, without
which the loop of `files_stuck` does not end. What TLC adds in `Terminates` is
the fairness that turns these measures into an end.

`IomemProofs` proves the type invariant, `StrictlySorted`, `WalkFindsTheRegion`
and `ImplementsMap` for an address space and descriptions of any size and any
sequence of calls, from `IomemAssumption`. `Passed` strengthens the sortedness:
an insertion has only walked past regions that end before its own end, a look-up
stands on a region that starts at or before its address. The first
gives the step of `PhysMap` for each of the five outcomes of an insertion: the
new list has the addresses of the request under the new description, every
other address under its old one, and the borders of the old list and two more.
That each address lies in exactly one region (`Covered`, `Disjoint`) is shown by
taking the least region that ends behind it, because an induction over the list
is out of the prover's reach.

Of the summary it proves `EveryAddressCountedOnce`, `SortedWhenPrinted` and
`TotalIsMappedMemory`, for any list that calls can build, and that
`IomemSummary` implements `Iomem`, and so `PhysMap` (`SummaryKeepsList`). The
inductive invariant `SInv` adds three parts to that of the list. `Recorded`: the
records have different descriptions, each counts the addresses of the regions
before `region` that have its description, and each of those regions has a
record. A swap exchanges two records and keeps it, so that nothing has to be
said of the order. `SummaryPhase`: in a pass that has not swapped anything, the
records up to `type` are sorted (`Ascending`), which makes the list sorted when
such a pass ends; and while printing, `total` counts the addresses of the records
printed so far. `SumOfRegions` reads the sum of sizes that `validate_summary()`
compares (a fold) as the number of addresses in those regions: counting is one
function that solves the equations of the fold, and it is the only one, because
two that differ would differ first on some smallest set.

`SortEnds` is the measure of the bubble sort. A swap takes a pair out of the
`Inversions` (the pairs of records in the wrong order; an injection from those
after the swap to those before, which misses the pair that was swapped); a
comparison without a swap shortens the pass; and a new pass only starts if this
one swapped. For `n` records, `SortLeft` is `n` times the inversions, and `n`
more if the pass has swapped, and the rest of the pass: below `n*n*n + 2*n`, and
every step decreases it. Records of equal size are no inversion, which is why
they must not be swapped.

`MapsProofs` proves `TouchesTheSelection`, `SelectionIsTheUnion`,
`AddressAgreesWithGetMap` and `RowsTellTheScan` for any regions, page size, and
number of filters,
from `MapsAssumption`. The regions are disjoint (`Sorted`), so that an address is
touched by the one region it is in; `Touched` says, for each address and each
step of `main()`, how often it has been read: `Scanned` by the scan, if that has
passed its region, and `Entropy` by the page look-up, if that has. `Selection`
says what the filters selected when the list was made, which stays true because
nothing changes `include` later.
`RowsOk` relates each region the page look-up or the printing has passed to
what was decided there: its pages were asked for with the right flag, and the
rows so far are those of the regions to be shown (all of them, or with filters the
selected ones), in order. A region's row is the one whose place is the number of
regions shown up to it.

`TrimProofs` proves `TypeInvariant`, `NothingBehindTheString` and
`ReturnsTrimmed` for a buffer of any size and any characters, from
`TrimAssumption`. `Ends` says that everything from the terminator of the string
that was passed is as it was; `Counts` relates the state of `trim()` to its
counters: `index` never steps over that terminator, it has moved when the state
is `ON_NOTICE`, and there is something to shift when the state is `SHIFT`.

For the result, `Progress` is what `trim()` has done when it has read the first
`o` characters of what it was passed, although it does not know `o`: `distance`
is counted back to 0 by every shift. The front of the buffer reads
(`Reads`) the characters that are kept of those, the first space behind each
word among them; from `index` on the buffer still holds what was passed from `o`
on (`Follows`); and the state tells which of the last two characters were
spaces. There is a lemma per arrow of the state machine. Two ways lead to the
end: behind a word, where what was kept is what is promised, and behind spaces,
where the last shift takes one more (`EndsInSpaces`). That a kept character has
the place in the result that the reference definition gives it is a question of
ranks in a finite set (`Chosen`). The other three functions keep an interval
(`LeftEdge`, `RightEdge`).

That a call ends is `ScanEnds`: `StepsLeft` weighs each character that is still to
be read with the steps it can cost, and what the state still has to do; a shift,
which goes back in the buffer, comes no nearer to the beginning of what was
passed. There are at most three steps for a character and one more.
`NeverStops` adds that until it has returned, a call always has a step.

`Convert` implements `Trim` (`ConvertTrims`), so that all of this holds of the
calls in `convert.c`; what a conversion returns is read from the text that
`trim()` promises (`ConvertedFromTrimmed`). `OnlyNumbersAccepted` says of that
text, whatever its length, that only sizes and numbers are accepted: if
`strtoull()` leaves nothing, or one character, then what is before it begins with
no space and no sign and consists of digits. `ScaledAsWritten` and
`PrefixedAsWritten` say more, and are proved for texts of any length
(`SizesAsWritten`, `PrefixedNumbersAsWritten`): a number that fits is accepted
with its value, and of the other texts the properties say which are refused,
which the code accepts all the same and as what, and which are left open. `strtoull()` multiplies and adds digit by digit (a fold over
the sequence), the reference (`Number`) adds up the digits with their places;
that both are the same is shown without an induction over the digits, by
the least number of digits read for which they would differ. The assumption is
`ConvertAssumption`: digits, units, signs and the letters of the prefixes are
graphic characters, signs are no digits, a unit is no decimal digit and its factor
is not 0.

`PagesProofs` proves `TypeInvariant`, `NoDescriptorLost`, `RowsPartition`,
`RowSpeaksForItsPages` and `NeighbouringRowsDiffer` for a map of any number of
pages and any entries, from `PagesAssumption`. `RowOk` is what is true of a row
when it is printed: it stands for a run in which each page compares equal with the
next, and which could not be longer. Pages that compare equal print the same
(`Spoken`) but for the two differences the property names. That what neighbours agree on is the same
for the whole run, and that a run has an end, are again arguments by a least
counterexample. The sizes in the rows add up because a row ends where the next
one begins: the fold over the rows counts the pages of all rows (`SumOfRows`), by
the same argument as for the summary of `iomem.c`.

`MemscanProofs` proves `TypeInvariant`, `TargetHonoured`, `ScansOnlyItself`,
`ParentPrintsLast` and `CleanReturn` for any options, numbers and width of `int`,
from `ConfigAssumption` and `MemscanAssumption`. `HeldOk` is what a process can
hold before each of its calls, and covers the ways all four branches go through
the shared calls; `Named` ties the option variables to the targets named on the
command line, `BranchOk` the branch to the variables, and `ChildOk` where the
child can be to where the parent is. `ProcessOk` keeps the result of
`validateConfig()` valid until `reset_config()`, in the child as well, which
starts with a copy. `NeverWaitsInVain`: where the parent waits for its child,
there is one, and it has ended or goes on; it has none of the memory and threads
of a scan of the own process (`Forked`), which it would have no call to give
back. `ProcessesEnd`: each step of a process leaves it fewer calls
(`CallsLeft`), whichever of them fail, and only `fork()` starts the child.

Each proof has a lemma per action for `IInv /\ A => IInv'`, a lemma that joins
them, and a theorem per property.

**Only model-checked.** The liveness properties themselves: `Terminates` of
`SelfScan` and of `Trim`, `SortTerminates` and `EveryProcessEnds`. They need
fairness, which is out of the prover's reach. What is proved of them is the rest
of the argument, for every value of the constants: that somebody always has a
next step, and a measure that every step decreases. All safety properties of the
passing runs are proved.

## Not modelled

* The text of `/proc` files: a parsed line is a choice of its values.
* `shannon.c` is a sum of logarithms in floating point, for which neither TLC
  nor the provers have an arithmetic; `assembly.c` is a few instructions, whose
  effect on the stack is the frame that `Allocate` pushes; the remaining headers
  are constants.
* `validateMaps()`, which only the tests call, and what a scan counts in the
  bytes it reads.
* The length of paths and of the line buffers, and the setting of the program
  name and the usage text: of `config.c`, these are what makes it only partly
  modelled.
* Wording, widths and colours of the output, except where a property is about
  what a row says.
* Signals, and a failing `close()`, whose only effect is a warning. (A failing
  `read()`, `lseek()` or `pread()` warns as well, and is modelled.)
* The pointers of the bubble sort (`iomem.c:524-537`): the model exchanges two
  elements of a sequence, and that the relinking does so was read, not checked.
* The total of the summary where the last record is not the unmapped memory
  (`iomem.c:490`): `TotalIsMappedMemory` is about the other case.
* A `--pid` that is negative as an `int` and not -1: `Memscan` has it, but
  `TargetHonoured` does not speak of it; `validateConfig()` then accepts options
  beside it that `--pid` excludes.
* A size that does not fit: `Convert` computes it, but `ScaledAsWritten` does not
  speak of it.

## Plan

The parts of the program whose state matters are modelled, the safety properties
that the runs check are proved, and so are the measures behind the liveness
properties. What could be added: the length of paths and lines (`config.c:232`,
`maps.c`), for which the strings of `Trim` would start in a buffer without a
terminator; and the masks of `pagemap.c`, bit by bit. Neither has interleavings
or failures of its own.
