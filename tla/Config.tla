------------------------------- MODULE Config -------------------------------
(***************************************************************************)
(* config.c: the options, their defaults and validateConfig().             *)
(*                                                                         *)
(* The global option variables are one record, config.  A path is only set *)
(* or not, a number is a member of Values, and numbers keep the width of   *)
(* the variable they are stored in: --pid goes into an int, so that a      *)
(* large number can become a negative one.                                 *)
(***************************************************************************)
EXTENDS Integers

CONSTANTS
    Values,     \* the numbers given to options (unsigned long long)
    INT_MAX,    \* the limits of int, unsigned int and unsigned char
    UINT_MAX,
    UCHAR_MAX

ASSUME ConfigAssumption ==
    /\ Values \subseteq Nat
    /\ INT_MAX \in Nat /\ UINT_MAX = 2 * INT_MAX + 1
    /\ UCHAR_MAX \in Nat

\* (int) v, as the compilers of this code convert: modulo UINT_MAX + 1.
AsInt(v) ==
    LET low == v % (UINT_MAX + 1)
    IN  IF low <= INT_MAX THEN low ELSE low - (UINT_MAX + 1)

\* What reset_config() sets the variables to.
Defaults ==
    [openFileWithBlockIO |-> FALSE, openFileWithStreamIO |-> FALSE,
     openFileWithMapIO |-> FALSE, readFileContents |-> FALSE,
     forkProcess |-> FALSE, allocateLocalMemory |-> FALSE,
     allocateHeapMemory |-> FALSE, allocateMappedMemory |-> FALSE,
     fillAllocatedMemory |-> FALSE, scanForByte |-> FALSE,
     scanForShannon |-> FALSE, iomemSummary |-> FALSE, printPath |-> FALSE,
     includePhysicalPageSummary |-> FALSE, includePhysicalPageNumber |-> FALSE,
     blockPath |-> FALSE, streamPath |-> FALSE, mapFilePath |-> FALSE,
     localSize |-> 0, numLocals |-> 1, mallocSize |-> 0, numMallocs |-> 1,
     mappedSize |-> 0, mappedStart |-> 0, numThreads |-> 0, sleepSeconds |-> 0,
     byteToScanFor |-> 195, scanSelf |-> TRUE, scanPid |-> -1]

----------------------------------------------------------------------------
(* The options, by the way processOptions() handles them.                  *)

\* Options without an argument set one flag.
Flag ==
    [read |-> "readFileContents", fork |-> "forkProcess",
     fill |-> "fillAllocatedMemory", scan_byte |-> "scanForByte",
     shannon |-> "scanForShannon", path |-> "printPath", phys |-> "includePhysicalPageSummary",
     pfn |-> "includePhysicalPageNumber", iomem |-> "iomemSummary"]

\* Options with a path set a flag and the path.
Path ==
    [block |-> <<"openFileWithBlockIO", "blockPath">>,
     stream |-> <<"openFileWithStreamIO", "streamPath">>,
     map_file |-> <<"openFileWithMapIO", "mapFilePath">>]

\* Options with a size set a flag and the size.
Size ==
    [local |-> <<"allocateLocalMemory", "localSize">>,
     malloc |-> <<"allocateHeapMemory", "mallocSize">>,
     map_mem |-> <<"allocateMappedMemory", "mappedSize">>]

\* Options with a number set that number.
Number ==
    [numLocal |-> "numLocals", numMalloc |-> "numMallocs",
     map_addr |-> "mappedStart", threads |-> "numThreads"]

\* --scan_byte may have a number, and is then called scan_byte_num here.
Options == DOMAIN Flag \cup DOMAIN Path \cup DOMAIN Size \cup DOMAIN Number
              \cup {"sleep", "scan_byte_num", "pid"}

\* The ASSERTs on the number; those that compare with SIZE_MAX always hold.
Accepts(o, v) ==
    /\ o = "sleep" => v <= UINT_MAX
    /\ o = "scan_byte_num" => v <= UCHAR_MAX

\* The variables c after the option o, with the number v if it takes one.
\* --pid also selects the files of that process in /proc.
AfterOption(c, o, v) ==
    CASE o \in DOMAIN Flag      -> [c EXCEPT ![Flag[o]] = TRUE]
      [] o \in DOMAIN Path      -> [c EXCEPT ![Path[o][1]] = TRUE, ![Path[o][2]] = TRUE]
      [] o \in DOMAIN Size      -> [c EXCEPT ![Size[o][1]] = TRUE, ![Size[o][2]] = v]
      [] o \in DOMAIN Number    -> [c EXCEPT ![Number[o]] = v]
      [] o = "sleep"            -> [c EXCEPT !.sleepSeconds = v]
      [] o = "scan_byte_num"    -> [c EXCEPT !.scanForByte = TRUE, !.byteToScanFor = v]
      [] o = "pid"              -> [c EXCEPT !.scanPid = AsInt(v), !.scanSelf = FALSE]

----------------------------------------------------------------------------
(* validateConfig()                                                        *)

\* Mistaken: the scan options proper are left out.
hasPreScanOptions(c) ==
    \/ c.blockPath \/ c.streamPath \/ c.mapFilePath
    \/ c.readFileContents
    \/ c.localSize # 0 \/ c.numLocals # 1
    \/ c.mallocSize # 0 \/ c.numMallocs # 1
    \/ c.mappedSize # 0 \/ c.mappedStart # 0
    \/ c.fillAllocatedMemory
    \/ c.numThreads # 0
    \/ c.sleepSeconds # 0

hasScanOptions(c) ==
    \/ c.blockPath \/ c.streamPath \/ c.mapFilePath
    \/ c.readFileContents
    \/ c.localSize # 0 \/ c.numLocals # 1
    \/ c.mallocSize # 0 \/ c.numMallocs # 1
    \/ c.mappedSize # 0 \/ c.mappedStart # 0
    \/ c.fillAllocatedMemory
    \/ c.numThreads # 0
    \/ c.sleepSeconds # 0
    \/ c.scanForByte \/ c.scanForShannon

hasOutputOptions(c) ==
    \/ c.printPath
    \/ c.includePhysicalPageNumber
    \/ c.includePhysicalPageSummary

\* Mistaken: one rule per target, but not against the other targets.
ExclusiveTargetsNot(c) ==
    /\ c.iomemSummary => ~hasScanOptions(c) /\ ~hasOutputOptions(c)
    /\ c.scanPid >= 0 \/ c.forkProcess => ~hasScanOptions(c)

\* The rules for --iomem, --pid and --fork.
ExclusiveTargets(c) ==
    /\ c.iomemSummary =>
          /\ ~(c.scanPid >= 0) /\ ~c.forkProcess
          /\ ~hasScanOptions(c) /\ ~hasOutputOptions(c)
    /\ c.scanPid >= 0 => ~c.iomemSummary /\ ~c.forkProcess /\ ~hasScanOptions(c)
    /\ c.forkProcess => ~(c.scanPid >= 0) /\ ~c.iomemSummary /\ ~hasScanOptions(c)

\* The rules for options that need another option.
CompleteRequests(c) ==
    /\ c.readFileContents => c.blockPath \/ c.streamPath \/ c.mapFilePath
    /\ c.numLocals > 1 => c.localSize # 0
    /\ c.numMallocs > 1 => c.mallocSize # 0
    /\ c.mappedStart # 0 => c.mappedSize # 0
    /\ c.fillAllocatedMemory =>
          c.localSize # 0 \/ c.mallocSize # 0 \/ c.mappedSize # 0

validateConfig(c) ==
    /\ ExclusiveTargets(c)
    /\ CompleteRequests(c)
    /\ ~(c.includePhysicalPageSummary /\ c.includePhysicalPageNumber)
=============================================================================
