------------------------------ MODULE Memscan -------------------------------
(***************************************************************************)
(* memscan.c: main(), from the command line to the exit status.            *)
(*                                                                         *)
(* The options are processed one by one, validated, and select one of four *)
(* branches: --iomem, --fork, --pid, or scanning the own process.  --fork  *)
(* runs the scan in two processes; the parent prints after the child has   *)
(* ended.  What happens inside of the branch that scans the own process    *)
(* while its threads run is the subject of module SelfScan; here its calls *)
(* before and after the scan are one step each.                            *)
(***************************************************************************)
EXTENDS Config, Sequences

CONSTANTS
    MaxOptions,  \* bound: the options on the command line
    MaxFilters   \* bound: the filters on the command line

ASSUME MemscanAssumption == MaxOptions \in Nat /\ MaxFilters \in Nat

Processes == {"parent", "child"}

VARIABLES
    config,   \* the option variables of each process
    filters,  \* the length of its list filterHead
    held,     \* what it has allocated or opened and not given back
    step,     \* the call it makes next
    status,   \* how it ended
    numOptions,  \* the options processed so far
    given,    \* history: the targets named on the command line
    printed   \* history: the processes that have printed their maps, in order

vars == <<config, filters, held, step, status, numOptions, given, printed>>
history == <<numOptions, given, printed>>

Init ==
    /\ config = [p \in Processes |-> Defaults]
    /\ filters = [p \in Processes |-> 0]
    /\ held = [p \in Processes |-> {}]
    /\ step = [p \in Processes |-> IF p = "parent" THEN "options" ELSE "none"]
    /\ status = [p \in Processes |-> "running"]
    /\ numOptions = 0
    /\ given = {}
    /\ printed = <<>>

----------------------------------------------------------------------------

Goto(p, from, to) ==
    /\ step[p] = from
    /\ step' = [step EXCEPT ![p] = to]

\* The process ends: exit(), the return from main(), or abort() in an ASSERT.
Exit(p, from, how) ==
    /\ Goto(p, from, "ended")
    /\ status' = [status EXCEPT ![p] = how]
    /\ UNCHANGED <<filters, held, history>>

\* A call that only moves on.
Call(p, from, to) ==
    /\ Goto(p, from, to)
    /\ UNCHANGED <<config, filters, held, status, history>>

\* A call that moves on and acquires, or gives back, some resources.
CallHolding(p, from, to, resources) ==
    /\ Goto(p, from, to)
    /\ held' = [held EXCEPT ![p] = resources]
    /\ UNCHANGED <<config, filters, status, history>>

\* FATAL_ERROR.
Fatal(p, from) == Exit(p, from, "failure") /\ UNCHANGED config

\* An ASSERT that fails.
Abort(p, from) == Exit(p, from, "abort") /\ UNCHANGED config

----------------------------------------------------------------------------
(* processOptions()                                                        *)

ProcessOption(o, v) ==
    /\ step["parent"] = "options"
    /\ numOptions < MaxOptions
    /\ numOptions' = numOptions + 1
    /\ given' = given \cup ({o} \cap {"iomem", "fork", "pid"})
    /\ IF Accepts(o, v)
       THEN /\ config' = [config EXCEPT !["parent"] = AfterOption(@, o, v)]
            /\ UNCHANGED <<step, status>>
       ELSE /\ Goto("parent", "options", "ended")
            /\ status' = [status EXCEPT !["parent"] = "abort"]
            /\ UNCHANGED config
    /\ UNCHANGED <<filters, held, printed>>

\* A number or a path that is not one, and options memscan does not know.
IllegalOption == Fatal("parent", "options")

\* --help, --key and --version end memscan.
PrintAndExit == Exit("parent", "options", "exited") /\ UNCHANGED config

\* The remaining arguments are filters.
ProcessFilters == Call("parent", "options", "filters")

ProcessFilter ==
    \/ /\ step["parent"] = "filters"
       /\ filters["parent"] < MaxFilters
       /\ filters' = [filters EXCEPT !["parent"] = @ + 1]
       /\ UNCHANGED <<config, held, step, status, history>>
    \/ Fatal("parent", "filters")

----------------------------------------------------------------------------

\* Mistaken: the filters stay allocated.
ResetConfigKeepsFilters(p) ==
    /\ config' = [config EXCEPT ![p] = Defaults]
    /\ UNCHANGED filters

\* reset_config()
ResetConfig(p) ==
    /\ config' = [config EXCEPT ![p] = Defaults]
    /\ filters' = [filters EXCEPT ![p] = 0]

ValidateConfig ==
    /\ ~validateConfig(config["parent"])
    /\ Goto("parent", "filters", "ended")
    /\ ResetConfig("parent")
    /\ status' = [status EXCEPT !["parent"] = "invalid"]
    /\ UNCHANGED <<held, history>>

CheckCapabilities ==
    /\ validateConfig(config["parent"])
    /\ \/ Call("parent", "filters", "readIomem")
       \/ Fatal("parent", "filters")

\* The branch main() takes.
Branch(c) ==
    IF c.iomemSummary THEN "summarizeIomem"
    ELSE IF c.forkProcess THEN "fork"
    ELSE IF c.scanPid # -1 THEN "getMaps"
    ELSE IF c.scanSelf THEN "beforeScan"
    ELSE "neverGetHere"

ReadIomem ==
    \/ CallHolding("parent", "readIomem", Branch(config["parent"]),
                   held["parent"] \cup {"iomem"})
    \/ Fatal("parent", "readIomem")

\* ASSERT( false ) ;  // We should never get here
AssertFalse == Abort("parent", "neverGetHere")

SummarizeIomem ==
    \/ Call("parent", "summarizeIomem", "releaseIomem")
    \/ Fatal("parent", "summarizeIomem")

\* The child starts with a copy of everything the parent has.
Fork ==
    \/ /\ step["parent"] = "fork"
       /\ step' = [p \in Processes |-> "getMaps"]
       /\ config' = [p \in Processes |-> config["parent"]]
       /\ filters' = [p \in Processes |-> filters["parent"]]
       /\ held' = [p \in Processes |-> held["parent"]]
       /\ UNCHANGED <<status, history>>
    \/ Fatal("parent", "fork")

----------------------------------------------------------------------------
(* The scan.                                                               *)

\* The ASSERTs of allocatePreScanMemory().
AllocateAsserts(c) ==
    /\ c.allocateHeapMemory => c.mallocSize > 0 /\ c.numMallocs >= 1
    /\ c.allocateLocalMemory => c.localSize > 0 /\ c.numLocals >= 1
    /\ c.allocateMappedMemory => c.mappedSize > 0

\* openPreScanFiles(), allocatePreScanMemory(), reading, filling or
\* createThreads(), and the sleep.
BeforeScan ==
    \/ /\ AllocateAsserts(config["parent"])
       /\ CallHolding("parent", "beforeScan", "getMaps",
                      held["parent"] \cup {"preScan"})
    \/ ~AllocateAsserts(config["parent"]) /\ Abort("parent", "beforeScan")
    \/ Fatal("parent", "beforeScan")

\* fopen() finds no file for a process that does not exist.
GetMaps(p) ==
    \/ /\ config[p].scanSelf \/ config[p].scanPid > 0
       /\ CallHolding(p, "getMaps", "scanMaps", held[p] \cup {"maps"})
    \/ Fatal(p, "getMaps")

ScanMaps(p) == Call(p, "scanMaps", "readPagemapInfo")

WantsPages(c) == c.includePhysicalPageNumber \/ c.includePhysicalPageSummary

\* getPageInfo() opens pagemap, kpagecount and kpageflags and keeps them open;
\* it ends the process if it cannot.
ReadPagemapInfo(p) ==
    \/ /\ ~WantsPages(config[p])
       /\ Call(p, "readPagemapInfo", "waitpid")
    \/ /\ WantsPages(config[p])
       /\ \/ CallHolding(p, "readPagemapInfo", "waitpid",
                         held[p] \cup {"pagemap"})
          \/ Fatal(p, "readPagemapInfo")

\* Mistaken: the parent does not wait.
WaitPidNot(p) == Call(p, "waitpid", "printMaps")

\* Mistaken: the parent tries again and again until the child has printed.
WaitPidPrinted(p) ==
    IF p = "parent" /\ config[p].forkProcess /\ step[p] = "waitpid" /\ printed = <<>>
    THEN UNCHANGED vars
    ELSE Call(p, "waitpid", "printMaps")

\* The parent of a fork waits until the child has ended, whatever way.
WaitPid(p) ==
    /\ p = "parent" /\ config[p].forkProcess => step["child"] = "ended"
    /\ Call(p, "waitpid", "printMaps")

PrintMaps(p) ==
    /\ Goto(p, "printMaps", "releaseMaps")
    /\ printed' = Append(printed, p)
    /\ UNCHANGED <<config, filters, held, status, numOptions, given>>

ReleaseMaps(p) ==
    CallHolding(p, "releaseMaps",
                IF "preScan" \in held[p] THEN "afterScan" ELSE "closePagemap",
                held[p] \ {"maps"})

\* closeThreads(), releasePreScanMemory() and closePreScanFiles().
AfterScan ==
    CallHolding("parent", "afterScan", "closePagemap",
                held["parent"] \ {"preScan"})

\* close() may fail.
ClosePagemap(p) ==
    \/ CallHolding(p, "closePagemap", "releaseIomem", held[p] \ {"pagemap"})
    \/ "pagemap" \in held[p] /\ Fatal(p, "closePagemap")

ReleaseIomem(p) ==
    CallHolding(p, "releaseIomem", "resetConfig", held[p] \ {"iomem"})

\* reset_config() and the return from main().
ReturnFromMain(p) ==
    /\ Goto(p, "resetConfig", "ended")
    /\ ResetConfig(p)
    /\ status' = [status EXCEPT ![p] = "returned"]
    /\ UNCHANGED <<held, history>>

ScanStep(p) ==
    \/ GetMaps(p) \/ ScanMaps(p) \/ ReadPagemapInfo(p)
    \/ WaitPid(p) \/ PrintMaps(p) \/ ReleaseMaps(p) \/ ClosePagemap(p)
    \/ ReleaseIomem(p) \/ ReturnFromMain(p)

MainStep ==
    \/ \E o \in Options, v \in Values : ProcessOption(o, v)
    \/ IllegalOption \/ PrintAndExit \/ ProcessFilters \/ ProcessFilter
    \/ ValidateConfig \/ CheckCapabilities \/ ReadIomem
    \/ AssertFalse \/ SummarizeIomem \/ Fork \/ BeforeScan \/ AfterScan
    \/ ScanStep("parent")

Ended ==
    /\ step["parent"] = "ended" /\ step["child"] \in {"none", "ended"}
    /\ UNCHANGED vars

Next == MainStep \/ ScanStep("child") \/ Ended

Spec == Init /\ [][Next]_vars

\* The operating system runs both processes.
FairSpec == Spec /\ WF_vars(MainStep) /\ WF_vars(ScanStep("child"))

----------------------------------------------------------------------------

Steps == {"none", "options", "filters", "readIomem", "summarizeIomem", "fork",
          "neverGetHere", "beforeScan", "getMaps", "scanMaps",
          "readPagemapInfo", "waitpid", "printMaps", "releaseMaps",
          "afterScan", "closePagemap", "releaseIomem", "resetConfig", "ended"}

TypeInvariant ==
    /\ \A p \in Processes :
          /\ DOMAIN config[p] = DOMAIN Defaults
          /\ config[p].scanPid \in -INT_MAX - 1 .. INT_MAX
          /\ config[p].sleepSeconds \in 0 .. UINT_MAX
    /\ filters \in [Processes -> 0 .. MaxFilters]
    /\ held \in [Processes -> SUBSET {"iomem", "maps", "pagemap", "preScan"}]
    /\ step \in [Processes -> Steps]
    /\ status \in [Processes -> {"running", "returned", "exited", "invalid",
                                "failure", "abort"}]
    /\ numOptions \in 0 .. MaxOptions
    /\ given \subseteq {"iomem", "fork", "pid"}
    /\ Len(printed) <= 2

\* "--iomem is exclusive with --fork and --pid", and likewise for the others
\* (config.c:617-640): main() takes the branch of the target that was named on
\* the command line, and only one was named.  A --pid that becomes negative in
\* its int is not seen by validateConfig(), which tests scanPid >= 0.
TargetHonoured ==
    LET branch == step["parent"]
    IN  ("pid" \in given => config["parent"].scanPid >= 0) =>
          /\ branch = "summarizeIomem" => given = {"iomem"}
          /\ branch = "fork" => given = {"fork"}
          /\ branch = "beforeScan" => given = {}
          /\ branch = "getMaps" =>
                given = (IF step["child"] # "none" THEN {"fork"}
                         ELSE IF "preScan" \in held["parent"] THEN {} ELSE {"pid"})

\* scanMaps() reads through the addresses it finds in the maps file, which are
\* those of the own process only if it is /proc/self/maps.
ScansOnlyItself ==
    \A p \in Processes :
       step[p] = "scanMaps" /\ (config[p].scanForByte \/ config[p].scanForShannon)
          => config[p].scanSelf

\* "The parent waits for the child process to finish" (memscan.c:65), so the
\* two outputs do not mix.
ParentPrintsLast ==
    /\ printed \in {<<>>, <<"parent">>, <<"child">>, <<"child", "parent">>}
    /\ "parent" \in {printed[i] : i \in DOMAIN printed} =>
          step["child"] \in {"none", "ended"}

\* Every return from main(), in each process and whatever branch it took, and
\* the exit after a failed validation, have given back all that the process
\* held and reset the configuration.
CleanReturn ==
    \A p \in Processes :
       status[p] \in {"returned", "invalid"} =>
          held[p] = {} /\ filters[p] = 0 /\ config[p] = Defaults

\* The wait for the child ends, also when the child dies before it prints.
EveryProcessEnds ==
    \A p \in Processes : step[p] = "getMaps" ~> step[p] = "ended"

\* validateConfig() answers "true if the configuration is healthy"
\* (config.h:134): once it has, no ASSERT of main() (memscan.c:142) and of
\* allocatePreScanMemory() (allocate.c:127-128, 145-146 and 177) fails.
HealthyNeverAborts == "iomem" \in held["parent"] => status["parent"] # "abort"
=============================================================================
