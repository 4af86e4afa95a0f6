---------------------------- MODULE MemscanProofs ---------------------------
(***************************************************************************)
(* Proofs about Memscan for any options, any numbers and any width of int: *)
(* main() takes the branch of the target that was named, scans only its    *)
(* own memory, prints the parent last, and returns with nothing held; both *)
(* processes come to their end, and the parent waits for no dead child.    *)
(***************************************************************************)
EXTENDS Memscan, SequenceTheorems, TLAPS

Resources == {"iomem", "maps", "pagemap", "preScan"}

\* The variables of a configuration.
Names == DOMAIN Defaults

\* Before the configuration is accepted, and before the fork.
Unchecked  == {"none", "options", "filters", "ended"}
BeforeFork == {"options", "filters", "readIomem", "summarizeIomem", "fork",
               "neverGetHere", "beforeScan"}
BeforeWait  == {"getMaps", "scanMaps", "readPagemapInfo", "waitpid"}
BeforePrint == BeforeFork \cup BeforeWait \cup {"none", "printMaps"}
AfterWait   == {"printMaps", "releaseMaps", "afterScan", "closePagemap",
                "releaseIomem", "resetConfig"}

\* What a process whose next call is s can hold.
HeldOk(s, h) ==
    /\ s \in {"none", "options", "filters", "readIomem", "resetConfig"} => h = {}
    /\ s \in {"summarizeIomem", "fork", "neverGetHere", "beforeScan",
              "releaseIomem"} => h \subseteq {"iomem"}
    /\ s = "getMaps" => h \subseteq {"iomem", "preScan"}
    /\ s \in {"scanMaps", "readPagemapInfo"} => h \subseteq {"iomem", "preScan", "maps"}
    /\ s = "afterScan" => h \subseteq {"iomem", "preScan", "pagemap"}
    /\ s = "closePagemap" => h \subseteq {"iomem", "pagemap"}

\* Each process for itself.
ProcessOk(p) ==
    /\ HeldOk(step[p], held[p])
    /\ status[p] # "running" => step[p] = "ended"
    /\ step[p] \notin Unchecked => validateConfig(config[p])
    /\ step[p] = "scanMaps" => config[p].scanSelf \/ config[p].scanPid > 0
    /\ status[p] \in {"returned", "invalid"} =>
          held[p] = {} /\ filters[p] = 0 /\ config[p] = Defaults

\* The variables say which targets were named.
Named ==
    LET c == config["parent"]
    IN  step["parent"] # "ended" =>
          /\ c.iomemSummary <=> "iomem" \in given
          /\ c.forkProcess <=> "fork" \in given
          /\ "pid" \notin given => c.scanPid = -1 /\ c.scanSelf
          /\ "pid" \in given => ~ c.scanSelf

\* The branch that was taken.
BranchOk ==
    LET c == config["parent"]
        s == step["parent"]
    IN  /\ s = "summarizeIomem" => c.iomemSummary
        /\ s = "fork" => ~ c.iomemSummary /\ c.forkProcess
        /\ s = "beforeScan" => ~ c.iomemSummary /\ ~ c.forkProcess /\ c.scanPid = -1
        /\ s = "getMaps" =>
              /\ ~ c.iomemSummary
              /\ step["child"] # "none" => c.forkProcess
              /\ step["child"] = "none" =>
                    /\ ~ c.forkProcess
                    /\ "preScan" \in held["parent"] <=> c.scanPid = -1

\* Where the child is, by where the parent is.
ChildOk ==
    /\ step["parent"] \in BeforeFork => step["child"] = "none"
    /\ step["parent"] \in BeforeWait /\ step["child"] # "none" =>
          config["parent"].forkProcess
    /\ step["parent"] \in AfterWait => step["child"] \in {"none", "ended"}

HasPrinted(p) == \E i \in DOMAIN printed : printed[i] = p

PrintOk ==
    /\ printed \in {<<>>, <<"parent">>, <<"child">>, <<"child", "parent">>}
    /\ HasPrinted("parent") =>
          step["parent"] \notin BeforePrint /\ step["child"] \in {"none", "ended"}
    /\ HasPrinted("child") => step["child"] \notin BeforePrint

IInv ==
    /\ TypeInvariant /\ DOMAIN config = Processes
    /\ \A p \in Processes : ProcessOk(p)
    /\ Named /\ BranchOk /\ ChildOk /\ PrintOk

-----------------------------------------------------------------------------
(* Options                                                                 *)

\* What matters here of a configuration d that comes from c by option o.
Follows(c, d, o) ==
    /\ DOMAIN d = Names
    /\ d.iomemSummary <=> c.iomemSummary \/ o = "iomem"
    /\ d.forkProcess <=> c.forkProcess \/ o = "fork"
    /\ o # "pid" => d.scanPid = c.scanPid /\ d.scanSelf = c.scanSelf
    /\ o = "pid" => d.scanPid \in -INT_MAX - 1 .. INT_MAX /\ ~ d.scanSelf
    /\ d.sleepSeconds \in 0 .. UINT_MAX

LEMMA AsIntInRange ==
    ASSUME NEW v \in Nat
    PROVE  AsInt(v) \in -INT_MAX - 1 .. INT_MAX
<1> DEFINE n == UINT_MAX + 1
           low == v % n
<1>1. INT_MAX \in Nat /\ n = 2 * INT_MAX + 2 /\ n \in Nat \ {0}
  BY ConfigAssumption
<1>2. low \in 0 .. n - 1
  <2> HIDE DEF n
  <2> QED BY <1>1
<1>3. AsInt(v) = IF low <= INT_MAX THEN low ELSE low - n
  BY DEF AsInt
<1> HIDE DEF low, n
<1> QED BY <1>1, <1>2, <1>3

\* Every option is of one kind.
LEMMA OneKind ==
    /\ DOMAIN Flag = {"read", "fork", "fill", "scan_byte", "shannon", "path",
                      "phys", "pfn", "iomem"}
    /\ DOMAIN Path = {"block", "stream", "map_file"}
    /\ DOMAIN Size = {"local", "malloc", "map_mem"}
    /\ DOMAIN Number = {"numLocal", "numMalloc", "map_addr", "threads"}
  BY DEF Flag, Path, Size, Number

LEMMA FlagNames ==
    \A o \in DOMAIN Flag :
        /\ o \notin {"pid", "sleep"} /\ Flag[o] \in Names
        /\ Flag[o] \notin {"scanPid", "scanSelf", "sleepSeconds"}
        /\ Flag[o] = "iomemSummary" <=> o = "iomem"
        /\ Flag[o] = "forkProcess" <=> o = "fork"
  BY DEF Flag, Names, Defaults

\* The variables options other than flags, and their targets, are about.
Targets == {"iomemSummary", "forkProcess", "scanPid", "scanSelf", "sleepSeconds"}

LEMMA OtherNames ==
    /\ \A o \in DOMAIN Path : /\ o \notin {"iomem", "fork", "pid", "sleep"}
                              /\ Path[o][1] \notin Targets /\ Path[o][2] \notin Targets
    /\ \A o \in DOMAIN Size : /\ o \notin {"iomem", "fork", "pid", "sleep"}
                              /\ Size[o][1] \notin Targets /\ Size[o][2] \notin Targets
    /\ \A o \in DOMAIN Number : /\ o \notin {"iomem", "fork", "pid", "sleep"}
                                /\ Number[o] \notin Targets
<1>1. \A o \in DOMAIN Path : /\ o \notin {"iomem", "fork", "pid", "sleep"}
                             /\ Path[o][1] \notin Targets /\ Path[o][2] \notin Targets
  BY DEF Path, Targets
<1>2. \A o \in DOMAIN Size : /\ o \notin {"iomem", "fork", "pid", "sleep"}
                             /\ Size[o][1] \notin Targets /\ Size[o][2] \notin Targets
  BY DEF Size, Targets
<1>3. \A o \in DOMAIN Number : /\ o \notin {"iomem", "fork", "pid", "sleep"}
                               /\ Number[o] \notin Targets
  BY DEF Number, Targets
<1> QED BY <1>1, <1>2, <1>3

LEMMA TargetNames == Targets \subseteq Names
  BY DEF Targets, Names, Defaults

\* Setting two other variables.
LEMMA SetTwo ==
    ASSUME NEW c, DOMAIN c = Names, NEW x, NEW y, x \notin Targets, y \notin Targets,
           NEW v, NEW w, NEW o, o \notin {"iomem", "fork", "pid"},
           c.sleepSeconds \in 0 .. UINT_MAX
    PROVE  Follows(c, [c EXCEPT ![x] = v, ![y] = w], o)
<1>1. /\ "iomemSummary" \in Names /\ "forkProcess" \in Names
      /\ "scanPid" \in Names /\ "scanSelf" \in Names /\ "sleepSeconds" \in Names
  BY TargetNames DEF Targets
<1> QED BY <1>1 DEF Follows, Targets

LEMMA SetOne ==
    ASSUME NEW c, DOMAIN c = Names, NEW x, x \notin Targets,
           NEW v, NEW o, o \notin {"iomem", "fork", "pid"},
           c.sleepSeconds \in 0 .. UINT_MAX
    PROVE  Follows(c, [c EXCEPT ![x] = v], o)
<1>1. /\ "iomemSummary" \in Names /\ "forkProcess" \in Names
      /\ "scanPid" \in Names /\ "scanSelf" \in Names /\ "sleepSeconds" \in Names
  BY TargetNames DEF Targets
<1> QED BY <1>1 DEF Follows, Targets

LEMMA OptionFollows ==
    ASSUME NEW c, DOMAIN c = Names, c.sleepSeconds \in 0 .. UINT_MAX,
           NEW o \in Options, NEW v \in Values, Accepts(o, v)
    PROVE  Follows(c, AfterOption(c, o, v), o)
<1>1. /\ "iomemSummary" \in Names /\ "forkProcess" \in Names
      /\ "scanPid" \in Names /\ "scanSelf" \in Names /\ "sleepSeconds" \in Names
  BY TargetNames DEF Targets
<1>2. CASE o \in DOMAIN Flag
  <2>1. PICK x \in Names : x = Flag[o]
    BY <1>2, FlagNames
  <2>2. /\ o \notin {"pid", "sleep"}
        /\ x \notin {"scanPid", "scanSelf", "sleepSeconds"}
        /\ x = "iomemSummary" <=> o = "iomem"
        /\ x = "forkProcess" <=> o = "fork"
    BY <1>2, <2>1, FlagNames
  <2>3. Follows(c, [c EXCEPT ![x] = TRUE], o)
    BY <1>1, <2>2 DEF Follows
  <2>4. /\ o \notin DOMAIN Path /\ o \notin DOMAIN Size /\ o \notin DOMAIN Number
        /\ o # "sleep" /\ o # "scan_byte_num" /\ o # "pid"
    BY <1>2, OneKind
  <2>5. AfterOption(c, o, v) = [c EXCEPT ![Flag[o]] = TRUE]
    BY <1>2, <2>4, Zenon DEF AfterOption
  <2> QED BY <2>1, <2>3, <2>5
<1>3. CASE o \in DOMAIN Path
  <2>1. Path[o][1] \notin Targets /\ Path[o][2] \notin Targets
    BY <1>3, OtherNames
  <2>2. o \notin {"iomem", "fork", "pid"}
    BY <1>3, OtherNames
  <2>3. Follows(c, [c EXCEPT ![Path[o][1]] = TRUE, ![Path[o][2]] = TRUE], o)
    BY <2>1, <2>2, SetTwo, Zenon
  <2>4. /\ o \notin DOMAIN Flag /\ o \notin DOMAIN Size /\ o \notin DOMAIN Number
        /\ o # "sleep" /\ o # "scan_byte_num" /\ o # "pid"
    BY <1>3, OneKind
  <2>5. AfterOption(c, o, v) = [c EXCEPT ![Path[o][1]] = TRUE, ![Path[o][2]] = TRUE]
    BY <1>3, <2>4, Zenon DEF AfterOption
  <2> QED BY <2>3, <2>5
<1>4. CASE o \in DOMAIN Size
  <2>1. Size[o][1] \notin Targets /\ Size[o][2] \notin Targets
    BY <1>4, OtherNames
  <2>2. o \notin {"iomem", "fork", "pid"}
    BY <1>4, OtherNames
  <2>3. Follows(c, [c EXCEPT ![Size[o][1]] = TRUE, ![Size[o][2]] = v], o)
    BY <2>1, <2>2, SetTwo, Zenon
  <2>4. /\ o \notin DOMAIN Flag /\ o \notin DOMAIN Path /\ o \notin DOMAIN Number
        /\ o # "sleep" /\ o # "scan_byte_num" /\ o # "pid"
    BY <1>4, OneKind
  <2>5. AfterOption(c, o, v) = [c EXCEPT ![Size[o][1]] = TRUE, ![Size[o][2]] = v]
    BY <1>4, <2>4, Zenon DEF AfterOption
  <2> QED BY <2>3, <2>5
<1>5. CASE o \in DOMAIN Number
  <2>1. Number[o] \notin Targets
    BY <1>5, OtherNames
  <2>2. o \notin {"iomem", "fork", "pid"}
    BY <1>5, OtherNames
  <2>3. Follows(c, [c EXCEPT ![Number[o]] = v], o)
    BY <2>1, <2>2, SetOne, Zenon
  <2>4. /\ o \notin DOMAIN Flag /\ o \notin DOMAIN Path /\ o \notin DOMAIN Size
        /\ o # "sleep" /\ o # "scan_byte_num" /\ o # "pid"
    BY <1>5, OneKind
  <2>5. AfterOption(c, o, v) = [c EXCEPT ![Number[o]] = v]
    BY <1>5, <2>4, Zenon DEF AfterOption
  <2> QED BY <2>3, <2>5
<1>6. CASE o = "sleep"
  <2>1. v \in 0 .. UINT_MAX
    BY <1>6, ConfigAssumption DEF Accepts
  <2>2. Follows(c, [c EXCEPT !.sleepSeconds = v], o)
    BY <1>1, <1>6, <2>1 DEF Follows
  <2>4. /\ o \notin DOMAIN Flag /\ o \notin DOMAIN Path /\ o \notin DOMAIN Size
        /\ o \notin DOMAIN Number /\ o # "scan_byte_num" /\ o # "pid"
    BY <1>6, OneKind
  <2>5. AfterOption(c, o, v) = [c EXCEPT !.sleepSeconds = v]
    BY <1>6, <2>4, Zenon DEF AfterOption
  <2> QED BY <2>2, <2>5
<1>7. CASE o = "scan_byte_num"
  <2>1. Follows(c, [c EXCEPT !.scanForByte = TRUE, !.byteToScanFor = v], o)
    BY <1>1, <1>7 DEF Follows
  <2>4. /\ o \notin DOMAIN Flag /\ o \notin DOMAIN Path /\ o \notin DOMAIN Size
        /\ o \notin DOMAIN Number /\ o # "sleep" /\ o # "pid"
    BY <1>7, OneKind
  <2>5. AfterOption(c, o, v) = [c EXCEPT !.scanForByte = TRUE, !.byteToScanFor = v]
    BY <1>7, <2>4, Zenon DEF AfterOption
  <2> QED BY <2>1, <2>5
<1>8. CASE o = "pid"
  <2>1. AsInt(v) \in -INT_MAX - 1 .. INT_MAX
    BY ConfigAssumption, AsIntInRange
  <2>2. Follows(c, [c EXCEPT !.scanPid = AsInt(v), !.scanSelf = FALSE], o)
    BY <1>1, <1>8, <2>1 DEF Follows
  <2>4. /\ o \notin DOMAIN Flag /\ o \notin DOMAIN Path /\ o \notin DOMAIN Size
        /\ o \notin DOMAIN Number /\ o # "sleep" /\ o # "scan_byte_num"
    BY <1>8, OneKind
  <2>5. AfterOption(c, o, v) = [c EXCEPT !.scanPid = AsInt(v), !.scanSelf = FALSE]
    BY <1>8, <2>4, Zenon DEF AfterOption
  <2> QED BY <2>2, <2>5
<1> QED BY <1>2, <1>3, <1>4, <1>5, <1>6, <1>7, <1>8 DEF Options

LEMMA DefaultsOk ==
    /\ DOMAIN Defaults = Names
    /\ ~ Defaults.iomemSummary /\ ~ Defaults.forkProcess
    /\ Defaults.scanPid = -1 /\ Defaults.scanSelf
    /\ Defaults.scanPid \in -INT_MAX - 1 .. INT_MAX
    /\ Defaults.sleepSeconds \in 0 .. UINT_MAX
  BY ConfigAssumption DEF Defaults, Names

-----------------------------------------------------------------------------
(* Steps of one process                                                    *)

LEMMA Parts ==
    ASSUME IInv
    PROVE  /\ filters \in [Processes -> 0 .. MaxFilters]
           /\ held \in [Processes -> SUBSET Resources]
           /\ step \in [Processes -> Steps]
           /\ status \in [Processes -> {"running", "returned", "exited", "invalid",
                                        "failure", "abort"}]
           /\ numOptions \in 0 .. MaxOptions
           /\ given \subseteq {"iomem", "fork", "pid"}
           /\ "parent" \in Processes /\ "child" \in Processes /\ "parent" # "child"
  BY DEF IInv, TypeInvariant, Resources, Processes

LEMMA PrintedTwice ==
    ASSUME NEW s \in {<<>>, <<"parent">>, <<"child">>, <<"child", "parent">>}
    PROVE  Len(s) <= 2
<1>1. CASE s = <<>>
  BY <1>1
<1>2. CASE s = <<"parent">>
  BY <1>2
<1>3. CASE s = <<"child">>
  BY <1>3
<1>4. CASE s = <<"child", "parent">>
  BY <1>4
<1> QED BY <1>1, <1>2, <1>3, <1>4

LEMMA Two ==
    ASSUME NEW S, NEW a \in S, NEW b \in S
    PROVE  Append(<<a>>, b) = <<a, b>>
<1> DEFINE s == Append(<<a>>, b)
           t == <<a, b>>
<1>1. s \in Seq(S) /\ Len(s) = 2 /\ s[1] = a /\ s[2] = b
  OBVIOUS
<1>2. t \in Seq(S) /\ Len(t) = 2 /\ t[1] = a /\ t[2] = b
  OBVIOUS
<1>3. \A i \in 1 .. 2 : s[i] = t[i]
  BY <1>1, <1>2
<1> HIDE DEF s, t
<1>4. s = t
  BY <1>1, <1>2, <1>3, SeqEqual
<1> QED BY <1>4 DEF s, t

\* A process goes on and holds h.
LEMMA Moves ==
    ASSUME IInv, NEW p \in Processes, step[p] \notin {"none", "ended"},
           NEW to \in Steps, to \notin {"none", "ended"},
           step' = [step EXCEPT ![p] = to],
           UNCHANGED <<config, filters, status, numOptions, given>>,
           NEW h \in SUBSET Resources, held' = [held EXCEPT ![p] = h],
           HeldOk(to, h),
           to \notin Unchecked => validateConfig(config[p]),
           to = "scanMaps" => config[p].scanSelf \/ config[p].scanPid > 0,
           BranchOk', ChildOk', PrintOk'
    PROVE  IInv'
<1>1. \A q \in Processes : ProcessOk(q)'
  <2> SUFFICES ASSUME NEW q \in Processes PROVE ProcessOk(q)'
    OBVIOUS
  <2>1. ProcessOk(q)
    BY DEF IInv
  <2>2. CASE q = p
    <3>1. status[p] = "running" /\ step'[p] = to /\ held'[p] = h
      BY <2>1, <2>2, Parts DEF ProcessOk
    <3> QED BY <2>2, <3>1 DEF ProcessOk
  <2>3. CASE q # p
    <3>1. step'[q] = step[q] /\ held'[q] = held[q]
      BY <2>3, Parts
    <3> QED BY <2>1, <3>1 DEF ProcessOk
  <2> QED BY <2>2, <2>3
<1>2. Named'
  <2>1. step'["parent"] # "ended" => step["parent"] # "ended"
    BY Parts
  <2> QED BY <2>1 DEF IInv, Named
<1>3. TypeInvariant' /\ DOMAIN config' = Processes
  <2>1. Len(printed') <= 2
    BY PrintedTwice DEF PrintOk
  <2>2. step' \in [Processes -> Steps] /\ held' \in [Processes -> SUBSET Resources]
    BY Parts
  <2> QED BY <2>1, <2>2 DEF IInv, TypeInvariant, Resources
<1> QED BY <1>1, <1>2, <1>3 DEF IInv

\* A process ends before its time.
LEMMA Dies ==
    ASSUME IInv, NEW p \in Processes, step[p] \notin {"none", "ended"},
           step' = [step EXCEPT ![p] = "ended"],
           NEW how \in {"exited", "failure", "abort"},
           status' = [status EXCEPT ![p] = how],
           UNCHANGED <<config, filters, held, numOptions, given, printed>>
    PROVE  IInv'
<1>1. \A q \in Processes : ProcessOk(q)'
  <2> SUFFICES ASSUME NEW q \in Processes PROVE ProcessOk(q)'
    OBVIOUS
  <2>1. ProcessOk(q)
    BY DEF IInv
  <2>2. CASE q = p
    <3>1. status'[p] = how /\ step'[p] = "ended"
      BY Parts
    <3> QED BY <2>2, <3>1 DEF ProcessOk, HeldOk, Unchecked
  <2>3. CASE q # p
    <3>1. step'[q] = step[q] /\ status'[q] = status[q]
      BY <2>3, Parts
    <3> QED BY <2>1, <3>1 DEF ProcessOk
  <2> QED BY <2>2, <2>3
<1>2. /\ step'["parent"] \in {step["parent"], "ended"}
      /\ step'["child"] \in {step["child"], "ended"}
      /\ step["child"] = "none" => step'["child"] = "none"
  BY Parts
<1>3. Named' /\ BranchOk'
  BY <1>2 DEF IInv, Named, BranchOk
<1>4. ChildOk'
  BY <1>2 DEF IInv, ChildOk, BeforeFork, BeforeWait, AfterWait
<1>5. PrintOk'
  BY <1>2 DEF IInv, PrintOk, HasPrinted, BeforePrint, BeforeFork, BeforeWait
<1>6. TypeInvariant' /\ DOMAIN config' = Processes
  <2>1. /\ step' \in [Processes -> Steps]
        /\ status' \in [Processes -> {"running", "returned", "exited", "invalid",
                                      "failure", "abort"}]
    BY Parts DEF Steps
  <2> QED BY <2>1 DEF IInv, TypeInvariant
<1> QED BY <1>1, <1>3, <1>4, <1>5, <1>6 DEF IInv

\* A process that holds nothing resets its configuration and ends.
LEMMA Resets ==
    ASSUME IInv, NEW p \in Processes, step[p] \notin {"none", "ended"},
           held[p] = {}, ResetConfig(p),
           step' = [step EXCEPT ![p] = "ended"],
           NEW how \in {"returned", "invalid"},
           status' = [status EXCEPT ![p] = how],
           UNCHANGED <<held, numOptions, given, printed>>
    PROVE  IInv'
<1>0. /\ config' = [config EXCEPT ![p] = Defaults]
      /\ filters' = [filters EXCEPT ![p] = 0]
      /\ DOMAIN config = Processes
  BY DEF ResetConfig, IInv
<1>1. \A q \in Processes : ProcessOk(q)'
  <2> SUFFICES ASSUME NEW q \in Processes PROVE ProcessOk(q)'
    OBVIOUS
  <2>1. ProcessOk(q)
    BY DEF IInv
  <2>2. CASE q = p
    <3>1. /\ status'[p] = how /\ step'[p] = "ended"
          /\ config'[p] = Defaults /\ filters'[p] = 0
      BY <1>0, Parts
    <3> QED BY <2>2, <3>1 DEF ProcessOk, HeldOk, Unchecked
  <2>3. CASE q # p
    <3>1. /\ step'[q] = step[q] /\ status'[q] = status[q]
          /\ config'[q] = config[q] /\ filters'[q] = filters[q]
      BY <1>0, <2>3, Parts
    <3> QED BY <2>1, <3>1 DEF ProcessOk
  <2> QED BY <2>2, <2>3
<1>2. /\ step'["parent"] \in {step["parent"], "ended"}
      /\ step'["child"] \in {step["child"], "ended"}
      /\ step["child"] = "none" => step'["child"] = "none"
      /\ step'["parent"] # "ended" => config'["parent"] = config["parent"]
  BY <1>0, Parts
<1>3. Named' /\ BranchOk'
  BY <1>2 DEF IInv, Named, BranchOk
<1>4. ChildOk'
  BY <1>2 DEF IInv, ChildOk, BeforeFork, BeforeWait, AfterWait
<1>5. PrintOk'
  BY <1>2 DEF IInv, PrintOk, HasPrinted, BeforePrint, BeforeFork, BeforeWait
<1>6. TypeInvariant' /\ DOMAIN config' = Processes
  <2>1. /\ step' \in [Processes -> Steps]
        /\ status' \in [Processes -> {"running", "returned", "exited", "invalid",
                                      "failure", "abort"}]
        /\ filters' \in [Processes -> 0 .. MaxFilters]
    BY <1>0, Parts, MemscanAssumption DEF Steps
  <2>2. \A q \in Processes : config'[q] \in {config[q], Defaults}
    BY <1>0
  <2>3. \A q \in Processes :
           /\ DOMAIN config'[q] = DOMAIN Defaults
           /\ config'[q].scanPid \in -INT_MAX - 1 .. INT_MAX
           /\ config'[q].sleepSeconds \in 0 .. UINT_MAX
    BY <2>2, DefaultsOk DEF IInv, TypeInvariant
  <2> QED BY <1>0, <2>1, <2>3 DEF IInv, TypeInvariant
<1> QED BY <1>1, <1>3, <1>4, <1>5, <1>6 DEF IInv

\* A process goes on without passing the fork, the wait or the branching.
LEMMA Continues ==
    ASSUME IInv, NEW p \in Processes,
           NEW Phase \in {BeforeFork, BeforeWait, AfterWait}, step[p] \in Phase,
           NEW to \in Phase,
           to \notin {"summarizeIomem", "fork", "beforeScan", "getMaps"},
           to \in BeforePrint => step[p] \in BeforePrint,
           step' = [step EXCEPT ![p] = to],
           UNCHANGED <<config, filters, status, history>>,
           NEW h \in SUBSET Resources, held' = [held EXCEPT ![p] = h],
           HeldOk(to, h),
           to \notin Unchecked => validateConfig(config[p]),
           to = "scanMaps" => config[p].scanSelf \/ config[p].scanPid > 0
    PROVE  IInv'
<1>1. /\ step[p] \notin {"none", "ended"}
      /\ to \in Steps /\ to \notin {"none", "ended"}
      /\ UNCHANGED <<numOptions, given, printed>>
  BY DEF BeforeFork, BeforeWait, AfterWait, Steps, history
<1>2. \A q \in Processes : step'[q] = IF q = p THEN to ELSE step[q]
  BY Parts
<1>3. CASE p = "parent"
  <2>1. step'["parent"] = to /\ step'["child"] = step["child"]
    BY <1>2, <1>3, Parts
  <2>2. BranchOk'
    BY <2>1 DEF BranchOk
  <2>3. ChildOk'
    BY <1>3, <2>1 DEF IInv, ChildOk, BeforeFork, BeforeWait, AfterWait
  <2>4. PrintOk'
    BY <1>1, <1>3, <2>1 DEF IInv, PrintOk, HasPrinted
  <2> QED BY <1>1, <2>2, <2>3, <2>4, Moves
<1>4. CASE p = "child"
  <2>1. step'["child"] = to /\ step'["parent"] = step["parent"]
    BY <1>2, <1>4, Parts
  <2>2. held'["parent"] = held["parent"]
    BY <1>4, Parts
  <2>3. step["child"] # "none" /\ step'["child"] # "none" /\ step["child"] # "ended"
    BY <1>1, <1>4, <2>1
  <2>4. BranchOk'
    BY <2>1, <2>2, <2>3 DEF IInv, BranchOk
  <2>5. ChildOk'
    BY <2>1, <2>3 DEF IInv, ChildOk
  <2>6. PrintOk'
    BY <1>1, <1>4, <2>1, <2>3 DEF IInv, PrintOk, HasPrinted
  <2> QED BY <1>1, <2>4, <2>5, <2>6, Moves
<1> QED BY <1>3, <1>4 DEF Processes

\* What is known of a process that makes its next call.
LEMMA Holds ==
    ASSUME IInv, NEW p \in Processes
    PROVE  /\ HeldOk(step[p], held[p]) /\ held[p] \in SUBSET Resources
           /\ step[p] \notin Unchecked => validateConfig(config[p])
           /\ held = [held EXCEPT ![p] = held[p]]
  BY Parts DEF IInv, ProcessOk

\* FATAL_ERROR, a failing ASSERT, and the exit after --help.
LEMMA FatalKeeps ==
    ASSUME IInv, NEW p \in Processes, NEW from, from \notin {"none", "ended"},
           Fatal(p, from) \/ Abort(p, from)
    PROVE  IInv'
  BY Dies DEF Fatal, Abort, Exit, Goto, history

-----------------------------------------------------------------------------
(* The calls of the scan                                                   *)

LEMMA GetMapsKeeps ==
    ASSUME IInv, NEW p \in Processes, GetMaps(p)
    PROVE  IInv'
<1>1. CASE /\ config[p].scanSelf \/ config[p].scanPid > 0
           /\ CallHolding(p, "getMaps", "scanMaps", held[p] \cup {"maps"})
  <2>1. /\ step[p] = "getMaps" /\ step' = [step EXCEPT ![p] = "scanMaps"]
        /\ held' = [held EXCEPT ![p] = held[p] \cup {"maps"}]
        /\ UNCHANGED <<config, filters, status, history>>
    BY <1>1 DEF CallHolding, Goto
  <2>2. /\ validateConfig(config[p]) /\ held[p] \cup {"maps"} \in SUBSET Resources
        /\ HeldOk("scanMaps", held[p] \cup {"maps"})
    BY <2>1, Holds DEF HeldOk, Resources, Unchecked
  <2>3. step[p] \in BeforeWait /\ "scanMaps" \in BeforeWait /\ step[p] \in BeforePrint
    BY <2>1 DEF BeforeWait, BeforePrint
  <2> QED BY <1>1, <2>1, <2>2, <2>3, Continues
<1>2. CASE Fatal(p, "getMaps")
  BY <1>2, FatalKeeps
<1> QED BY <1>1, <1>2 DEF GetMaps

LEMMA ScanMapsKeeps ==
    ASSUME IInv, NEW p \in Processes, ScanMaps(p)
    PROVE  IInv'
<1>1. /\ step[p] = "scanMaps" /\ step' = [step EXCEPT ![p] = "readPagemapInfo"]
      /\ held' = [held EXCEPT ![p] = held[p]]
      /\ UNCHANGED <<config, filters, status, history>>
  BY Holds DEF ScanMaps, Call, Goto
<1>2. /\ validateConfig(config[p]) /\ held[p] \in SUBSET Resources
      /\ HeldOk("readPagemapInfo", held[p])
  BY <1>1, Holds DEF HeldOk, Unchecked
<1>3. /\ step[p] \in BeforeWait /\ "readPagemapInfo" \in BeforeWait
      /\ step[p] \in BeforePrint
  BY <1>1 DEF BeforeWait, BeforePrint
<1> QED BY <1>1, <1>2, <1>3, Continues

LEMMA ReadPagemapInfoKeeps ==
    ASSUME IInv, NEW p \in Processes, ReadPagemapInfo(p)
    PROVE  IInv'
<1>1. CASE Fatal(p, "readPagemapInfo")
  BY <1>1, FatalKeeps
<1>2. ASSUME NEW h \in {held[p], held[p] \cup {"pagemap"}},
             CallHolding(p, "readPagemapInfo", "waitpid", h)
      PROVE  IInv'
  <2>1. /\ step[p] = "readPagemapInfo" /\ step' = [step EXCEPT ![p] = "waitpid"]
        /\ held' = [held EXCEPT ![p] = h]
        /\ UNCHANGED <<config, filters, status, history>>
    BY <1>2 DEF CallHolding, Goto
  <2>2. /\ validateConfig(config[p]) /\ h \in SUBSET Resources
        /\ HeldOk("waitpid", h)
    BY <1>2, <2>1, Holds DEF HeldOk, Resources, Unchecked
  <2>3. step[p] \in BeforeWait /\ "waitpid" \in BeforeWait /\ step[p] \in BeforePrint
    BY <2>1 DEF BeforeWait, BeforePrint
  <2> QED BY <2>1, <2>2, <2>3, Continues
<1>3. CASE Call(p, "readPagemapInfo", "waitpid")
  <2>1. CallHolding(p, "readPagemapInfo", "waitpid", held[p])
    BY <1>3, Holds DEF Call, CallHolding
  <2> QED BY <1>2, <2>1
<1> QED BY <1>1, <1>2, <1>3 DEF ReadPagemapInfo

LEMMA WaitPidKeeps ==
    ASSUME IInv, NEW p \in Processes, WaitPid(p)
    PROVE  IInv'
<1>1. /\ step[p] = "waitpid" /\ step' = [step EXCEPT ![p] = "printMaps"]
      /\ held' = [held EXCEPT ![p] = held[p]]
      /\ UNCHANGED <<config, filters, status, history>>
      /\ p = "parent" /\ config[p].forkProcess => step["child"] = "ended"
  BY Holds DEF WaitPid, Call, Goto
<1>2. /\ validateConfig(config[p]) /\ held[p] \in SUBSET Resources
      /\ HeldOk("printMaps", held[p])
  BY <1>1, Holds DEF HeldOk, Unchecked
<1>3. UNCHANGED <<numOptions, given, printed>> /\ "printMaps" \in Steps
  BY <1>1 DEF history, Steps
<1>4. CASE p = "parent"
  <2>1. step'["parent"] = "printMaps" /\ step'["child"] = step["child"]
    BY <1>1, <1>4, Parts
  <2>2. step["child"] \in {"none", "ended"}
    BY <1>1, <1>4 DEF IInv, ChildOk, BeforeWait
  <2>3. BranchOk' /\ ChildOk'
    BY <2>1, <2>2 DEF BranchOk, ChildOk, BeforeFork, BeforeWait
  <2>4. PrintOk'
    BY <1>1, <1>3, <1>4, <2>1
      DEF IInv, PrintOk, HasPrinted, BeforePrint, BeforeWait
  <2> QED BY <1>1, <1>2, <1>3, <2>3, <2>4, Moves
<1>5. CASE p = "child"
  <2>1. step'["child"] = "printMaps" /\ step'["parent"] = step["parent"]
        /\ held'["parent"] = held["parent"]
    BY <1>1, <1>5, Parts
  <2>2. BranchOk'
    BY <1>1, <1>5, <2>1 DEF IInv, BranchOk
  <2>3. ChildOk'
    BY <1>1, <1>5, <2>1 DEF IInv, ChildOk
  <2>4. PrintOk'
    BY <1>1, <1>3, <1>5, <2>1
      DEF IInv, PrintOk, HasPrinted, BeforePrint, BeforeWait
  <2> QED BY <1>1, <1>2, <1>3, <2>2, <2>3, <2>4, Moves
<1> QED BY <1>4, <1>5 DEF Processes

LEMMA PrintMapsKeeps ==
    ASSUME IInv, NEW p \in Processes, PrintMaps(p)
    PROVE  IInv'
<1>1. /\ step[p] = "printMaps" /\ step' = [step EXCEPT ![p] = "releaseMaps"]
      /\ held' = [held EXCEPT ![p] = held[p]]
      /\ UNCHANGED <<config, filters, status, numOptions, given>>
      /\ printed' = Append(printed, p)
  BY Holds DEF PrintMaps, Goto
<1>2. /\ validateConfig(config[p]) /\ held[p] \in SUBSET Resources
      /\ HeldOk("releaseMaps", held[p]) /\ "releaseMaps" \in Steps
  BY <1>1, Holds DEF HeldOk, Unchecked, Steps
<1>3. /\ printed \in {<<>>, <<"parent">>, <<"child">>, <<"child", "parent">>}
      /\ HasPrinted("parent") =>
            step["parent"] \notin BeforePrint /\ step["child"] \in {"none", "ended"}
      /\ HasPrinted("child") => step["child"] \notin BeforePrint
  BY DEF IInv, PrintOk
<1>4. CASE p = "parent"
  <2>1. step'["parent"] = "releaseMaps" /\ step'["child"] = step["child"]
    BY <1>1, <1>4, Parts
  <2>2. step["child"] \in {"none", "ended"}
    BY <1>1, <1>4 DEF IInv, ChildOk, AfterWait
  <2>3. BranchOk' /\ ChildOk'
    BY <2>1, <2>2 DEF BranchOk, ChildOk, BeforeFork, BeforeWait
  <2>4. ~ HasPrinted("parent")
    BY <1>1, <1>3, <1>4 DEF BeforePrint
  <2>5. printed \in {<<>>, <<"child">>}
    BY <1>3, <2>4 DEF HasPrinted
  <2>6. CASE printed = <<>>
    <3>1. printed' = <<"parent">>
      BY <1>1, <1>4, <2>6
    <3>2. ~ HasPrinted("child")'
      BY <3>1 DEF HasPrinted
    <3>3. PrintOk'
      BY <2>1, <2>2, <3>1, <3>2 DEF PrintOk, BeforePrint, BeforeFork, BeforeWait
    <3> QED BY <1>1, <1>2, <2>3, <3>3, Moves
  <2>7. CASE printed = <<"child">>
    <3>1. printed' = <<"child", "parent">>
      BY <1>1, <1>4, <2>7, Two, Parts
    <3>2. HasPrinted("child")
      BY <2>7 DEF HasPrinted
    <3>3. PrintOk'
      BY <1>3, <2>1, <2>2, <3>1, <3>2 DEF PrintOk, BeforePrint, BeforeFork, BeforeWait
    <3> QED BY <1>1, <1>2, <2>3, <3>3, Moves
  <2> QED BY <2>5, <2>6, <2>7
<1>5. CASE p = "child"
  <2>1. step'["child"] = "releaseMaps" /\ step'["parent"] = step["parent"]
        /\ held'["parent"] = held["parent"]
    BY <1>1, <1>5, Parts
  <2>2. BranchOk'
    BY <1>1, <1>5, <2>1 DEF IInv, BranchOk
  <2>3. ChildOk'
    BY <1>1, <1>5, <2>1 DEF IInv, ChildOk
  <2>4. ~ HasPrinted("child") /\ ~ HasPrinted("parent")
    BY <1>1, <1>3, <1>5 DEF BeforePrint
  <2>5. printed = <<>>
    BY <1>3, <2>4 DEF HasPrinted
  <2>6. printed' = <<"child">>
    BY <1>1, <1>5, <2>5
  <2>7. ~ HasPrinted("parent")'
    BY <2>6 DEF HasPrinted
  <2>8. PrintOk'
    BY <2>1, <2>6, <2>7 DEF PrintOk, BeforePrint, BeforeFork, BeforeWait
  <2> QED BY <1>1, <1>2, <2>2, <2>3, <2>8, Moves
<1> QED BY <1>4, <1>5 DEF Processes

LEMMA ReleaseMapsKeeps ==
    ASSUME IInv, NEW p \in Processes, ReleaseMaps(p)
    PROVE  IInv'
<1> DEFINE to == IF "preScan" \in held[p] THEN "afterScan" ELSE "closePagemap"
<1>1. /\ step[p] = "releaseMaps" /\ step' = [step EXCEPT ![p] = to]
      /\ held' = [held EXCEPT ![p] = held[p] \ {"maps"}]
      /\ UNCHANGED <<config, filters, status, history>>
  BY DEF ReleaseMaps, CallHolding, Goto
<1>2. /\ validateConfig(config[p]) /\ held[p] \ {"maps"} \in SUBSET Resources
      /\ HeldOk(to, held[p] \ {"maps"})
  BY <1>1, Holds DEF HeldOk, Unchecked, Resources
<1>3. step[p] \in AfterWait /\ to \in AfterWait /\ to \notin BeforePrint
      /\ to \notin {"summarizeIomem", "fork", "beforeScan", "getMaps", "scanMaps"}
  BY <1>1 DEF AfterWait, BeforePrint, BeforeFork, BeforeWait
<1> HIDE DEF to
<1> QED BY <1>1, <1>2, <1>3, Continues

LEMMA AfterScanKeeps ==
    ASSUME IInv, AfterScan
    PROVE  IInv'
<1> DEFINE p == "parent"
<1>1. /\ step[p] = "afterScan" /\ step' = [step EXCEPT ![p] = "closePagemap"]
      /\ held' = [held EXCEPT ![p] = held[p] \ {"preScan"}]
      /\ UNCHANGED <<config, filters, status, history>> /\ p \in Processes
  BY DEF AfterScan, CallHolding, Goto, Processes
<1> HIDE DEF p
<1>2. /\ validateConfig(config[p]) /\ held[p] \ {"preScan"} \in SUBSET Resources
      /\ HeldOk("closePagemap", held[p] \ {"preScan"})
  BY <1>1, Holds DEF HeldOk, Unchecked, Resources
<1>3. /\ step[p] \in AfterWait /\ "closePagemap" \in AfterWait
      /\ "closePagemap" \notin BeforePrint
  BY <1>1 DEF AfterWait, BeforePrint, BeforeFork, BeforeWait
<1> QED BY <1>1, <1>2, <1>3, Continues

LEMMA ClosePagemapKeeps ==
    ASSUME IInv, NEW p \in Processes, ClosePagemap(p)
    PROVE  IInv'
<1>1. CASE CallHolding(p, "closePagemap", "releaseIomem", held[p] \ {"pagemap"})
  <2>1. /\ step[p] = "closePagemap" /\ step' = [step EXCEPT ![p] = "releaseIomem"]
        /\ held' = [held EXCEPT ![p] = held[p] \ {"pagemap"}]
        /\ UNCHANGED <<config, filters, status, history>>
    BY <1>1 DEF CallHolding, Goto
  <2>2. /\ validateConfig(config[p]) /\ held[p] \ {"pagemap"} \in SUBSET Resources
        /\ HeldOk("releaseIomem", held[p] \ {"pagemap"})
    BY <2>1, Holds DEF HeldOk, Unchecked, Resources
  <2>3. /\ step[p] \in AfterWait /\ "releaseIomem" \in AfterWait
        /\ "releaseIomem" \notin BeforePrint
    BY <2>1 DEF AfterWait, BeforePrint, BeforeFork, BeforeWait
  <2> QED BY <2>1, <2>2, <2>3, Continues
<1>2. CASE Fatal(p, "closePagemap")
  BY <1>2, FatalKeeps
<1> QED BY <1>1, <1>2 DEF ClosePagemap

LEMMA ReleaseIomemKeeps ==
    ASSUME IInv, NEW p \in Processes, ReleaseIomem(p)
    PROVE  IInv'
<1>1. /\ step[p] = "releaseIomem" /\ step' = [step EXCEPT ![p] = "resetConfig"]
      /\ held' = [held EXCEPT ![p] = held[p] \ {"iomem"}]
      /\ UNCHANGED <<config, filters, status, history>>
  BY DEF ReleaseIomem, CallHolding, Goto
<1>2. /\ validateConfig(config[p]) /\ held[p] \ {"iomem"} \in SUBSET Resources
      /\ HeldOk("resetConfig", held[p] \ {"iomem"})
  BY <1>1, Holds DEF HeldOk, Unchecked, Resources
<1>3. /\ step[p] \in AfterWait /\ "resetConfig" \in AfterWait
      /\ "resetConfig" \notin BeforePrint
  BY <1>1 DEF AfterWait, BeforePrint, BeforeFork, BeforeWait
<1> QED BY <1>1, <1>2, <1>3, Continues

LEMMA ReturnFromMainKeeps ==
    ASSUME IInv, NEW p \in Processes, ReturnFromMain(p)
    PROVE  IInv'
<1>1. /\ step[p] = "resetConfig" /\ step' = [step EXCEPT ![p] = "ended"]
      /\ ResetConfig(p) /\ status' = [status EXCEPT ![p] = "returned"]
      /\ UNCHANGED <<held, numOptions, given, printed>>
  BY DEF ReturnFromMain, Goto, history
<1>2. held[p] = {}
  BY <1>1, Holds DEF HeldOk
<1> QED BY <1>1, <1>2, Resets

LEMMA ScanStepKeeps ==
    ASSUME IInv, NEW p \in Processes, ScanStep(p)
    PROVE  IInv'
  BY GetMapsKeeps, ScanMapsKeeps, ReadPagemapInfoKeeps, WaitPidKeeps,
     PrintMapsKeeps, ReleaseMapsKeeps, ClosePagemapKeeps, ReleaseIomemKeeps,
     ReturnFromMainKeeps DEF ScanStep

-----------------------------------------------------------------------------
(* The calls before the scan                                               *)

LEMMA ProcessOptionKeeps ==
    ASSUME IInv, NEW o \in Options, NEW v \in Values, ProcessOption(o, v)
    PROVE  IInv'
<1>1. /\ step["parent"] = "options" /\ numOptions < MaxOptions
      /\ numOptions' = numOptions + 1
      /\ given' = given \cup ({o} \cap {"iomem", "fork", "pid"})
      /\ UNCHANGED <<filters, held, printed>>
  BY DEF ProcessOption
<1>2. /\ numOptions' \in 0 .. MaxOptions
      /\ given' \subseteq {"iomem", "fork", "pid"}
  BY <1>1, Parts, MemscanAssumption
<1>3. CASE Accepts(o, v)
  <2> DEFINE c == config["parent"]
             d == AfterOption(c, o, v)
  <2>1. /\ config' = [config EXCEPT !["parent"] = d]
        /\ UNCHANGED <<step, status>>
    BY <1>3 DEF ProcessOption
  <2>2. DOMAIN c = Names /\ c.sleepSeconds \in 0 .. UINT_MAX
        /\ c.scanPid \in -INT_MAX - 1 .. INT_MAX
    BY Parts DEF IInv, TypeInvariant, Names
  <2>3. Follows(c, d, o)
    <3> HIDE DEF c
    <3> QED BY <1>3, <2>2, OptionFollows
  <2> HIDE DEF d
  <2>4. /\ DOMAIN config' = Processes /\ config'["parent"] = d
        /\ \A q \in Processes : q # "parent" => config'[q] = config[q]
    BY <2>1, Parts DEF IInv
  <2>5. TypeInvariant'
    <3>1. d.scanPid \in -INT_MAX - 1 .. INT_MAX
      BY <2>2, <2>3 DEF Follows
    <3>2. \A q \in Processes :
             /\ DOMAIN config'[q] = DOMAIN Defaults
             /\ config'[q].scanPid \in -INT_MAX - 1 .. INT_MAX
             /\ config'[q].sleepSeconds \in 0 .. UINT_MAX
      BY <2>3, <2>4, <3>1 DEF IInv, TypeInvariant, Follows, Names
    <3> QED BY <1>1, <1>2, <2>1, <3>2 DEF IInv, TypeInvariant
  <2>6. \A q \in Processes : ProcessOk(q)'
    <3> SUFFICES ASSUME NEW q \in Processes PROVE ProcessOk(q)'
      OBVIOUS
    <3>1. ProcessOk(q)
      BY DEF IInv
    <3>2. CASE q = "parent"
      <4>1. status[q] = "running"
        BY <1>1, <3>1, <3>2, Parts DEF ProcessOk
      <4> QED BY <1>1, <2>1, <3>1, <3>2, <4>1 DEF ProcessOk, Unchecked
    <3>3. CASE q # "parent"
      BY <1>1, <2>1, <2>4, <3>1, <3>3 DEF ProcessOk
    <3> QED BY <3>2, <3>3
  <2>7. Named'
    <3>1. /\ c.iomemSummary <=> "iomem" \in given
          /\ c.forkProcess <=> "fork" \in given
          /\ "pid" \notin given => c.scanPid = -1 /\ c.scanSelf
          /\ "pid" \in given => ~ c.scanSelf
      BY <1>1 DEF IInv, Named
    <3>2. /\ d.iomemSummary <=> "iomem" \in given'
          /\ d.forkProcess <=> "fork" \in given'
      BY <1>1, <2>3, <3>1 DEF Follows
    <3>3. /\ "pid" \notin given' => d.scanPid = -1 /\ d.scanSelf
          /\ "pid" \in given' => ~ d.scanSelf
      BY <1>1, <2>3, <3>1 DEF Follows
    <3> QED BY <2>4, <3>2, <3>3 DEF Named
  <2>8. BranchOk' /\ ChildOk'
    BY <1>1, <2>1 DEF IInv, BranchOk, ChildOk, BeforeWait, AfterWait
  <2>9. PrintOk'
    BY <1>1, <2>1 DEF IInv, PrintOk, HasPrinted
  <2> QED BY <2>4, <2>5, <2>6, <2>7, <2>8, <2>9 DEF IInv
<1>4. CASE ~ Accepts(o, v)
  <2>1. /\ step' = [step EXCEPT !["parent"] = "ended"]
        /\ status' = [status EXCEPT !["parent"] = "abort"]
        /\ UNCHANGED config
    BY <1>4 DEF ProcessOption, Goto
  <2>2. \A q \in Processes : /\ step'[q] = IF q = "parent" THEN "ended" ELSE step[q]
                             /\ status'[q] = IF q = "parent" THEN "abort" ELSE status[q]
    BY <2>1, Parts
  <2>3. TypeInvariant' /\ DOMAIN config' = Processes
    <3>1. /\ step' \in [Processes -> Steps]
          /\ status' \in [Processes -> {"running", "returned", "exited", "invalid",
                                        "failure", "abort"}]
      BY <2>1, Parts DEF Steps
    <3> QED BY <1>1, <1>2, <2>1, <3>1 DEF IInv, TypeInvariant
  <2>4. \A q \in Processes : ProcessOk(q)'
    BY <1>1, <2>1, <2>2 DEF IInv, ProcessOk, HeldOk, Unchecked
  <2>5. step'["parent"] = "ended" /\ step'["child"] = step["child"]
    BY <2>2, Parts
  <2>6. Named' /\ BranchOk' /\ ChildOk'
    BY <2>5 DEF Named, BranchOk, ChildOk, BeforeFork, BeforeWait, AfterWait
  <2>7. PrintOk'
    BY <1>1, <2>5 DEF IInv, PrintOk, HasPrinted, BeforePrint, BeforeFork, BeforeWait
  <2> QED BY <2>3, <2>4, <2>6, <2>7 DEF IInv
<1> QED BY <1>3, <1>4

LEMMA ProcessFilterKeeps ==
    ASSUME IInv, ProcessFilter
    PROVE  IInv'
<1>1. CASE Fatal("parent", "filters")
  BY <1>1, FatalKeeps, Parts
<1>2. CASE /\ step["parent"] = "filters" /\ filters["parent"] < MaxFilters
           /\ filters' = [filters EXCEPT !["parent"] = @ + 1]
           /\ UNCHANGED <<config, held, step, status, history>>
  <2>1. UNCHANGED <<numOptions, given, printed>>
    BY <1>2 DEF history
  <2>2. filters' \in [Processes -> 0 .. MaxFilters]
    BY <1>2, Parts, MemscanAssumption
  <2>3. TypeInvariant' /\ DOMAIN config' = Processes
    BY <1>2, <2>1, <2>2 DEF IInv, TypeInvariant
  <2>4. \A q \in Processes : ProcessOk(q)'
    <3> SUFFICES ASSUME NEW q \in Processes PROVE ProcessOk(q)'
      OBVIOUS
    <3>1. ProcessOk(q)
      BY DEF IInv
    <3>2. CASE q = "parent"
      <4>1. status[q] = "running"
        BY <1>2, <3>1, <3>2, Parts DEF ProcessOk
      <4> QED BY <1>2, <3>1, <3>2, <4>1 DEF ProcessOk
    <3>3. CASE q # "parent"
      <4>1. filters'[q] = filters[q]
        BY <1>2, <3>3, Parts
      <4> QED BY <1>2, <3>1, <4>1 DEF ProcessOk
    <3> QED BY <3>2, <3>3
  <2>5. Named' /\ BranchOk' /\ ChildOk'
    BY <1>2, <2>1 DEF IInv, Named, BranchOk, ChildOk
  <2>6. PrintOk'
    BY <1>2, <2>1 DEF IInv, PrintOk, HasPrinted
  <2> QED BY <2>3, <2>4, <2>5, <2>6 DEF IInv
<1> QED BY <1>1, <1>2 DEF ProcessFilter

LEMMA ProcessFiltersKeeps ==
    ASSUME IInv, ProcessFilters
    PROVE  IInv'
<1> DEFINE p == "parent"
<1>1. /\ step[p] = "options" /\ step' = [step EXCEPT ![p] = "filters"]
      /\ held' = [held EXCEPT ![p] = held[p]] /\ p \in Processes
      /\ UNCHANGED <<config, filters, status, history>>
  BY Holds, Parts DEF ProcessFilters, Call, Goto
<1> HIDE DEF p
<1>2. /\ held[p] \in SUBSET Resources /\ HeldOk("filters", held[p])
      /\ "filters" \in Unchecked
  BY <1>1, Holds DEF HeldOk, Unchecked
<1>3. step[p] \in BeforeFork /\ "filters" \in BeforeFork /\ step[p] \in BeforePrint
  BY <1>1 DEF BeforeFork, BeforePrint
<1> QED BY <1>1, <1>2, <1>3, Continues

LEMMA ValidateConfigKeeps ==
    ASSUME IInv, ValidateConfig
    PROVE  IInv'
<1>1. /\ step["parent"] = "filters" /\ step' = [step EXCEPT !["parent"] = "ended"]
      /\ ResetConfig("parent") /\ status' = [status EXCEPT !["parent"] = "invalid"]
      /\ UNCHANGED <<held, numOptions, given, printed>>
  BY DEF ValidateConfig, Goto, history
<1>2. held["parent"] = {}
  BY <1>1, Holds, Parts DEF HeldOk
<1> QED BY <1>1, <1>2, Resets, Parts

LEMMA CheckCapabilitiesKeeps ==
    ASSUME IInv, CheckCapabilities
    PROVE  IInv'
<1> DEFINE p == "parent"
<1>1. CASE Call(p, "filters", "readIomem")
  <2>1. /\ step[p] = "filters" /\ step' = [step EXCEPT ![p] = "readIomem"]
        /\ held' = [held EXCEPT ![p] = held[p]] /\ p \in Processes
        /\ UNCHANGED <<config, filters, status, history>>
        /\ validateConfig(config[p])
    BY <1>1, Holds, Parts DEF CheckCapabilities, Call, Goto
  <2> HIDE DEF p
  <2>2. held[p] \in SUBSET Resources /\ HeldOk("readIomem", held[p])
    BY <2>1, Holds DEF HeldOk
  <2>3. step[p] \in BeforeFork /\ "readIomem" \in BeforeFork /\ step[p] \in BeforePrint
    BY <2>1 DEF BeforeFork, BeforePrint
  <2> QED BY <2>1, <2>2, <2>3, Continues
<1>2. CASE Fatal(p, "filters")
  BY <1>2, FatalKeeps, Parts
<1> QED BY <1>1, <1>2 DEF CheckCapabilities

\* main() takes its branch.
LEMMA ReadIomemKeeps ==
    ASSUME IInv, ReadIomem
    PROVE  IInv'
<1> DEFINE c == config["parent"]
           to == Branch(c)
           h == held["parent"] \cup {"iomem"}
<1>1. CASE CallHolding("parent", "readIomem", to, h)
  <2>1. /\ step["parent"] = "readIomem" /\ step' = [step EXCEPT !["parent"] = to]
        /\ held' = [held EXCEPT !["parent"] = h]
        /\ UNCHANGED <<config, filters, status, numOptions, given, printed>>
    BY <1>1 DEF CallHolding, Goto, history
  <2>2. /\ to \in {"summarizeIomem", "fork", "getMaps", "beforeScan", "neverGetHere"}
        /\ to = "summarizeIomem" => c.iomemSummary
        /\ to = "fork" => ~ c.iomemSummary /\ c.forkProcess
        /\ to = "getMaps" => ~ c.iomemSummary /\ ~ c.forkProcess /\ c.scanPid # -1
        /\ to = "beforeScan" => ~ c.iomemSummary /\ ~ c.forkProcess /\ c.scanPid = -1
    BY DEF Branch
  <2>3. validateConfig(c) /\ held["parent"] = {}
    BY <2>1, Holds, Parts DEF HeldOk, Unchecked
  <2> HIDE DEF to
  <2>4. /\ h \in SUBSET Resources /\ HeldOk(to, h) /\ h = {"iomem"}
        /\ to \in Steps /\ to \notin {"none", "ended", "scanMaps"}
    BY <2>2, <2>3 DEF HeldOk, Resources, Steps
  <2>5. step["child"] = "none"
    BY <2>1 DEF IInv, ChildOk, BeforeFork
  <2>6. /\ step'["parent"] = to /\ step'["child"] = "none"
        /\ held'["parent"] = h /\ config'["parent"] = c
    BY <2>1, <2>5, Parts
  <2>7. BranchOk'
    BY <2>2, <2>4, <2>6 DEF BranchOk
  <2>8. ChildOk'
    BY <2>6 DEF ChildOk
  <2>9. PrintOk'
    BY <2>1, <2>5, <2>6 DEF IInv, PrintOk, HasPrinted, BeforePrint, BeforeFork
  <2> HIDE DEF h, c
  <2>10. validateConfig(config["parent"])
    BY <2>3 DEF c
  <2> QED BY <2>1, <2>4, <2>7, <2>8, <2>9, <2>10, Parts, Moves
<1>2. CASE Fatal("parent", "readIomem")
  BY <1>2, FatalKeeps, Parts
<1> QED BY <1>1, <1>2 DEF ReadIomem

LEMMA SummarizeIomemKeeps ==
    ASSUME IInv, SummarizeIomem
    PROVE  IInv'
<1>1. CASE Call("parent", "summarizeIomem", "releaseIomem")
  <2>1. /\ step["parent"] = "summarizeIomem"
        /\ step' = [step EXCEPT !["parent"] = "releaseIomem"]
        /\ held' = [held EXCEPT !["parent"] = held["parent"]]
        /\ UNCHANGED <<config, filters, status, numOptions, given, printed>>
    BY <1>1, Holds, Parts DEF Call, Goto, history
  <2>2. /\ validateConfig(config["parent"]) /\ held["parent"] \in SUBSET Resources
        /\ HeldOk("releaseIomem", held["parent"]) /\ "releaseIomem" \in Steps
    BY <2>1, Holds, Parts DEF HeldOk, Unchecked, Steps
  <2>3. step["child"] = "none" /\ step'["child"] = "none"
        /\ step'["parent"] = "releaseIomem"
    BY <2>1, Parts DEF IInv, ChildOk, BeforeFork
  <2>4. BranchOk' /\ ChildOk'
    BY <2>3 DEF BranchOk, ChildOk, BeforeFork, BeforeWait
  <2>5. PrintOk'
    BY <2>1, <2>3 DEF IInv, PrintOk, HasPrinted, BeforePrint, BeforeFork
  <2> QED BY <2>1, <2>2, <2>4, <2>5, Parts, Moves
<1>2. CASE Fatal("parent", "summarizeIomem")
  BY <1>2, FatalKeeps, Parts
<1> QED BY <1>1, <1>2 DEF SummarizeIomem

LEMMA BeforeScanKeeps ==
    ASSUME IInv, BeforeScan
    PROVE  IInv'
<1> DEFINE h == held["parent"] \cup {"preScan"}
<1>1. CASE CallHolding("parent", "beforeScan", "getMaps", h)
  <2>1. /\ step["parent"] = "beforeScan"
        /\ step' = [step EXCEPT !["parent"] = "getMaps"]
        /\ held' = [held EXCEPT !["parent"] = h]
        /\ UNCHANGED <<config, filters, status, numOptions, given, printed>>
    BY <1>1 DEF CallHolding, Goto, history
  <2>2. /\ validateConfig(config["parent"]) /\ h \in SUBSET Resources
        /\ HeldOk("getMaps", h) /\ "getMaps" \in Steps
    BY <2>1, Holds, Parts DEF HeldOk, Unchecked, Steps, Resources
  <2>3. step["child"] = "none" /\ step'["child"] = "none"
        /\ step'["parent"] = "getMaps" /\ held'["parent"] = h
    BY <2>1, Parts DEF IInv, ChildOk, BeforeFork
  <2>4. /\ ~ config["parent"].iomemSummary /\ ~ config["parent"].forkProcess
        /\ config["parent"].scanPid = -1
    BY <2>1 DEF IInv, BranchOk
  <2>5. BranchOk'
    BY <2>1, <2>3, <2>4 DEF BranchOk
  <2>6. ChildOk'
    BY <2>3 DEF ChildOk
  <2>7. PrintOk'
    BY <2>1, <2>3 DEF IInv, PrintOk, HasPrinted, BeforePrint, BeforeFork
  <2> HIDE DEF h
  <2> QED BY <2>1, <2>2, <2>5, <2>6, <2>7, Parts, Moves
<1>2. CASE Fatal("parent", "beforeScan") \/ Abort("parent", "beforeScan")
  BY <1>2, FatalKeeps, Parts
<1> QED BY <1>1, <1>2 DEF BeforeScan

\* The child is a copy of the parent.
LEMMA ForkKeeps ==
    ASSUME IInv, Fork
    PROVE  IInv'
<1>1. CASE /\ step["parent"] = "fork"
           /\ step' = [p \in Processes |-> "getMaps"]
           /\ config' = [p \in Processes |-> config["parent"]]
           /\ filters' = [p \in Processes |-> filters["parent"]]
           /\ held' = [p \in Processes |-> held["parent"]]
           /\ UNCHANGED <<status, history>>
  <2>1. UNCHANGED <<numOptions, given, printed>>
    BY <1>1 DEF history
  <2>2. \A p \in Processes : /\ step'[p] = "getMaps" /\ config'[p] = config["parent"]
                             /\ filters'[p] = filters["parent"]
                             /\ held'[p] = held["parent"]
    BY <1>1
  <2>3. /\ validateConfig(config["parent"]) /\ held["parent"] \subseteq {"iomem"}
    BY <1>1, Holds, Parts DEF HeldOk, Unchecked
  <2>4. step["child"] = "none" /\ config["parent"].forkProcess
        /\ ~ config["parent"].iomemSummary
    BY <1>1 DEF IInv, ChildOk, BeforeFork, BranchOk
  <2>5. \A p \in Processes : status[p] = "running"
    BY <1>1, <2>4, Parts DEF IInv, ProcessOk, Processes
  <2>6. \A p \in Processes : ProcessOk(p)'
    <3> SUFFICES ASSUME NEW p \in Processes PROVE ProcessOk(p)'
      OBVIOUS
    <3>1. HeldOk("getMaps", held["parent"])
      BY <2>3 DEF HeldOk
    <3> QED BY <1>1, <2>2, <2>3, <2>5, <3>1 DEF ProcessOk
  <2>7. TypeInvariant' /\ DOMAIN config' = Processes
    <3>1. \A p \in Processes :
             /\ DOMAIN config'[p] = DOMAIN Defaults
             /\ config'[p].scanPid \in -INT_MAX - 1 .. INT_MAX
             /\ config'[p].sleepSeconds \in 0 .. UINT_MAX
      BY <2>2, Parts DEF IInv, TypeInvariant
    <3>2. /\ filters' \in [Processes -> 0 .. MaxFilters]
          /\ held' \in [Processes -> SUBSET {"iomem", "maps", "pagemap", "preScan"}]
          /\ step' \in [Processes -> Steps]
      BY <1>1, Parts DEF Steps, Resources
    <3> QED BY <1>1, <2>1, <3>1, <3>2 DEF IInv, TypeInvariant
  <2>8. /\ step'["parent"] = "getMaps" /\ step'["child"] = "getMaps"
        /\ config'["parent"] = config["parent"]
    BY <2>2, Parts
  <2>9. Named' /\ BranchOk'
    BY <1>1, <2>1, <2>4, <2>8 DEF IInv, Named, BranchOk
  <2>10. ChildOk'
    BY <2>4, <2>8 DEF ChildOk, BeforeFork, AfterWait
  <2>11. PrintOk'
    BY <1>1, <2>1, <2>4, <2>8 DEF IInv, PrintOk, HasPrinted, BeforePrint, BeforeFork
  <2> QED BY <2>6, <2>7, <2>9, <2>10, <2>11 DEF IInv
<1>2. CASE Fatal("parent", "fork")
  BY <1>2, FatalKeeps, Parts
<1> QED BY <1>1, <1>2 DEF Fork

LEMMA PrintAndExitKeeps ==
    ASSUME IInv, PrintAndExit
    PROVE  IInv'
  BY Dies, Parts DEF PrintAndExit, Exit, Goto, history

-----------------------------------------------------------------------------
(* The invariant                                                           *)

LEMMA InitIInv == Init => IInv
<1> SUFFICES ASSUME Init PROVE IInv
  OBVIOUS
<1>1. /\ config = [p \in Processes |-> Defaults]
      /\ filters = [p \in Processes |-> 0] /\ held = [p \in Processes |-> {}]
      /\ step = [p \in Processes |-> IF p = "parent" THEN "options" ELSE "none"]
      /\ status = [p \in Processes |-> "running"]
      /\ numOptions = 0 /\ given = {} /\ printed = <<>>
  BY DEF Init
<1>2. "parent" \in Processes /\ "child" \in Processes
  BY DEF Processes
<1>3. TypeInvariant /\ DOMAIN config = Processes
  <2>1. \A p \in Processes :
           /\ DOMAIN config[p] = DOMAIN Defaults
           /\ config[p].scanPid \in -INT_MAX - 1 .. INT_MAX
           /\ config[p].sleepSeconds \in 0 .. UINT_MAX
    BY <1>1, DefaultsOk
  <2>2. Len(printed) <= 2
    BY <1>1
  <2>3. step \in [Processes -> Steps]
    BY <1>1 DEF Steps
  <2>4. filters \in [Processes -> 0 .. MaxFilters] /\ numOptions \in 0 .. MaxOptions
    BY <1>1, MemscanAssumption
  <2> QED BY <1>1, <2>1, <2>2, <2>3, <2>4 DEF TypeInvariant
<1>4. \A p \in Processes : ProcessOk(p)
  BY <1>1 DEF ProcessOk, HeldOk, Unchecked
<1>5. Named
  BY <1>1, <1>2, DefaultsOk DEF Named
<1>6. BranchOk /\ ChildOk
  BY <1>1, <1>2 DEF BranchOk, ChildOk, BeforeWait, AfterWait
<1>7. PrintOk
  BY <1>1 DEF PrintOk, HasPrinted
<1> QED BY <1>3, <1>4, <1>5, <1>6, <1>7 DEF IInv

LEMMA NextIInv == IInv /\ [Next]_vars => IInv'
<1> SUFFICES ASSUME IInv, [Next]_vars PROVE IInv'
  OBVIOUS
<1>1. CASE UNCHANGED vars
  <2>1. TypeInvariant' /\ DOMAIN config' = Processes
    BY <1>1 DEF IInv, vars, TypeInvariant
  <2>2. \A p \in Processes : ProcessOk(p)'
    BY <1>1 DEF IInv, vars, ProcessOk
  <2>3. Named' /\ BranchOk' /\ ChildOk'
    BY <1>1 DEF IInv, vars, Named, BranchOk, ChildOk
  <2>4. PrintOk'
    BY <1>1 DEF IInv, vars, PrintOk, HasPrinted
  <2> QED BY <2>1, <2>2, <2>3, <2>4 DEF IInv
<1>2. CASE MainStep
  <2>1. CASE \E o \in Options, v \in Values : ProcessOption(o, v)
    BY <2>1, ProcessOptionKeeps
  <2>2. CASE IllegalOption \/ AssertFalse
    BY <2>2, FatalKeeps, Parts DEF IllegalOption, AssertFalse
  <2>3. CASE ScanStep("parent")
    BY <2>3, ScanStepKeeps, Parts
  <2> QED
    BY <1>2, <2>1, <2>2, <2>3, PrintAndExitKeeps, ProcessFiltersKeeps,
       ProcessFilterKeeps, ValidateConfigKeeps, CheckCapabilitiesKeeps,
       ReadIomemKeeps, SummarizeIomemKeeps, ForkKeeps, BeforeScanKeeps,
       AfterScanKeeps DEF MainStep
<1>3. CASE ScanStep("child")
  BY <1>3, ScanStepKeeps, Parts
<1>4. CASE Ended
  BY <1>1, <1>4 DEF Ended
<1> QED BY <1>1, <1>2, <1>3, <1>4 DEF Next

\* Every step of the processes preserves IInv.
LEMMA InvariantHolds == Spec => []IInv
  BY InitIInv, NextIInv, PTL DEF Spec

-----------------------------------------------------------------------------
(* The theorems.                                                           *)

\* Whatever numbers are given, the numbers of the options stay within their C
\* types, and at most two outputs are printed (memscan.c, config.c).
THEOREM TypeCorrect == Spec => []TypeInvariant
<1>1. IInv => TypeInvariant
  BY DEF IInv
<1> QED BY <1>1, InvariantHolds, PTL

LEMMA TargetByIInv == IInv => TargetHonoured
<1> SUFFICES ASSUME IInv, "pid" \in given => config["parent"].scanPid >= 0
             PROVE  LET branch == step["parent"]
                    IN  /\ branch = "summarizeIomem" => given = {"iomem"}
                        /\ branch = "fork" => given = {"fork"}
                        /\ branch = "beforeScan" => given = {}
                        /\ branch = "getMaps" =>
                              given = (IF step["child"] # "none" THEN {"fork"}
                                       ELSE IF "preScan" \in held["parent"]
                                            THEN {} ELSE {"pid"})
  BY DEF TargetHonoured
<1> DEFINE c == config["parent"]
           s == step["parent"]
<1>1. given \subseteq {"iomem", "fork", "pid"} /\ c.scanPid \in Int
  BY ConfigAssumption DEF IInv, TypeInvariant, Processes
<1>2. s # "ended" =>
        /\ c.iomemSummary <=> "iomem" \in given
        /\ c.forkProcess <=> "fork" \in given
        /\ "pid" \notin given => c.scanPid = -1
  BY DEF IInv, Named
<1>3. s \notin Unchecked => ExclusiveTargets(c)
  BY DEF IInv, ProcessOk, Processes, validateConfig
<1>4. s \notin Unchecked =>
        /\ c.iomemSummary => ~ (c.scanPid >= 0) /\ ~ c.forkProcess
        /\ c.forkProcess => ~ (c.scanPid >= 0) /\ ~ c.iomemSummary
  BY <1>3 DEF ExclusiveTargets
<1>5. /\ s = "summarizeIomem" => c.iomemSummary
      /\ s = "fork" => ~ c.iomemSummary /\ c.forkProcess
      /\ s = "beforeScan" => ~ c.iomemSummary /\ ~ c.forkProcess /\ c.scanPid = -1
      /\ s = "getMaps" =>
            /\ ~ c.iomemSummary
            /\ step["child"] # "none" => c.forkProcess
            /\ step["child"] = "none" =>
                  /\ ~ c.forkProcess
                  /\ "preScan" \in held["parent"] <=> c.scanPid = -1
  BY DEF IInv, BranchOk
<1>6. "pid" \in given => c.scanPid >= 0
  OBVIOUS
<1> HIDE DEF c
<1>7. s = "summarizeIomem" => given = {"iomem"}
  BY <1>1, <1>2, <1>4, <1>5, <1>6 DEF Unchecked
<1>8. s = "fork" => given = {"fork"}
  BY <1>1, <1>2, <1>4, <1>5, <1>6 DEF Unchecked
<1>9. s = "beforeScan" => given = {}
  BY <1>1, <1>2, <1>4, <1>5, <1>6 DEF Unchecked
<1>10. s = "getMaps" =>
         given = (IF step["child"] # "none" THEN {"fork"}
                  ELSE IF "preScan" \in held["parent"] THEN {} ELSE {"pid"})
  <2> SUFFICES ASSUME s = "getMaps"
               PROVE  given = (IF step["child"] # "none" THEN {"fork"}
                               ELSE IF "preScan" \in held["parent"]
                                    THEN {} ELSE {"pid"})
    OBVIOUS
  <2>1. ~ c.iomemSummary /\ "iomem" \notin given
    BY <1>2, <1>5
  <2>2. CASE step["child"] # "none"
    <3>1. "fork" \in given /\ "pid" \notin given
      BY <1>2, <1>4, <1>5, <1>6, <2>2 DEF Unchecked
    <3> QED BY <1>1, <2>1, <2>2, <3>1
  <2>3. CASE step["child"] = "none" /\ "preScan" \in held["parent"]
    <3>1. "fork" \notin given /\ "pid" \notin given
      BY <1>1, <1>2, <1>5, <1>6, <2>3
    <3> QED BY <1>1, <2>1, <2>3, <3>1
  <2>4. CASE step["child"] = "none" /\ "preScan" \notin held["parent"]
    <3>1. "fork" \notin given /\ "pid" \in given
      BY <1>2, <1>5, <2>4
    <3> QED BY <1>1, <2>1, <2>4, <3>1
  <2> QED BY <2>2, <2>3, <2>4
<1> QED BY <1>7, <1>8, <1>9, <1>10

\* main() takes the branch of the one target that was named on the command
\* line (config.c:617-640, memscan.c:46-148), if its --pid fits into an int.
THEOREM Target == Spec => []TargetHonoured
  BY TargetByIInv, InvariantHolds, PTL

LEMMA OwnMemoryByIInv == IInv => ScansOnlyItself
<1> SUFFICES ASSUME IInv, NEW p \in Processes, step[p] = "scanMaps",
                    config[p].scanForByte \/ config[p].scanForShannon
             PROVE  config[p].scanSelf
  BY DEF ScansOnlyItself
<1> DEFINE c == config[p]
<1>1. ExclusiveTargets(c) /\ (c.scanSelf \/ c.scanPid > 0)
  BY DEF IInv, ProcessOk, Unchecked, validateConfig
<1>2. hasScanOptions(c)
  BY DEF hasScanOptions
<1>3. ~ (c.scanPid >= 0)
  BY <1>1, <1>2 DEF ExclusiveTargets
<1>4. c.scanPid \in Int
  BY ConfigAssumption DEF IInv, TypeInvariant
<1> QED BY <1>1, <1>3, <1>4

\* scanMaps() with --scan_byte or --shannon reads through the addresses of the
\* own process and of no other (config.c:617-640, memscan.c:98-110).
THEOREM OwnMemory == Spec => []ScansOnlyItself
  BY OwnMemoryByIInv, InvariantHolds, PTL

\* The parent prints after the child has ended, and each prints at most once
\* (memscan.c:60-80).
THEOREM ParentLast == Spec => []ParentPrintsLast
<1>1. IInv => ParentPrintsLast
  BY DEF IInv, PrintOk, HasPrinted, ParentPrintsLast
<1> QED BY <1>1, InvariantHolds, PTL

\* Every return from main(), on every branch and in both processes, and the
\* exit after a failed validation, leave nothing held and the configuration
\* reset (memscan.c:46-148, config.c:645-708).
THEOREM CleanReturns == Spec => []CleanReturn
<1>1. IInv => CleanReturn
  BY DEF IInv, ProcessOk, CleanReturn
<1> QED BY <1>1, InvariantHolds, PTL

-----------------------------------------------------------------------------
(* Both processes end.                                                     *)

\* The calls a process makes from each step on, the way that takes longest.
CallsFrom(s) ==
    IF s \in {"none", "ended"} THEN 0
    ELSE IF s = "resetConfig" THEN 1
    ELSE IF s = "releaseIomem" THEN 2
    ELSE IF s = "closePagemap" THEN 3
    ELSE IF s = "afterScan" THEN 4
    ELSE IF s = "releaseMaps" THEN 5
    ELSE IF s = "printMaps" THEN 6
    ELSE IF s = "waitpid" THEN 7
    ELSE IF s = "readPagemapInfo" THEN 8
    ELSE IF s = "scanMaps" THEN 9
    ELSE IF s = "getMaps" THEN 10
    ELSE IF s = "readIomem" THEN 12
    ELSE IF s = "filters" THEN 13
    ELSE IF s = "options" THEN 14 + MaxFilters
    ELSE 11

\* With the options and the filters it has still to process.
CallsLeft(p) ==
    CallsFrom(step[p]) + (IF step[p] = "options" THEN MaxOptions - numOptions
                          ELSE IF step[p] = "filters" THEN MaxFilters - filters[p]
                          ELSE 0)

\* Every step of a process brings it closer to its end, and leaves the other one
\* where it is, but for fork(), which starts the child.
CallCloser ==
    /\ MainStep =>
          /\ CallsLeft("parent")' < CallsLeft("parent")
          /\ step["parent"] # "fork" => CallsLeft("child")' = CallsLeft("child")
    /\ ScanStep("child") =>
          /\ CallsLeft("child")' < CallsLeft("child")
          /\ CallsLeft("parent")' = CallsLeft("parent")

LEMMA CallsAre == IInv => \A p \in Processes : CallsLeft(p) \in Nat
<1> SUFFICES ASSUME IInv, NEW p \in Processes PROVE CallsLeft(p) \in Nat
  OBVIOUS
<1>1. /\ filters[p] \in 0 .. MaxFilters /\ numOptions \in 0 .. MaxOptions
      /\ MaxFilters \in Nat /\ MaxOptions \in Nat
  BY Parts, MemscanAssumption
<1>2. CallsFrom(step[p]) \in Nat
  BY <1>1 DEF CallsFrom
<1> QED BY <1>1, <1>2 DEF CallsLeft

\* Process p goes from one call to one that is nearer to its end.
LEMMA Nearer ==
    ASSUME IInv, NEW p \in Processes, NEW from, NEW to, Goto(p, from, to),
           from # "options", to \notin {"options", "filters"},
           CallsFrom(to) < CallsFrom(from),
           numOptions' = numOptions, \A q \in Processes : q # p => filters'[q] = filters[q]
    PROVE  /\ CallsLeft(p)' < CallsLeft(p)
           /\ \A q \in Processes : q # p => CallsLeft(q)' = CallsLeft(q)
<1>1. step[p] = from /\ step'[p] = to /\ \A q \in Processes : q # p => step'[q] = step[q]
  BY Parts DEF Goto
<1>2. CallsLeft(p)' = CallsFrom(to)
  <2>1. CallsLeft(p)' = CallsFrom(to) + 0
    BY <1>1 DEF CallsLeft
  <2>2. CallsFrom(to) \in Nat
    BY MemscanAssumption DEF CallsFrom
  <2> QED BY <2>1, <2>2
<1>3. CallsFrom(from) <= CallsLeft(p)
  <2>1. /\ filters[p] \in 0 .. MaxFilters /\ MaxFilters \in Nat
        /\ CallsFrom(from) \in Nat
    BY Parts, MemscanAssumption DEF CallsFrom
  <2> QED BY <1>1, <2>1 DEF CallsLeft
<1>4. CallsFrom(from) \in Nat /\ CallsFrom(to) \in Nat /\ CallsLeft(p) \in Nat
  BY CallsAre, MemscanAssumption DEF CallsFrom
<1>5. CallsLeft(p)' < CallsLeft(p)
  BY <1>2, <1>3, <1>4
<1>6. \A q \in Processes : q # p => CallsLeft(q)' = CallsLeft(q)
  BY <1>1 DEF CallsLeft
<1> QED BY <1>5, <1>6

LEMMA ScanCloser ==
    ASSUME IInv, NEW p \in Processes, ScanStep(p)
    PROVE  /\ CallsLeft(p)' < CallsLeft(p)
           /\ \A q \in Processes : q # p => CallsLeft(q)' = CallsLeft(q)
<1>1. PICK from \in {"getMaps", "scanMaps", "readPagemapInfo", "waitpid", "printMaps",
                     "releaseMaps", "closePagemap", "releaseIomem", "resetConfig"},
           to \in {"scanMaps", "readPagemapInfo", "waitpid", "printMaps", "releaseMaps",
                   "afterScan", "closePagemap", "releaseIomem", "resetConfig", "ended"} :
         Goto(p, from, to) /\ CallsFrom(to) < CallsFrom(from)
  BY DEF ScanStep, GetMaps, ScanMaps, ReadPagemapInfo, WaitPid, PrintMaps, ReleaseMaps,
     ClosePagemap, ReleaseIomem, ReturnFromMain, Call, CallHolding, Fatal, Exit,
        CallsFrom
<1>2. numOptions' = numOptions /\ \A q \in Processes : q # p => filters'[q] = filters[q]
  BY Parts DEF ScanStep, GetMaps, ScanMaps, ReadPagemapInfo, WaitPid, PrintMaps,
     ReleaseMaps, ClosePagemap, ReleaseIomem, ReturnFromMain, Call, CallHolding, Fatal,
     Exit, ResetConfig, history
<1> QED BY <1>1, <1>2, Nearer

\* The steps of main() before the scan, but for the options and fork().
LEMMA EarlyCloser ==
    ASSUME IInv,
           \/ ValidateConfig \/ CheckCapabilities \/ ReadIomem \/ AssertFalse
           \/ SummarizeIomem \/ BeforeScan \/ AfterScan \/ Fatal("parent", "filters")
    PROVE  /\ CallsLeft("parent")' < CallsLeft("parent")
           /\ CallsLeft("child")' = CallsLeft("child")
<1>1. PICK from \in {"filters", "readIomem", "neverGetHere", "summarizeIomem",
                     "beforeScan", "afterScan"},
           to \in {"readIomem", "summarizeIomem", "fork", "getMaps", "beforeScan",
                   "neverGetHere", "releaseIomem", "closePagemap", "ended"} :
         Goto("parent", from, to) /\ CallsFrom(to) < CallsFrom(from)
  BY DEF ValidateConfig, CheckCapabilities, ReadIomem, Branch, AssertFalse,
     SummarizeIomem,
     BeforeScan, AfterScan, Call, CallHolding, Fatal, Abort, Exit, CallsFrom
<1>2. numOptions' = numOptions /\ filters'["child"] = filters["child"]
  BY Parts DEF ValidateConfig, CheckCapabilities, ReadIomem, AssertFalse,
     SummarizeIomem,
     BeforeScan, AfterScan, Call, CallHolding, Fatal, Abort, Exit, ResetConfig, history
<1>3. \A q \in Processes : q # "parent" => q = "child"
  BY DEF Processes
<1> QED BY <1>1, <1>2, <1>3, Nearer, Parts

\* The options and the filters.
LEMMA OptionsCloser ==
    ASSUME IInv,
           \/ \E o \in Options, v \in Values : ProcessOption(o, v)
           \/ IllegalOption \/ PrintAndExit \/ ProcessFilters \/ ProcessFilter
    PROVE  /\ CallsLeft("parent")' < CallsLeft("parent")
           /\ CallsLeft("child")' = CallsLeft("child")
<1>0. /\ filters["parent"] \in 0 .. MaxFilters /\ numOptions \in 0 .. MaxOptions
      /\ MaxFilters \in Nat /\ MaxOptions \in Nat
      /\ "parent" \in Processes /\ "child" \in Processes /\ "parent" # "child"
      /\ step \in [Processes -> Steps] /\ filters \in [Processes -> 0 .. MaxFilters]
  BY Parts, MemscanAssumption
<1>1. CASE \E o \in Options, v \in Values : ProcessOption(o, v)
  <2>1. /\ step["parent"] = "options" /\ step'["parent"] \in {"options", "ended"}
        /\ step'["child"] = step["child"]
    BY <1>0, <1>1 DEF ProcessOption, Goto
  <2>2. numOptions < MaxOptions /\ numOptions' = numOptions + 1 /\ filters' = filters
    BY <1>1 DEF ProcessOption
  <2>3. step["child"] = "none"
    BY <2>1 DEF IInv, ChildOk, BeforeFork
  <2> QED BY <1>0, <2>1, <2>2, <2>3 DEF CallsLeft, CallsFrom
<1>2. CASE IllegalOption \/ PrintAndExit \/ ProcessFilters
  <2>1. /\ step["parent"] = "options" /\ step'["parent"] \in {"filters", "ended"}
        /\ step'["child"] = step["child"]
    BY <1>0, <1>2 DEF IllegalOption, PrintAndExit, ProcessFilters, Fatal, Call,
       Exit, Goto
  <2>2. numOptions' = numOptions /\ filters' = filters
    BY <1>2 DEF IllegalOption, PrintAndExit, ProcessFilters, Fatal, Call, Exit,
       Goto, history
  <2> QED BY <1>0, <2>1, <2>2 DEF CallsLeft, CallsFrom
<1>3. CASE ProcessFilter
  <2>1. CASE Fatal("parent", "filters")
    BY <2>1, EarlyCloser
  <2>2. CASE ~ Fatal("parent", "filters")
    <3>1. /\ step["parent"] = "filters" /\ step' = step /\ numOptions' = numOptions
          /\ filters["parent"] < MaxFilters
          /\ filters' = [filters EXCEPT !["parent"] = filters["parent"] + 1]
      BY <1>3, <2>2 DEF ProcessFilter, history
    <3>2. filters'["parent"] = filters["parent"] + 1 /\ filters'["child"] = filters["child"]
      BY <1>0, <3>1
    <3> QED BY <1>0, <3>1, <3>2 DEF CallsLeft, CallsFrom
  <2> QED BY <2>1, <2>2
<1> QED BY <1>1, <1>2, <1>3

\* Both processes end, whatever is on the command line and whichever calls fail:
\* each step leaves its process fewer calls, and fork() starts the only child
\* (memscan.c:32-149).
THEOREM ProcessesEnd ==
    Spec => [](\A p \in Processes : CallsLeft(p) \in Nat) /\ [][CallCloser]_vars
<1>1. IInv /\ [Next]_vars => [CallCloser]_vars
  <2> SUFFICES ASSUME IInv, Next PROVE CallCloser
    OBVIOUS
  <2>1. \A q \in Processes : q = "parent" \/ q = "child"
    BY DEF Processes
  <2>2. MainStep => /\ CallsLeft("parent")' < CallsLeft("parent")
                    /\ step["parent"] # "fork" => CallsLeft("child")' = CallsLeft("child")
    <3> SUFFICES ASSUME MainStep
                 PROVE  /\ CallsLeft("parent")' < CallsLeft("parent")
                        /\ step["parent"] # "fork" => CallsLeft("child")' = CallsLeft("child")
      OBVIOUS
    <3>1. CASE Fork
      <4>1. CASE Fatal("parent", "fork")
        BY <4>1, Nearer, Parts, <2>1 DEF Fatal, Exit, history, CallsFrom
      <4>2. CASE ~ Fatal("parent", "fork")
        <5>1. step["parent"] = "fork" /\ step'["parent"] = "getMaps"
          BY <3>1, <4>2, Parts DEF Fork
        <5> QED BY <5>1 DEF CallsLeft, CallsFrom
      <4> QED BY <4>1, <4>2
    <3>2. CASE ScanStep("parent")
      BY <3>2, ScanCloser, Parts
    <3> QED BY <3>1, <3>2, EarlyCloser, OptionsCloser DEF MainStep
  <2>3. ScanStep("child") => /\ CallsLeft("child")' < CallsLeft("child")
                             /\ CallsLeft("parent")' = CallsLeft("parent")
    BY ScanCloser, Parts
  <2> QED BY <2>2, <2>3 DEF CallCloser
<1> QED BY <1>1, CallsAre, InvariantHolds, PTL DEF Spec

-----------------------------------------------------------------------------
(* Nobody waits in vain.                                                   *)

\* The calls of a process that scans.
ScanCalls == BeforeWait \cup {"printMaps", "releaseMaps", "closePagemap", "releaseIomem",
                              "resetConfig"}

\* Process p makes its next call, and the call does not block.
Goes(p) ==
    /\ step[p] \in ScanCalls \/ (p = "parent" /\ step[p] \in BeforeFork \cup {"afterScan"})
    /\ step[p] = "waitpid" /\ p = "parent" /\ config[p].forkProcess => step["child"] = "ended"

\* The parent goes on, has ended, or waits for a child that goes on.
SomebodyGoes ==
    \/ step["parent"] = "ended" \/ Goes("parent")
    \/ step["parent"] = "waitpid" /\ Goes("child")

\* The parent is there, and once it has come to its scan with --fork, so is the
\* child, which has none of the memory and threads of a scan of the own process.
Forked ==
    /\ step["parent"] # "none"
    /\ step["child"] \in ScanCalls \cup {"none", "ended"}
    /\ "preScan" \notin held["child"]
    /\ step["parent"] \in BeforeWait /\ config["parent"].forkProcess =>
          step["child"] # "none"

LEMMA InitForked == Init => Forked
  BY DEF Init, Forked, ScanCalls, BeforeWait, Processes

LEMMA ScanForked ==
    ASSUME IInv, Forked, NEW p \in Processes, ScanStep(p)
    PROVE  Forked'
<1>1. /\ step[p] \in ScanCalls /\ step'[p] \in ScanCalls \cup {"afterScan", "ended"}
      /\ step'[p] = "afterScan" => step[p] = "releaseMaps" /\ "preScan" \in held[p]
      /\ step'[p] \in BeforeWait => step[p] \in BeforeWait
      /\ "preScan" \in held'[p] => "preScan" \in held[p]
      /\ \A q \in Processes : q # p => step'[q] = step[q] /\ held'[q] = held[q]
  BY Parts DEF ScanStep, GetMaps, ScanMaps, ReadPagemapInfo, WaitPid, PrintMaps,
     ReleaseMaps,
     ClosePagemap, ReleaseIomem, ReturnFromMain, Call, CallHolding, Fatal, Exit, Goto,
     ScanCalls, BeforeWait
<1>2. step'[p] # "ended" => config' = config
  BY Parts DEF ScanStep, GetMaps, ScanMaps, ReadPagemapInfo, WaitPid, PrintMaps,
     ReleaseMaps,
     ClosePagemap, ReleaseIomem, ReturnFromMain, Call, CallHolding, Fatal, Exit, Goto
<1>3. p = "child" => config'["parent"] = config["parent"]
  BY Parts DEF IInv, ScanStep, GetMaps, ScanMaps, ReadPagemapInfo, WaitPid, PrintMaps,
     ReleaseMaps, ClosePagemap, ReleaseIomem, ReturnFromMain, ResetConfig, Call,
        CallHolding,
     Fatal, Exit, Goto
<1>4. CASE p = "parent"
  <2>1. /\ step'["parent"] # "none" /\ step'["child"] = step["child"]
        /\ held'["child"] = held["child"]
    BY <1>1, <1>4, Parts DEF ScanCalls, BeforeWait
  <2>2. step'["parent"] \in BeforeWait /\ config'["parent"].forkProcess =>
           step'["child"] # "none"
    BY <1>1, <1>2, <1>4, <2>1 DEF Forked, BeforeWait
  <2> QED BY <2>1, <2>2 DEF Forked
<1>5. CASE p = "child"
  <2>1. /\ step'["parent"] = step["parent"] /\ "preScan" \notin held'["child"]
        /\ step'["child"] \in ScanCalls \cup {"ended"}
    BY <1>1, <1>5, Parts DEF Forked
  <2>2. step'["child"] # "none"
    BY <2>1 DEF ScanCalls, BeforeWait
  <2> QED BY <2>1, <2>2 DEF Forked
<1> QED BY <1>4, <1>5 DEF Processes

\* What the parent does alone, before the fork and after the scan.
LEMMA AloneForked ==
    ASSUME IInv, Forked,
           \/ \E o \in Options, v \in Values : ProcessOption(o, v)
           \/ IllegalOption \/ PrintAndExit \/ ProcessFilters \/ ProcessFilter
           \/ ValidateConfig \/ CheckCapabilities \/ ReadIomem
           \/ AssertFalse \/ SummarizeIomem \/ BeforeScan \/ AfterScan
           \/ Fatal("parent", "fork")
    PROVE  Forked'
<1>1. /\ step'["parent"] # "none" /\ step'["child"] = step["child"]
      /\ held'["child"] = held["child"]
  BY Parts DEF Forked, ProcessOption, IllegalOption, PrintAndExit, ProcessFilters,
     ProcessFilter, ValidateConfig, CheckCapabilities, ReadIomem, Branch, AssertFalse,
     SummarizeIomem, BeforeScan, AfterScan, Call, CallHolding, Fatal, Abort, Exit, Goto
<1>2. step'["parent"] \in BeforeWait /\ config'["parent"].forkProcess =>
         step'["child"] # "none"
  <2>1. CASE ReadIomem
    <3>1. step'["parent"] \in BeforeWait => ~ config["parent"].forkProcess
      BY <2>1, Parts DEF ReadIomem, Branch, CallHolding, Fatal, Exit, Goto, BeforeWait
    <3>2. config' = config
      BY <2>1 DEF ReadIomem, CallHolding, Fatal, Exit
    <3> QED BY <3>1, <3>2
  <2>2. CASE BeforeScan
    <3>1. ~ config["parent"].forkProcess /\ config' = config
      BY <2>2 DEF IInv, BranchOk, BeforeScan, CallHolding, Fatal, Abort, Exit, Goto
    <3> QED BY <3>1
  <2>3. CASE ~ ReadIomem /\ ~ BeforeScan
    <3>1. step'["parent"] \notin BeforeWait
      BY <2>3, Parts DEF ProcessOption, IllegalOption, PrintAndExit, ProcessFilters,
         ProcessFilter, ValidateConfig, CheckCapabilities, AssertFalse, SummarizeIomem,
         AfterScan, Call, CallHolding, Fatal, Abort, Exit, Goto, BeforeWait
    <3> QED BY <3>1
  <2> QED BY <2>1, <2>2, <2>3
<1> QED BY <1>1, <1>2 DEF Forked

LEMMA NextForked == IInv /\ Forked /\ [Next]_vars => Forked'
<1> SUFFICES ASSUME IInv, Forked, [Next]_vars PROVE Forked'
  OBVIOUS
<1>1. CASE Fork /\ ~ Fatal("parent", "fork")
  <2>1. /\ step["parent"] = "fork"
        /\ step' = [p \in Processes |-> "getMaps"]
        /\ held' = [p \in Processes |-> held["parent"]]
    BY <1>1 DEF Fork
  <2>2. "preScan" \notin held["parent"]
    BY <2>1, Parts DEF IInv, ProcessOk, HeldOk
  <2> QED BY <2>1, <2>2, Parts DEF Forked, ScanCalls, BeforeWait
<1>2. CASE UNCHANGED vars
  BY <1>2 DEF vars, Forked
<1> QED
  BY <1>1, <1>2, ScanForked, AloneForked, Parts DEF Next, MainStep, Ended, Fork

LEMMA ForkedGoes == IInv /\ Forked => SomebodyGoes
<1> SUFFICES ASSUME IInv, Forked PROVE SomebodyGoes
  OBVIOUS
<1>1. step["parent"] \in BeforeFork \cup ScanCalls \cup {"afterScan", "ended"}
  BY Parts DEF Forked, Steps, ScanCalls, BeforeWait, BeforeFork
<1>2. CASE step["parent"] = "waitpid" /\ config["parent"].forkProcess
                                      /\ step["child"] # "ended"
  <2>1. step["child"] \in ScanCalls
    BY <1>2 DEF Forked, BeforeWait
  <2> QED BY <1>2, <2>1, Parts DEF SomebodyGoes, Goes
<1>3. CASE ~ (step["parent"] = "waitpid" /\ config["parent"].forkProcess
                                         /\ step["child"] # "ended")
  BY <1>1, <1>3 DEF SomebodyGoes, Goes
<1> QED BY <1>2, <1>3

\* The wait of the parent (memscan.c:65-76) is for a child that was started
\* and goes on, or has ended: memscan never stops halfway.
THEOREM NeverWaitsInVain == Spec => []SomebodyGoes
  BY InitForked, NextForked, ForkedGoes, InvariantHolds, PTL DEF Spec
=============================================================================
