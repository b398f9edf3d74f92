-------------------------- MODULE ProcessorSampler --------------------------
(* The Performance and CPU pages on Linux: shares of time from /proc/stat,   *)
(* taken by two samplers with baselines of their own, a graph for each       *)
(* processor, and the topology under /sys/devices/system/cpu.                *)
(*                                                                           *)
(* The counters grow, but the kernel may take time back when a processor     *)
(* goes off line and returns, and a hypervisor corrects the stolen time, so  *)
(* any reading may follow any other.  A reading sums up the fields of a      *)
(* line: user with nice, each without its guest time, idle with iowait, and  *)
(* irq with softirq.                                                         *)
EXTENDS SampleHistory, Integers, FiniteSets, FiniteSetsExt

CONSTANTS
  Readings,       \* records of user, system, interrupt, idle and stolen time
  Processors,     \* the processors: records of id, package, die, module, core, class
  CpuCaches,      \* the caches: records of level (and kind), size, sharers (ids), and
                  \* whether the file that lists these can be read
  GraphCapacity,  \* HISTORY_CAPACITY
  Unknown         \* None of Option

\* Processors have ids of their own, and one cache of each level and kind.
ASSUME ProcessorAssumption ==
  /\ Readings # {} /\ Readings \subseteq [user : Nat, system : Nat, interrupt : Nat, idle : Nat, steal : Nat]
  /\ IsFiniteSet(Processors) /\ \A p, q \in Processors : p.id = q.id => p = q
  /\ IsFiniteSet(CpuCaches)
  /\ \A c, d \in CpuCaches : c # d /\ c.level = d.level => c.sharers \cap d.sharers = {}

VARIABLES
  line,       \* the aggregate line of /proc/stat
  online,     \* the processors that are on line
  aggregate,  \* performance_cpu_baseline
  cpuGraphs,  \* per_cpu_histories, one for each listed processor
  busyGraph,  \* cpu_history
  fullGraph,  \* memory_history: one entry for each published sample
  detail,     \* cpu_detail_baseline
  detailGraph \* cpu_detail_history

processorVars == <<line, online, aggregate, cpuGraphs, busyGraph, fullGraph,
                   detail, detailGraph>>

ProcessorInit ==
  /\ line = CHOOSE r \in Readings : TRUE
  /\ online = Processors
  /\ aggregate = Unknown
  /\ cpuGraphs = <<>>
  /\ busyGraph = <<>>
  /\ fullGraph = <<>>
  /\ detail = Unknown
  /\ detailGraph = <<>>

(***************************************************************************)
(* parse_cpu_line and percentages                                          *)
(***************************************************************************)
\* Stolen time is counted in the total only.
Times(r) ==
  [user |-> r.user, interrupt |-> r.interrupt, kernel |-> r.system + r.interrupt,
   idle |-> r.idle, total |-> r.user + r.system + r.interrupt + r.idle + r.steal]

Fields == {"user", "interrupt", "kernel", "idle", "total"}

\* Mutant: a counter that went back counts as no time instead of no answer.
SharesSaturating(previous, current) ==
  IF previous = Unknown THEN Unknown
  ELSE LET d == [f \in Fields |-> Max({0, Times(current)[f] - Times(previous)[f]})]
       IN IF d.total = 0 \/ \E f \in Fields : d[f] > d.total THEN Unknown
          ELSE [busy |-> d.total - d.idle, user |-> d.user, kernel |-> d.kernel,
                interrupt |-> d.interrupt, whole |-> d.total]

\* Shares of `whole`, or nothing if one of the times went back or the total stood
\* still.  Stolen time that went back is not noticed.
Shares(previous, current) ==
  IF previous = Unknown THEN Unknown
  ELSE LET d == [f \in Fields |-> Times(current)[f] - Times(previous)[f]]
       IN IF d.total = 0 \/ \E f \in Fields : d[f] < 0 \/ d[f] > d.total THEN Unknown
          ELSE [busy |-> d.total - d.idle, user |-> d.user, kernel |-> d.kernel,
                interrupt |-> d.interrupt, whole |-> d.total]

\* cpu_detail_delta: no answer either if the clock stood still.
DetailShares(previous, current, elapsed) == IF elapsed THEN Shares(previous, current) ELSE Unknown

\* resize_cpu_histories: another number of processors than graphs starts the
\* graphs anew.
Resized(count) == IF Len(cpuGraphs) = count THEN cpuGraphs ELSE [i \in 1..count |-> <<>>]

\* The values of a graph are not told apart.
Pushed(graph, shares) == IF shares = Unknown THEN graph ELSE Push(graph, GraphCapacity, "share")

(***************************************************************************)
(* read_cpu_topology and read_cpu_caches                                   *)
(***************************************************************************)
\* What online_logical_processors may list: the processors on line; if sysfs does
\* not say, those this program may use, on line or not; or none.
OnlineProcessors == {online, Processors, {}}

\* The processors whose package and core can be read, the cores they form, and
\* the class of a core, which is the first one known of its threads.
Placed(set) == {p \in set : p.package # Unknown /\ p.core # Unknown}
CoreOf(p) == <<p.package, p.die, p.core>>
ThreadsOf(set, core) == {p \in set : CoreOf(p) = core}
ClassOf(set, core) ==
  LET known == {p \in ThreadsOf(set, core) : p.class # Unknown}
  IN IF known = {} THEN Unknown ELSE (CHOOSE p \in known : \A q \in known : p.id <= q.id).class

\* A count of zero is no answer.
SomeCount(set) == IF set = {} THEN Unknown ELSE Cardinality(set)

\* Sysfs describes the processors that are on line; without a list of them, those
\* of /proc/cpuinfo are counted.
Topology(list) ==
  LET placed == Placed(list \cap online)
      cores == {CoreOf(p) : p \in placed}
      classes == {ClassOf(placed, c) : c \in cores} \ {Unknown}
      threads == {Cardinality(ThreadsOf(placed, c)) : c \in cores}
  IN [logical |-> Cardinality(IF list = {} THEN online ELSE list),
      packages |-> SomeCount({p.package : p \in placed}),
      dies |-> SomeCount({<<p.package, p.die>> : p \in {q \in placed : q.die # Unknown}}),
      modules |-> SomeCount({<<p.package, p.die, p.module>> :
                              p \in {q \in placed : q.module # Unknown}}),
      cores |-> SomeCount(cores),
      classCounts |-> IF cores = {} THEN {}
                      ELSE IF classes = {} THEN {<<Unknown, Cardinality(cores)>>}
                      ELSE {<<k, Cardinality({c \in cores : ClassOf(placed, c) = k})>> : k \in classes},
      smt |-> IF cores = {} THEN Unknown
              ELSE Cardinality({c \in cores : Cardinality(ThreadsOf(placed, c)) > 1}),
      fewest |-> IF threads = {} THEN Unknown ELSE Min(threads),
      most |-> IF threads = {} THEN Unknown ELSE Max(threads)]

\* A cache is described once under every processor that shares it; descriptions
\* that agree, also in who shares it, are one cache.  If the sharers cannot be
\* read, the processor counts as the only one.  One without a size is left out.
CacheInstances(list) ==
  UNION {{[level |-> c.level, size |-> c.size,
           sharers |-> IF c.listed THEN c.sharers \cap {p.id : p \in online} ELSE {q.id}] :
            c \in {d \in CpuCaches : q.id \in d.sharers /\ d.size # Unknown}} :
         q \in list \cap online}

\* Equal caches are shown in one row, with their number.
CacheRows(list) ==
  {<<i.level, i.size, Cardinality({j \in CacheInstances(list) : j.level = i.level /\ j.size = i.size})>> :
     i \in CacheInstances(list)}

(***************************************************************************)
(* The system (external), sample_performance and sample_cpu                *)
(***************************************************************************)
TimePasses ==
  /\ line' \in Readings
  /\ UNCHANGED <<online, aggregate, cpuGraphs, busyGraph, fullGraph, detail, detailGraph>>

SwitchProcessor(p) ==
  /\ online' = IF p \in online THEN online \ {p} ELSE online \cup {p}
  /\ online' # {}
  /\ UNCHANGED <<line, aggregate, cpuGraphs, busyGraph, fullGraph, detail, detailGraph>>

\* Processors are told apart by their position in /proc/stat; another number of
\* them drops their baselines and starts their graphs anew.  The line of each
\* processor is taken to read like the aggregate, so that its baseline is that
\* of the aggregate.  If /proc/meminfo cannot be read, no snapshot is
\* published, and only the memory graph misses the sample.
SamplePerformance ==
  LET count == Cardinality(online)
      known == IF Len(cpuGraphs) = count THEN aggregate ELSE Unknown
  IN /\ busyGraph' = Pushed(busyGraph, Shares(aggregate, line))
     /\ aggregate' = line
     /\ cpuGraphs' = [i \in 1..count |-> Pushed(Resized(count)[i], Shares(known, line))]
     /\ fullGraph' \in {fullGraph, Push(fullGraph, GraphCapacity, "share")}
     /\ UNCHANGED <<line, online, detail, detailGraph>>

SampleProcessor ==
  /\ \E elapsed \in BOOLEAN : detailGraph' = Pushed(detailGraph, DetailShares(detail, line, elapsed))
  /\ detail' = line
  /\ UNCHANGED <<line, online, aggregate, cpuGraphs, busyGraph, fullGraph>>

ProcessorNext ==
  \/ TimePasses
  \/ \E p \in Processors : SwitchProcessor(p)
  \/ SamplePerformance
  \/ SampleProcessor

ProcessorSpec == ProcessorInit /\ [][ProcessorNext]_processorVars

-----------------------------------------------------------------------------
(* Properties *)

\* How much stolen time the kernel took back between two readings.
GivenBack(previous, current) ==
  IF current.steal < previous.steal THEN previous.steal - current.steal ELSE 0

AddsUp(previous, current) ==
  LET s == Shares(previous, current)
  IN s # Unknown => /\ {s.busy, s.user, s.kernel, s.interrupt} \subseteq 0..s.whole
                    /\ s.user + s.kernel <= s.busy + GivenBack(previous, current)

TopologyAddsUp(t) ==
  t.cores # Unknown =>
    /\ t.packages <= t.cores /\ t.cores <= t.logical
    /\ SumFunction([k \in t.classCounts |-> k[2]]) <= t.cores
    /\ t.smt <= t.cores /\ t.fewest <= t.most
    /\ (t.smt = 0) <=> (t.most = 1)
    /\ t.cores + t.smt <= t.logical

CachesAddUp(list) ==
  \A r \in CacheRows(list) :
    LET alike == {c \in CpuCaches : c.level = r[1] /\ c.size = r[2]}
        used == {c \in alike : \E p \in list \cap online : p.id \in c.sharers}
    IN r[3] = Cardinality({c \in used : c.listed})
              + SumFunction([c \in {d \in used : ~d.listed} |->
                              Cardinality({p \in list \cap online : p.id \in c.sharers})])

\* Whatever counters the kernel took back, the shares a sample of either page
\* shows add up: none is negative or above the whole, and user and kernel time
\* fit into the busy time; they exceed it by no more than the stolen time that
\* went back, the one counter in the total whose fall is not checked.
\* (Interrupts need not fit into kernel time: the two are checked to have grown,
\* the rest of kernel time is not.)  Whichever
\* processors are on line and whatever sysfs does not say, the numbers of the
\* CPU page agree: no more cores than processors or packages than cores,
\* classes that count each core at most once, threads that fill the cores, and
\* every cache counted once unless its sharers are not known.
ProcessorPagesAddUp ==
  [][/\ SamplePerformance => AddsUp(aggregate, line)
     /\ SampleProcessor =>
          /\ AddsUp(detail, line)
          /\ \A list \in OnlineProcessors : TopologyAddsUp(Topology(list)) /\ CachesAddUp(list)
    ]_processorVars

=============================================================================
