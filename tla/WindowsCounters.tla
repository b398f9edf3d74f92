--------------------------- MODULE WindowsCounters ---------------------------
(* The Performance, CPU, GPU and Network pages on Windows: everything that   *)
(* is a difference of two readings of a counter.                             *)
(*                                                                           *)
(* Processor times are read by two samplers with baselines of their own; PDH *)
(* keeps the baseline of frequencies and of graphics engines itself, in a     *)
(* query that must have collected twice; the counters of an interface are     *)
(* kept by its LUID.  What the system answers is picked when it is asked.     *)
EXTENDS SampleHistory, Integers, FiniteSets, Functions

CONSTANTS
  Readouts,        \* processor times: records of idle, kernel, user, dpc, interrupt
  MaxProcessors,   \* bound: logical processors
  Adapters,        \* graphics adapters: <<LUID, physical index>>
  MemorySizes,     \* dedicated memory of an adapter; 0 is unknown
  Luids,           \* network interfaces
  MaxOctets,       \* bound: bytes an interface counts
  PlotLength,      \* HISTORY_CAPACITY
  Nothing          \* None of Option

ASSUME CounterAssumption ==
  /\ Readouts \subseteq [idle : Nat, kernel : Nat, user : Nat, dpc : Nat, interrupt : Nat]
  /\ MaxProcessors \in Nat
  /\ Nothing \notin BOOLEAN

VARIABLES
  times,      \* CpuUsageSampler.previous of "performance" and "cpu", or Nothing
  busyPlots,  \* logical_cpu_histories
  timePlots,  \* logical_kernel_histories
  pdhReady,   \* CpuPdhSampler.baseline_ready, or Nothing without a sampler
  pdhRuns,    \* history: collections in a row that succeeded, up to 2
  frequency   \* the CPU page shows what PDH computed

VARIABLES
  query,      \* GpuSampler.query: Nothing, or its `primed`
  queryRuns,  \* history: collections of this query, up to 2
  plots,      \* histories: the memory graph and the engine graph of each adapter
  metadata,   \* the dedicated total each adapter's metadata was queried with
  adapterRows \* the rows of the last sample

VARIABLES
  baselines,  \* NetworkSampler.baselines: octets of each LUID, or Nothing
  lanRates,   \* the rates of the last sample
  lanBefore   \* history: the interfaces of the sample before

processorPages == <<times, busyPlots, timePlots, pdhReady, pdhRuns, frequency>>
gpuPage == <<query, queryRuns, plots, metadata, adapterRows>>
networkPage == <<baselines, lanRates, lanBefore>>
counterVars == <<processorPages, gpuPage, networkPage>>

NoPlots == [a \in {} |-> Nothing]

CounterInit ==
  /\ times = [page \in {"performance", "cpu"} |-> Nothing]
  /\ busyPlots = <<>> /\ timePlots = <<>>
  /\ pdhReady \in {FALSE, Nothing} /\ pdhRuns = 0 /\ frequency = FALSE
  /\ query = Nothing /\ queryRuns = 0
  /\ plots = NoPlots /\ metadata = NoPlots /\ adapterRows = NoPlots
  /\ baselines = [l \in Luids |-> Nothing]
  /\ lanRates = [l \in Luids |-> Nothing]
  /\ lanBefore = {}

(***************************************************************************)
(* processor_times and calculate_delta                                     *)
(***************************************************************************)
\* The kernel's time includes the idle time.
Valid(r) == r.kernel >= r.idle
TimesOf(r) ==
  [idle |-> r.idle, kernel |-> r.kernel - r.idle, user |-> r.user, dpc |-> r.dpc,
   interrupt |-> r.interrupt, total |-> r.kernel + r.user]
Kinds == {"idle", "kernel", "user", "dpc", "interrupt", "total"}

Difference(before, now) == [k \in Kinds |-> TimesOf(now)[k] - TimesOf(before)[k]]
Plausible(d) ==
  /\ \A k \in Kinds : d[k] >= 0 /\ d[k] <= d.total
  /\ d.total > 0 /\ d.dpc <= d.kernel /\ d.interrupt <= d.kernel

Summary(ds) ==
  [each |-> ds, sum |-> [k \in Kinds |-> SumFunction([i \in 1..Len(ds) |-> ds[i][k]])]]

\* Mutant: counters that went back are not noticed.
DeltaUnchecked(before, now, elapsed) ==
  IF elapsed = 0 \/ before = Nothing \/ Len(before) # Len(now) THEN Nothing
  ELSE LET ds == [i \in 1..Len(now) |-> Difference(before[i], now[i])]
       IN Summary(ds)

\* The differences of each processor and their sums; nothing at all if one of
\* them is impossible, no time passed or the number of processors changed.
Delta(before, now, elapsed) ==
  IF elapsed = 0 \/ before = Nothing \/ Len(before) # Len(now) THEN Nothing
  ELSE LET ds == [i \in 1..Len(now) |-> Difference(before[i], now[i])]
       IN IF \E i \in 1..Len(ds) : ~Plausible(ds[i]) THEN Nothing ELSE Summary(ds)

Answers == UNION {[1..n -> Readouts] : n \in 1..MaxProcessors}

\* CpuUsageSampler::sample: an impossible reading fails the sample and leaves the
\* baseline; any other replaces it.
Advance(page, now) ==
  /\ \A i \in DOMAIN now : Valid(now[i])
  /\ times' = [times EXCEPT ![page] = now]

(***************************************************************************)
(* SystemSampler                                                           *)
(***************************************************************************)
Extend(graphs, count) ==
  LET base == IF Len(graphs) # count THEN [i \in 1..count |-> <<>>] ELSE graphs
  IN [i \in 1..count |-> Push(base[i], PlotLength, "share")]

\* push_performance_cpu: both lists of graphs start anew together.  The baseline
\* has moved on also if K32GetPerformanceInfo then fails and nothing is shown.
SampleWindowsPerformance ==
  \E now \in Answers, elapsed \in {0, 1}, informed \in BOOLEAN :
    /\ Advance("performance", now)
    /\ IF informed /\ Delta(times["performance"], now, elapsed) # Nothing
       THEN /\ busyPlots' = Extend(busyPlots, Len(now))
            /\ timePlots' = Extend(IF Len(busyPlots) # Len(now) THEN <<>> ELSE timePlots, Len(now))
       ELSE UNCHANGED <<busyPlots, timePlots>>
    /\ UNCHANGED <<pdhReady, pdhRuns, frequency, gpuPage, networkPage>>

\* CpuPdhSampler::sample and summarize_frequencies: the first collection after a
\* failed one only makes a baseline; then each processor the sampler was made
\* for must have a frequency and a performance.
Collect(succeeds, complete) ==
  IF pdhReady = Nothing THEN UNCHANGED <<pdhReady, pdhRuns>> /\ frequency' = FALSE
  ELSE /\ pdhReady' = succeeds
       /\ pdhRuns' = IF ~succeeds THEN 0 ELSE IF pdhRuns = 2 THEN 2 ELSE pdhRuns + 1
       /\ frequency' = (succeeds /\ pdhReady /\ complete)

\* PDH is asked only if K32GetPerformanceInfo answered.
SampleWindowsCpu ==
  \E now \in Answers, informed, succeeds, complete \in BOOLEAN :
    /\ Advance("cpu", now)
    /\ IF informed THEN Collect(succeeds, complete)
       ELSE UNCHANGED <<pdhReady, pdhRuns, frequency>>
    /\ UNCHANGED <<busyPlots, timePlots, gpuPage, networkPage>>

(***************************************************************************)
(* GpuSampler::sample                                                      *)
(***************************************************************************)
\* A query that cannot collect is closed; the next sample opens another.
CollectFails ==
  /\ query' = Nothing /\ queryRuns' = 0
  /\ adapterRows' = NoPlots
  /\ UNCHANGED <<processorPages, plots, metadata, networkPage>>

\* advance_rate_counter_baseline
Ready == query = TRUE
Primed == TRUE

\* Engine rates need the collection before.
EnginesRead(engines) == IF Ready THEN engines ELSE {}

Physical(live, a) == Cardinality({b \in live : b[1] = a[1]})

\* The dedicated memory of an adapter that is the only physical one of its LUID.
TotalOf(live, inventory, a) ==
  IF a[1] \in DOMAIN inventory /\ Physical(live, a) = 1 /\ inventory[a[1]] > 0
  THEN inventory[a[1]] ELSE Nothing

PlotsOf(a) == IF a \in DOMAIN plots THEN plots[a] ELSE [memory |-> <<>>, engine |-> <<>>]

\* The counters name the adapters with engines and with memory, DXGI those that
\* are installed.  Metadata is queried again only when the total changed.
CollectAndRead ==
  \E busy, used \in SUBSET Adapters,
     inventory \in UNION {[S -> MemorySizes] : S \in SUBSET {a[1] : a \in Adapters}} :
    LET engines == EnginesRead(busy)
        live == engines \cup used \cup {<<l, 0>> : l \in DOMAIN inventory}
        total(a) == TotalOf(live, inventory, a)
    IN /\ query' = Primed
       /\ queryRuns' = IF queryRuns = 2 THEN 2 ELSE queryRuns + 1
       /\ plots' = [a \in live |->
            [memory |-> IF a \in used /\ total(a) # Nothing
                        THEN Push(PlotsOf(a).memory, PlotLength, "percent") ELSE PlotsOf(a).memory,
             engine |-> IF a \in engines
                        THEN Push(PlotsOf(a).engine, PlotLength, "percent") ELSE <<>>]]
       /\ metadata' = IF live = {} THEN metadata ELSE [a \in live |-> total(a)]
       /\ adapterRows' = [a \in live |-> [busy |-> a \in engines, total |-> total(a)]]
       /\ UNCHANGED <<processorPages, networkPage>>

\* Reading the values of a counter fails after they were collected, or nothing
\* was found and there was an error: the baseline has moved on.
ReadFails ==
  /\ query' = Primed
  /\ queryRuns' = IF queryRuns = 2 THEN 2 ELSE queryRuns + 1
  /\ adapterRows' = NoPlots
  /\ UNCHANGED <<processorPages, plots, metadata, networkPage>>

(***************************************************************************)
(* NetworkSampler::sample                                                  *)
(***************************************************************************)
LanRate(l, octets, elapsed) ==
  IF baselines[l] # Nothing /\ elapsed > 0 /\ octets[l] >= baselines[l]
  THEN octets[l] - baselines[l] ELSE Nothing

SampleInterfaces ==
  \E octets \in UNION {[S -> 0..MaxOctets] : S \in SUBSET Luids}, elapsed \in {0, 1} :
    /\ lanRates' = [l \in Luids |->
                     IF l \in DOMAIN octets THEN LanRate(l, octets, elapsed) ELSE Nothing]
    /\ baselines' = [l \in Luids |-> IF l \in DOMAIN octets THEN octets[l] ELSE Nothing]
    /\ lanBefore' = {l \in Luids : baselines[l] # Nothing}
    /\ UNCHANGED <<processorPages, gpuPage>>

CounterNext ==
  \/ SampleWindowsPerformance
  \/ SampleWindowsCpu
  \/ CollectFails
  \/ CollectAndRead
  \/ ReadFails
  \/ SampleInterfaces

CounterSpec == CounterInit /\ [][CounterNext]_counterVars

-----------------------------------------------------------------------------
(* Properties *)

SharesAgree(d) ==
  d # Nothing => /\ \A k \in Kinds : d.sum[k] \in 0..d.sum.total
                 /\ d.sum.total - d.sum.idle = d.sum.user + d.sum.kernel
                 /\ d.sum.dpc <= d.sum.kernel /\ d.sum.interrupt <= d.sum.kernel

PlotsAgree ==
  /\ Len(busyPlots) = Len(timePlots)
  /\ \A i, j \in 1..Len(busyPlots) : Len(busyPlots[i]) = Len(timePlots[j])

\* Every rate on the screen spans two good readings of one source, whatever went
\* back, failed, came or went: the shares of a processor page are possible and
\* add up, the graphs of all processors cover the same samples, PDH frequencies
\* and engine rates follow two collections in a row of the same query, and an
\* interface has a rate only if the sample before saw it.
CountersHaveBaselines ==
  [][/\ \A page \in DOMAIN times :
          times'[page] # times[page] => SharesAgree(Delta(times[page], times'[page], 1))
     /\ PlotsAgree'
     /\ frequency' => pdhRuns' = 2
     /\ \A a \in DOMAIN adapterRows' : adapterRows'[a].busy => queryRuns' = 2
     /\ \A l \in Luids : lanRates'[l] # Nothing => l \in lanBefore'
    ]_counterVars

=============================================================================
