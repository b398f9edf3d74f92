---------------------------- MODULE ProviderProofs ----------------------------
(***************************************************************************)
(* Machine-checked proofs about what the providers show, for any number of *)
(* processes, samples, cards and callers, images of any size, and every    *)
(* platform: rows and graphs of one source, traffic that did flow, rates   *)
(* between two readings, numbers that add up, snapshots and caches within  *)
(* their limits, windows told to the trusted only, icons drawn as they     *)
(* were, and offers that agree with what works.                            *)
(***************************************************************************)
EXTENDS NetworkSampler, ProcessSampler, WindowsProcesses, LinuxGpu, IconImages, WindowProvider,
        WindowIcons, ActionRouting, IconCache, X11Windows, ProcessorSampler, WindowsCounters,
        SequenceTheorems, FiniteSetTheorems, NaturalsInduction, TLAPS

-----------------------------------------------------------------------------
(* ProcessSampler: shares of one process.                                  *)

\* Baselines by identity.
IsBaseline(base) ==
  \A id \in DOMAIN base : id \in SampledPids \X (1..starts) /\ base[id] \in Nat

SamplerTypeOK ==
  /\ holder \in [SampledPids -> 0..starts]
  /\ starts \in 0..MaxStarts
  /\ ticks \in [Started -> Nat]
  /\ lastSeen \in [Started -> Nat \cup {NoValue}]
  /\ IsBaseline(processBase) /\ IsBaseline(nextBase)
  /\ step \in {"idle", "list", "read", "status"}
  /\ pending \subseteq SampledPids
  /\ step = "status" => current \in [pid : SampledPids, process : 1..starts, ticks : Nat,
                                     before : Nat \cup {NoValue}]

\* No process has two PIDs, and none was seen before it started.
OneHolder ==
  /\ \A p, q \in SampledPids : holder[p] # 0 /\ holder[p] = holder[q] => p = q
  /\ \A n \in Started : n > starts => lastSeen[n] = NoValue

BeingRead(p) == step = "status" /\ current.pid = p /\ current.process = holder[p]

\* What a process was last seen with: by this sample, or else by the one whose
\* baselines are used.
SeenAtBaseline ==
  \A p \in SampledPids : holder[p] # 0 =>
    /\ lastSeen[holder[p]] # NoValue => lastSeen[holder[p]] <= ticks[holder[p]]
    /\ <<p, holder[p]>> \in DOMAIN nextBase => lastSeen[holder[p]] = nextBase[<<p, holder[p]>>]
    /\ BeingRead(p) => lastSeen[holder[p]] = current.ticks
    /\ <<p, holder[p]>> \notin DOMAIN nextBase /\ ~BeingRead(p)
         /\ <<p, holder[p]>> \in DOMAIN processBase
         => lastSeen[holder[p]] = processBase[<<p, holder[p]>>]

\* Each PID is read once in a sample.
ReadOnce ==
  /\ step \in {"idle", "list"} => pending = {} /\ DOMAIN nextBase = {}
  /\ \A id \in DOMAIN nextBase : id[1] \notin pending
  /\ step = "status" => current.pid \notin pending

\* What is being read is compared with what it was last seen with.
ComparedWithBefore ==
  step = "status" =>
    LET id == <<current.pid, current.process>>
    IN id \in DOMAIN processBase => /\ current.before = processBase[id]
                                    /\ current.before <= current.ticks

SamplerInv ==
  SamplerTypeOK /\ OneHolder /\ SeenAtBaseline /\ ReadOnce /\ ComparedWithBefore
    /\ SharesOfOneProcess

LEMMA SamplerInit == ProcessInit => SamplerInv
<1> SUFFICES ASSUME ProcessInit PROVE SamplerInv
  OBVIOUS
<1>1. DOMAIN processBase = {} /\ DOMAIN nextBase = {}
  BY DEF ProcessInit
<1>2. SamplerTypeOK
  BY <1>1, SamplerAssumption DEF ProcessInit, SamplerTypeOK, IsBaseline, Started
<1>3. OneHolder /\ SeenAtBaseline
  BY <1>1 DEF ProcessInit, OneHolder, SeenAtBaseline, Started
<1>4. ReadOnce /\ ComparedWithBefore /\ SharesOfOneProcess
  BY <1>1 DEF ProcessInit, ReadOnce, ComparedWithBefore, SharesOfOneProcess
<1> QED
  BY <1>2, <1>3, <1>4 DEF SamplerInv

LEMMA StartKeeps ==
  ASSUME SamplerInv, NEW p \in SampledPids, StartProcess(p)
  PROVE  SamplerInv'
<1> USE SamplerAssumption DEF SamplerInv, SamplerTypeOK
<1>1. /\ starts' = starts + 1 /\ starts' \in 0..MaxStarts /\ starts' \in Started
      /\ holder' = [holder EXCEPT ![p] = starts + 1]
      /\ UNCHANGED <<ticks, processBase, step, pending, current, nextBase, processRows, lastSeen>>
  BY DEF StartProcess, Started
<1>2. /\ holder'[p] = starts + 1
      /\ \A q \in SampledPids : q # p => holder'[q] = holder[q]
      /\ \A q \in SampledPids : holder[q] <= starts
  BY <1>1
<1>3. SamplerTypeOK'
  BY <1>1 DEF IsBaseline
<1>4. OneHolder'
  BY <1>1, <1>2 DEF OneHolder
<1>5. SeenAtBaseline'
  <2> SUFFICES ASSUME NEW q \in SampledPids, holder'[q] # 0
               PROVE  /\ lastSeen[holder'[q]] # NoValue => lastSeen[holder'[q]] <= ticks[holder'[q]]
                      /\ <<q, holder'[q]>> \in DOMAIN nextBase
                           => lastSeen[holder'[q]] = nextBase[<<q, holder'[q]>>]
                      /\ BeingRead(q)' => lastSeen[holder'[q]] = current.ticks
                      /\ <<q, holder'[q]>> \notin DOMAIN nextBase /\ ~BeingRead(q)'
                           /\ <<q, holder'[q]>> \in DOMAIN processBase
                           => lastSeen[holder'[q]] = processBase[<<q, holder'[q]>>]
    BY <1>1 DEF SeenAtBaseline
  <2>1. CASE q = p
    <3>1. lastSeen[holder'[q]] = NoValue
      BY <2>1, <1>1, <1>2 DEF OneHolder
    <3>2. <<q, holder'[q]>> \notin DOMAIN nextBase /\ <<q, holder'[q]>> \notin DOMAIN processBase
      BY <2>1, <1>2 DEF IsBaseline
    <3>3. ~BeingRead(q)'
      BY <2>1, <1>1, <1>2 DEF BeingRead
    <3> QED
      BY <3>1, <3>2, <3>3
  <2>2. CASE q # p
    BY <2>2, <1>1, <1>2 DEF SeenAtBaseline, BeingRead
  <2> QED
    BY <2>1, <2>2
<1>6. ReadOnce' /\ ComparedWithBefore' /\ SharesOfOneProcess'
  BY <1>1 DEF ReadOnce, ComparedWithBefore, SharesOfOneProcess
<1> QED
  BY <1>3, <1>4, <1>5, <1>6

LEMMA EndKeeps ==
  ASSUME SamplerInv, NEW p \in SampledPids, EndProcess(p)
  PROVE  SamplerInv'
<1> USE SamplerAssumption DEF SamplerInv, SamplerTypeOK
<1>1. /\ holder[p] # 0 /\ holder' = [holder EXCEPT ![p] = 0]
      /\ ticks' = [ticks EXCEPT ![holder[p]] = 0]
      /\ lastSeen' = [lastSeen EXCEPT ![holder[p]] = NoValue]
      /\ UNCHANGED <<starts, processBase, step, pending, current, nextBase, processRows>>
      /\ \A q \in SampledPids : holder[q] # 0 => holder[q] \in Started
  BY DEF EndProcess, Started
<1>2. SamplerTypeOK'
  BY <1>1 DEF IsBaseline
<1>3. OneHolder'
  BY <1>1 DEF OneHolder
<1>4. SeenAtBaseline'
  <2> SUFFICES ASSUME NEW q \in SampledPids, holder'[q] # 0
               PROVE  /\ holder'[q] = holder[q] /\ holder[q] # 0
                      /\ lastSeen'[holder[q]] = lastSeen[holder[q]]
                      /\ ticks'[holder[q]] = ticks[holder[q]]
    BY <1>1 DEF SeenAtBaseline, BeingRead
  <2>1. q # p
    BY <1>1
  <2>2. holder[q] # holder[p]
    BY <1>1, <2>1 DEF OneHolder
  <2> QED
    BY <1>1, <2>1, <2>2
<1>5. ReadOnce' /\ ComparedWithBefore' /\ SharesOfOneProcess'
  BY <1>1 DEF ReadOnce, ComparedWithBefore, SharesOfOneProcess
<1> QED
  BY <1>2, <1>3, <1>4, <1>5

LEMMA RunKeeps ==
  ASSUME SamplerInv, NEW p \in SampledPids, RunProcess(p)
  PROVE  SamplerInv'
<1> USE SamplerAssumption DEF SamplerInv, SamplerTypeOK
<1>1. /\ holder[p] \in Started
      /\ ticks' = [ticks EXCEPT ![holder[p]] = @ + 1]
      /\ UNCHANGED <<holder, starts, lastSeen, processBase, step, pending, current, nextBase,
                     processRows>>
  BY DEF RunProcess, Started
<1>2. ticks' \in [Started -> Nat] /\ \A n \in Started : ticks[n] <= ticks'[n]
  BY <1>1
<1>3. SamplerTypeOK' /\ OneHolder'
  BY <1>1, <1>2 DEF IsBaseline, OneHolder
<1>4. SeenAtBaseline'
  <2> SUFFICES ASSUME NEW q \in SampledPids, holder[q] # 0, lastSeen[holder[q]] # NoValue
               PROVE  lastSeen[holder[q]] <= ticks'[holder[q]]
    BY <1>1 DEF SeenAtBaseline, BeingRead
  <2>1. /\ holder[q] \in Started /\ lastSeen[holder[q]] \in Nat
        /\ ticks[holder[q]] \in Nat /\ ticks'[holder[q]] \in Nat
        /\ ticks[holder[q]] <= ticks'[holder[q]]
    BY <1>2 DEF Started
  <2>2. lastSeen[holder[q]] <= ticks[holder[q]]
    BY DEF SeenAtBaseline
  <2> QED
    BY <2>1, <2>2
<1>5. ReadOnce' /\ ComparedWithBefore' /\ SharesOfOneProcess'
  BY <1>1 DEF ReadOnce, ComparedWithBefore, SharesOfOneProcess
<1> QED
  BY <1>3, <1>4, <1>5

LEMMA ReadStatKeeps ==
  ASSUME SamplerInv, NEW p \in SampledPids, ReadStat(p)
  PROVE  SamplerInv'
<1> USE SamplerAssumption DEF SamplerInv, SamplerTypeOK
<1> DEFINE n == holder[p]
<1>1. /\ step = "read" /\ step' = "status" /\ p \in pending /\ n \in Started /\ n \in 1..starts
      /\ pending' = pending \ {p}
      /\ current' = [pid |-> p, process |-> n, ticks |-> ticks[n], before |-> lastSeen[n]]
      /\ lastSeen' = [lastSeen EXCEPT ![n] = ticks[n]]
      /\ UNCHANGED <<holder, starts, ticks, processBase, nextBase, processRows>>
  BY DEF ReadStat, Started, Stat
<1>2. <<p, n>> \notin DOMAIN nextBase
  BY <1>1 DEF ReadOnce
<1>3. SamplerTypeOK'
  BY <1>1 DEF IsBaseline
<1>4. OneHolder'
  BY <1>1 DEF OneHolder
<1>5. SeenAtBaseline'
  <2> SUFFICES ASSUME NEW q \in SampledPids, holder[q] # 0
               PROVE  /\ lastSeen'[holder[q]] # NoValue => lastSeen'[holder[q]] <= ticks[holder[q]]
                      /\ <<q, holder[q]>> \in DOMAIN nextBase
                           => lastSeen'[holder[q]] = nextBase[<<q, holder[q]>>]
                      /\ BeingRead(q)' => lastSeen'[holder[q]] = current'.ticks
                      /\ <<q, holder[q]>> \notin DOMAIN nextBase /\ ~BeingRead(q)'
                           /\ <<q, holder[q]>> \in DOMAIN processBase
                           => lastSeen'[holder[q]] = processBase[<<q, holder[q]>>]
    BY <1>1 DEF SeenAtBaseline
  <2>1. CASE q = p
    BY <2>1, <1>1, <1>2 DEF BeingRead
  <2>2. CASE q # p
    <3>1. holder[q] # n /\ holder[q] \in Started
      BY <2>2 DEF OneHolder, Started
    <3>2. ~BeingRead(q)' /\ ~BeingRead(q)
      BY <1>1, <2>2 DEF BeingRead
    <3> QED
      BY <1>1, <3>1, <3>2 DEF SeenAtBaseline
  <2> QED
    BY <2>1, <2>2
<1>6. ReadOnce' /\ SharesOfOneProcess'
  BY <1>1 DEF ReadOnce, SharesOfOneProcess
<1>7. ComparedWithBefore'
  <2>1. <<p, n>> \in DOMAIN processBase
          => lastSeen[n] = processBase[<<p, n>>] /\ lastSeen[n] <= ticks[n]
    BY <1>1, <1>2 DEF SeenAtBaseline, BeingRead, IsBaseline
  <2> QED
    BY <1>1, <2>1 DEF ComparedWithBefore
<1> QED
  BY <1>3, <1>4, <1>5, <1>6, <1>7

LEMMA SkipStatKeeps ==
  ASSUME SamplerInv, NEW p \in SampledPids, SkipStat(p)
  PROVE  SamplerInv'
<1> USE SamplerAssumption DEF SamplerInv, SamplerTypeOK
<1>1. /\ step = "read" /\ pending' = pending \ {p}
      /\ processRows' \in {processRows, processRows \cup {Inaccessible(p)}}
      /\ UNCHANGED <<holder, starts, ticks, lastSeen, processBase, step, current, nextBase>>
  BY DEF SkipStat
<1>2. SamplerTypeOK' /\ OneHolder'
  BY <1>1 DEF IsBaseline, OneHolder
<1>3. SeenAtBaseline' /\ ReadOnce' /\ ComparedWithBefore'
  BY <1>1 DEF SeenAtBaseline, BeingRead, ReadOnce, ComparedWithBefore
<1>4. SharesOfOneProcess'
  BY <1>1 DEF SharesOfOneProcess, Inaccessible
<1> QED
  BY <1>2, <1>3, <1>4

LEMMA ReadStatusKeeps ==
  ASSUME SamplerInv, ReadStatus
  PROVE  SamplerInv'
<1> USE SamplerAssumption DEF SamplerInv, SamplerTypeOK
<1> DEFINE id == <<current.pid, current.process>>
<1>1. /\ step = "status" /\ step' = "read"
      /\ current.pid \in SampledPids /\ current.process \in 1..starts /\ current.ticks \in Nat
      /\ UNCHANGED <<holder, starts, ticks, lastSeen, processBase, pending>>
  BY DEF ReadStatus
<1>2. /\ DOMAIN nextBase' = DOMAIN nextBase \cup {id}
      /\ nextBase'[id] = current.ticks
      /\ \A other \in DOMAIN nextBase : other # id => nextBase'[other] = nextBase[other]
  BY DEF ReadStatus
<1>3. SamplerTypeOK'
  BY <1>1, <1>2 DEF IsBaseline
<1>4. OneHolder' /\ ReadOnce' /\ ComparedWithBefore'
  BY <1>1, <1>2 DEF OneHolder, ReadOnce, ComparedWithBefore
<1>5. SeenAtBaseline'
  <2> SUFFICES ASSUME NEW q \in SampledPids, holder[q] # 0
               PROVE  /\ lastSeen[holder[q]] # NoValue => lastSeen[holder[q]] <= ticks[holder[q]]
                      /\ <<q, holder[q]>> \in DOMAIN nextBase'
                           => lastSeen[holder[q]] = nextBase'[<<q, holder[q]>>]
                      /\ <<q, holder[q]>> \notin DOMAIN nextBase'
                           /\ <<q, holder[q]>> \in DOMAIN processBase
                           => lastSeen[holder[q]] = processBase[<<q, holder[q]>>]
    BY <1>1 DEF SeenAtBaseline, BeingRead
  <2>1. CASE <<q, holder[q]>> = id
    BY <2>1, <1>1, <1>2 DEF SeenAtBaseline, BeingRead
  <2>2. CASE <<q, holder[q]>> # id
    BY <2>2, <1>1, <1>2 DEF SeenAtBaseline, BeingRead
  <2> QED
    BY <2>1, <2>2
<1>6. SharesOfOneProcess'
  <2> DEFINE base == BaselineFor(current)
             used == IF base = NoValue \/ totalDelta = NoValue THEN NoValue
                     ELSE IF current.ticks >= base THEN current.ticks - base ELSE 0
             truly == IF current.before = NoValue THEN NoValue ELSE current.ticks - current.before
             made == [pid |-> current.pid, process |-> current.process, used |-> used,
                      truly |-> truly, memoryOf |-> holder[current.pid]]
  <2>1. processRows' = processRows \cup {made} /\ made.used = used /\ made.truly = truly
    BY DEF ReadStatus
  <2>2. CASE id \in DOMAIN processBase
    <3>1. /\ BaselineFor(current) = current.before /\ current.before \in Nat
          /\ current.before <= current.ticks
      BY <1>1, <2>2 DEF BaselineFor, ComparedWithBefore, IsBaseline
    <3> QED
      BY <1>1, <2>1, <3>1 DEF SharesOfOneProcess
  <2>3. CASE id \notin DOMAIN processBase
    BY <2>1, <2>3 DEF BaselineFor, SharesOfOneProcess
  <2> QED
    BY <2>2, <2>3
<1> QED
  BY <1>3, <1>4, <1>5, <1>6

\* ReadTotal, ListProcesses, ListFails and PublishRows.
LEMMA SampleStepsKeep ==
  ASSUME SamplerInv, ReadTotal \/ ListProcesses \/ ListFails \/ PublishRows
  PROVE  SamplerInv'
<1> USE SamplerAssumption DEF SamplerInv, SamplerTypeOK
<1>1. CASE ReadTotal \/ ListProcesses \/ ListFails
  <2>1. /\ step \in {"idle", "list"} /\ step' \in {"idle", "list", "read"}
        /\ step' # "read" => pending' = pending
        /\ pending' \subseteq SampledPids
        /\ UNCHANGED <<holder, starts, ticks, lastSeen, processBase, current, nextBase, processRows>>
    BY <1>1 DEF ReadTotal, ListProcesses, ListFails, Listed
  <2>2. SamplerTypeOK' /\ OneHolder' /\ SeenAtBaseline'
    BY <2>1 DEF IsBaseline, OneHolder, SeenAtBaseline, BeingRead
  <2>3. ReadOnce' /\ ComparedWithBefore' /\ SharesOfOneProcess'
    BY <2>1 DEF ReadOnce, ComparedWithBefore, SharesOfOneProcess
  <2> QED
    BY <2>2, <2>3
<1>2. CASE PublishRows
  <2>1. /\ step = "read" /\ step' = "idle" /\ pending = {} /\ pending' = {}
        /\ processBase' = nextBase /\ DOMAIN nextBase' = {} /\ processRows' = {}
        /\ UNCHANGED <<holder, starts, ticks, lastSeen, current>>
    BY <1>2 DEF PublishRows
  <2>2. SamplerTypeOK' /\ OneHolder' /\ SeenAtBaseline'
    BY <2>1 DEF IsBaseline, OneHolder, SeenAtBaseline, BeingRead
  <2>3. ReadOnce' /\ ComparedWithBefore' /\ SharesOfOneProcess'
    BY <2>1 DEF ReadOnce, ComparedWithBefore, SharesOfOneProcess
  <2> QED
    BY <2>2, <2>3
<1> QED
  BY <1>1, <1>2

\* Whatever PIDs are used again and whatever samples fail, a share on the
\* Processes page is computed from two readings of one process.
THEOREM SharesAreOfOneProcess == ProcessSpec => []SharesOfOneProcess
<1>1. SamplerInv /\ [ProcessNext]_processVars => SamplerInv'
  <2> SUFFICES ASSUME SamplerInv, [ProcessNext]_processVars PROVE SamplerInv'
    OBVIOUS
  <2>1. CASE UNCHANGED processVars
    BY <2>1 DEF processVars, SamplerInv, SamplerTypeOK, OneHolder, SeenAtBaseline, ReadOnce,
                ComparedWithBefore, SharesOfOneProcess, IsBaseline, BeingRead
  <2>2. CASE ProcessNext
    BY <2>2, StartKeeps, EndKeeps, RunKeeps, ReadStatKeeps, SkipStatKeeps, ReadStatusKeeps,
       SampleStepsKeep DEF ProcessNext
  <2> QED
    BY <2>1, <2>2
<1>2. SamplerInv => SharesOfOneProcess
  BY DEF SamplerInv
<1> QED
  BY <1>1, <1>2, SamplerInit, PTL DEF ProcessSpec

-----------------------------------------------------------------------------
(* LinuxGpu: the graphs of the cards.                                      *)

\* A history takes one value at most, and never has more than its capacity.
LEMMA PushFits ==
  ASSUME NEW S, NEW values \in Seq(S), NEW value \in S, NEW capacity \in Nat,
         Len(values) <= capacity
  PROVE  /\ Push(values, capacity, value) \in Seq(S)
         /\ Len(Push(values, capacity, value)) <= capacity
         /\ Len(Push(values, capacity, value)) <= Len(values) + 1
<1>1. Len(values) \in Nat
  BY LenProperties
<1>2. CASE capacity = 0 \/ value = NotFinite
  BY <1>1, <1>2 DEF Push
<1>3. CASE capacity # 0 /\ value # NotFinite /\ Len(values) = capacity
  <2>1. values # <<>>
    BY <1>3
  <2>2. Tail(values) \in Seq(S) /\ Len(Tail(values)) = Len(values) - 1
    BY <2>1, HeadTailProperties
  <2>3. Append(Tail(values), value) \in Seq(S) /\ Len(Append(Tail(values), value)) = Len(values)
    BY <1>1, <2>2, AppendProperties
  <2> QED
    BY <1>1, <1>3, <2>3 DEF Push
<1>4. CASE capacity # 0 /\ value # NotFinite /\ Len(values) # capacity
  <2>1. Append(values, value) \in Seq(S) /\ Len(Append(values, value)) = Len(values) + 1
    BY AppendProperties
  <2> QED
    BY <1>1, <1>4, <2>1 DEF Push
<1> QED
  BY <1>2, <1>3, <1>4

GraphsTyped ==
  /\ lived \in [Cards -> [Engines -> 0..GraphLength]]
  /\ DOMAIN graphs \subseteq Cards
  /\ \A c \in DOMAIN graphs : \A e \in DOMAIN graphs[c] :
       graphs[c][e] \in Seq({"value"}) /\ Len(graphs[c][e]) <= GraphLength

GraphsInv == GraphsTyped /\ GraphsStartAnew

\* The graph of an engine that is not kept is a new one.
LEMMA GraphOfFits ==
  ASSUME GraphsInv, NEW c \in Cards, NEW e
  PROVE  /\ GraphOf(c, e) \in Seq({"value"}) /\ Len(GraphOf(c, e)) <= GraphLength
         /\ e \in Engines => Len(GraphOf(c, e)) <= lived[c][e]
<1> USE GraphAssumption
<1>1. CASE c \in DOMAIN graphs /\ e \in DOMAIN graphs[c]
  BY <1>1 DEF GraphsInv, GraphsTyped, GraphsStartAnew, GraphOf
<1>2. CASE ~(c \in DOMAIN graphs /\ e \in DOMAIN graphs[c])
  <2>1. GraphOf(c, e) = <<>> /\ <<>> \in Seq({"value"}) /\ Len(<<>>) = 0
    BY <1>2, EmptySeq DEF GraphOf
  <2>2. e \in Engines => lived[c][e] \in 0..GraphLength
    BY DEF GraphsInv, GraphsTyped
  <2> QED
    BY <2>1, <2>2
<1> QED
  BY <1>1, <1>2

LEMMA SampleGpuKeeps ==
  ASSUME GraphsInv, NEW inserted \in SUBSET Cards, NEW reading \in [inserted -> CardReadings],
         SampleGpu(inserted, reading)
  PROVE  GraphsInv'
<1> USE GraphAssumption
<1>1. /\ DOMAIN graphs' = inserted
      /\ \A c \in inserted : graphs'[c] = Extended(c, reading[c])
      /\ lived' = [c \in Cards |-> [e \in Engines |->
                IF c \notin inserted THEN 0
                ELSE IF e \notin EnginesOf(reading[c]) THEN 0
                ELSE IF lived[c][e] = GraphLength THEN GraphLength ELSE lived[c][e] + 1]]
  BY DEF SampleGpu, Retained
<1>2. lived \in [Cards -> [Engines -> 0..GraphLength]]
  BY DEF GraphsInv, GraphsTyped
<1>3. lived' \in [Cards -> [Engines -> 0..GraphLength]]
  <2> SUFFICES ASSUME NEW c \in Cards, NEW e \in Engines
               PROVE  (IF c \notin inserted THEN 0
                       ELSE IF e \notin EnginesOf(reading[c]) THEN 0
                       ELSE IF lived[c][e] = GraphLength THEN GraphLength ELSE lived[c][e] + 1)
                        \in 0..GraphLength
    BY <1>1
  <2>1. lived[c][e] \in 0..GraphLength
    BY <1>2
  <2> QED
    BY <2>1
<1>4. ASSUME NEW c \in inserted, NEW e \in DOMAIN graphs'[c]
      PROVE  /\ graphs'[c][e] \in Seq({"value"}) /\ Len(graphs'[c][e]) <= GraphLength
             /\ e \in Engines => Len(graphs'[c][e]) <= lived'[c][e]
  <2>1. e \in EnginesOf(reading[c]) \cup CardMemories /\ c \in Cards
    BY <1>1, <1>4 DEF Extended
  <2>2. graphs'[c][e] \in {GraphOf(c, e), Push(GraphOf(c, e), GraphLength, "value")}
    <3>1. graphs'[c] = Extended(c, reading[c])
      BY <1>1
    <3>2. Extended(c, reading[c])[e] = IF e \in ValuesOf(reading[c])
                                       THEN Push(GraphOf(c, e), GraphLength, "value") ELSE GraphOf(c, e)
      BY <2>1 DEF Extended
    <3> QED
      BY <3>1, <3>2
  <2>3. /\ GraphOf(c, e) \in Seq({"value"}) /\ Len(GraphOf(c, e)) <= GraphLength
        /\ e \in Engines => Len(GraphOf(c, e)) <= lived[c][e]
    BY <2>1, GraphOfFits
  <2>4. Len(GraphOf(c, e)) \in Nat
    BY <2>3, LenProperties
  <2>5. /\ graphs'[c][e] \in Seq({"value"}) /\ Len(graphs'[c][e]) <= GraphLength
        /\ Len(graphs'[c][e]) <= Len(GraphOf(c, e)) + 1
    <3>1. "value" \in {"value"}
      OBVIOUS
    <3>2. /\ Push(GraphOf(c, e), GraphLength, "value") \in Seq({"value"})
          /\ Len(Push(GraphOf(c, e), GraphLength, "value")) <= GraphLength
          /\ Len(Push(GraphOf(c, e), GraphLength, "value")) <= Len(GraphOf(c, e)) + 1
      BY <2>3, <3>1, PushFits
    <3> QED
      BY <2>2, <2>3, <2>4, <3>2
  <2>6. ASSUME e \in Engines PROVE Len(graphs'[c][e]) <= lived'[c][e]
    <3>1. e \in EnginesOf(reading[c])
      BY <2>1, <2>6 DEF Engines, CardMemories, NvidiaEngines
    <3>2. lived'[c][e] = IF lived[c][e] = GraphLength THEN GraphLength ELSE lived[c][e] + 1
      BY <1>1, <2>1, <2>6, <3>1
    <3>3. lived[c][e] \in 0..GraphLength /\ Len(graphs'[c][e]) \in Nat
      BY <1>2, <2>1, <2>5, <2>6, LenProperties
    <3> QED
      BY <2>3, <2>4, <2>5, <2>6, <3>2, <3>3
  <2> QED
    BY <2>5, <2>6
<1> QED
  BY <1>1, <1>3, <1>4 DEF GraphsInv, GraphsTyped, GraphsStartAnew

\* Whatever the cards, engines and libraries that come and go, no graph shows
\* values from before its card or its engine came back.
THEOREM GraphsAreNew == GpuSpec => []GraphsStartAnew
<1>1. GpuInit => GraphsInv
  <2> SUFFICES ASSUME GpuInit PROVE GraphsInv
    OBVIOUS
  <2>1. DOMAIN graphs = {} /\ lived = [c \in Cards |-> [e \in Engines |-> 0]]
    BY DEF GpuInit
  <2> QED
    BY <2>1, GraphAssumption DEF GraphsInv, GraphsTyped, GraphsStartAnew
<1>2. GraphsInv /\ [GpuNext]_gpuVars => GraphsInv'
  <2>1. GraphsInv /\ UNCHANGED gpuVars => GraphsInv'
    BY DEF gpuVars, GraphsInv, GraphsTyped, GraphsStartAnew
  <2> QED
    BY <2>1, SampleGpuKeeps DEF GpuNext
<1>3. GraphsInv => GraphsStartAnew
  BY DEF GraphsInv
<1> QED
  BY <1>1, <1>2, <1>3, PTL DEF GpuSpec

-----------------------------------------------------------------------------
(* IconImages: no image is too large, too small, too wide or too high to be *)
(* drawn.                                                                   *)

\* A scaled side is at least one pixel and no longer than the edge.
LEMMA ScaledFits ==
  ASSUME NEW side \in Positive, NEW longer \in Positive, NEW edge \in Positive, side <= longer
  PROVE  Scaled(side, longer, edge) \in 1..edge
<1> DEFINE size == (side * edge) \div longer
<1>1. side * edge \in Nat /\ side * edge <= longer * edge
  BY SMT DEF Positive
<1>2. size \in Nat /\ longer * size <= side * edge
  BY <1>1, SMT DEF Positive
<1>3. size <= edge
  <2>1. longer * size <= longer * edge
    BY <1>1, <1>2, SMT DEF Positive
  <2> QED
    BY <2>1, <1>2, SMT DEF Positive
<1> QED
  BY <1>2, <1>3 DEF Scaled, Positive

\* Both sides of the drawing fit.
LEMMA SidesFit ==
  ASSUME NEW width \in Positive, NEW height \in Positive, NEW edge \in Positive
  PROVE  /\ ScaledWidth(width, height, edge) \in 1..edge
         /\ ScaledHeight(width, height, edge) \in 1..edge
<1>1. edge \in 1..edge
  BY DEF Positive
<1>2. CASE width >= height
  BY <1>1, <1>2, ScaledFits DEF ScaledWidth, ScaledHeight, Positive
<1>3. CASE height > width
  BY <1>1, <1>3, ScaledFits DEF ScaledWidth, ScaledHeight, Positive
<1> QED
  BY <1>2, <1>3 DEF Positive

\* Every row and column that is shown exists.
LEMMA ShownExists ==
  ASSUME NEW given \in Positive, NEW scaled \in Positive, NEW at \in 0..(scaled - 1)
  PROVE  Shown(at, given, scaled) \in 0..(given - 1)
<1> DEFINE shown == (at * given) \div scaled
<1>1. at * given \in Nat /\ at * given < scaled * given
  BY SMT DEF Positive
<1>2. shown \in Nat /\ scaled * shown <= at * given
  BY <1>1, SMT DEF Positive
<1>3. scaled * shown < scaled * given
  BY <1>1, <1>2, SMT DEF Positive
<1>4. shown < given
  BY <1>2, <1>3, SMT DEF Positive
<1> QED
  BY <1>2, <1>4 DEF Shown, Positive

\* A row below the height and a column below the width are an index below the
\* area.
LEMMA IndexFits ==
  ASSUME NEW rows \in Positive, NEW columns \in Positive,
         NEW r \in 0..(rows - 1), NEW c \in 0..(columns - 1)
  PROVE  r * columns + c < rows * columns
<1>1. (r + 1) * columns <= rows * columns
  BY SMT DEF Positive
<1>2. (r + 1) * columns = r * columns + columns
  BY SMT DEF Positive
<1> QED
  BY <1>1, <1>2, SMT DEF Positive

\* A drawing with its margin stays within the edge.
LEMMA MarginFits ==
  ASSUME NEW edge \in Positive, NEW scaled \in 1..edge, NEW at \in 0..(scaled - 1)
  PROVE  at + Margin(edge, scaled) \in 0..(edge - 1)
<1>1. Margin(edge, scaled) \in Nat /\ 2 * Margin(edge, scaled) <= edge - scaled
  BY SMT DEF Margin, Positive
<1> QED
  BY <1>1, SMT DEF Positive

\* An image whose pixels are all there is drawn, whatever its size, its
\* proportions and the edge of the icon: no index is out of range, so that
\* resize_argb_to_rgba and resize_and_encode never give up half way.
THEOREM EveryImageIsDrawn ==
  ASSUME NEW width \in Positive, NEW height \in Positive, NEW edge \in Positive
  PROVE  Drawn(width, height, width * height, edge)
<1> DEFINE sw == ScaledWidth(width, height, edge)
           sh == ScaledHeight(width, height, edge)
<1>1. sw \in 1..edge /\ sh \in 1..edge
  BY SidesFit
<1>2. ASSUME NEW x \in 0..(sw - 1), NEW y \in 0..(sh - 1)
      PROVE  SourceIndex(x, y, width, height, edge) < width * height
  <2> DEFINE r == Shown(y, height, sh)
             c == Shown(x, width, sw)
  <2>1. sw \in Positive /\ sh \in Positive
    BY <1>1 DEF Positive
  <2> HIDE DEF sw, sh
  <2>2. r \in 0..(height - 1) /\ c \in 0..(width - 1)
    BY <2>1, <1>2, ShownExists
  <2> HIDE DEF r, c
  <2>3. r * width + c < height * width
    BY <2>2, IndexFits
  <2>4. height * width = width * height
    BY SMT DEF Positive
  <2> QED
    BY <2>3, <2>4 DEF SourceIndex, r, c, sw, sh
<1>3. ASSUME NEW x \in 0..(sw - 1), NEW y \in 0..(sh - 1)
      PROVE  TargetIndex(x, y, width, height, edge) < edge * edge
  <2> DEFINE r == y + Margin(edge, sh)
             c == x + Margin(edge, sw)
  <2> HIDE DEF sw, sh
  <2>1. r \in 0..(edge - 1) /\ c \in 0..(edge - 1)
    BY <1>1, <1>3, MarginFits
  <2>2. r * edge + c < edge * edge
    BY <2>1, IndexFits
  <2>3. Margin(edge, sw) \in Int /\ Margin(edge, sh) \in Int
    BY <1>1, SMT DEF Margin, Positive
  <2>4. r * edge \in Int
    BY <2>1, SMT DEF Positive
  <2> QED
    BY <2>2, <2>3, <2>4, <1>3, <1>1 DEF TargetIndex, sw, sh, Positive
<1> QED
  BY <1>2, <1>3 DEF Drawn, Positive

-----------------------------------------------------------------------------
(* WindowsProcesses: rows of one process.                                  *)

\* Creation times that have been given.
Given == 1..creations

IdentitiesGiven == WindowsPids \X Given

WindowsTyped ==
  /\ creations \in 0..MaxCreations
  /\ running \in [WindowsPids -> Given \cup {Absent}]
  /\ kernel \in [WindowsPids -> Given \cup {Absent}]
  /\ waiting \subseteq WindowsPids
  /\ DOMAIN previous \subseteq IdentitiesGiven
  /\ DOMAIN collected \subseteq IdentitiesGiven
  /\ DOMAIN static \subseteq IdentitiesGiven

\* A sample has made a row; before that nothing is collected.
Sampled == "figures" \in DOMAIN row

CollectedOK == ~Sampled => DOMAIN collected = {}

\* The process of an identity has ended; it never comes back.
Gone(i) == running[i[1]] # i[2]

\* What a sample found out when the handle did not tell who it belongs to may be
\* of another process than the identity it is stored under, but then that
\* process has ended: no later row carries the identity.
FiguresOK(f) ==
  \A i \in DOMAIN f :
    OnlyOf(f[i].cpu, i) /\ (OnlyOf(f[i].memory, i) \/ Gone(i))

PathsOK ==
  \A i \in DOMAIN static :
    \/ OnlyOf(static[i], i)
    \/ Gone(i) /\ (kernel[i[1]] = i[2] => i[1] \notin waiting /\ Sampled)

PreviousOK ==
  \A i \in DOMAIN previous : OnlyOf(previous[i].memory, i) \/ kernel[i[1]] # i[2]

WindowsRowsInv ==
  /\ WindowsTyped
  /\ CollectedOK
  /\ FiguresOK(previous)
  /\ FiguresOK(collected)
  /\ PreviousOK
  /\ PathsOK
  /\ WindowsRowsOfOneProcess

LEMMA WindowsRowsInit == WindowsProcessInit => WindowsRowsInv
<1> SUFFICES ASSUME WindowsProcessInit PROVE WindowsRowsInv
  OBVIOUS
<1>1. DOMAIN previous = {} /\ DOMAIN collected = {} /\ DOMAIN static = {} /\ ~Sampled
  BY DEF WindowsProcessInit, NoRow, Sampled
<1>2. WindowsTyped
  BY <1>1, CreationAssumption DEF WindowsProcessInit, WindowsTyped
<1> QED
  BY <1>1, <1>2 DEF WindowsRowsInv, CollectedOK, FiguresOK, PreviousOK, PathsOK,
    WindowsRowsOfOneProcess, Sampled

\* A process that is created has a creation time of its own, so that what has
\* ended stays ended.
LEMMA SystemKeeps ==
  ASSUME WindowsRowsInv, NEW p \in WindowsPids, CreateProcess(p) \/ ProcessEnds(p)
  PROVE  WindowsRowsInv'
<1> USE CreationAssumption DEF WindowsRowsInv
<1>1. /\ creations' \in 0..MaxCreations /\ creations <= creations' /\ creations \in Nat
      /\ running' \in [WindowsPids -> Given' \cup {Absent}]
      /\ UNCHANGED <<kernel, waiting, previous, collected, static, row>>
  BY DEF CreateProcess, ProcessEnds, Sampling, Sources, WindowsTyped, Given
<1>2. WindowsTyped'
  BY <1>1 DEF WindowsTyped, Given, IdentitiesGiven
<1>3. ASSUME NEW i \in IdentitiesGiven, Gone(i) PROVE Gone(i)'
  <2>1. i[1] \in WindowsPids /\ i[2] \in Given
    BY DEF IdentitiesGiven
  <2>2. running'[i[1]] \in {running[i[1]], Absent, creations + 1}
    BY <2>1 DEF CreateProcess, ProcessEnds, WindowsTyped
  <2>3. i[2] # Absent /\ i[2] # creations + 1
    BY <1>1, <2>1 DEF Given, WindowsTyped
  <2> QED
    BY <1>3, <2>2, <2>3 DEF Gone
<1>4. FiguresOK(previous)' /\ FiguresOK(collected)'
  BY <1>1, <1>3 DEF FiguresOK, WindowsTyped
<1>5. PathsOK'
  BY <1>1, <1>3 DEF PathsOK, WindowsTyped, Sampled
<1>6. CollectedOK' /\ PreviousOK' /\ WindowsRowsOfOneProcess'
  BY <1>1 DEF CollectedOK, PreviousOK, WindowsRowsOfOneProcess, Sampled
<1> QED
  BY <1>2, <1>4, <1>5, <1>6

LEMMA QuerySystemKeeps ==
  ASSUME WindowsRowsInv, QuerySystem
  PROVE  WindowsRowsInv'
<1> USE CreationAssumption DEF WindowsRowsInv
<1>1. /\ waiting = {} /\ ~Sampled /\ ~Sampled'
      /\ kernel' = running \/ kernel' = [p \in WindowsPids |-> Absent]
      /\ UNCHANGED <<creations, running, waiting, previous, collected, static>>
  BY DEF QuerySystem, Sources, NoRow, Sampled
<1>2. WindowsTyped'
  BY <1>1 DEF WindowsTyped, Given, IdentitiesGiven
<1>3. ASSUME NEW i \in IdentitiesGiven, Gone(i) PROVE kernel'[i[1]] # i[2]
  BY <1>1, <1>3 DEF Gone, IdentitiesGiven, Given, WindowsTyped
<1>4. FiguresOK(previous)' /\ FiguresOK(collected)'
  BY <1>1 DEF FiguresOK, Gone
<1>5. PreviousOK'
  <2> SUFFICES ASSUME NEW i \in DOMAIN previous, ~OnlyOf(previous[i].memory, i)
               PROVE  kernel'[i[1]] # i[2]
    BY <1>1 DEF PreviousOK
  <2> QED
    BY <1>3 DEF FiguresOK, WindowsTyped
<1>6. PathsOK'
  <2> SUFFICES ASSUME NEW i \in DOMAIN static, ~OnlyOf(static[i], i)
               PROVE  Gone(i) /\ kernel'[i[1]] # i[2]
    BY <1>1 DEF PathsOK, Gone
  <2> QED
    BY <1>3 DEF PathsOK, WindowsTyped
<1>7. CollectedOK' /\ WindowsRowsOfOneProcess'
  BY <1>1 DEF CollectedOK, WindowsRowsOfOneProcess, Sampled
<1> QED
  BY <1>2, <1>4, <1>5, <1>6, <1>7

LEMMA EnumerateKeeps ==
  ASSUME WindowsRowsInv, EnumerateProcesses
  PROVE  WindowsRowsInv'
<1> USE CreationAssumption DEF WindowsRowsInv
<1>1. /\ ~Sampled /\ ~Sampled'
      /\ kernel' = kernel \/ kernel' = [p \in WindowsPids |-> Absent]
      /\ waiting' \subseteq WindowsPids
      /\ UNCHANGED <<creations, running, previous, collected, static>>
  BY DEF EnumerateProcesses, Sources, NoRow, Sampled
<1>2. WindowsTyped'
  BY <1>1 DEF WindowsTyped, Given, IdentitiesGiven
<1>3. ASSUME NEW i \in IdentitiesGiven, kernel[i[1]] # i[2] PROVE kernel'[i[1]] # i[2]
  BY <1>1, <1>3 DEF IdentitiesGiven, Given, WindowsTyped
<1>4. FiguresOK(previous)' /\ FiguresOK(collected)'
  BY <1>1 DEF FiguresOK, Gone
<1>5. PreviousOK'
  BY <1>1, <1>3 DEF PreviousOK, WindowsTyped
<1>6. PathsOK'
  <2> SUFFICES ASSUME NEW i \in DOMAIN static, ~OnlyOf(static[i], i)
               PROVE  Gone(i) /\ kernel'[i[1]] # i[2]
    BY <1>1 DEF PathsOK, Gone
  <2> QED
    BY <1>1, <1>3 DEF PathsOK, WindowsTyped
<1>7. CollectedOK' /\ WindowsRowsOfOneProcess'
  BY <1>1 DEF CollectedOK, WindowsRowsOfOneProcess, Sampled
<1> QED
  BY <1>2, <1>4, <1>5, <1>6, <1>7

\* A row that knows its identity.  Only a row whose handle did not tell who it
\* belongs to can have what is of another process, and then the process the
\* kernel reported has ended.
LEMMA RowIsSound ==
  ASSUME WindowsRowsInv, NEW p \in waiting, NEW t \in BOOLEAN, NEW m \in BOOLEAN, NEW s \in BOOLEAN,
         NEW h \in {Absent} \cup ({<<p, running[p]>>} \cap Identities),
         h = Absent => ~t /\ ~m /\ ~s,
         NEW new, new = RowFrom(p, h, t, m, s), NEW i, i = new.identity, i # Absent
  PROVE  /\ i \in IdentitiesGiven /\ i[1] = p
         /\ OnlyOf(new.figures.cpu, i)
         /\ OnlyOf(new.figures.memory, i) \/ (new.failed /\ Gone(i))
         /\ OnlyOf(new.path, i) \/ (new.failed /\ Gone(i))
         /\ new.since # Absent => OnlyOf(new.since.cpu, i) /\ OnlyOf(new.since.memory, i)
<1> USE CreationAssumption DEF WindowsRowsInv
<1> DEFINE start == IF t THEN h[2] ELSE kernel[p]
           metrics == MetricsFor(p, start)
<1>1. /\ new.identity = IF start = Absent THEN Absent ELSE <<p, start>>
      /\ new.failed = (h # Absent /\ ~t)
      /\ new.figures.cpu = IF t THEN h ELSE metrics
      /\ new.figures.memory = IF m THEN h ELSE metrics
  BY DEF RowFrom
<1>2. /\ new.since = Kept(previous, i)
      /\ new.path = First(Kept(static, i), IF s THEN h ELSE Absent)
  BY DEF RowFrom
<1>3. p \in WindowsPids /\ start # Absent /\ i = <<p, start>> /\ i[1] = p /\ i[2] = start
  BY <1>1 DEF WindowsTyped
<1>4. t => h # Absent
  OBVIOUS
<1>5. h # Absent => h = <<p, running[p]>> /\ running[p] \in Given
  BY <1>3 DEF Identities, WindowsTyped
<1>6. start \in Given
  BY <1>3, <1>4, <1>5 DEF WindowsTyped
<1>7. i \in IdentitiesGiven
  BY <1>3, <1>6 DEF IdentitiesGiven
<1>8. metrics \in {Absent, i}
  BY <1>3 DEF MetricsFor
<1>9. t => h = i /\ ~Gone(i)
  BY <1>3, <1>4, <1>5 DEF Gone
<1>10. h # Absent /\ h # i => Gone(i) /\ ~t
  BY <1>3, <1>5, <1>9 DEF Gone
<1>11. OnlyOf(new.figures.cpu, i)
  BY <1>1, <1>8, <1>9 DEF OnlyOf
<1>12. OnlyOf(new.figures.memory, i) \/ (new.failed /\ Gone(i))
  BY <1>1, <1>8, <1>10 DEF OnlyOf
<1>13. Gone(i) => kernel[p] = i[2]
  BY <1>3, <1>9
<1>14. OnlyOf(Kept(static, i), i)
  BY <1>3, <1>13 DEF Kept, OnlyOf, PathsOK
<1>15. OnlyOf(new.path, i) \/ (new.failed /\ Gone(i))
  BY <1>1, <1>2, <1>10, <1>14 DEF First, OnlyOf
<1>16. ASSUME new.since # Absent PROVE OnlyOf(new.since.cpu, i) /\ OnlyOf(new.since.memory, i)
  <2>1. i \in DOMAIN previous /\ new.since = previous[i]
    BY <1>2, <1>16 DEF Kept
  <2>2. OnlyOf(previous[i].cpu, i)
    BY <2>1 DEF FiguresOK
  <2>3. OnlyOf(previous[i].memory, i)
    BY <1>3, <1>13, <2>1 DEF FiguresOK, PreviousOK
  <2> QED
    BY <2>1, <2>2, <2>3
<1> QED
  BY <1>3, <1>7, <1>11, <1>12, <1>15, <1>16

LEMMA SampleProcessKeeps ==
  ASSUME WindowsRowsInv, NEW p \in WindowsPids, SampleProcess(p)
  PROVE  WindowsRowsInv'
<1> USE CreationAssumption DEF WindowsRowsInv
<1>1. PICK h \in {Absent} \cup ({<<p, running[p]>>} \cap Identities), t \in BOOLEAN, m \in BOOLEAN, s \in BOOLEAN :
        (h = Absent => ~t /\ ~m /\ ~s) /\ row' = RowFrom(p, h, t, m, s)
  BY DEF SampleProcess
<1> DEFINE i == row'.identity
<1>2. /\ p \in waiting /\ waiting' = waiting \ {p}
      /\ collected' = IF i = Absent THEN collected ELSE Put(collected, i, row'.figures)
      /\ static' = IF i = Absent THEN static ELSE Put(static, i, row'.path)
      /\ UNCHANGED <<creations, running, kernel, previous>>
  BY DEF SampleProcess, Sources
<1>3. Sampled'
  BY <1>1 DEF Sampled, RowFrom
<1>4. ASSUME i # Absent
      PROVE  /\ i \in IdentitiesGiven /\ i[1] = p
             /\ OnlyOf(row'.figures.cpu, i)
             /\ OnlyOf(row'.figures.memory, i) \/ (row'.failed /\ Gone(i))
             /\ OnlyOf(row'.path, i) \/ (row'.failed /\ Gone(i))
             /\ row'.since # Absent => OnlyOf(row'.since.cpu, i) /\ OnlyOf(row'.since.memory, i)
  BY <1>1, <1>2, <1>4, RowIsSound
<1> HIDE DEF i
<1>5. /\ DOMAIN collected' \subseteq IdentitiesGiven
      /\ DOMAIN static' \subseteq IdentitiesGiven
  BY <1>2, <1>4 DEF Put, WindowsTyped
<1>6. WindowsTyped'
  BY <1>2, <1>5 DEF WindowsTyped, Given, IdentitiesGiven
<1>7. FiguresOK(collected)'
  <2> SUFFICES ASSUME NEW j \in DOMAIN collected'
               PROVE  OnlyOf(collected'[j].cpu, j) /\ (OnlyOf(collected'[j].memory, j) \/ Gone(j))
    BY <1>2 DEF FiguresOK, Gone
  <2>1. CASE i # Absent /\ j = i
    BY <1>2, <1>4, <2>1 DEF Put
  <2>2. CASE ~(i # Absent /\ j = i)
    <3>1. j \in DOMAIN collected /\ collected'[j] = collected[j]
      BY <1>2, <2>2 DEF Put
    <3> QED
      BY <3>1 DEF FiguresOK
  <2> QED
    BY <2>1, <2>2
<1>8. PathsOK'
  <2> SUFFICES ASSUME NEW j \in DOMAIN static'
               PROVE  \/ OnlyOf(static'[j], j)
                      \/ Gone(j) /\ (kernel[j[1]] = j[2] => j[1] \notin waiting')
    BY <1>2, <1>3 DEF PathsOK, Gone
  <2>1. CASE i # Absent /\ j = i
    BY <1>2, <1>4, <2>1 DEF Put
  <2>2. CASE ~(i # Absent /\ j = i)
    <3>1. j \in DOMAIN static /\ static'[j] = static[j]
      BY <1>2, <2>2 DEF Put
    <3> QED
      BY <1>2, <3>1 DEF PathsOK
  <2> QED
    BY <2>1, <2>2
<1>9. FiguresOK(previous)' /\ PreviousOK'
  BY <1>2 DEF FiguresOK, PreviousOK, Gone
<1>10. CollectedOK'
  BY <1>3 DEF CollectedOK
<1>11. WindowsRowsOfOneProcess'
  BY <1>4 DEF WindowsRowsOfOneProcess, i
<1> QED
  BY <1>6, <1>7, <1>8, <1>9, <1>10, <1>11

LEMMA PublishKeeps ==
  ASSUME WindowsRowsInv, PublishProcesses
  PROVE  WindowsRowsInv'
<1> USE CreationAssumption DEF WindowsRowsInv
<1>1. /\ waiting' = {} /\ previous' = collected /\ DOMAIN collected' = {} /\ ~Sampled'
      /\ DOMAIN static' \subseteq DOMAIN static /\ \A i \in DOMAIN static' : static'[i] = static[i]
      /\ kernel' = [p \in WindowsPids |-> Absent]
      /\ UNCHANGED <<creations, running>>
  BY DEF PublishProcesses, Sources, NoRow, Sampled
<1>2. WindowsTyped'
  BY <1>1 DEF WindowsTyped, Given, IdentitiesGiven
<1>3. ASSUME NEW i \in IdentitiesGiven PROVE kernel'[i[1]] # i[2]
  BY <1>1 DEF IdentitiesGiven, Given, WindowsTyped
<1>4. FiguresOK(previous)' /\ FiguresOK(collected)'
  BY <1>1 DEF FiguresOK, Gone
<1>5. PreviousOK'
  BY <1>1, <1>3 DEF PreviousOK, WindowsTyped
<1>6. PathsOK'
  BY <1>1, <1>3 DEF PathsOK, Gone, WindowsTyped
<1>7. CollectedOK' /\ WindowsRowsOfOneProcess'
  BY <1>1 DEF CollectedOK, WindowsRowsOfOneProcess, Sampled
<1> QED
  BY <1>2, <1>4, <1>5, <1>6, <1>7

\* However PIDs are used again, no row of the Processes page on Windows that
\* knows its process shows what is of another one.
THEOREM WindowsRowsAreOfOneProcess == WindowsProcessSpec => []WindowsRowsOfOneProcess
<1>1. WindowsRowsInv /\ [WindowsProcessNext]_windowsProcessVars => WindowsRowsInv'
  <2>1. WindowsRowsInv /\ UNCHANGED windowsProcessVars => WindowsRowsInv'
    BY DEF windowsProcessVars, WindowsRowsInv, WindowsTyped, Given, IdentitiesGiven, Sampled,
      CollectedOK, Gone, FiguresOK, PreviousOK, PathsOK, WindowsRowsOfOneProcess
  <2> QED
    BY <2>1, SystemKeeps, QuerySystemKeeps, EnumerateKeeps, SampleProcessKeeps, PublishKeeps
       DEF WindowsProcessNext
<1>2. WindowsRowsInv => WindowsRowsOfOneProcess
  BY DEF WindowsRowsInv
<1> QED
  BY <1>1, <1>2, WindowsRowsInit, PTL DEF WindowsProcessSpec

-----------------------------------------------------------------------------
(* WindowProvider: only the trusted program is answered.  The second lookup  *)
(* and the second start time enclose the second inspection: a process that   *)
(* has the PID at both is the caller.                                        *)

UnderWay(c) == call[c].step \notin {"none", "answered"}

CallShape ==
  [step : {"none", "pid", "found", "start", "pid again", "found again", "start again", "answered"},
   method : Methods, caller : Nat, pid : CallerPids \cup {0}, provider : Nat, before : Nat,
   answer : {"none", "busy", "denied", "failed", "version", "windows"}]

ProviderTyped ==
  /\ callersBorn \in Nat
  /\ runs \in [CallerPids -> 0..callersBorn]
  /\ enabledTimes \in Nat
  /\ provider \in 0..enabledTimes
  /\ enabledTimes <= MaxProviders
  /\ authorizing \in [Providers -> SUBSET Calls]
  /\ call \in [Calls -> CallShape]

\* A process that once had the PID of a call does not get it back, and the one
\* whose start time was read, if it still has the PID, is the caller.
CallerKnown ==
  \A c \in Calls :
    /\ call[c].step # "answered" => call[c].answer = "none"
    /\ call[c].step \notin {"none", "answered", "pid"} => call[c].pid \in CallerPids
    /\ call[c].step \in {"pid again", "found again", "start again"} =>
         call[c].before \in 1..callersBorn
    /\ call[c].step \in {"found again", "start again"} =>
         (runs[call[c].pid] = call[c].before => call[c].before = call[c].caller)
    /\ call[c].step = "start again" =>
         (runs[call[c].pid] = call[c].before => call[c].before \in Trusted)

\* The slots, counted.
SlotsOK ==
  /\ \A n \in Providers : IsFiniteSet(authorizing[n]) /\ Cardinality(authorizing[n]) <= MaxPending
  /\ \A n \in Providers : authorizing[n] =
       {c \in Calls : UnderWay(c) /\ call[c].provider = n} \ (IF Disabled(n) THEN Calls ELSE {})
  /\ \A c \in Calls : UnderWay(c) => call[c].provider \in 1..enabledTimes

ProviderInv == ProviderTyped /\ CallerKnown /\ SlotsOK

LEMMA ProviderInitInv == ProviderInit => ProviderInv
<1> SUFFICES ASSUME ProviderInit PROVE ProviderInv
  OBVIOUS
<1>1. NoCall.step = "none" /\ NoCall.answer = "none" /\ NoCall \in CallShape
  BY DEF NoCall, Methods, CallShape
<1>2. \A c \in Calls : call[c] = NoCall
  BY DEF ProviderInit
<1>3. ProviderTyped
  <2>1. callersBorn = 0 /\ runs = [p \in CallerPids |-> 0] /\ 0..callersBorn = {0}
    BY DEF ProviderInit
  <2>2. provider = 0 /\ enabledTimes = 0 /\ enabledTimes <= MaxProviders
    BY ProviderAssumption DEF ProviderInit
  <2>3. authorizing \in [Providers -> SUBSET Calls] /\ call \in [Calls -> CallShape]
    BY <1>1 DEF ProviderInit
  <2> QED
    BY <2>1, <2>2, <2>3 DEF ProviderTyped
<1>4. SlotsOK
  <2>1. \A n \in Providers : authorizing[n] = {}
    BY DEF ProviderInit
  <2> QED
    BY <1>1, <1>2, <2>1, FS_EmptySet, ProviderAssumption DEF SlotsOK, UnderWay, Disabled
<1> QED
  BY <1>1, <1>2, <1>3, <1>4 DEF ProviderInv, CallerKnown

\* What the processes do leaves the calls alone.
LEMMA CallersKeep ==
  ASSUME ProviderInv, NEW p \in CallerPids, StartCaller(p) \/ EndCaller(p)
  PROVE  ProviderInv'
<1>1. /\ UNCHANGED <<provider, enabledTimes, authorizing, call>>
      /\ \/ runs' = [runs EXCEPT ![p] = callersBorn + 1] /\ callersBorn' = callersBorn + 1
         \/ runs' = [runs EXCEPT ![p] = 0] /\ callersBorn' = callersBorn
  BY DEF StartCaller, EndCaller
<1>2. /\ callersBorn' \in Nat /\ callersBorn <= callersBorn'
      /\ runs' \in [CallerPids -> 0..callersBorn']
  BY <1>1 DEF ProviderInv, ProviderTyped
<1>3. ProviderTyped'
  BY <1>1, <1>2 DEF ProviderInv, ProviderTyped
<1>4. \A q \in CallerPids, n \in 1..callersBorn : runs'[q] = n => runs[q] = n
  BY <1>1 DEF ProviderInv, ProviderTyped
<1>5. 1..callersBorn \subseteq 1..callersBorn'
  BY <1>2 DEF ProviderInv, ProviderTyped
<1>6. CallerKnown'
  BY <1>1, <1>4, <1>5 DEF ProviderInv, CallerKnown
<1>7. SlotsOK'
  BY <1>1 DEF ProviderInv, SlotsOK, UnderWay, Disabled
<1> QED
  BY <1>3, <1>6, <1>7 DEF ProviderInv

LEMMA EnablingKeeps ==
  ASSUME ProviderInv, Enable \/ Disable
  PROVE  ProviderInv'
<1>1. UNCHANGED <<runs, callersBorn, call>>
  BY DEF Enable, Disable
<1>2. CASE Enable
  <2>1. /\ provider = 0 /\ enabledTimes < MaxProviders
        /\ enabledTimes' = enabledTimes + 1 /\ provider' = enabledTimes + 1
        /\ authorizing' = authorizing
    BY <1>2 DEF Enable
  <2>2. ProviderTyped'
    BY <1>1, <2>1, ProviderAssumption DEF ProviderInv, ProviderTyped
  <2>3. SlotsOK'
    <3>1. \A n \in Providers : authorizing[n] = {}
      BY <2>1 DEF ProviderInv, SlotsOK, Disabled, Providers
    <3>2. \A c \in Calls : UnderWay(c) => call[c].provider \in 1..enabledTimes'
                                          /\ call[c].provider # enabledTimes + 1
      BY <2>1 DEF ProviderInv, SlotsOK, ProviderTyped
    <3> QED
      BY <1>1, <2>1, <3>1, <3>2 DEF ProviderInv, SlotsOK, UnderWay, Disabled
  <2> QED
    BY <1>1, <2>2, <2>3 DEF ProviderInv, CallerKnown
<1>3. CASE Disable
  <2>1. /\ provider # 0 /\ provider' = 0 /\ enabledTimes' = enabledTimes
        /\ authorizing' = [authorizing EXCEPT ![provider] = {}]
    BY <1>3 DEF Disable
  <2>2. ProviderTyped'
    <3>1. authorizing' \in [Providers -> SUBSET Calls]
      BY <2>1 DEF ProviderInv, ProviderTyped
    <3>2. 0 \in 0..enabledTimes
      BY DEF ProviderInv, ProviderTyped
    <3> QED
      BY <1>1, <2>1, <3>1, <3>2 DEF ProviderInv, ProviderTyped
  <2>3. SlotsOK'
    <3>1. \A n \in Providers : n # provider => authorizing[n] = {}
      BY <2>1 DEF ProviderInv, SlotsOK, Disabled
    <3>2. \A n \in Providers : authorizing'[n] = {} /\ n # 0
      BY <2>1, <3>1 DEF ProviderInv, ProviderTyped, Providers
    <3> QED
      BY <1>1, <2>1, <3>2, FS_EmptySet, ProviderAssumption
      DEF ProviderInv, SlotsOK, UnderWay, Disabled
  <2> QED
    BY <1>1, <2>2, <2>3 DEF ProviderInv, CallerKnown
<1> QED
  BY <1>2, <1>3

\* A call that is answered gives its slot back.
LEMMA AnswerKeeps ==
  ASSUME ProviderInv, NEW c \in Calls, UnderWay(c),
         NEW answer \in {"denied", "failed", "version", "windows"},
         Answered(c, answer), Freed(c),
         UNCHANGED <<runs, callersBorn, provider, enabledTimes>>
  PROVE  ProviderInv'
<1> DEFINE last == [NoCall EXCEPT !.step = "answered", !.answer = answer]
           n == call[c].provider
<1>1. /\ call' = [call EXCEPT ![c] = last]
      /\ authorizing' = [authorizing EXCEPT ![n] = @ \ {c}]
  BY DEF Answered, Freed
<1>2. last \in CallShape /\ last.step = "answered"
  BY DEF NoCall, Methods, CallShape
<1> HIDE DEF last
<1>3. \A d \in Calls : call'[d] = IF d = c THEN last ELSE call[d]
  BY <1>1 DEF ProviderInv, ProviderTyped
<1>4. ProviderTyped'
  BY <1>1, <1>2 DEF ProviderInv, ProviderTyped
<1>5. CallerKnown'
  BY <1>2, <1>3 DEF ProviderInv, CallerKnown
<1>6. n \in Providers
  <2>1. n \in 1..enabledTimes /\ enabledTimes \in Nat /\ enabledTimes <= MaxProviders
    BY DEF ProviderInv, ProviderTyped, SlotsOK
  <2> QED
    BY <2>1, ProviderAssumption DEF Providers
<1>7. \A m \in Providers : authorizing'[m] = authorizing[m] \ {c}
  BY <1>1, <1>6 DEF ProviderInv, ProviderTyped, SlotsOK
<1>8. \A m \in Providers : IsFiniteSet(authorizing'[m]) /\ Cardinality(authorizing'[m]) <= MaxPending
  <2> SUFFICES ASSUME NEW m \in Providers
               PROVE  IsFiniteSet(authorizing'[m]) /\ Cardinality(authorizing'[m]) <= MaxPending
    OBVIOUS
  <2>1. IsFiniteSet(authorizing[m]) /\ Cardinality(authorizing[m]) <= MaxPending
    BY DEF ProviderInv, SlotsOK
  <2>2. /\ IsFiniteSet(authorizing'[m])
        /\ Cardinality(authorizing'[m]) <= Cardinality(authorizing[m])
    BY <1>7, <2>1, FS_Subset
  <2>3. Cardinality(authorizing'[m]) \in Nat /\ Cardinality(authorizing[m]) \in Nat
    BY <2>1, <2>2, FS_CardinalityType
  <2> QED
    BY <2>1, <2>2, <2>3, ProviderAssumption
<1>9. \A d \in Calls : UnderWay(d)' <=> UnderWay(d) /\ d # c
  BY <1>2, <1>3 DEF UnderWay
<1>10. SlotsOK'
  BY <1>3, <1>7, <1>8, <1>9 DEF ProviderInv, SlotsOK, Disabled
<1> QED
  BY <1>4, <1>5, <1>10 DEF ProviderInv

\* A call that goes on keeps its slot, its caller and its provider.
LEMMA MovesOn ==
  ASSUME ProviderInv, NEW c \in Calls, NEW next,
         next \in CallShape, next.pid \in CallerPids, next.step \notin {"none", "answered"},
         UnderWay(c), next.provider = call[c].provider, next.answer = call[c].answer,
         next.step \in {"pid again", "found again", "start again"} =>
           next.before \in 1..callersBorn,
         next.step \in {"found again", "start again"} =>
           (runs[next.pid] = next.before => next.before = next.caller),
         next.step = "start again" => (runs[next.pid] = next.before => next.before \in Trusted),
         call' = [call EXCEPT ![c] = next],
         UNCHANGED <<runs, callersBorn, provider, enabledTimes, authorizing>>
  PROVE  ProviderInv'
<1>1. \A d \in Calls : call'[d] = IF d = c THEN next ELSE call[d]
  BY DEF ProviderInv, ProviderTyped
<1>2. ProviderTyped'
  BY DEF ProviderInv, ProviderTyped
<1>3. CallerKnown'
  <2>1. call[c].answer = "none"
    BY DEF ProviderInv, CallerKnown, UnderWay
  <2> SUFFICES ASSUME NEW d \in Calls
               PROVE  /\ call'[d].step # "answered" => call'[d].answer = "none"
                      /\ call'[d].step \notin {"none", "answered", "pid"} => call'[d].pid \in CallerPids
                      /\ call'[d].step \in {"pid again", "found again", "start again"} =>
                           call'[d].before \in 1..callersBorn
                      /\ call'[d].step \in {"found again", "start again"} =>
                           (runs[call'[d].pid] = call'[d].before => call'[d].before = call'[d].caller)
                      /\ call'[d].step = "start again" =>
                           (runs[call'[d].pid] = call'[d].before => call'[d].before \in Trusted)
    BY DEF CallerKnown
  <2>2. CASE d = c
    <3>1. call'[d] = next
      BY <1>1, <2>2
    <3> QED
      BY <2>1, <3>1
  <2>3. CASE d # c
    <3>1. call'[d] = call[d]
      BY <1>1, <2>3
    <3> QED
      BY <3>1 DEF ProviderInv, CallerKnown
  <2> QED
    BY <2>2, <2>3
<1>4. \A d \in Calls : (UnderWay(d)' <=> UnderWay(d)) /\ call'[d].provider = call[d].provider
  BY <1>1 DEF UnderWay
<1>5. SlotsOK'
  BY <1>4 DEF ProviderInv, SlotsOK, Disabled
<1> QED
  BY <1>2, <1>3, <1>5 DEF ProviderInv

\* What one step of the look-up makes of a call.
LEMMA LookupsKeep ==
  ASSUME ProviderInv, NEW c \in Calls, NEW p \in CallerPids,
         ResolvePid(c, p) \/ ResolveAgain(c, p)
  PROVE  ProviderInv'
<1>1. /\ UNCHANGED <<runs, callersBorn, provider, enabledTimes, authorizing>>
      /\ runs[p] = call[c].caller /\ call[c] \in CallShape
  BY DEF ResolvePid, ResolveAgain, Resolves, ProviderInv, ProviderTyped
<1>2. CASE ResolvePid(c, p)
  <2> DEFINE next == [call[c] EXCEPT !.step = "found", !.pid = p]
  <2>1. call[c].step = "pid" /\ call' = [call EXCEPT ![c] = next]
    BY <1>2 DEF ResolvePid, ProviderInv, ProviderTyped
  <2>2. /\ next \in CallShape /\ next.pid \in CallerPids /\ next.step = "found"
        /\ next.provider = call[c].provider /\ next.answer = call[c].answer
    BY <1>1 DEF CallShape
  <2>3. UnderWay(c)
    BY <2>1 DEF UnderWay
  <2> HIDE DEF next
  <2> QED
    BY <1>1, <2>1, <2>2, <2>3, MovesOn
<1>3. CASE ResolveAgain(c, p)
  <2> DEFINE next == [call[c] EXCEPT !.step = "found again"]
  <2>1. /\ call[c].step = "pid again" /\ p = call[c].pid
        /\ call' = [call EXCEPT ![c] = next]
    BY <1>3 DEF ResolveAgain, ProviderInv, ProviderTyped
  <2>2. /\ next \in CallShape /\ next.pid = p /\ next.step = "found again"
        /\ next.provider = call[c].provider /\ next.before = call[c].before
        /\ next.caller = call[c].caller /\ next.answer = call[c].answer
    BY <1>1, <2>1 DEF CallShape
  <2>3. UnderWay(c)
    BY <2>1 DEF UnderWay
  <2>4. call[c].before \in 1..callersBorn
    BY <2>1 DEF ProviderInv, CallerKnown
  <2> HIDE DEF next
  <2> QED
    BY <1>1, <2>1, <2>2, <2>3, <2>4, MovesOn
<1> QED
  BY <1>2, <1>3

LEMMA InspectionsKeep ==
  ASSUME ProviderInv, NEW c \in Calls, InspectExecutable(c) \/ ReadStartTime(c)
  PROVE  ProviderInv'
<1>1. /\ UNCHANGED <<runs, callersBorn, provider, enabledTimes>>
      /\ call[c] \in CallShape
      /\ call[c].step \in {"found", "found again", "start"}
      /\ call[c].pid \in CallerPids
  BY DEF InspectExecutable, ReadStartTime, ProviderInv, ProviderTyped, CallerKnown
<1>2. UnderWay(c)
  BY <1>1 DEF UnderWay
<1>3. CASE Answered(c, "denied") /\ Freed(c)
  BY <1>1, <1>2, <1>3, AnswerKeeps
<1>4. CASE InspectExecutable(c) /\ IsTrusted(call[c].pid)
  <2> DEFINE further == IF call[c].step = "found" THEN "start" ELSE "start again"
             next == [call[c] EXCEPT !.step = further]
  <2>1. call' = [call EXCEPT ![c] = next] /\ authorizing' = authorizing
    BY <1>4 DEF InspectExecutable, ProviderInv, ProviderTyped
  <2>2. /\ next \in CallShape /\ next.pid = call[c].pid /\ next.step = further
        /\ next.provider = call[c].provider /\ next.before = call[c].before
        /\ next.caller = call[c].caller /\ next.answer = call[c].answer
    BY <1>1 DEF CallShape
  <2>3. runs[call[c].pid] \in Trusted /\ call[c].step \in {"found", "found again"}
    BY <1>4 DEF IsTrusted, InspectExecutable
  <2>4. call[c].step = "found again" =>
          /\ call[c].before \in 1..callersBorn
          /\ runs[call[c].pid] = call[c].before => call[c].before = call[c].caller
    BY DEF ProviderInv, CallerKnown
  <2> HIDE DEF next
  <2> QED
    BY <1>1, <1>2, <2>1, <2>2, <2>3, <2>4, MovesOn
<1>5. CASE ReadStartTime(c) /\ runs[call[c].pid] # 0
  <2> DEFINE next == [call[c] EXCEPT !.before = runs[call[c].pid], !.step = "pid again"]
  <2>1. call' = [call EXCEPT ![c] = next] /\ authorizing' = authorizing
    BY <1>5 DEF ReadStartTime, AfterInspection, ProviderInv, ProviderTyped
  <2>2. runs[call[c].pid] \in 1..callersBorn /\ runs[call[c].pid] \in Nat
    <3>1. runs[call[c].pid] \in 0..callersBorn /\ callersBorn \in Nat
      BY <1>1 DEF ProviderInv, ProviderTyped
    <3> QED
      BY <1>5, <3>1
  <2>3. /\ next \in CallShape /\ next.pid = call[c].pid /\ next.step = "pid again"
        /\ next.provider = call[c].provider /\ next.before = runs[call[c].pid]
        /\ next.answer = call[c].answer
    BY <1>1, <2>2 DEF CallShape
  <2> HIDE DEF next
  <2> QED
    BY <1>1, <1>2, <2>1, <2>2, <2>3, MovesOn
<1> QED
  BY <1>3, <1>4, <1>5 DEF InspectExecutable, ReadStartTime

LEMMA StartKeepsSlots ==
  ASSUME ProviderInv, NEW c \in Calls, NEW p \in CallerPids, NEW m \in Methods,
         StartAuthorizedCall(c, p, m)
  PROVE  ProviderInv'
<1>1. /\ UNCHANGED <<runs, callersBorn, provider, enabledTimes>>
      /\ call[c].step = "none" /\ provider # 0 /\ ~ UnderWay(c)
  BY DEF StartAuthorizedCall, UnderWay
<1>2. provider \in 1..enabledTimes /\ provider \in Providers /\ provider \in Nat
  BY <1>1, ProviderAssumption DEF ProviderInv, ProviderTyped, Providers
<1>3. CASE Start(provider) = "busy"
  <2> DEFINE last == [NoCall EXCEPT !.step = "answered", !.answer = "busy"]
  <2>1. call' = [call EXCEPT ![c] = last] /\ authorizing' = authorizing
    BY <1>3 DEF StartAuthorizedCall, Answered
  <2>2. last \in CallShape /\ last.step = "answered"
    BY DEF NoCall, Methods, CallShape
  <2> HIDE DEF last
  <2>3. \A d \in Calls : call'[d] = IF d = c THEN last ELSE call[d]
    BY <2>1 DEF ProviderInv, ProviderTyped
  <2>4. ProviderTyped'
    BY <1>1, <2>1, <2>2 DEF ProviderInv, ProviderTyped
  <2>5. CallerKnown'
    BY <1>1, <2>2, <2>3 DEF ProviderInv, CallerKnown
  <2>6. \A d \in Calls : /\ UnderWay(d)' <=> UnderWay(d)
                         /\ UnderWay(d) => call'[d].provider = call[d].provider
    BY <1>1, <2>2, <2>3 DEF UnderWay
  <2>7. SlotsOK'
    BY <1>1, <2>1, <2>6 DEF ProviderInv, SlotsOK, Disabled
  <2> QED
    BY <2>4, <2>5, <2>7 DEF ProviderInv
<1>4. CASE Start(provider) # "busy"
  <2> DEFINE first == [NoCall EXCEPT !.method = m, !.caller = runs[p], !.provider = provider,
                                     !.step = "pid"]
  <2>1. /\ call' = [call EXCEPT ![c] = first]
        /\ authorizing' = [authorizing EXCEPT ![provider] = @ \union {c}]
    BY <1>4 DEF StartAuthorizedCall, NoCall
  <2>2. first \in CallShape /\ first.step = "pid" /\ first.provider = provider
        /\ first.answer = "none"
    <3>1. runs[p] \in Nat
      BY DEF ProviderInv, ProviderTyped
    <3> QED
      BY <1>2, <3>1 DEF NoCall, Methods, CallShape
  <2> HIDE DEF first
  <2>3. \A d \in Calls : call'[d] = IF d = c THEN first ELSE call[d]
    BY <2>1 DEF ProviderInv, ProviderTyped
  <2>4. ProviderTyped'
    BY <1>1, <2>1, <2>2 DEF ProviderInv, ProviderTyped
  <2>5. CallerKnown'
    BY <1>1, <2>2, <2>3 DEF ProviderInv, CallerKnown
  <2>6. \A d \in Calls : UnderWay(d)' <=> UnderWay(d) \/ d = c
    BY <1>1, <2>2, <2>3 DEF UnderWay
  <2>7. \A n \in Providers : authorizing'[n] = IF n = provider THEN authorizing[n] \union {c}
                                               ELSE authorizing[n]
    BY <1>2, <2>1 DEF ProviderInv, ProviderTyped
  <2>8. /\ IsFiniteSet(authorizing[provider]) /\ c \notin authorizing[provider]
        /\ Cardinality(authorizing[provider]) < MaxPending
    <3>1. /\ IsFiniteSet(authorizing[provider])
          /\ authorizing[provider] \subseteq {d \in Calls : UnderWay(d)}
      BY <1>2 DEF ProviderInv, SlotsOK
    <3>2. Cardinality(authorizing[provider]) \in Nat
      BY <3>1, FS_CardinalityType
    <3> QED
      BY <1>1, <1>4, <3>1, <3>2, ProviderAssumption DEF Start
  <2>9. /\ IsFiniteSet(authorizing[provider] \union {c})
        /\ Cardinality(authorizing[provider] \union {c}) <= MaxPending
    <3>1. Cardinality(authorizing[provider]) \in Nat
      BY <2>8, FS_CardinalityType
    <3>2. /\ IsFiniteSet(authorizing[provider] \union {c})
          /\ Cardinality(authorizing[provider] \union {c}) = Cardinality(authorizing[provider]) + 1
      BY <2>8, FS_AddElement
    <3> QED
      BY <2>8, <3>1, <3>2, ProviderAssumption
  <2>10. \A n \in Providers :
           authorizing'[n] = {d \in Calls : UnderWay(d)' /\ call'[d].provider = n}
                               \ (IF Disabled(n)' THEN Calls ELSE {})
    <3> SUFFICES ASSUME NEW n \in Providers
                 PROVE  authorizing'[n] = {d \in Calls : UnderWay(d)' /\ call'[d].provider = n}
                                            \ (IF Disabled(n)' THEN Calls ELSE {})
      OBVIOUS
    <3>1. authorizing[n] = {d \in Calls : UnderWay(d) /\ call[d].provider = n}
                             \ (IF Disabled(n) THEN Calls ELSE {})
      BY DEF ProviderInv, SlotsOK
    <3>2. CASE n = provider
      BY <1>1, <2>2, <2>3, <2>6, <2>7, <3>1, <3>2 DEF Disabled
    <3>3. CASE n # provider
      BY <1>1, <2>2, <2>3, <2>6, <2>7, <3>1, <3>3 DEF Disabled
    <3> QED
      BY <3>2, <3>3
  <2>11. \A n \in Providers : IsFiniteSet(authorizing'[n]) /\ Cardinality(authorizing'[n]) <= MaxPending
    BY <2>7, <2>9 DEF ProviderInv, SlotsOK
  <2>12. \A d \in Calls : UnderWay(d)' => call'[d].provider \in 1..enabledTimes'
    BY <1>1, <1>2, <2>2, <2>3, <2>6 DEF ProviderInv, SlotsOK
  <2> QED
    BY <2>4, <2>5, <2>10, <2>11, <2>12 DEF ProviderInv, SlotsOK
<1> QED
  BY <1>3, <1>4

LEMMA RepliesKeep ==
  ASSUME ProviderInv, NEW c \in Calls, LookupFails(c) \/ Reply(c)
  PROVE  ProviderInv'
<1>1. /\ UNCHANGED <<runs, callersBorn, provider, enabledTimes>> /\ Freed(c)
      /\ call[c].step \in {"pid", "pid again", "start again"}
  BY DEF LookupFails, Reply
<1>2. \E answer \in {"denied", "failed", "version", "windows"} : Answered(c, answer)
  BY DEF LookupFails, Reply, Replies
<1>3. UnderWay(c)
  BY <1>1 DEF UnderWay
<1> QED
  BY <1>1, <1>2, <1>3, AnswerKeeps

LEMMA ProviderStep == ProviderInv /\ [ProviderNext]_providerVars => ProviderInv'
<1> SUFFICES ASSUME ProviderInv, [ProviderNext]_providerVars PROVE ProviderInv'
  OBVIOUS
<1>1. CASE UNCHANGED <<runs, callersBorn, provider, enabledTimes, authorizing, call>>
  BY <1>1 DEF ProviderInv, ProviderTyped, CallerKnown, SlotsOK, UnderWay, Disabled
<1>2. CASE ~ UNCHANGED <<runs, callersBorn, provider, enabledTimes, authorizing, call>>
  <2>1. ~ UNCHANGED providerVars /\ ~ \E wayland, x11 \in BOOLEAN : Choose(wayland, x11)
    BY <1>2 DEF providerVars, Choose
  <2> QED
    BY <2>1, CallersKeep, EnablingKeeps, StartKeepsSlots, LookupsKeep, InspectionsKeep,
       RepliesKeep DEF ProviderNext
<1> QED
  BY <1>1, <1>2

\* Only Reply says something else than no.
LEMMA OnlyReplyAnswers ==
  ASSUME ProviderInv, ProviderNext, NEW c \in Calls, call[c].answer = "none",
         call'[c].answer \in {"version", "windows"}
  PROVE  Reply(c)
<1>1. \A d \in Calls : call[d] \in CallShape
  BY DEF ProviderInv, ProviderTyped
<1>2. ~ UNCHANGED call
  OBVIOUS
<1>3. ASSUME NEW d \in Calls, NEW answer, Answered(d, answer)
      PROVE  d = c /\ answer \in {"version", "windows"}
  <2> DEFINE last == [NoCall EXCEPT !.step = "answered", !.answer = answer]
  <2>1. last.answer = answer
    BY DEF NoCall
  <2>2. call' = [call EXCEPT ![d] = last]
    BY <1>3 DEF Answered
  <2> HIDE DEF last
  <2> QED
    BY <2>1, <2>2 DEF ProviderInv, ProviderTyped
<1>4. ASSUME NEW d \in Calls, NEW next, next.answer = call[d].answer \/ next.answer = "none",
             call' = [call EXCEPT ![d] = next]
      PROVE  FALSE
  BY <1>4 DEF ProviderInv, ProviderTyped
<1>5. ASSUME NEW d \in Calls, NEW p \in CallerPids, NEW m \in Methods,
             StartAuthorizedCall(d, p, m)
      PROVE  FALSE
  <2>1. CASE Start(provider) = "busy"
    BY <1>3, <1>5, <2>1 DEF StartAuthorizedCall
  <2>2. CASE Start(provider) # "busy"
    <3> DEFINE first == [NoCall EXCEPT !.method = m, !.caller = runs[p], !.provider = provider,
                                       !.step = "pid"]
    <3>1. call' = [call EXCEPT ![d] = first] /\ first.answer = "none"
      BY <1>5, <2>2 DEF StartAuthorizedCall, NoCall
    <3> HIDE DEF first
    <3> QED
      BY <1>4, <3>1
  <2> QED
    BY <2>1, <2>2
<1>6. ASSUME NEW d \in Calls, NEW p \in CallerPids, ResolvePid(d, p) \/ ResolveAgain(d, p)
      PROVE  FALSE
  <2>1. PICK next : call' = [call EXCEPT ![d] = next] /\ next.answer = call[d].answer
    <3>1. CASE ResolvePid(d, p)
      <4> DEFINE next == [call[d] EXCEPT !.step = "found", !.pid = p]
      <4>1. call' = [call EXCEPT ![d] = next]
        BY <3>1 DEF ResolvePid, ProviderInv, ProviderTyped
      <4>2. next.answer = call[d].answer
        BY <1>1 DEF CallShape
      <4> QED
        BY <4>1, <4>2
    <3>2. CASE ResolveAgain(d, p)
      <4> DEFINE next == [call[d] EXCEPT !.step = "found again"]
      <4>1. call' = [call EXCEPT ![d] = next]
        BY <3>2 DEF ResolveAgain, ProviderInv, ProviderTyped
      <4>2. next.answer = call[d].answer
        BY <1>1 DEF CallShape
      <4> QED
        BY <4>1, <4>2
    <3> QED
      BY <1>6, <3>1, <3>2
  <2> QED
    BY <1>4, <2>1
<1>7. ASSUME NEW d \in Calls, InspectExecutable(d) \/ ReadStartTime(d)
      PROVE  FALSE
  <2>1. CASE Answered(d, "denied")
    BY <1>3, <2>1
  <2>2. CASE ~ Answered(d, "denied")
    <3>1. PICK next : call' = [call EXCEPT ![d] = next] /\ next.answer = call[d].answer
      <4>1. CASE InspectExecutable(d)
        <5> DEFINE next == [call[d] EXCEPT !.step = IF @ = "found" THEN "start" ELSE "start again"]
        <5>1. call' = [call EXCEPT ![d] = next]
          BY <2>2, <4>1 DEF InspectExecutable, ProviderInv, ProviderTyped
        <5>2. next.answer = call[d].answer
          BY <1>1 DEF CallShape
        <5> QED
          BY <5>1, <5>2
      <4>2. CASE ReadStartTime(d)
        <5> DEFINE next == [call[d] EXCEPT !.before = runs[call[d].pid], !.step = AfterInspection]
        <5>1. call' = [call EXCEPT ![d] = next]
          BY <2>2, <4>2 DEF ReadStartTime, ProviderInv, ProviderTyped
        <5>2. next.answer = call[d].answer
          BY <1>1 DEF CallShape
        <5> QED
          BY <5>1, <5>2
      <4> QED
        BY <1>7, <4>1, <4>2
    <3> QED
      BY <1>4, <3>1
  <2> QED
    BY <2>1, <2>2
<1>8. ASSUME NEW d \in Calls, LookupFails(d)
      PROVE  FALSE
  <2>1. Answered(d, "denied")
    BY <1>8 DEF LookupFails
  <2> QED
    BY <1>3, <2>1
<1>9. ASSUME NEW d \in Calls, Reply(d)
      PROVE  d = c
  BY <1>3, <1>9 DEF Reply
<1>10. /\ \A p \in CallerPids : ~ StartCaller(p) /\ ~ EndCaller(p)
       /\ ~ Enable /\ ~ Disable /\ \A wayland, x11 \in BOOLEAN : ~ Choose(wayland, x11)
  BY <1>2 DEF StartCaller, EndCaller, Enable, Disable, Choose
<1> QED
  BY <1>5, <1>6, <1>7, <1>8, <1>9, <1>10 DEF ProviderNext

\* An answer with something in it goes to the trusted program, from a provider
\* that is enabled.
LEMMA AnswersGoToTrusted ==
  ProviderInv /\ [ProviderNext]_providerVars =>
    \A c \in Calls :
      call[c].step # "answered" /\ call'[c].answer \in {"version", "windows"}
        => call[c].caller \in Trusted /\ ~ Disabled(call[c].provider)
<1> SUFFICES ASSUME ProviderInv, [ProviderNext]_providerVars, NEW c \in Calls,
                    call[c].step # "answered", call'[c].answer \in {"version", "windows"}
             PROVE  call[c].caller \in Trusted /\ ~ Disabled(call[c].provider)
  OBVIOUS
<1>1. call[c].answer = "none"
  BY DEF ProviderInv, CallerKnown
<1>2. ProviderNext
  BY <1>1 DEF providerVars
<1>3. Reply(c)
  BY <1>1, <1>2, OnlyReplyAnswers
<1>4. PICK answer \in IF runs[call[c].pid] = call[c].before THEN Replies(c) ELSE {"denied"} :
        Answered(c, answer)
  BY <1>3 DEF Reply
<1>5. call'[c].answer = answer
  BY <1>4 DEF Answered, NoCall, ProviderInv, ProviderTyped
<1>6. runs[call[c].pid] = call[c].before /\ answer \in Replies(c) /\ call[c].step = "start again"
  BY <1>3, <1>4, <1>5 DEF Reply
<1>7. ~ Disabled(call[c].provider)
  BY <1>5, <1>6 DEF Replies
<1> QED
  BY <1>6, <1>7 DEF ProviderInv, CallerKnown

\* For any number of callers, calls and providers, whatever processes end and
\* whichever take over their PIDs while a caller is looked up: only the trusted
\* program gets a version or windows, from a provider that is enabled, and each
\* slot of the limit belongs to a call that is under way.
THEOREM OnlyTheTrustedAreAnswered == ProviderSpec => AnswersAreAuthorized
<1>1. ProviderInv => SlotsOfCallsUnderWay
  BY DEF ProviderInv, SlotsOK, SlotsOfCallsUnderWay, UnderWay
<1>2. ProviderInv /\ [ProviderNext]_providerVars =>
        [\A c \in Calls :
           /\ call[c].step # "answered"
           /\ call'[c].answer \in {"version", "windows"}
           => call[c].caller \in Trusted /\ ~ Disabled(call[c].provider)]_providerVars
  BY AnswersGoToTrusted
<1> QED
  BY <1>1, <1>2, ProviderInitInv, ProviderStep, PTL DEF ProviderSpec, AnswersAreAuthorized

-----------------------------------------------------------------------------
(* WindowIcons: the icons of a window are found, and drawn as they were.     *)

\* A division by the opacity, rounded to the nearest, and its rest.
LEMMA NearestQuotient ==
  ASSUME NEW channel \in Nat, NEW alpha \in 1..255, channel <= alpha
  PROVE  /\ (channel * 255 + alpha \div 2) \div alpha \in Byte
         /\ Blended((channel * 255 + alpha \div 2) \div alpha, alpha) = channel
<1> DEFINE half == alpha \div 2
           sum == channel * 255 + half
           quotient == sum \div alpha
           product == quotient * alpha
<1>1. half \in Nat /\ 2 * half <= alpha /\ alpha <= 2 * half + 1
  BY SMT
<1>2. sum \in Nat
  BY <1>1, SMT
<1> HIDE DEF half, sum
<1>3. quotient \in Nat /\ product \in Nat /\ product <= sum /\ sum < product + alpha
  BY <1>2, SMT
<1>4. quotient <= 255
  <2>1. sum < 256 * alpha
    BY <1>1, SMT DEF sum
  <2>2. product < 256 * alpha
    BY <2>1, <1>3, <1>2, SMT
  <2>3. ASSUME quotient >= 256 PROVE FALSE
    <3>1. product >= 256 * alpha
      BY <2>3, <1>3, SMT
    <3> QED
      BY <3>1, <2>2, <1>3, SMT
  <2> QED
    BY <2>3, <1>3, SMT
<1>5. (product + 127) \div 255 = channel
  <2> HIDE DEF product
  <2>1. 255 * channel <= product + 127 /\ product + 127 < 255 * channel + 255
    BY <1>1, <1>3, SMT DEF sum
  <2>2. product \in Nat
    BY <1>3
  <2> QED
    BY <2>1, <2>2, SMT
<1> QED
  BY <1>3, <1>4, <1>5 DEF Blended, Byte, sum, half

\* The two drawings of an icon give its opacity and channels back: what is shown
\* of the image recover_rgba_from_composites makes is, channel by channel, what
\* Windows draws of the icon, whatever its colours and transparency; no byte
\* overflows on the way.
THEOREM IconsAreDrawnAsTheyWere ==
  ASSUME NEW pixel \in Premultiplied
  PROVE  LET image == RecoveredPixel(Over(pixel, 0), Over(pixel, 255))
         IN /\ image.alpha = pixel.alpha
            /\ \A channel \in {"blue", "green", "red"} :
                 /\ image[channel] \in Byte
                 /\ Blended(image[channel], image.alpha) = pixel[channel]
<1> DEFINE black == Over(pixel, 0)
           white == Over(pixel, 255)
           alpha == pixel.alpha
<1>1. /\ alpha \in Byte
      /\ \A channel \in {"blue", "green", "red"} :
           pixel[channel] \in Byte /\ pixel[channel] <= alpha
  BY DEF Premultiplied
<1>2. \A channel \in {"blue", "green", "red"} :
        /\ black[channel] = pixel[channel]
        /\ white[channel] = pixel[channel] + (255 - alpha)
  <2>1. \A x \in 0..255 : (0 * x) \div 255 = 0 /\ (255 * x) \div 255 = x
    BY SMT
  <2>2. 255 - alpha \in 0..255
    BY <1>1, SMT DEF Byte
  <2>3. (0 * (255 - alpha)) \div 255 = 0 /\ (255 * (255 - alpha)) \div 255 = 255 - alpha
    BY <2>1, <2>2
  <2>4. \A channel \in {"blue", "green", "red"} : pixel[channel] + 0 = pixel[channel]
    BY <1>1, SMT DEF Byte
  <2> QED
    BY <2>3, <2>4 DEF Over
<1> HIDE DEF black, white, alpha
<1>3. \A channel \in {"blue", "green", "red"} :
        SaturatingSub(white[channel], black[channel]) = 255 - alpha
  <2>1. \A p, a \in Byte : SaturatingSub(p + (255 - a), p) = 255 - a
    BY SMT DEF SaturatingSub, Byte
  <2> QED
    BY <1>1, <1>2, <2>1
<1>4. Alpha(black, white) = alpha
  <2> DEFINE delta == (255 - alpha) + (255 - alpha) + (255 - alpha)
  <2>1. (delta + 1) \div 3 = 255 - alpha
    BY <1>1, SMT DEF Byte
  <2>2. Alpha(black, white) = Least(SaturatingSub(255, (delta + 1) \div 3), 255)
    <3>1. /\ SaturatingSub(white.blue, black.blue) = 255 - alpha
          /\ SaturatingSub(white.green, black.green) = 255 - alpha
          /\ SaturatingSub(white.red, black.red) = 255 - alpha
      BY <1>3
    <3> QED
      BY <3>1 DEF Alpha
  <2> QED
    BY <2>1, <2>2, <1>1, SMT DEF Least, SaturatingSub, Byte
<1>5. ASSUME NEW channel \in {"blue", "green", "red"}
      PROVE  /\ Recover(pixel[channel], alpha) \in Byte
             /\ Blended(Recover(pixel[channel], alpha), alpha) = pixel[channel]
  <2> DEFINE c == pixel[channel]
  <2>1. c \in Byte /\ c <= alpha /\ alpha \in Byte
    BY <1>1
  <2> HIDE DEF c
  <2>2. CASE alpha = 0
    BY <2>1, <2>2, SMT DEF Recover, Blended, Byte, c
  <2>3. CASE alpha # 0
    <3> DEFINE q == (c * 255 + alpha \div 2) \div alpha
    <3>0. c \in Nat /\ alpha \in 1..255
      BY <2>1, <2>3, SMT DEF Byte
    <3> HIDE DEF alpha
    <3>1. q \in Byte /\ Blended(q, alpha) = c
      BY <2>1, <3>0, NearestQuotient
    <3> HIDE DEF q
    <3>2. Least(q, 255) = q
      BY <3>1, SMT DEF Least, Byte
    <3> QED
      BY <3>1, <3>2, <2>3 DEF Recover, c, q
  <2> QED
    BY <2>2, <2>3
<1>6. LET image == RecoveredPixel(black, white)
      IN /\ image.alpha = alpha
         /\ \A channel \in {"blue", "green", "red"} :
              image[channel] = Recover(pixel[channel], alpha)
  BY <1>2, <1>4 DEF RecoveredPixel
<1> QED
  BY <1>5, <1>6 DEF black, white, alpha


\* Of five icons, the first that is there is one that is there.
LEMMA FirstIsFound ==
  ASSUME NEW icons, DOMAIN icons = 1..5
  PROVE  FirstOf(icons) = NoIcon <=> \A i \in 1..5 : icons[i] = NoIcon
<1> DEFINE found == {i \in DOMAIN icons : icons[i] # NoIcon}
<1>1. CASE found = {}
  BY <1>1 DEF FirstOf
<1>2. CASE found # {}
  <2>1. \E i \in found : \A j \in found : i <= j
    <3>1. \A j \in found : j \in {1, 2, 3, 4, 5}
      BY SMT
    <3> HIDE DEF found
    <3>2. CASE 1 \in found  BY <3>1, <3>2, SMT
    <3>3. CASE 1 \notin found /\ 2 \in found  BY <3>1, <3>3, SMT
    <3>4. CASE 1 \notin found /\ 2 \notin found /\ 3 \in found  BY <3>1, <3>4, SMT
    <3>5. CASE 1 \notin found /\ 2 \notin found /\ 3 \notin found /\ 4 \in found
      BY <3>1, <3>5, SMT
    <3>6. CASE found \subseteq {5}
      <4>1. found = {5}
        BY <1>2, <3>6
      <4> QED
        BY <4>1, SMT
    <3> QED
      BY <3>1, <3>2, <3>3, <3>4, <3>5, <3>6
  <2>2. (CHOOSE i \in found : \A j \in found : i <= j) \in found
    BY <2>1
  <2> QED
    BY <1>2, <2>2 DEF FirstOf
<1> QED
  BY <1>1, <1>2

\* No icon is lost for being asked for in the wrong place: both icons of a row
\* are there as soon as the window, while it answers, or its class has any, and
\* of a window that hangs nothing but the class is looked at.
THEOREM OfferedIconsAreFound ==
  ASSUME NEW Icons, NEW offer \in Offers(Icons), NEW hung \in BOOLEAN
  PROVE  LET got == Queried(offer, hung)
             asked == IF hung THEN {"class_small", "class_large"} ELSE DOMAIN offer
         IN /\ SmallSource(got) = NoIcon <=> \A name \in asked : offer[name] = NoIcon
            /\ LargeSource(got) = NoIcon <=> \A name \in asked : offer[name] = NoIcon
            /\ hung => {got.small2, got.small, got.big} = {NoIcon}
<1> DEFINE got == Queried(offer, hung)
           asked == IF hung THEN {"class_small", "class_large"} ELSE DOMAIN offer
           none == /\ got.small2 = NoIcon /\ got.big = NoIcon /\ got.small = NoIcon
                   /\ got.class_small = NoIcon /\ got.class_large = NoIcon
<1>1. DOMAIN offer = {"small2", "big", "small", "class_small", "class_large"}
  BY DEF Offers
<1>2. none <=> \A name \in asked : offer[name] = NoIcon
  <2>1. CASE hung
    BY <1>1, <2>1 DEF Queried
  <2>2. CASE ~hung
    BY <1>1, <2>2 DEF Queried
  <2> QED
    BY <2>1, <2>2
<1>3. SmallSource(got) = NoIcon <=> none
  <2> DEFINE icons == <<got.small2, got.small, got.big, got.class_small, got.class_large>>
  <2>1. DOMAIN icons = 1..5
    OBVIOUS
  <2>2. /\ icons[1] = got.small2 /\ icons[2] = got.small /\ icons[3] = got.big
        /\ icons[4] = got.class_small /\ icons[5] = got.class_large
    OBVIOUS
  <2>3. (\A i \in 1..5 : icons[i] = NoIcon) <=> none
    <3>1. 1..5 = {1, 2, 3, 4, 5}
      BY SMT
    <3> HIDE DEF icons, got
    <3> QED
      BY <2>2, <3>1
  <2> HIDE DEF got
  <2>4. FirstOf(icons) = NoIcon <=> \A i \in 1..5 : icons[i] = NoIcon
    BY <2>1, FirstIsFound
  <2> QED
    BY <2>3, <2>4 DEF SmallSource
<1>4. LargeSource(got) = NoIcon <=> none
  <2> DEFINE icons == <<got.big, got.small, got.small2, got.class_large, got.class_small>>
  <2>1. DOMAIN icons = 1..5
    OBVIOUS
  <2>2. /\ icons[1] = got.big /\ icons[2] = got.small /\ icons[3] = got.small2
        /\ icons[4] = got.class_large /\ icons[5] = got.class_small
    OBVIOUS
  <2>3. (\A i \in 1..5 : icons[i] = NoIcon) <=> none
    <3>1. 1..5 = {1, 2, 3, 4, 5}
      BY SMT
    <3> HIDE DEF icons, got
    <3> QED
      BY <2>2, <3>1
  <2> HIDE DEF got
  <2>4. FirstOf(icons) = NoIcon <=> \A i \in 1..5 : icons[i] = NoIcon
    BY <2>1, FirstIsFound
  <2> QED
    BY <2>3, <2>4 DEF LargeSource
<1>5. hung => {got.small2, got.small, got.big} = {NoIcon}
  BY DEF Queried
<1> QED
  BY <1>2, <1>3, <1>4, <1>5

-----------------------------------------------------------------------------
(* ActionRouting: what is offered is what works.                             *)

\* Which request a command makes.
LEMMA RequestsOfCommands ==
  /\ \A kind \in WindowKinds : RequestFor(kind) = "Window"
  /\ \A kind \in ArrangeKinds : RequestFor(kind) = "ArrangeWindows"
  /\ \A kind \in SessionKinds : RequestFor(kind) = "UserSession"
  /\ \A kind \in {"EndProcess", "EndProcessTree"} : RequestFor(kind) = "EndProcess"
  /\ \A kind \in {"RunTask", "SetPriority", "SetNice", "SetAffinity", "OpenFileLocation"} :
       RequestFor(kind) = kind
BY DEF RequestFor, WindowKinds, ArrangeKinds, SessionKinds

\* On every platform, with every window backend, a page offers exactly the
\* commands its provider carries out: none that is enabled is refused as
\* unsupported by execute_action, and none that would work is disabled.
THEOREM PagesOfferTheirHandlers ==
  ASSUME NEW p \in Platforms, NEW target \in Targets
  PROVE  PagesOfferWhatWorks(p, target)
<1>1. ASSUME NEW kind \in ProcessKinds
      PROVE  kind \in PageActions(p, "Processes") <=> CarriedOut(p, kind, target)
  <2>1. CASE OnWindows(p)
    BY <1>1, <2>1, RequestsOfCommands
       DEF ProcessKinds, PageActions, WindowsPageActions, CarriedOut, HandledByProvider,
           HandledOnWindows, LaunchRequests
  <2>2. CASE ~OnWindows(p)
    BY <1>1, <2>2, RequestsOfCommands
       DEF ProcessKinds, PageActions, LinuxPageActions, CarriedOut, HandledByProvider,
           HandledOnLinux, LaunchRequests
  <2> QED
    BY <2>1, <2>2
<1>2. ASSUME NEW kind \in ArrangeKinds \cup {"RunTask"}
      PROVE  kind \in PageActions(p, "Applications") <=> CarriedOut(p, kind, target)
  <2>1. CASE OnWindows(p)
    BY <1>2, <2>1, RequestsOfCommands
       DEF ArrangeKinds, PageActions, WindowsPageActions, CarriedOut, HandledByProvider,
           HandledOnWindows, LaunchRequests
  <2>2. CASE ~OnWindows(p)
    <3>1. ApplicationActions(p) \subseteq WindowKinds
      BY DEF Platforms, ApplicationActions, WlrActions, WindowKinds
    <3>2. kind \in PageActions(p, "Applications") <=> kind = "RunTask"
      BY <1>2, <2>2, <3>1 DEF PageActions, LinuxPageActions, ArrangeKinds, WindowKinds
    <3>3. CarriedOut(p, kind, target) <=> kind = "RunTask"
      BY <1>2, <2>2, RequestsOfCommands
         DEF ArrangeKinds, CarriedOut, HandledByProvider, HandledOnLinux, LaunchRequests
    <3> QED
      BY <3>2, <3>3
  <2> QED
    BY <2>1, <2>2
<1> QED
  BY <1>1, <1>2 DEF PagesOfferWhatWorks

\* So does every row of windows and sessions: a window without a seat to give it
\* the focus, one that KDE does not let be closed, one of a backend that only
\* lists windows, and a session of unknown beginning offer less, and what they
\* offer works; and a row offers nothing its page does not.
THEOREM RowsOfferTheirHandlers ==
  ASSUME NEW p \in Platforms, NEW target \in Targets
  PROVE  RowsOfferWhatWorks(p, target)
<1>1. ASSUME NEW kind \in WindowKinds
      PROVE  kind \in WindowActions(p, target) <=> CarriedOut(p, kind, target)
  <2>0. RequestFor(kind) = "Window"
    BY RequestsOfCommands
  <2>1. CASE OnWindows(p)
    BY <1>1, <2>0, <2>1 DEF WindowActions, CarriedOut, HandledByProvider, HandledOnWindows
  <2>2. CASE ~OnWindows(p)
    <3>1. CarriedOut(p, kind, target) <=> WindowRequestHandled(p, kind, target)
      BY <2>0, <2>2 DEF CarriedOut, HandledByProvider, HandledOnLinux, LaunchRequests
    <3>2. CASE p.backend = "kde"
      BY <2>2, <3>1, <3>2 DEF WindowActions, WindowRequestHandled
    <3>3. CASE p.backend = "x11"
      BY <1>1, <2>2, <3>1, <3>3 DEF WindowActions, WindowRequestHandled, ApplicationActions
    <3>4. CASE p.backend = "wlr"
      <4>1. WindowActions(p, target) = WlrActions(p)
        BY <2>2, <3>4 DEF WindowActions, ApplicationActions
      <4> QED
        BY <1>1, <3>1, <3>4, <4>1 DEF WindowRequestHandled, WlrActions, WindowKinds
    <3>5. CASE p.backend \in {"ext", "gnome", "unavailable"}
      BY <2>2, <3>1, <3>5 DEF WindowActions, WindowRequestHandled, ApplicationActions
    <3> QED
      BY <3>2, <3>3, <3>4, <3>5 DEF Platforms
  <2> QED
    BY <2>1, <2>2
<1>2. ASSUME NEW kind \in SessionKinds
      PROVE  kind \in SessionActions(p, target) <=> CarriedOut(p, kind, target)
  <2>0. RequestFor(kind) = "UserSession"
    BY RequestsOfCommands
  <2> QED
    BY <1>2, <2>0
       DEF SessionActions, CarriedOut, HandledByProvider, HandledOnWindows, HandledOnLinux,
           LaunchRequests
<1>3. WindowActions(p, target) \subseteq PageActions(p, "Applications")
  <2>1. CASE OnWindows(p)
    BY <2>1 DEF WindowActions, PageActions, WindowsPageActions
  <2>2. CASE ~OnWindows(p) /\ p.backend = "kde"
    BY <2>2 DEF WindowActions, PageActions, LinuxPageActions, ApplicationActions,
                ActionsForFlags, WindowKinds
  <2>3. CASE ~OnWindows(p) /\ p.backend # "kde"
    BY <2>3 DEF WindowActions, PageActions, LinuxPageActions
  <2> QED
    BY <2>1, <2>2, <2>3
<1>4. SessionActions(p, target) \subseteq PageActions(p, "Users")
  BY DEF SessionActions, PageActions, WindowsPageActions
<1> QED
  BY <1>1, <1>2, <1>3, <1>4 DEF RowsOfferWhatWorks

\* The helper runs a provider with elevated rights, but carries out only what the
\* page of processes or the row of a session offers without it: its whitelist
\* opens no way to a request the interface has disabled.
THEOREM HelperAddsNothing ==
  ASSUME NEW p \in Platforms, NEW target \in Targets
  PROVE  HelperStaysWithinOffers(p, target)
<1>1. ASSUME NEW kind \in ActionKinds \ {"Refresh"}, HelperCarriesOut(p, kind, target)
      PROVE  kind \in PageActions(p, "Processes") \cup SessionActions(p, target)
  <2>1. CarriedOut(p, kind, target)
        /\ RequestFor(kind) \in {"EndProcess", "SetPriority", "UserSession", "SetAffinity"}
    BY <1>1 DEF HelperCarriesOut, Whitelisted
  <2>2. kind \in ProcessKinds \cup SessionKinds
    BY <1>1, <2>1, RequestsOfCommands DEF ActionKinds, ProcessKinds, SessionKinds
  <2>3. CASE kind \in ProcessKinds
    BY <2>1, <2>3, PagesOfferTheirHandlers DEF PagesOfferWhatWorks
  <2>4. CASE kind \in SessionKinds
    BY <2>1, <2>4, RowsOfferTheirHandlers DEF RowsOfferWhatWorks
  <2> QED
    BY <2>2, <2>3, <2>4
<1> QED
  BY <1>1 DEF HelperStaysWithinOffers

-----------------------------------------------------------------------------
(* NetworkSampler.  What a counter has counted beyond its baseline has passed *)
(* since it was last read, unless that baseline is a guess.                   *)

TrafficTyped ==
  /\ bytes \in [Interfaces -> [Counters -> Nat]]
  /\ flowed \in [Interfaces -> [Counters -> Nat]]
  /\ baseline \in [Interfaces -> {Missing} \cup [Counters -> Nat]]

TrafficCounted ==
  \A i \in Interfaces, c \in Counters :
    baseline[i] # Missing /\ <<i, c>> \notin guessed
      => bytes[i][c] <= baseline[i][c] + flowed[i][c]

TrafficInv == TrafficTyped /\ TrafficCounted /\ NoPhantomTraffic

\* The system moves both sides, or takes the counters back to zero.
LEMMA SystemCounts ==
  ASSUME TrafficInv,
         \/ \E i \in Interfaces, c \in Counters : Transfer(i, c)
         \/ \E i \in Interfaces : PlugOrUnplug(i)
  PROVE  TrafficInv'
<1>1. /\ UNCHANGED <<baseline, rate, carried, guessed>>
      /\ \A i \in Interfaces : baseline[i] # Missing => baseline[i] \in [Counters -> Nat]
      /\ bytes \in [Interfaces -> [Counters -> Nat]]
      /\ flowed \in [Interfaces -> [Counters -> Nat]]
  BY DEF Transfer, PlugOrUnplug, TrafficInv, TrafficTyped
<1>2. ASSUME NEW i \in Interfaces, NEW c \in Counters, Transfer(i, c)
      PROVE  /\ bytes' \in [Interfaces -> [Counters -> Nat]]
             /\ flowed' \in [Interfaces -> [Counters -> Nat]]
             /\ \A j \in Interfaces, d \in Counters :
                  \/ bytes'[j][d] = bytes[j][d] /\ flowed'[j][d] = flowed[j][d]
                  \/ bytes'[j][d] = bytes[j][d] + 1 /\ flowed'[j][d] = flowed[j][d] + 1
  BY <1>1, <1>2 DEF Transfer
<1>3. ASSUME NEW i \in Interfaces, PlugOrUnplug(i)
      PROVE  /\ bytes' \in [Interfaces -> [Counters -> Nat]]
             /\ flowed' = flowed
             /\ \A j \in Interfaces, d \in Counters :
                  bytes'[j][d] = bytes[j][d] \/ bytes'[j][d] = 0
  BY <1>1, <1>3 DEF PlugOrUnplug
<1>4. TrafficTyped'
  BY <1>1, <1>2, <1>3 DEF TrafficInv, TrafficTyped
<1>5. ASSUME NEW j \in Interfaces, NEW d \in Counters, baseline[j] # Missing, <<j, d>> \notin guessed
      PROVE  bytes'[j][d] <= baseline[j][d] + flowed'[j][d]
  <2>1. bytes[j][d] \in Nat /\ flowed[j][d] \in Nat /\ baseline[j][d] \in Nat
    BY <1>1, <1>5
  <2>2. bytes[j][d] <= baseline[j][d] + flowed[j][d]
    BY <1>5 DEF TrafficInv, TrafficCounted
  <2>3. \/ bytes'[j][d] = bytes[j][d] /\ flowed'[j][d] = flowed[j][d]
        \/ bytes'[j][d] = bytes[j][d] + 1 /\ flowed'[j][d] = flowed[j][d] + 1
        \/ bytes'[j][d] = 0 /\ flowed'[j][d] = flowed[j][d]
    BY <1>2, <1>3
  <2> QED
    BY ONLY <2>1, <2>2, <2>3
<1> QED
  BY <1>1, <1>4, <1>5 DEF TrafficInv, TrafficCounted, NoPhantomTraffic

\* A sample takes the counters it reads as the new baseline, and keeps the old one
\* for those it cannot read.
LEMMA SampleNetworkKeeps ==
  ASSUME TrafficInv, SampleNetwork
  PROVE  TrafficInv'
<1> USE NetworkAssumption
<1>1. /\ bytes \in [Interfaces -> [Counters -> Nat]]
      /\ flowed \in [Interfaces -> [Counters -> Nat]]
      /\ \A i \in Interfaces : baseline[i] # Missing => baseline[i] \in [Counters -> Nat]
  BY DEF TrafficInv, TrafficTyped
<1>2. ASSUME NEW i \in Interfaces, NEW c \in Counters
      PROVE  /\ ReadCounter(i, c) = IF <<i, c>> \in readable THEN bytes[i][c] ELSE Missing
             /\ bytes[i][c] \in Nat /\ bytes[i][c] # Missing
             /\ flowed[i][c] \in Nat
             /\ BaselineOf(i)[c] \in Nat
             /\ baseline[i] # Missing => BaselineOf(i)[c] = baseline[i][c]
             /\ OrElse(ReadCounter(i, c), BaselineOf(i)[c]) \in Nat
  BY <1>1 DEF ReadCounter, BaselineOf, OrElse
<1>3. /\ \A i \in Interfaces, c \in Counters :
           /\ rate'[i][c] = IF i \in present THEN CounterRate(i, c) ELSE Missing
           /\ flowed'[i][c] = IF <<i, c>> \in readable THEN 0 ELSE flowed[i][c]
           /\ carried'[i][c] = IF <<i, c>> \in guessed THEN Missing ELSE flowed[i][c]
      /\ \A i \in Interfaces :
           baseline'[i] = IF i \in present
                          THEN [c \in Counters |-> OrElse(ReadCounter(i, c), BaselineOf(i)[c])]
                          ELSE Missing
      /\ bytes' = bytes
  BY DEF SampleNetwork
<1>4. TrafficTyped'
  <2>1. flowed' \in [Interfaces -> [Counters -> Nat]]
    BY <1>1 DEF SampleNetwork
  <2>2. baseline' \in [Interfaces -> {Missing} \cup [Counters -> Nat]]
    <3>1. ASSUME NEW i \in Interfaces PROVE baseline'[i] \in {Missing} \cup [Counters -> Nat]
      <4>1. [c \in Counters |-> OrElse(ReadCounter(i, c), BaselineOf(i)[c])] \in [Counters -> Nat]
        BY <1>2
      <4> QED
        BY <1>3, <4>1
    <3> QED
      BY <3>1 DEF SampleNetwork
  <2> QED
    BY <1>1, <1>3, <2>1, <2>2 DEF TrafficTyped
<1>5. ASSUME NEW i \in Interfaces, NEW c \in Counters, baseline'[i] # Missing, <<i, c>> \notin guessed'
      PROVE  bytes[i][c] <= baseline'[i][c] + flowed'[i][c]
  <2>1. i \in present /\ baseline'[i][c] = OrElse(ReadCounter(i, c), BaselineOf(i)[c])
    BY <1>3, <1>5
  <2>2. CASE <<i, c>> \in readable
    <3>1. baseline'[i][c] = bytes[i][c] /\ flowed'[i][c] = 0
      BY <1>2, <1>3, <2>1, <2>2 DEF OrElse
    <3>2. bytes[i][c] \in Nat
      BY <1>2
    <3> QED
      BY ONLY <3>1, <3>2
  <2>3. CASE <<i, c>> \notin readable
    <3>1. baseline[i] # Missing /\ <<i, c>> \notin guessed
      BY <1>5, <2>1, <2>3 DEF SampleNetwork
    <3>2. baseline'[i][c] = baseline[i][c] /\ flowed'[i][c] = flowed[i][c]
      BY <1>2, <1>3, <2>1, <2>3, <3>1 DEF OrElse
    <3> QED
      BY <3>1, <3>2 DEF TrafficInv, TrafficCounted
  <2> QED
    BY <2>2, <2>3
<1>6. ASSUME NEW i \in Interfaces, NEW c \in Counters, rate'[i][c] # Missing, carried'[i][c] # Missing
      PROVE  rate'[i][c].bytes <= carried'[i][c]
  <2>1. rate'[i][c] = CounterRate(i, c) /\ <<i, c>> \notin guessed /\ carried'[i][c] = flowed[i][c]
    BY <1>3, <1>6
  <2>2. /\ ElapsedFor(i) > 0
        /\ ReadCounter(i, c) # Missing
        /\ rate'[i][c] = [bytes |-> ReadCounter(i, c) - BaselineOf(i)[c], over |-> ElapsedFor(i)]
    BY <1>6, <2>1 DEF CounterRate
  <2>3. baseline[i] # Missing
    BY <2>2 DEF ElapsedFor
  <2>4. rate'[i][c].bytes = bytes[i][c] - baseline[i][c] /\ baseline[i][c] \in Nat
    <3>1. ReadCounter(i, c) = bytes[i][c]
      BY <1>2, <2>2
    <3>2. BaselineOf(i)[c] = baseline[i][c] /\ BaselineOf(i)[c] \in Nat
      BY <1>2, <2>3
    <3>3. rate'[i][c].bytes = ReadCounter(i, c) - BaselineOf(i)[c]
      BY <2>2
    <3> QED
      BY <3>1, <3>2, <3>3
  <2>5. bytes[i][c] <= baseline[i][c] + flowed[i][c]
    BY <2>1, <2>3 DEF TrafficInv, TrafficCounted
  <2> QED
    BY <1>2, <2>1, <2>4, <2>5
<1> QED
  BY <1>3, <1>4, <1>5, <1>6 DEF TrafficInv, TrafficCounted, NoPhantomTraffic

\* For any interfaces that come, go, take over a name and cannot be read for a
\* while, and whatever they counted before: no rate shows more than what passed
\* since its counter was last read.
THEOREM TrafficIsReal == NetworkSpec => []NoPhantomTraffic
<1>1. NetworkInit => TrafficInv
  BY NetworkAssumption
  DEF NetworkInit, TrafficInv, TrafficTyped, TrafficCounted, NoPhantomTraffic, PerCounter
<1>2. TrafficInv /\ [NetworkNext]_networkVars => TrafficInv'
  <2>1. TrafficInv /\ UNCHANGED <<bytes, baseline, rate, flowed, carried, guessed>> => TrafficInv'
    BY DEF TrafficInv, TrafficTyped, TrafficCounted, NoPhantomTraffic
  <2>2. ASSUME NEW i \in Interfaces, NEW c \in Counters, HideOrShow(i, c)
        PROVE  UNCHANGED <<bytes, baseline, rate, flowed, carried, guessed>>
    BY <2>2 DEF HideOrShow
  <2>3. NetworkTick \/ UNCHANGED networkVars => UNCHANGED <<bytes, baseline, rate, flowed, carried, guessed>>
    BY DEF NetworkTick, networkVars
  <2> QED
    BY <2>1, <2>2, <2>3, SystemCounts, SampleNetworkKeeps DEF NetworkNext
<1>3. TrafficInv => NoPhantomTraffic
  BY DEF TrafficInv
<1> QED
  BY <1>1, <1>2, <1>3, PTL DEF NetworkSpec

-----------------------------------------------------------------------------
(* Sums over finite sets.  A property of every finite set is proved as       *)
(* membership in the family of the sets that have it.                        *)

\* A family of sets that has a set whenever it has all its proper subsets has
\* every finite set.
LEMMA SubsetsFirst ==
  ASSUME NEW S, IsFiniteSet(S), NEW P \in SUBSET SUBSET S,
         \A t \in SUBSET S : (\A u \in SUBSET t : u # t => u \in P) => t \in P
  PROVE  S \in P
<1> DEFINE Rest == (SUBSET S) \ P
<1>1. SUFFICES ASSUME S \notin P PROVE FALSE
  OBVIOUS
<1>2. FiniteSubsetsOf(S) = SUBSET S
  BY FS_FiniteSubsetsOfFinite
<1>3. IsWellFoundedOn(StrictSubsetOrdering(S), SUBSET S)
  BY <1>2, FS_StrictSubsetOrderingWellFounded
<1>4. Rest \subseteq SUBSET S /\ Rest # {}
  BY <1>1
<1>5. PICK t \in Rest : \A u \in Rest : <<u, t>> \notin StrictSubsetOrdering(S)
  <2> HIDE DEF Rest
  <2> QED
    BY <1>3, <1>4, WFMin
<1>6. ASSUME NEW u \in SUBSET t, u # t PROVE u \in P
  <2>1. u \in SUBSET S
    BY <1>5
  <2>2. <<u, t>> \in StrictSubsetOrdering(S)
    BY <2>1, <1>5, <1>6 DEF StrictSubsetOrdering
  <2> QED
    BY <2>1, <2>2, <1>5
<1> QED
  BY <1>5, <1>6

Choice(s) == CHOOSE x \in s : TRUE
SumStep(f, g, s) == IF s = {} THEN 0 ELSE f[Choice(s)] + g[s \ {Choice(s)}]
Sums(f, S, g) == g = [s \in SUBSET S |-> SumStep(f, g, s)]

LEMMA ChoiceIn == ASSUME NEW s, s # {} PROVE Choice(s) \in s
  BY DEF Choice

LEMMA SumIsSums ==
  ASSUME NEW f, NEW S
  PROVE  SumFunctionOnSet(f, S) = (CHOOSE g : Sums(f, S, g))[S]
  BY DEF SumFunctionOnSet, FoldFunctionOnSet, MapThenFoldSet, Choice, Sums, SumStep

LEMMA SumsAgree ==
  ASSUME NEW f, NEW S, NEW T, IsFiniteSet(S), NEW g, NEW h,
         Sums(f, S, g), Sums(f, T, h), S \subseteq T
  PROVE  g[S] = h[S]
<1> DEFINE P == {s \in SUBSET S : g[s] = h[s]}
<1>1. ASSUME NEW t \in SUBSET S, \A u \in SUBSET t : u # t => u \in P
      PROVE  t \in P
  <2>1. g[t] = SumStep(f, g, t) /\ h[t] = SumStep(f, h, t)
    BY DEF Sums
  <2>2. CASE t = {}
    BY <2>1, <2>2 DEF SumStep
  <2>3. CASE t # {}
    <3>1. t \ {Choice(t)} \in P
      BY <1>1, <2>3, ChoiceIn
    <3> QED
      BY <2>1, <2>3, <3>1 DEF SumStep
  <2> QED
    BY <2>2, <2>3
<1> HIDE DEF P
<1>2. P \in SUBSET SUBSET S
  BY DEF P
<1>3. S \in P
  BY <1>1, <1>2, SubsetsFirst
<1> QED
  BY <1>3 DEF P

LEMMA SumsExist ==
  ASSUME NEW f, NEW S, IsFiniteSet(S)
  PROVE  \E g : Sums(f, S, g)
<1> DEFINE P == {s \in SUBSET S : \E g : Sums(f, s, g)}
           Of(s) == CHOOSE g : Sums(f, s, g)
<1>1. ASSUME NEW t \in SUBSET S, \A u \in SUBSET t : u # t => u \in P
      PROVE  t \in P
  <2> DEFINE h == [s \in SUBSET t |-> IF s = {} THEN 0
                                      ELSE f[Choice(s)] + Of(s \ {Choice(s)})[s \ {Choice(s)}]]
  <2>1. ASSUME NEW u \in SUBSET t, u # t PROVE Sums(f, u, Of(u))
    <3>1. \E g : Sums(f, u, g)
      BY <1>1, <2>1
    <3> QED
      BY <3>1
  <2>2. ASSUME NEW u \in SUBSET t, u # t PROVE h[u] = Of(u)[u]
    <3>1. Sums(f, u, Of(u))
      BY <2>1, <2>2
    <3>2. Of(u)[u] = SumStep(f, Of(u), u)
      BY <3>1 DEF Sums
    <3>3. CASE u = {}
      BY <3>2, <3>3 DEF SumStep
    <3>4. CASE u # {}
      <4> DEFINE v == u \ {Choice(u)}
      <4>1. v \in SUBSET t /\ v # t /\ v \subseteq u
        BY <3>4, ChoiceIn
      <4>2. Sums(f, v, Of(v))
        BY <4>1, <2>1
      <4>3. IsFiniteSet(v)
        BY <4>1, FS_Subset
      <4>4. Of(v)[v] = Of(u)[v]
        <5> HIDE DEF Of, v
        <5> QED
          BY <4>1, <4>2, <4>3, <3>1, SumsAgree
      <4>5. h[u] = f[Choice(u)] + Of(v)[v]
        BY <3>4
      <4>6. Of(u)[u] = f[Choice(u)] + Of(u)[v]
        BY <3>2, <3>4 DEF SumStep
      <4> QED
        BY <4>4, <4>5, <4>6
    <3> QED
      BY <3>3, <3>4
  <2>3. ASSUME NEW s \in SUBSET t PROVE h[s] = SumStep(f, h, s)
    <3>1. CASE s = {}
      BY <3>1 DEF SumStep
    <3>2. CASE s # {}
      <4> DEFINE v == s \ {Choice(s)}
      <4>1. v \in SUBSET t /\ v # t
        BY <3>2, ChoiceIn
      <4>2. h[v] = Of(v)[v]
        BY <4>1, <2>2
      <4>3. h[s] = f[Choice(s)] + Of(v)[v]
        BY <3>2
      <4> HIDE DEF h
      <4> QED
        BY <4>2, <4>3, <3>2 DEF SumStep
    <3> QED
      BY <3>1, <3>2
  <2>4. h = [s \in SUBSET t |-> h[s]]
    OBVIOUS
  <2> HIDE DEF h
  <2>5. Sums(f, t, h)
    BY <2>3, <2>4 DEF Sums
  <2> QED
    BY <2>5
<1> HIDE DEF P
<1>2. P \in SUBSET SUBSET S
  BY DEF P
<1>3. S \in P
  BY <1>1, <1>2, SubsetsFirst
<1> QED
  BY <1>3 DEF P

\* Nothing adds up to 0, and otherwise the chosen element is added to the rest.
LEMMA SumUnfolds ==
  ASSUME NEW f, NEW S, IsFiniteSet(S)
  PROVE  /\ S = {} => SumFunctionOnSet(f, S) = 0
         /\ S # {} => SumFunctionOnSet(f, S)
                        = f[Choice(S)] + SumFunctionOnSet(f, S \ {Choice(S)})
<1> DEFINE Of(s) == CHOOSE g : Sums(f, s, g)
           rest == S \ {Choice(S)}
<1>1. Sums(f, S, Of(S)) /\ SumFunctionOnSet(f, S) = Of(S)[S]
  BY SumsExist, SumIsSums
<1>2. Of(S)[S] = SumStep(f, Of(S), S)
  BY <1>1 DEF Sums
<1>3. IsFiniteSet(rest) /\ rest \subseteq S
  BY FS_Subset
<1>4. Sums(f, rest, Of(rest)) /\ SumFunctionOnSet(f, rest) = Of(rest)[rest]
  BY <1>3, SumsExist, SumIsSums
<1>5. Of(rest)[rest] = Of(S)[rest]
  <2> HIDE DEF Of, rest
  <2> QED
    BY <1>1, <1>3, <1>4, SumsAgree
<1> HIDE DEF Of
<1> QED
  BY <1>1, <1>2, <1>4, <1>5 DEF SumStep
LEMMA SumType ==
  ASSUME NEW f, NEW S, IsFiniteSet(S), \A x \in S : f[x] \in Nat
  PROVE  SumFunctionOnSet(f, S) \in Nat
<1> DEFINE P == {s \in SUBSET S : SumFunctionOnSet(f, s) \in Nat}
<1>1. ASSUME NEW t \in SUBSET S, \A u \in SUBSET t : u # t => u \in P
      PROVE  t \in P
  <2>1. IsFiniteSet(t)
    BY FS_Subset
  <2>2. CASE t = {}
    <3>1. SumFunctionOnSet(f, t) = 0
      BY <2>1, <2>2, SumUnfolds
    <3> QED
      BY <3>1
  <2>3. CASE t # {}
    <3>1. t \ {Choice(t)} \in P /\ f[Choice(t)] \in Nat
      BY <1>1, <2>3, ChoiceIn
    <3>2. SumFunctionOnSet(f, t) = f[Choice(t)] + SumFunctionOnSet(f, t \ {Choice(t)})
      BY <2>1, <2>3, SumUnfolds
    <3> QED
      BY <3>1, <3>2
  <2> QED
    BY <2>2, <2>3
<1> HIDE DEF P
<1>2. P \in SUBSET SUBSET S
  BY DEF P
<1>3. S \in P
  BY <1>1, <1>2, SubsetsFirst
<1> QED
  BY <1>3 DEF P

\* Any element may be taken out first.
LEMMA SumWithout ==
  ASSUME NEW f, NEW S, IsFiniteSet(S), \A x \in S : f[x] \in Nat, NEW a \in S
  PROVE  SumFunctionOnSet(f, S) = f[a] + SumFunctionOnSet(f, S \ {a})
<1> DEFINE P == {s \in SUBSET S : \A x \in s :
                   SumFunctionOnSet(f, s) = f[x] + SumFunctionOnSet(f, s \ {x})}
<1>1. ASSUME NEW t \in SUBSET S, \A u \in SUBSET t : u # t => u \in P
      PROVE  t \in P
  <2>1. SUFFICES ASSUME NEW x \in t
                 PROVE  SumFunctionOnSet(f, t) = f[x] + SumFunctionOnSet(f, t \ {x})
    OBVIOUS
  <2> DEFINE c == Choice(t)
  <2>2. IsFiniteSet(t) /\ c \in t
    BY FS_Subset, ChoiceIn
  <2>3. SumFunctionOnSet(f, t) = f[c] + SumFunctionOnSet(f, t \ {c})
    BY <2>2, SumUnfolds
  <2>4. CASE x = c
    BY <2>3, <2>4
  <2>5. CASE x # c
    <3>1. t \ {c} \in P /\ t \ {x} \in P /\ x \in t \ {c} /\ c \in t \ {x}
      BY <1>1, <2>1, <2>2, <2>5
    <3>2. SumFunctionOnSet(f, t \ {c}) = f[x] + SumFunctionOnSet(f, (t \ {c}) \ {x})
      BY <3>1
    <3>3. SumFunctionOnSet(f, t \ {x}) = f[c] + SumFunctionOnSet(f, (t \ {x}) \ {c})
      BY <3>1
    <3>4. (t \ {c}) \ {x} = (t \ {x}) \ {c}
      OBVIOUS
    <3>5. f[x] \in Nat /\ f[c] \in Nat /\ SumFunctionOnSet(f, (t \ {x}) \ {c}) \in Nat
      <4>1. (t \ {x}) \ {c} \subseteq S
        OBVIOUS
      <4> QED
        BY <2>1, <2>2, <4>1, FS_Subset, SumType
    <3> HIDE DEF c
    <3> QED
      BY <2>3, <3>2, <3>3, <3>4, <3>5
  <2> QED
    BY <2>4, <2>5
<1> HIDE DEF P
<1>2. P \in SUBSET SUBSET S
  BY DEF P
<1>3. S \in P
  BY <1>1, <1>2, SubsetsFirst
<1> QED
  BY <1>3 DEF P

\* A sum depends on the values summed only, and grows with them.
LEMMA SumPointwise ==
  ASSUME NEW f, NEW g, NEW S, IsFiniteSet(S),
         \A x \in S : f[x] \in Nat /\ g[x] \in Nat /\ f[x] <= g[x]
  PROVE  SumFunctionOnSet(f, S) <= SumFunctionOnSet(g, S)
<1> DEFINE P == {s \in SUBSET S : SumFunctionOnSet(f, s) <= SumFunctionOnSet(g, s)}
<1>1. ASSUME NEW t \in SUBSET S, \A u \in SUBSET t : u # t => u \in P
      PROVE  t \in P
  <2>1. IsFiniteSet(t)
    BY FS_Subset
  <2>2. CASE t = {}
    <3>1. SumFunctionOnSet(f, t) = 0 /\ SumFunctionOnSet(g, t) = 0
      BY <2>1, <2>2, SumUnfolds
    <3> QED
      BY <3>1
  <2>3. CASE t # {}
    <3> DEFINE c == Choice(t)
               r == t \ {c}
    <3>1. r \in P /\ c \in S /\ r \subseteq S
      BY <1>1, <2>3, ChoiceIn
    <3>2. IsFiniteSet(r)
      BY <3>1, FS_Subset
    <3>3. SumFunctionOnSet(f, r) \in Nat /\ SumFunctionOnSet(g, r) \in Nat
      <4>1. \A x \in r : f[x] \in Nat /\ g[x] \in Nat
        BY <3>1
      <4> HIDE DEF r
      <4> QED
        BY <3>2, <4>1, SumType
    <3>4. SumFunctionOnSet(f, t) = f[c] + SumFunctionOnSet(f, r)
      BY <2>1, <2>3, SumUnfolds
    <3>5. SumFunctionOnSet(g, t) = g[c] + SumFunctionOnSet(g, r)
      BY <2>1, <2>3, SumUnfolds
    <3>6. SumFunctionOnSet(f, r) <= SumFunctionOnSet(g, r)
      BY <3>1
    <3>7. f[c] \in Nat /\ g[c] \in Nat /\ f[c] <= g[c]
      BY <3>1
    <3> HIDE DEF c, r
    <3> QED
      BY <3>3, <3>4, <3>5, <3>6, <3>7
  <2> QED
    BY <2>2, <2>3
<1> HIDE DEF P
<1>2. P \in SUBSET SUBSET S
  BY DEF P
<1>3. S \in P
  BY <1>1, <1>2, SubsetsFirst
<1> QED
  BY <1>3 DEF P

LEMMA SumOfSame ==
  ASSUME NEW f, NEW g, NEW S, IsFiniteSet(S), \A x \in S : f[x] \in Nat /\ f[x] = g[x]
  PROVE  SumFunctionOnSet(f, S) = SumFunctionOnSet(g, S)
<1>1. \A x \in S : f[x] <= g[x] /\ g[x] <= f[x] /\ g[x] \in Nat
  OBVIOUS
<1>2. SumFunctionOnSet(f, S) <= SumFunctionOnSet(g, S)
  BY <1>1, SumPointwise
<1>3. SumFunctionOnSet(g, S) <= SumFunctionOnSet(f, S)
  BY <1>1, SumPointwise
<1>4. SumFunctionOnSet(f, S) \in Nat /\ SumFunctionOnSet(g, S) \in Nat
  BY <1>1, SumType
<1> QED
  BY <1>2, <1>3, <1>4

\* A part and what is left of it.
LEMMA SumSplits ==
  ASSUME NEW f, NEW S, IsFiniteSet(S), \A x \in S : f[x] \in Nat, NEW T \in SUBSET S
  PROVE  SumFunctionOnSet(f, S) = SumFunctionOnSet(f, T) + SumFunctionOnSet(f, S \ T)
<1> DEFINE P == {s \in SUBSET T : SumFunctionOnSet(f, S)
                                    = SumFunctionOnSet(f, s) + SumFunctionOnSet(f, S \ s)}
<1>0. IsFiniteSet(T)
  BY FS_Subset
<1>1. ASSUME NEW t \in SUBSET T, \A u \in SUBSET t : u # t => u \in P
      PROVE  t \in P
  <2>1. IsFiniteSet(t)
    BY <1>0, FS_Subset
  <2>2. CASE t = {}
    <3>1. S \ t = S /\ SumFunctionOnSet(f, t) = 0
      BY <2>1, <2>2, SumUnfolds
    <3>2. SumFunctionOnSet(f, S) \in Nat
      BY SumType
    <3> QED
      BY <3>1, <3>2
  <2>3. CASE t # {}
    <3> DEFINE c == Choice(t)
               r == t \ {c}
    <3>1. r \in P /\ c \in S /\ c \in t /\ r \subseteq S
      BY <1>1, <2>3, ChoiceIn
    <3>2. IsFiniteSet(r) /\ IsFiniteSet(S \ r) /\ IsFiniteSet(S \ t)
      BY <3>1, FS_Subset, FS_Difference
    <3>3. SumFunctionOnSet(f, t) = f[c] + SumFunctionOnSet(f, r)
      BY <2>1, <2>3, SumUnfolds
    <3>4. (S \ r) \ {c} = S \ t /\ c \in S \ r
      BY <3>1
    <3>5. SumFunctionOnSet(f, S \ r) = f[c] + SumFunctionOnSet(f, S \ t)
      <4>1. \A x \in S \ r : f[x] \in Nat
        OBVIOUS
      <4> HIDE DEF c, r
      <4>2. SumFunctionOnSet(f, S \ r) = f[c] + SumFunctionOnSet(f, (S \ r) \ {c})
        BY <3>2, <3>4, <4>1, SumWithout
      <4>3. SumFunctionOnSet(f, (S \ r) \ {c}) = SumFunctionOnSet(f, S \ t)
        BY <3>4, Zenon
      <4> QED
        BY <4>2, <4>3
    <3>6. SumFunctionOnSet(f, S) = SumFunctionOnSet(f, r) + SumFunctionOnSet(f, S \ r)
      BY <3>1
    <3>7. f[c] \in Nat /\ SumFunctionOnSet(f, r) \in Nat /\ SumFunctionOnSet(f, S \ t) \in Nat
      <4>1. (\A x \in r : f[x] \in Nat) /\ (\A x \in S \ t : f[x] \in Nat) /\ f[c] \in Nat
        BY <3>1
      <4> HIDE DEF c, r
      <4> QED
        BY <3>2, <4>1, SumType
    <3>8. SumFunctionOnSet(f, S) = SumFunctionOnSet(f, t) + SumFunctionOnSet(f, S \ t)
      <4> HIDE DEF c, r
      <4> QED
        BY <3>3, <3>4, <3>5, <3>6, <3>7
    <3> QED
      BY <3>8
  <2> QED
    BY <2>2, <2>3
<1> HIDE DEF P
<1>2. P \in SUBSET SUBSET T
  BY DEF P
<1>3. T \in P
  BY <1>0, <1>1, <1>2, SubsetsFirst
<1> QED
  BY <1>3 DEF P

-----------------------------------------------------------------------------
(* IconCache: the counter, the limits, and denials that expire.            *)

NatBelow == {p \in Nat \X Nat : p[1] < p[2]}

LEMMA LeastNatural ==
  ASSUME NEW T \in SUBSET Nat, T # {}
  PROVE  \E x \in T : \A y \in T : x <= y
<1>1. IsWellFoundedOn(NatBelow, Nat)
  BY NatLessThanWellFounded DEF OpToRel, NatBelow
<1>2. \E x \in T : \A y \in T : <<y, x>> \notin NatBelow
  BY <1>1, WFMin
<1>3. ASSUME NEW x \in T, NEW y \in T, <<y, x>> \notin NatBelow
      PROVE  x <= y
  <2>1. <<y, x>> \in Nat \X Nat /\ <<y, x>>[1] = y /\ <<y, x>>[2] = x
    OBVIOUS
  <2>2. ~(y < x)
    BY <1>3, <2>1 DEF NatBelow
  <2> QED
    BY <2>2, SMT
<1> QED
  BY <1>2, <1>3

LEMMA MinOfTwo ==
  ASSUME NEW a \in Nat, NEW b \in Nat
  PROVE  Min({a, b}) \in {a, b} /\ Min({a, b}) <= a /\ Min({a, b}) <= b
<1>1. \E x \in {a, b} : \A y \in {a, b} : x <= y
  <2>1. a <= b \/ b <= a
    OBVIOUS
  <2> QED
    BY <2>1
<1> QED
  BY <1>1 DEF Min

IsEntry(e) == e \in [bytes : 0..CacheBytes, used : Nat, expires : Nat]
IsCache(c) == DOMAIN c \subseteq IconNames /\ \A n \in DOMAIN c : IsEntry(c[n])

IconTypeOK ==
  /\ installed \in [IconNames -> Nat] /\ since \in [IconNames -> Nat]
  /\ clock \in 0..ClockLimit
  /\ lookups \in Nat
  /\ IsCache(cache)

\* An empty entry expires before the accesses since it was made, or since its
\* name got an icon, reach the length of an expiry.
DenialsExpire ==
  \A n \in DOMAIN cache : cache[n].bytes = 0 =>
    cache[n].expires # 0 /\ since[n] + cache[n].expires <= clock + NegativeTtl

IconInv == IconTypeOK /\ DenialsExpire /\ CacheSound

LEMMA BytesFinite ==
  ASSUME NEW c, IsCache(c), NEW names \in SUBSET DOMAIN c
  PROVE  /\ IsFiniteSet(names) /\ IsFiniteSet(DOMAIN c)
         /\ \A n \in DOMAIN c : [m \in DOMAIN c |-> c[m].bytes][n] = c[n].bytes /\ c[n].bytes \in Nat
<1>1. IsFiniteSet(DOMAIN c)
  BY IconAssumption, FS_Subset DEF IsCache
<1>2. IsFiniteSet(names)
  BY <1>1, FS_Subset
<1>3. CacheBytes \in Nat
  BY IconAssumption
<1>4. \A n \in DOMAIN c : c[n].bytes \in Nat
  BY <1>3 DEF IsCache, IsEntry
<1> QED
  BY <1>1, <1>2, <1>4

LEMMA BytesType ==
  ASSUME NEW c, IsCache(c), NEW names \in SUBSET DOMAIN c
  PROVE  Bytes(c, names) \in Nat
BY BytesFinite, SumType DEF Bytes

\* A part and what is left of it.
LEMMA BytesSplit ==
  ASSUME NEW c, IsCache(c), NEW names \in SUBSET DOMAIN c
  PROVE  Bytes(c, DOMAIN c) = Bytes(c, names) + Bytes(c, DOMAIN c \ names)
<1> DEFINE f == [m \in DOMAIN c |-> c[m].bytes]
<1>1. IsFiniteSet(DOMAIN c) /\ \A n \in DOMAIN c : f[n] \in Nat
  BY BytesFinite
<1> HIDE DEF f
<1>2. SumFunctionOnSet(f, DOMAIN c)
        = SumFunctionOnSet(f, names) + SumFunctionOnSet(f, DOMAIN c \ names)
  BY <1>1, SumSplits
<1> QED
  BY <1>2 DEF Bytes, f

\* Entries of the same size.
LEMMA BytesOfSame ==
  ASSUME NEW c, NEW d, IsCache(c), IsCache(d), NEW names,
         names \subseteq DOMAIN c, names \subseteq DOMAIN d,
         \A n \in names : c[n].bytes = d[n].bytes
  PROVE  Bytes(c, names) = Bytes(d, names)
<1> DEFINE f == [m \in DOMAIN c |-> c[m].bytes]
           g == [m \in DOMAIN d |-> d[m].bytes]
<1>1. IsFiniteSet(names) /\ \A n \in names : f[n] \in Nat /\ f[n] = g[n]
  BY BytesFinite
<1> HIDE DEF f, g
<1>2. SumFunctionOnSet(f, names) = SumFunctionOnSet(g, names)
  BY <1>1, SumOfSame
<1> QED
  BY <1>2 DEF Bytes, f, g

\* What fits still fits when some of it is gone.
LEMMA FewerFit ==
  ASSUME NEW c, IsCache(c), NEW names \in SUBSET DOMAIN c, NEW fewer \in SUBSET names,
         Fits(c, names)
  PROVE  Fits(c, fewer)
<1> DEFINE f == [m \in DOMAIN c |-> c[m].bytes]
<1>1. IsFiniteSet(names) /\ \A n \in names : f[n] \in Nat
  BY BytesFinite
<1>2. IsFiniteSet(fewer) /\ IsFiniteSet(names \ fewer) /\ Cardinality(fewer) <= Cardinality(names)
  BY <1>1, FS_Subset, FS_Difference
<1>3. Cardinality(fewer) \in Nat /\ Cardinality(names) \in Nat
  BY <1>1, <1>2, FS_CardinalityType
<1> HIDE DEF f
<1>4. SumFunctionOnSet(f, names) = SumFunctionOnSet(f, fewer) + SumFunctionOnSet(f, names \ fewer)
  BY <1>1, SumSplits
<1>5. SumFunctionOnSet(f, fewer) \in Nat /\ SumFunctionOnSet(f, names \ fewer) \in Nat
  BY <1>1, <1>2, SumType
<1>6. Bytes(c, names) = SumFunctionOnSet(f, names) /\ Bytes(c, fewer) = SumFunctionOnSet(f, fewer)
  BY DEF Bytes, f
<1>7. CacheEntries \in Nat /\ CacheBytes \in Nat
  BY IconAssumption
<1> QED
  BY <1>2, <1>3, <1>4, <1>5, <1>6, <1>7 DEF Fits

\* All survivors fit together: they were used since the oldest of them was.
LEMMA SurvivorsFit ==
  ASSUME NEW c, IsCache(c)
  PROVE  Fits(c, Survivors(c))
<1>1. CASE Survivors(c) = {}
  <2>1. IsFiniteSet({}) /\ Cardinality({}) = 0
    BY FS_EmptySet
  <2>2. Bytes(c, {}) = 0
    BY <2>1, SumUnfolds DEF Bytes
  <2>3. CacheEntries \in Nat /\ CacheBytes \in Nat
    BY IconAssumption
  <2> QED
    BY <1>1, <2>1, <2>2, <2>3 DEF Fits
<1>2. CASE Survivors(c) # {}
  <2> DEFINE S == Survivors(c)
             uses == {c[n].used : n \in S}
  <2>1. S \subseteq DOMAIN c
    BY DEF Survivors
  <2>2. uses \subseteq Nat /\ uses # {}
    BY <1>2, <2>1 DEF IsCache, IsEntry
  <2>3. PICK first \in uses : \A t \in uses : first <= t
    <3> HIDE DEF uses
    <3> QED
      BY <2>2, LeastNatural
  <2> DEFINE firsts == {n \in S : c[n].used = first}
  <2>4. firsts \subseteq Nat /\ firsts # {}
    BY <2>1, <2>3, IconAssumption DEF IsCache
  <2>5. PICK oldest \in firsts : \A n \in firsts : oldest <= n
    <3> HIDE DEF firsts
    <3> QED
      BY <2>4, LeastNatural
  <2>6. oldest \in S /\ oldest \in Nat /\ c[oldest].used = first
    BY <2>4, <2>5
  <2>7. ASSUME NEW m \in S PROVE m \in NewerThan(c, oldest)
    <3>1. c[m].used \in Nat /\ c[oldest].used \in Nat /\ m \in Nat
      BY <2>1, <2>6, IconAssumption DEF IsCache, IsEntry
    <3>2. c[oldest].used <= c[m].used
      BY <2>3, <2>6
    <3>3. CASE c[m].used = first
      <4>1. oldest <= m
        BY <2>5, <3>3
      <4> QED
        BY <2>1, <2>6, <3>1, <3>3, <4>1 DEF NewerThan
    <3>4. CASE c[m].used # first
      <4>1. c[m].used > c[oldest].used
        BY <2>6, <3>1, <3>2, <3>4
      <4> QED
        BY <2>1, <4>1 DEF NewerThan
    <3> QED
      BY <3>3, <3>4
  <2>8. Fits(c, NewerThan(c, oldest))
    BY <2>6 DEF Survivors
  <2>9. NewerThan(c, oldest) \in SUBSET DOMAIN c /\ S \in SUBSET NewerThan(c, oldest)
    BY <2>7 DEF NewerThan
  <2> HIDE DEF S
  <2>10. Fits(c, S)
    BY <2>8, <2>9, FewerFit
  <2> QED
    BY <2>10 DEF S
<1> QED
  BY <1>1, <1>2

\* What is left of the cache once the expired entry is removed.
KeptFor(n) == IF Expired(n) THEN Restrict(Accessed, DOMAIN Accessed \ {n}) ELSE Accessed

LEMMA KeptEntries ==
  ASSUME IconInv, NEW n \in IconNames
  PROVE  /\ DOMAIN KeptFor(n) \subseteq DOMAIN cache
         /\ \A m \in DOMAIN KeptFor(n) : KeptFor(n)[m] = cache[m] /\ clock # ClockLimit
         /\ clock = ClockLimit => DOMAIN KeptFor(n) = {}
         /\ n \in DOMAIN KeptFor(n) => ~Expired(n)
         /\ IsCache(KeptFor(n))
<1>1. CASE clock = ClockLimit
  <2>1. Accessed = <<>> /\ DOMAIN Accessed = {}
    BY <1>1 DEF Accessed
  <2>2. KeptFor(n) = Accessed
    BY <2>1 DEF KeptFor, Expired
  <2> QED
    BY <2>1, <2>2 DEF IsCache
<1>2. CASE clock # ClockLimit
  <2>1. Accessed = cache
    BY <1>2 DEF Accessed
  <2>2. IsCache(cache)
    BY DEF IconInv, IconTypeOK
  <2>3. CASE Expired(n)
    <3>1. KeptFor(n) = [m \in DOMAIN cache \ {n} |-> cache[m]]
      BY <2>1, <2>3 DEF KeptFor, Restrict
    <3> QED
      BY <1>2, <2>2, <3>1 DEF IsCache
  <2>4. CASE ~Expired(n)
    BY <1>2, <2>1, <2>2, <2>4 DEF KeptFor
  <2> QED
    BY <2>3, <2>4
<1> QED
  BY <1>1, <1>2

LEMMA KeptCounted ==
  ASSUME IconInv, NEW n \in IconNames
  PROVE  /\ Counted(KeptFor(n)) = Bytes(KeptFor(n), DOMAIN KeptFor(n))
         /\ Fits(KeptFor(n), DOMAIN KeptFor(n))
<1> DEFINE kept == KeptFor(n)
           names == DOMAIN kept
<1>1. /\ names \in SUBSET DOMAIN cache /\ IsCache(kept) /\ IsCache(cache)
      /\ \A m \in names : kept[m].bytes = cache[m].bytes
  BY KeptEntries DEF IconInv, IconTypeOK
<1>2. clock = ClockLimit => names = {}
  BY KeptEntries
<1> HIDE DEF kept, names
<1>3. Bytes(kept, names) = Bytes(cache, names)
  <2>1. names = DOMAIN kept
    BY DEF names
  <2> QED
    BY <1>1, <2>1, BytesOfSame
<1>4. Fits(cache, names) /\ Fits(kept, names)
  <2>1. Fits(cache, DOMAIN cache)
    BY DEF IconInv, CacheSound
  <2>2. Fits(cache, names)
    BY <1>1, <2>1, FewerFit
  <2> QED
    BY <1>3, <2>2 DEF Fits
<1>5. Counted(kept) = Bytes(kept, names)
  <2>1. CASE clock = ClockLimit
    <3>1. IsFiniteSet({})
      BY FS_EmptySet
    <3>2. Bytes(kept, {}) = 0
      BY <3>1, SumUnfolds DEF Bytes
    <3> QED
      BY <1>2, <2>1, <3>2 DEF Counted
  <2>2. CASE clock # ClockLimit
    <3>1. Bytes(cache, DOMAIN cache) = Bytes(cache, names) + Bytes(cache, DOMAIN cache \ names)
      BY <1>1, BytesSplit
    <3>2. Bytes(cache, names) \in Nat /\ Bytes(cache, DOMAIN cache \ names) \in Nat
      BY <1>1, BytesType
    <3>3. cacheBytes = Bytes(cache, DOMAIN cache)
      BY DEF IconInv, CacheSound
    <3>4. Counted(kept) = cacheBytes - Bytes(cache, DOMAIN cache \ names)
      BY <2>2 DEF Counted, names
    <3> QED
      BY <1>3, <3>1, <3>2, <3>3, <3>4
  <2> QED
    BY <2>1, <2>2
<1> QED
  BY <1>4, <1>5 DEF names, kept

\* The counter and the limits after an entry was added and others were evicted.
LEMMA InsertCounts ==
  ASSUME NEW c, IsCache(c), NEW n \in IconNames, n \notin DOMAIN c, NEW size \in Nat,
         NEW access \in Nat \ {0}, ClockLimit \in Nat \ {0},
         Counted(c) = Bytes(c, DOMAIN c), Fits(c, DOMAIN c), Insert(c, n, size, access)
  PROVE  /\ IsCache(cache')
         /\ cacheBytes' = Bytes(cache', DOMAIN cache')
         /\ Fits(cache', DOMAIN cache')
         /\ DOMAIN cache' \subseteq DOMAIN c \cup {n}
         /\ \A m \in DOMAIN cache' : m # n => cache'[m] = c[m]
         /\ n \in DOMAIN cache' => /\ cache'[n].bytes = size
                                   /\ size = 0 => /\ cache'[n].expires # 0
                                                  /\ cache'[n].expires <= access + NegativeTtl
<1>1. CASE size > CacheBytes
  BY <1>1 DEF Insert
<1>2. CASE ~(size > CacheBytes)
  <2> DEFINE expiry == IF size = 0 THEN Min({access + NegativeTtl, ClockLimit}) ELSE 0
             entry == [bytes |-> size, used |-> access, expires |-> expiry]
             new == [m \in DOMAIN c \cup {n} |-> IF m # n THEN c[m] ELSE entry]
             S == Survivors(new)
             D == DOMAIN new
  <2>1. cache' = Restrict(new, S) /\ cacheBytes' = Counted(c) + size - Bytes(new, D \ S)
    BY <1>2 DEF Insert
  <2>2. CacheBytes \in Nat /\ NegativeTtl \in Nat
    BY IconAssumption
  <2>3. /\ expiry \in Nat
        /\ size = 0 => expiry # 0 /\ expiry <= access + NegativeTtl
    <3>1. access + NegativeTtl \in Nat \ {0}
      BY <2>2
    <3>2. Min({access + NegativeTtl, ClockLimit}) \in Nat \ {0}
          /\ Min({access + NegativeTtl, ClockLimit}) <= access + NegativeTtl
      BY <3>1, MinOfTwo
    <3> QED
      BY <3>2
  <2> HIDE DEF expiry
  <2>4. IsEntry(entry)
    BY <1>2, <2>2, <2>3 DEF IsEntry
  <2>5. D = DOMAIN c \cup {n} /\ new[n] = entry /\ \A m \in DOMAIN c : new[m] = c[m]
    OBVIOUS
  <2>6. IsCache(new)
    BY <2>4, <2>5 DEF IsCache
  <2>7. S \in SUBSET D
    BY DEF Survivors
  <2>8. cache' = [m \in S |-> new[m]]
    BY <2>1 DEF Restrict
  <2> HIDE DEF new, S
  <2>9. IsCache(cache') /\ DOMAIN cache' = S
    BY <2>6, <2>7, <2>8 DEF IsCache
  <2>10. Bytes(cache', S) = Bytes(new, S)
    <3>1. \A m \in S : cache'[m].bytes = new[m].bytes
      BY <2>8
    <3> QED
      BY <2>6, <2>7, <2>9, <3>1, BytesOfSame
  <2>11. Fits(cache', DOMAIN cache')
    <3>1. Fits(new, S)
      BY <2>6, SurvivorsFit DEF S
    <3> QED
      BY <2>9, <2>10, <3>1 DEF Fits
  <2>12. Bytes(new, D) = Bytes(c, DOMAIN c) + size
    <3> DEFINE f == [m \in D |-> new[m].bytes]
    <3>1. IsFiniteSet(D) /\ n \in D /\ \A m \in D : f[m] \in Nat
      BY <2>5, <2>6, BytesFinite
    <3>2. f[n] = size
      BY <2>5
    <3>3. D \ {n} = DOMAIN c
      BY <2>5
    <3>4. Bytes(new, D) = SumFunctionOnSet(f, D)
      BY DEF Bytes
    <3>5. SumFunctionOnSet(f, DOMAIN c) = Bytes(new, DOMAIN c)
      BY DEF Bytes
    <3> HIDE DEF f, D
    <3>6. SumFunctionOnSet(f, D) = f[n] + SumFunctionOnSet(f, DOMAIN c)
      BY <3>1, <3>3, SumWithout
    <3>7. Bytes(new, DOMAIN c) = Bytes(c, DOMAIN c)
      BY <2>5, <2>6, BytesOfSame DEF D
    <3>8. Bytes(c, DOMAIN c) \in Nat
      BY BytesType
    <3> QED
      BY <3>2, <3>4, <3>5, <3>6, <3>7, <3>8
  <2>13. Bytes(new, D) = Bytes(new, S) + Bytes(new, D \ S)
    BY <2>6, <2>7, BytesSplit
  <2>14. Bytes(new, S) \in Nat /\ Bytes(new, D \ S) \in Nat /\ Bytes(c, DOMAIN c) \in Nat
    BY <2>6, <2>7, BytesType
  <2>15. cacheBytes' = Bytes(cache', DOMAIN cache')
    <3>1. cacheBytes' = Bytes(new, S)
      BY <2>1, <2>12, <2>13, <2>14
    <3>2. Bytes(cache', DOMAIN cache') = Bytes(cache', S)
      BY <2>9
    <3> QED
      BY <3>1, <3>2, <2>10
  <2>16. \A m \in S : cache'[m] = new[m] /\ m \in D
    BY <2>7, <2>8
  <2> QED
    BY <2>3, <2>5, <2>9, <2>11, <2>15, <2>16
<1> QED
  BY <1>1, <1>2

LEMMA ResolveKeepsTypes ==
  ASSUME IconInv, NEW n \in IconNames, Resolve(n)
  PROVE  /\ clock' \in 1..ClockLimit
         /\ since' \in [IconNames -> Nat]
         /\ \A m \in IconNames : since'[m] <= since[m] + 1
         /\ \A m \in IconNames : since'[m] <= NegativeTtl
<1>1. /\ ClockLimit \in Nat \ {0} /\ NegativeTtl \in Nat /\ clock \in 0..ClockLimit
      /\ since \in [IconNames -> Nat]
  BY IconAssumption DEF IconInv, IconTypeOK
<1>2. clock' = Access
  BY DEF Resolve
<1>3. clock' \in 1..ClockLimit
  BY <1>1, <1>2 DEF Access
<1>4. since' = [m \in IconNames |->
                  IF installed[m] = 0 \/ (m = n /\ lookups' # lookups) THEN 0
                  ELSE Min({since[m] + 1, NegativeTtl})]
  BY DEF Resolve
<1>5. ASSUME NEW m \in IconNames
      PROVE  since'[m] \in Nat /\ since'[m] <= since[m] + 1 /\ since'[m] <= NegativeTtl
  <2>1. since[m] \in Nat
    BY <1>1
  <2>2. since'[m] \in {0, Min({since[m] + 1, NegativeTtl})}
    BY <1>4
  <2>3. /\ Min({since[m] + 1, NegativeTtl}) \in {since[m] + 1, NegativeTtl}
        /\ Min({since[m] + 1, NegativeTtl}) <= since[m] + 1
        /\ Min({since[m] + 1, NegativeTtl}) <= NegativeTtl
    BY <1>1, <2>1, MinOfTwo
  <2> QED
    BY <1>1, <2>1, <2>2, <2>3
<1> QED
  BY <1>3, <1>4, <1>5

\* An entry that was there before stays as far from its expiry as it was.
LEMMA OldDenialsExpire ==
  ASSUME IconInv, NEW n \in IconNames, Resolve(n), NEW m \in DOMAIN KeptFor(n),
         KeptFor(n)[m].bytes = 0
  PROVE  /\ KeptFor(n)[m].expires # 0
         /\ since'[m] + KeptFor(n)[m].expires <= clock' + NegativeTtl
         /\ m = n => since'[m] < NegativeTtl
<1>1. /\ m \in DOMAIN cache /\ KeptFor(n)[m] = cache[m] /\ clock # ClockLimit
      /\ m = n => ~Expired(n)
  BY KeptEntries
<1>2. /\ clock \in Nat /\ NegativeTtl \in Nat /\ m \in IconNames /\ since[m] \in Nat
      /\ cache[m].expires \in Nat
  BY <1>1, IconAssumption DEF IconInv, IconTypeOK, IsCache, IsEntry
<1>3. cache[m].expires # 0 /\ since[m] + cache[m].expires <= clock + NegativeTtl
  BY <1>1 DEF IconInv, DenialsExpire
<1>4. clock' = clock + 1
  BY <1>1 DEF Resolve, Access
<1>5. since'[m] \in Nat /\ since'[m] <= since[m] + 1
  BY <1>2, ResolveKeepsTypes
<1>6. since'[m] + cache[m].expires <= clock' + NegativeTtl
  BY <1>2, <1>3, <1>4, <1>5
<1>7. ASSUME m = n PROVE since'[m] < NegativeTtl
  <2>1. Accessed = cache /\ Access = clock + 1
    BY <1>1 DEF Accessed, Access
  <2>2. ~(clock + 1 >= cache[m].expires)
    BY <1>1, <1>3, <1>7, <2>1 DEF Expired
  <2> QED
    BY <1>2, <1>4, <1>5, <1>6, <2>2
<1> QED
  BY <1>1, <1>3, <1>6, <1>7

LEMMA ResolveKeepsIcons ==
  ASSUME IconInv, NEW n \in IconNames, Resolve(n)
  PROVE  IconInv'
<1> DEFINE kept == KeptFor(n)
<1>1. /\ IsCache(kept) /\ Counted(kept) = Bytes(kept, DOMAIN kept) /\ Fits(kept, DOMAIN kept)
      /\ DOMAIN kept \subseteq IconNames
  BY KeptEntries, KeptCounted DEF IsCache
<1>2. /\ clock' \in 1..ClockLimit /\ clock' \in 0..ClockLimit /\ since' \in [IconNames -> Nat]
      /\ clock' = Access /\ installed' = installed
  <2>1. clock' \in 1..ClockLimit /\ since' \in [IconNames -> Nat]
    BY ResolveKeepsTypes
  <2>2. clock' \in 0..ClockLimit
    BY <2>1, IconAssumption
  <2> QED
    BY <2>1, <2>2 DEF Resolve
<1>3. /\ ClockLimit \in Nat \ {0} /\ NegativeTtl \in Nat /\ lookups \in Nat
      /\ installed \in [IconNames -> Nat]
  BY IconAssumption DEF IconInv, IconTypeOK
<1>4. ASSUME NEW m \in DOMAIN kept, kept[m].bytes = 0
      PROVE  /\ kept[m].expires # 0
             /\ since'[m] + kept[m].expires <= clock' + NegativeTtl
             /\ m = n => since'[m] < NegativeTtl
  BY <1>4, OldDenialsExpire
<1>5. \/ /\ n \in DOMAIN kept
         /\ cache' = [kept EXCEPT ![n].used = Access]
         /\ cacheBytes' = Counted(kept)
         /\ denied' = IF kept[n].bytes = 0 THEN n ELSE NoName
         /\ lookups' = lookups
      \/ /\ cache' = kept /\ cacheBytes' = Counted(kept) /\ denied' = NoName /\ lookups' = lookups
      \/ /\ n \notin DOMAIN kept /\ lookups > 0 /\ lookups' = lookups - 1 /\ denied' = NoName
         /\ \E cost \in 0..VisitLimit : Insert(kept, n, Found(n, cost), Access)
  BY DEF Resolve, KeptFor
<1> HIDE DEF kept
<1>6. CASE cache' = kept /\ cacheBytes' = Counted(kept) /\ denied' = NoName /\ lookups' = lookups
  <2>1. CacheSound'
    BY <1>1, <1>6 DEF CacheSound, Bytes, Fits
  <2>2. DenialsExpire'
    BY <1>4, <1>6 DEF DenialsExpire
  <2>3. IconTypeOK'
    BY <1>1, <1>2, <1>3, <1>6 DEF IconTypeOK, IsCache
  <2> QED
    BY <2>1, <2>2, <2>3 DEF IconInv
<1>7. CASE /\ n \in DOMAIN kept
           /\ cache' = [kept EXCEPT ![n].used = Access]
           /\ cacheBytes' = Counted(kept)
           /\ denied' = IF kept[n].bytes = 0 THEN n ELSE NoName
           /\ lookups' = lookups
  <2>1. /\ DOMAIN cache' = DOMAIN kept
        /\ cache'[n] = [kept[n] EXCEPT !.used = Access]
        /\ \A m \in DOMAIN kept : m # n => cache'[m] = kept[m]
    BY <1>7
  <2>2. /\ IsEntry(cache'[n]) /\ cache'[n].bytes = kept[n].bytes
        /\ cache'[n].expires = kept[n].expires
    <3>1. IsEntry(kept[n]) /\ Access \in Nat
      BY <1>1, <1>2, <1>7 DEF IsCache
    <3> QED
      BY <2>1, <3>1 DEF IsEntry
  <2>3. IsCache(cache')
    BY <1>1, <2>1, <2>2 DEF IsCache
  <2>4. \A m \in DOMAIN kept : cache'[m].bytes = kept[m].bytes /\ cache'[m].expires = kept[m].expires
    BY <2>1, <2>2
  <2>5. Bytes(cache', DOMAIN cache') = Bytes(kept, DOMAIN kept)
    <3>1. Bytes(cache', DOMAIN kept) = Bytes(kept, DOMAIN kept)
      BY <1>1, <2>1, <2>3, <2>4, BytesOfSame
    <3> QED
      BY <2>1, <3>1
  <2>6. /\ cacheBytes' = Bytes(cache', DOMAIN cache')
        /\ Fits(cache', DOMAIN cache')
    BY <1>1, <1>7, <2>1, <2>5 DEF Fits
  <2>7. denied' # NoName => since'[denied'] < NegativeTtl
    BY <1>4, <1>7
  <2>8. CacheSound'
    BY <2>6, <2>7 DEF CacheSound, Bytes, Fits
  <2>9. DenialsExpire'
    BY <1>4, <2>1, <2>4 DEF DenialsExpire
  <2>10. IconTypeOK'
    BY <1>2, <1>3, <1>7, <2>3 DEF IconTypeOK, IsCache
  <2> QED
    BY <2>8, <2>9, <2>10 DEF IconInv
<1>8. CASE /\ n \notin DOMAIN kept /\ lookups > 0 /\ lookups' = lookups - 1 /\ denied' = NoName
           /\ \E cost \in 0..VisitLimit : Insert(kept, n, Found(n, cost), Access)
  <2>1. PICK cost \in 0..VisitLimit : Insert(kept, n, Found(n, cost), Access)
    BY <1>8
  <2> DEFINE size == Found(n, cost)
  <2>2. size \in Nat /\ Access \in Nat \ {0}
    BY <1>2, <1>3 DEF Found
  <2> HIDE DEF size
  <2>3. /\ IsCache(cache')
        /\ cacheBytes' = Bytes(cache', DOMAIN cache')
        /\ Fits(cache', DOMAIN cache')
        /\ DOMAIN cache' \subseteq DOMAIN kept \cup {n}
        /\ \A m \in DOMAIN cache' : m # n => cache'[m] = kept[m]
        /\ n \in DOMAIN cache' => /\ cache'[n].bytes = size
                                  /\ size = 0 => /\ cache'[n].expires # 0
                                                 /\ cache'[n].expires <= Access + NegativeTtl
    BY <1>1, <1>3, <1>8, <2>1, <2>2, InsertCounts DEF size
  <2>4. CacheSound'
    BY <1>8, <2>3 DEF CacheSound, Bytes, Fits
  <2>5. since'[n] = 0
    <3>1. lookups' # lookups
      BY <1>3, <1>8
    <3> QED
      BY <3>1 DEF Resolve
  <2>6. ASSUME NEW m \in DOMAIN cache', cache'[m].bytes = 0
        PROVE  cache'[m].expires # 0 /\ since'[m] + cache'[m].expires <= clock' + NegativeTtl
    <3>1. CASE m = n
      <4>1. cache'[n].expires # 0 /\ cache'[n].expires <= Access + NegativeTtl
        BY <2>3, <2>6, <3>1
      <4>2. cache'[n].expires \in Nat
        BY <2>3, <2>6, <3>1 DEF IsCache, IsEntry
      <4> QED
        BY <1>2, <2>5, <3>1, <4>1, <4>2
    <3>2. CASE m # n
      BY <1>4, <2>3, <2>6, <3>2
    <3> QED
      BY <3>1, <3>2
  <2>7. DenialsExpire'
    BY <2>6 DEF DenialsExpire
  <2>8. lookups' \in Nat
    BY <1>3, <1>8
  <2>9. IconTypeOK'
    BY <1>2, <1>3, <2>3, <2>8 DEF IconTypeOK, IsCache
  <2> QED
    BY <2>4, <2>7, <2>9 DEF IconInv
<1> QED
  BY <1>5, <1>6, <1>7, <1>8

LEMMA IconStep ==
  ASSUME IconInv, [IconNext]_iconVars
  PROVE  IconInv'
<1> USE IconAssumption
<1>1. ASSUME NEW n \in IconNames, InstallIcon(n) PROVE IconInv'
  <2>1. PICK file \in IconFiles : installed' = [installed EXCEPT ![n] = EncodedBytes(file)]
    BY <1>1 DEF InstallIcon
  <2>2. EncodedBytes(file) \in Nat
    <3> DEFINE edges == {edge \in {SmallEdge, LargeEdge} :
                           Decodes(file) /\ Drawn(file.width, file.height, file.width * file.height, edge)}
    <3>1. edges \subseteq {SmallEdge} \cup {LargeEdge}
      OBVIOUS
    <3>2. IsFiniteSet({SmallEdge} \cup {LargeEdge})
      BY FS_Singleton, FS_Union
    <3>3. Cardinality(edges) \in Nat
      <4> HIDE DEF edges
      <4> QED
        BY <3>1, <3>2, FS_Subset, FS_CardinalityType
    <3>4. file.encoded \in Nat /\ EncodedBytes(file) = file.encoded * Cardinality(edges)
      BY DEF EncodedBytes
    <3> HIDE DEF edges
    <3> QED
      BY <3>3, <3>4
  <2>3. installed' \in [IconNames -> Nat]
    BY <2>1, <2>2 DEF IconInv, IconTypeOK
  <2>4. UNCHANGED <<cache, cacheBytes, clock, lookups, since>> /\ denied' = NoName
    BY <1>1 DEF InstallIcon
  <2> QED
    BY <2>3, <2>4 DEF IconInv, IconTypeOK, DenialsExpire, CacheSound, IsCache, IsEntry, Bytes, Fits
<1>2. ASSUME NEW n \in IconNames, RemoveIcon(n) PROVE IconInv'
  <2>1. /\ installed' = [installed EXCEPT ![n] = 0] /\ since' = [since EXCEPT ![n] = 0]
        /\ denied' = NoName
        /\ UNCHANGED <<cache, cacheBytes, clock, lookups>>
    BY <1>2 DEF RemoveIcon
  <2>2. IconTypeOK'
    BY <2>1 DEF IconInv, IconTypeOK, IsCache, IsEntry
  <2>3. CacheSound'
    BY <2>1 DEF IconInv, CacheSound, Bytes, Fits
  <2>4. ASSUME NEW m \in DOMAIN cache, cache[m].bytes = 0
        PROVE  cache[m].expires # 0 /\ since'[m] + cache[m].expires <= clock + NegativeTtl
    <3>1. /\ cache[m].expires # 0 /\ since[m] + cache[m].expires <= clock + NegativeTtl
          /\ m \in IconNames
      BY <2>4 DEF IconInv, DenialsExpire, IconTypeOK, IsCache
    <3>2. since \in [IconNames -> Nat] /\ IsCache(cache) /\ clock \in 0..ClockLimit
      BY DEF IconInv, IconTypeOK
    <3>3. since'[m] \in {0, since[m]} /\ since[m] \in Nat
      BY <2>1, <3>1, <3>2
    <3>4. cache[m].expires \in Nat /\ clock \in Nat /\ NegativeTtl \in Nat
      BY <2>4, <3>2 DEF IsCache, IsEntry
    <3> QED
      BY <3>1, <3>3, <3>4
  <2>5. DenialsExpire'
    BY <2>1, <2>4 DEF DenialsExpire
  <2> QED
    BY <2>2, <2>3, <2>5 DEF IconInv
<1>3. CASE BeginSnapshot
  <2>1. LookupLimit \in Nat
    OBVIOUS
  <2> QED
    BY <1>3, <2>1 DEF BeginSnapshot, IconInv, IconTypeOK, DenialsExpire, CacheSound, IsCache, IsEntry,
                      Bytes, Fits
<1>4. CASE UNCHANGED iconVars
  BY <1>4 DEF iconVars, IconInv, IconTypeOK, DenialsExpire, CacheSound, IsCache, IsEntry, Bytes, Fits
<1> QED
  BY <1>1, <1>2, <1>3, <1>4, ResolveKeepsIcons DEF IconNext

\* However names are looked up, used again, evicted and cleared, the cache stays
\* within its limits and its counter true, and no denial outlives its expiry:
\* whatever the limits, the names and what their icons take up.
THEOREM CacheCorrect == IconSpec => [](IconTypeOK /\ CacheSound)
<1>1. IconInit => IconInv
  <2> SUFFICES ASSUME IconInit PROVE IconInv
    OBVIOUS
  <2>1. cache = <<>> /\ DOMAIN cache = {} /\ cacheBytes = 0 /\ denied = NoName /\ clock = 0
    BY DEF IconInit
  <2>2. IsFiniteSet({}) /\ Cardinality({}) = 0
    BY FS_EmptySet
  <2>3. Bytes(cache, {}) = 0
    BY <2>2, SumUnfolds DEF Bytes
  <2>4. Fits(cache, {})
    BY <2>2, <2>3, IconAssumption DEF Fits
  <2>5. IconTypeOK
    BY <2>1, IconAssumption DEF IconInit, IconTypeOK, IsCache
  <2>6. CacheSound
    BY <2>1, <2>3, <2>4 DEF CacheSound
  <2>7. DenialsExpire
    BY <2>1 DEF DenialsExpire
  <2> QED
    BY <2>5, <2>6, <2>7 DEF IconInv
<1>2. IconInv /\ [IconNext]_iconVars => IconInv'
  BY IconStep
<1>3. IconInv => IconTypeOK /\ CacheSound
  BY DEF IconInv
<1> QED
  BY <1>1, <1>2, <1>3, PTL DEF IconSpec

-----------------------------------------------------------------------------
(* X11Windows: honest rows within the budget, actions on the right process. *)

\* U: those of T with the least i-th score.
LeastBy(U, T, f, i) ==
  U # {} /\ \A u \in U : \A t \in T : f[u][i] <= f[t][i] /\ (t \in U <=> f[t][i] = f[u][i])

LEMMA LeastAt ==
  ASSUME NEW T, T # {}, NEW f, NEW i, \A t \in T : f[t][i] \in Nat
  PROVE  \E U \in SUBSET T : LeastBy(U, T, f, i)
<1> DEFINE V == {f[t][i] : t \in T}
<1>1. V \subseteq Nat /\ V # {}
  OBVIOUS
<1>2. PICK least \in V : \A v \in V : least <= v
  <2> HIDE DEF V
  <2> QED
    BY <1>1, LeastNatural
<1> DEFINE U == {t \in T : f[t][i] = least}
<1>3. U \in SUBSET T /\ U # {}
  BY <1>2
<1>4. ASSUME NEW u \in U, NEW t \in T
      PROVE  f[u][i] <= f[t][i] /\ (t \in U <=> f[t][i] = f[u][i])
  BY <1>2
<1>5. LeastBy(U, T, f, i)
  BY <1>3, <1>4 DEF LeastBy
<1> QED
  BY <1>3, <1>5

LEMMA LeastScore ==
  ASSUME NEW T, T # {}, NEW f, \A t \in T : \A i \in 1..4 : f[t][i] \in Nat,
         \A s, t \in T : f[s][4] = f[t][4] => s = t
  PROVE  \E t \in T : \A s \in T \ {t} : Precedes(f[t], f[s])
<1>1. PICK U1 \in SUBSET T : LeastBy(U1, T, f, 1)
  <2>1. \A t \in T : f[t][1] \in Nat
    OBVIOUS
  <2> QED
    BY <2>1, LeastAt
<1>2. PICK U2 \in SUBSET U1 : LeastBy(U2, U1, f, 2)
  <2>1. U1 # {} /\ \A t \in U1 : f[t][2] \in Nat
    BY <1>1 DEF LeastBy
  <2> QED
    BY <2>1, LeastAt
<1>3. PICK U3 \in SUBSET U2 : LeastBy(U3, U2, f, 3)
  <2>1. U2 # {} /\ \A t \in U2 : f[t][3] \in Nat
    BY <1>1, <1>2 DEF LeastBy
  <2> QED
    BY <2>1, LeastAt
<1>4. PICK U4 \in SUBSET U3 : LeastBy(U4, U3, f, 4)
  <2>1. U3 # {} /\ \A t \in U3 : f[t][4] \in Nat
    BY <1>1, <1>2, <1>3 DEF LeastBy
  <2> QED
    BY <2>1, LeastAt
<1>5. PICK t \in U4 : TRUE
  BY <1>4 DEF LeastBy
<1>6. t \in T /\ t \in U1 /\ t \in U2 /\ t \in U3
  BY <1>1, <1>2, <1>3, <1>4, <1>5
<1>7. ASSUME NEW s \in T \ {t}
      PROVE  Precedes(f[t], f[s])
  <2>1. \A i \in 1..4 : f[s][i] \in Nat /\ f[t][i] \in Nat
    BY <1>6
  <2>2. CASE s \notin U1
    <3>1. f[t][1] < f[s][1]
      BY <1>1, <1>6, <2>1, <2>2 DEF LeastBy
    <3> QED
      BY <2>1, <3>1 DEF Precedes
  <2>3. CASE s \in U1 /\ s \notin U2
    <3>1. f[t][1] = f[s][1] /\ f[t][2] < f[s][2]
      BY <1>1, <1>2, <1>6, <2>1, <2>3 DEF LeastBy
    <3> QED
      BY <3>1 DEF Precedes
  <2>4. CASE s \in U2 /\ s \notin U3
    <3>1. f[t][1] = f[s][1] /\ f[t][2] = f[s][2] /\ f[t][3] < f[s][3]
      BY <1>1, <1>2, <1>3, <1>6, <2>1, <2>4 DEF LeastBy
    <3> QED
      BY <3>1 DEF Precedes
  <2>5. CASE s \in U3
    <3>1. f[t][1] = f[s][1] /\ f[t][2] = f[s][2] /\ f[t][3] = f[s][3] /\ f[t][4] # f[s][4]
      BY <1>1, <1>2, <1>3, <1>6, <2>5 DEF LeastBy
    <3>2. f[t][4] < f[s][4]
      BY <1>4, <1>5, <2>1, <2>5, <3>1 DEF LeastBy
    <3> QED
      BY <3>1, <3>2 DEF Precedes
  <2> QED
    BY <2>2, <2>3, <2>4, <2>5
<1> QED
  BY <1>6, <1>7

LEMMA ImageSize ==
  ASSUME NEW words \in Seq(Nat), NEW at \in Reached(words)
  PROVE  at \in Nat /\ Width(words, at) \in Nat /\ Height(words, at) \in Nat
<1>1. at \in Nat /\ at + 1 \in 1..Len(words) /\ at + 2 \in 1..Len(words)
  BY DEF Reached
<1> QED
  BY <1>1 DEF Width, Height

WholeImages(words) == {at \in Reached(words) : Whole(words, at)}

\* Which image is best depends on the edge, whether there is one does not.
LEMMA BestImage ==
  ASSUME NEW words \in Seq(Nat), NEW edge \in Positive
  PROVE  /\ SelectIcon(words, edge) \subseteq WholeImages(words)
         /\ SelectIcon(words, edge) # {} <=>
              WholeImages(words) # {} /\ ~(\E at \in Reached(words) : Area(words, at) >= WordLimit)
<1>1. SelectIcon(words, edge) \subseteq WholeImages(words)
  BY DEF SelectIcon, WholeImages
<1>2. ASSUME WholeImages(words) # {}
      PROVE  \E at \in WholeImages(words) : \A other \in WholeImages(words) \ {at} :
               Precedes(Score(words, at, edge), Score(words, other, edge))
  <2> DEFINE f == [at \in WholeImages(words) |-> Score(words, at, edge)]
  <2>1. ASSUME NEW at \in WholeImages(words)
        PROVE  f[at] = Score(words, at, edge) /\ f[at][4] = at /\ \A i \in 1..4 : f[at][i] \in Nat
    <3>1. at \in Reached(words)
      BY DEF WholeImages
    <3>2. at \in Nat /\ Width(words, at) \in Nat /\ Height(words, at) \in Nat
      BY <3>1, ImageSize
    <3> DEFINE w == Width(words, at)
               h == Height(words, at)
               longer == Max({w, h})
    <3>3. longer \in Nat
      <4>1. \E x \in {w, h} : \A y \in {w, h} : x >= y
        <5>1. w >= h \/ h >= w
          BY <3>2
        <5> QED
          BY <3>2, <5>1
      <4>2. Max({w, h}) \in {w, h}
        BY <4>1 DEF Max
      <4> QED
        BY <3>2, <4>2
    <3>4. Score(words, at, edge)
            = <<IF w < edge \/ h < edge THEN 1 ELSE 0,
                IF longer < edge THEN edge - longer ELSE longer - edge, w * h, at>>
      BY DEF Score
    <3>5. edge \in Nat
      BY DEF Positive
    <3> HIDE DEF w, h, longer
    <3>6. w \in Nat /\ h \in Nat
      BY <3>2 DEF w, h
    <3> DEFINE enlarged == IF w < edge \/ h < edge THEN 1 ELSE 0
               distance == IF longer < edge THEN edge - longer ELSE longer - edge
               area == w * h
    <3>7. enlarged \in Nat /\ distance \in Nat /\ area \in Nat
      BY <3>3, <3>5, <3>6
    <3>8. f[at] = <<enlarged, distance, area, at>> /\ f[at] = Score(words, at, edge)
      BY <3>4 DEF w, h, longer
    <3> HIDE DEF f, enlarged, distance, area
    <3>9. f[at][1] = enlarged /\ f[at][2] = distance /\ f[at][3] = area /\ f[at][4] = at
      BY <3>8
    <3>10. \A i \in 1..4 : f[at][i] \in Nat
      <4>1. f[at][1] \in Nat /\ f[at][2] \in Nat /\ f[at][3] \in Nat /\ f[at][4] \in Nat
        BY <3>2, <3>7, <3>9
      <4>2. \A i \in 1..4 : i = 1 \/ i = 2 \/ i = 3 \/ i = 4
        OBVIOUS
      <4> QED
        BY <4>1, <4>2
    <3> QED
      BY <3>8, <3>9, <3>10
  <2> HIDE DEF f
  <2>2. \A at, other \in WholeImages(words) : f[at][4] = f[other][4] => at = other
    BY <2>1
  <2>3. \E at \in WholeImages(words) : \A other \in WholeImages(words) \ {at} :
          Precedes(f[at], f[other])
    BY <1>2, <2>1, <2>2, LeastScore
  <2> QED
    BY <2>1, <2>3
<1>3. SelectIcon(words, edge)
        = IF \E at \in Reached(words) : Area(words, at) >= WordLimit THEN {}
          ELSE {at \in WholeImages(words) : \A other \in WholeImages(words) \ {at} :
                  Precedes(Score(words, at, edge), Score(words, other, edge))}
  BY DEF SelectIcon, WholeImages
<1> QED
  BY <1>1, <1>2, <1>3

LEMMA TwoElements ==
  ASSUME NEW a, NEW b, a # b
  PROVE  Cardinality({a, b}) = 2
<1> DEFINE one == {a}
           two == one \cup {b}
<1>1. IsFiniteSet(one) /\ Cardinality(one) = 1 /\ b \notin one
  BY FS_Singleton
<1>2. {a, b} = two
  OBVIOUS
<1> HIDE DEF one
<1>3. Cardinality(two) = Cardinality(one) + 1
  BY <1>1, FS_AddElement
<1> HIDE DEF two
<1>4. Cardinality(two) = 2
  BY <1>1, <1>3
<1> QED
  BY <1>2, <1>4

\* An image that was selected is drawn, so that there are icons of both sizes or
\* of none.
LEMMA IconsOfBothSizes ==
  ASSUME NEW words \in Seq(Nat)
  PROVE  Cardinality({edge \in {SmallEdge, LargeEdge} : EncodesIcon(words, edge)}) \in {0, 2}
<1> DEFINE edges == {edge \in {SmallEdge, LargeEdge} : EncodesIcon(words, edge)}
<1>0. SmallEdge \in Positive /\ LargeEdge \in Positive /\ SmallEdge # LargeEdge
  BY XAssumption
<1>1. ASSUME NEW edge \in Positive
      PROVE  EncodesIcon(words, edge) <=> SelectIcon(words, edge) # {}
  <2>1. ASSUME NEW at \in SelectIcon(words, edge)
        PROVE  Drawn(Width(words, at), Height(words, at), Area(words, at), edge)
    <3>1. at \in WholeImages(words)
      BY <2>1, BestImage
    <3>2. at \in Reached(words) /\ 0 < Area(words, at)
      BY <3>1 DEF WholeImages, Whole
    <3>3. Width(words, at) \in Nat /\ Height(words, at) \in Nat
      BY <3>2, ImageSize
    <3>4. Width(words, at) # 0 /\ Height(words, at) # 0
      BY <3>2, <3>3 DEF Area
    <3>5. Width(words, at) \in Positive /\ Height(words, at) \in Positive
      BY <3>3, <3>4 DEF Positive
    <3> QED
      BY <3>5, EveryImageIsDrawn DEF Area
  <2> QED
    BY <2>1 DEF EncodesIcon
<1>2. EncodesIcon(words, SmallEdge) <=> EncodesIcon(words, LargeEdge)
  BY <1>0, <1>1, BestImage
<1>3. CASE EncodesIcon(words, SmallEdge)
  <2>1. edges = {SmallEdge, LargeEdge}
    BY <1>2, <1>3
  <2>4. Cardinality(edges) = 2
    <3> HIDE DEF edges
    <3> QED
      BY <1>0, <2>1, TwoElements
  <2> QED
    BY <2>4
<1>4. CASE ~EncodesIcon(words, SmallEdge)
  <2>1. edges = {}
    BY <1>2, <1>4
  <2>2. Cardinality(edges) = 0
    <3> HIDE DEF edges
    <3> QED
      BY <2>1, FS_EmptySet
  <2> QED
    BY <2>2
<1> QED
  BY <1>3, <1>4

XRows == [window : XWindows \cup {0}, title : {"none", "text", "id"}, pid : XPids \cup {0},
          process : Nat, maker : Nat, icon : {"none", "own", "entry"}, icons : {0, 2},
          kept : Nat, cut : BOOLEAN, failed : BOOLEAN]
XActions == [step : {"none", "asked", "checked", "sent", "done"}, window : XWindows \cup {0},
             pid : XPids \cup {0}, process : Nat, maker : Nat, since : Nat, on : Nat]

XServerTypeOK ==
  /\ xclients \in Nat
  /\ xclient \in [XPids -> Nat] /\ xwindow \in [XWindows -> Nat] /\ xrange \in [XWindows -> Nat]
XSampleTypeOK ==
  /\ xstep \in {"idle", "next", "title", "legacy", "pid", "process", "icon", "class", "push"}
  /\ todo \subseteq listed /\ listed \subseteq XWindows
  /\ remaining \in Nat
  /\ xrow \in XRows
  /\ xrows \subseteq XRows /\ IsFiniteSet(xrows)
XTypeOK == XServerTypeOK /\ XSampleTypeOK /\ xaction \in XActions

\* A window has an id of its client, which is connected.
Connected(c) == \E p \in XPids : xclient[p] = c
OwnIds ==
  \A w \in XWindows : xwindow[w] # 0 => xrange[w] = xwindow[w] /\ Connected(xwindow[w])

\* As long as the client that had made a window is connected, the id is one of
\* its own: of the window being read, of every row and of the action.
MakerKeepsId(window, maker) ==
  maker # 0 => /\ window \in XWindows /\ maker <= xclients
               /\ Connected(maker) => xrange[window] = maker
MakersKeepIds ==
  /\ MakerKeepsId(xrow.window, xrow.maker) /\ MakerKeepsId(xaction.window, xaction.maker)
  /\ \A r \in xrows : MakerKeepsId(r.window, r.maker)

\* The client was connected when the action was checked: only one that came later
\* may have the id by now.
CheckedInTime ==
  /\ xaction.step # "none" => xaction.window \in XWindows
  /\ xaction.since <= xclients
  /\ xaction.step \in {"checked", "sent"} /\ xaction.process # 0 /\ xaction.process = xaction.maker
     => xrange[xaction.window] = xaction.maker \/ xrange[xaction.window] > xaction.since

\* A row for each window that was done, and room for what was kept and is left.
Keep == SumFunction([r \in xrows |-> r.kept])
SampleUnderWay ==
  /\ xstep = "idle" => xrow = NoXRow /\ {r.window : r \in xrows} \in {listed, {}} /\ Keep <= Budget
  /\ xstep # "idle" => /\ {r.window : r \in xrows} = listed \ todo
                       /\ Keep + xrow.kept + remaining <= Budget
  /\ xstep = "next" => xrow = NoXRow
  /\ xstep \notin {"idle", "next"} => xrow.window \in todo
CutIsFailed == (xrow.cut => xrow.failed) /\ \A r \in xrows : r.cut => r.failed

ClientsCounted == \A p \in XPids : xclient[p] <= xclients

XServerInv == ClientsCounted /\ OwnIds /\ MakersKeepIds /\ CheckedInTime /\ ActionReachesProcess
XSampleInv == SampleUnderWay /\ CutIsFailed
XInv == XTypeOK /\ XServerInv /\ XSampleInv

LEMMA NoRowYet ==
  NoXRow \in XRows /\ NoXRow.maker = 0 /\ NoXRow.kept = 0 /\ NoXRow.cut = FALSE
BY DEF NoXRow, XRows

LEMMA NoActionYet ==
  /\ NoXAction \in XActions
  /\ NoXAction.maker = 0 /\ NoXAction.since = 0 /\ NoXAction.step = "none"
BY DEF NoXAction, XActions

\* A client that ends or opens a window, and windows that close, take no id from
\* a client that is connected.
LEMMA IdsStay ==
  ASSUME XTypeOK, XServerInv, XServerTypeOK', ClientsCounted', OwnIds',
         xrange' = xrange, xclients' = xclients, UNCHANGED <<xsample, xaction>>,
         \A c \in Nat \ {0} : Connected(c)' => Connected(c)
  PROVE  XServerInv'
<1>1. ASSUME NEW window, NEW maker \in Nat, MakerKeepsId(window, maker)
      PROVE  MakerKeepsId(window, maker)'
  BY <1>1 DEF MakerKeepsId
<1>2. xrow.maker \in Nat /\ xaction.maker \in Nat /\ \A r \in xrows : r.maker \in Nat
  BY DEF XTypeOK, XSampleTypeOK, XRows, XActions
<1>3. xrow' = xrow /\ xrows' = xrows /\ xaction' = xaction
  BY DEF xsample
<1>4. MakersKeepIds'
  BY <1>1, <1>2, <1>3 DEF XServerInv, MakersKeepIds
<1>5. CheckedInTime'
  BY <1>3 DEF XServerInv, CheckedInTime
<1>6. ActionReachesProcess'
  BY <1>3 DEF XServerInv, ActionReachesProcess
<1> QED
  BY <1>4, <1>5, <1>6 DEF XServerInv

LEMMA StartClientStep ==
  ASSUME XTypeOK, XServerInv, NEW p \in XPids, StartClient(p)
  PROVE  XServerTypeOK' /\ XServerInv'
<1> DEFINE new == xclients + 1
           free == {w \in XWindows : \A q \in XPids : xclient[q] # xrange[w]}
<1>1. /\ xclient[p] = 0 /\ xclients' = new /\ xclient' = [xclient EXCEPT ![p] = new]
      /\ UNCHANGED <<xwindow, xsample, xaction>>
  BY DEF StartClient
<1>2. PICK ids \in SUBSET free : xrange' = [w \in XWindows |-> IF w \in ids THEN new ELSE xrange[w]]
  BY DEF StartClient
<1>3. xclients \in Nat /\ new \in Nat /\ xclient \in [XPids -> Nat] /\ xwindow \in [XWindows -> Nat]
      /\ xrange \in [XWindows -> Nat]
  BY DEF XTypeOK, XServerTypeOK
<1>4. XServerTypeOK'
  BY <1>1, <1>2, <1>3 DEF XServerTypeOK
<1>5. xrow' = xrow /\ xrows' = xrows /\ xaction' = xaction
  BY <1>1 DEF xsample
<1>6. \A c : c # 0 /\ c # new => (Connected(c)' <=> Connected(c))
  BY <1>1, <1>3 DEF Connected
<1>7. ASSUME NEW w \in XWindows, Connected(xrange[w])
      PROVE  xrange'[w] = xrange[w]
  BY <1>2, <1>7 DEF Connected
<1>13. ClientsCounted'
  <2>1. \A q \in XPids : xclient[q] <= xclients /\ xclient[q] \in Nat
    BY <1>3 DEF XServerInv, ClientsCounted
  <2> QED
    BY <1>1, <1>3, <2>1 DEF ClientsCounted
<1>8. OwnIds'
  <2>1. SUFFICES ASSUME NEW w \in XWindows, xwindow'[w] # 0
                 PROVE  xrange'[w] = xwindow'[w] /\ Connected(xwindow[w])'
    BY <1>1 DEF OwnIds, Connected
  <2>2. xwindow[w] # 0 /\ xrange[w] = xwindow[w] /\ Connected(xwindow[w])
    BY <1>1, <2>1 DEF XServerInv, OwnIds
  <2>3. Connected(xwindow[w])'
    <3>1. PICK q \in XPids : xclient[q] = xwindow[w]
      BY <2>2 DEF Connected
    <3>2. q # p
      BY <1>1, <2>2, <3>1
    <3> QED
      BY <1>1, <1>3, <3>1, <3>2 DEF Connected
  <2> QED
    BY <1>1, <1>7, <2>2, <2>3
<1>9. ASSUME NEW window, NEW maker \in Nat, MakerKeepsId(window, maker)
      PROVE  MakerKeepsId(window, maker)'
  <2>1. SUFFICES ASSUME maker # 0
                 PROVE  /\ window \in XWindows /\ maker <= xclients'
                        /\ Connected(maker)' => xrange'[window] = maker
    BY DEF MakerKeepsId
  <2>2. window \in XWindows /\ maker <= xclients /\ (Connected(maker) => xrange[window] = maker)
    BY <1>9, <2>1 DEF MakerKeepsId
  <2>3. maker # new /\ maker <= new
    BY <1>3, <2>2
  <2>4. Connected(maker)' <=> Connected(maker)
    BY <1>6, <2>1, <2>3
  <2> QED
    BY <1>1, <1>7, <2>2, <2>3, <2>4
<1>10. MakersKeepIds'
  <2>1. xrow.maker \in Nat /\ xaction.maker \in Nat /\ \A r \in xrows : r.maker \in Nat
    BY DEF XTypeOK, XSampleTypeOK, XRows, XActions
  <2> QED
    BY <1>5, <1>9, <2>1 DEF XServerInv, MakersKeepIds
<1>11. CheckedInTime'
  <2>1. xaction.since \in Nat /\ xaction.since <= xclients
    BY DEF XTypeOK, XActions, XServerInv, CheckedInTime
  <2>2. xaction.since <= new /\ new > xaction.since
    BY <1>3, <2>1
  <2>3. ASSUME xaction.step \in {"checked", "sent"}, xaction.process # 0, xaction.process = xaction.maker
        PROVE  xrange'[xaction.window] = xaction.maker \/ xrange'[xaction.window] > xaction.since
    <3>1. xrange[xaction.window] = xaction.maker \/ xrange[xaction.window] > xaction.since
      BY <2>3 DEF XServerInv, CheckedInTime
    <3>2. xaction.window \in XWindows
      BY <2>3 DEF XServerInv, MakersKeepIds, MakerKeepsId
    <3>3. xrange'[xaction.window] \in {new, xrange[xaction.window]}
      BY <1>2, <3>2
    <3> QED
      BY <2>2, <3>1, <3>3
  <2> QED
    BY <1>1, <1>5, <2>2, <2>3 DEF CheckedInTime, XServerInv
<1>12. ActionReachesProcess'
  BY <1>5 DEF XServerInv, ActionReachesProcess
<1> QED
  BY <1>4, <1>8, <1>10, <1>11, <1>12, <1>13 DEF XServerInv

LEMMA ServerStep ==
  ASSUME XTypeOK, XServerInv,
         \/ \E p \in XPids : StartClient(p) \/ EndClient(p)
         \/ \E w \in XWindows, p \in XPids : OpenXWindow(w, p)
         \/ \E w \in XWindows : CloseXWindow(w)
  PROVE  XServerTypeOK' /\ XServerInv'
<1>1. xclients \in Nat /\ xclient \in [XPids -> Nat] /\ xwindow \in [XWindows -> Nat]
      /\ xrange \in [XWindows -> Nat]
  BY DEF XTypeOK, XServerTypeOK
<1>2. ASSUME NEW p \in XPids, EndClient(p) PROVE XServerTypeOK' /\ XServerInv'
  <2>1. /\ xclient[p] # 0 /\ xclient' = [xclient EXCEPT ![p] = 0]
        /\ xwindow' = [v \in XWindows |-> IF xwindow[v] = xclient[p] THEN 0 ELSE xwindow[v]]
        /\ UNCHANGED <<xclients, xrange, xsample, xaction>>
    BY <1>2 DEF EndClient
  <2>2. XServerTypeOK'
    BY <1>1, <2>1 DEF XServerTypeOK
  <2>3. \A c \in Nat \ {0} : Connected(c)' => Connected(c)
    BY <1>1, <2>1 DEF Connected
  <2>4. OwnIds'
    <3>1. SUFFICES ASSUME NEW v \in XWindows, xwindow'[v] # 0
                   PROVE  xrange'[v] = xwindow'[v] /\ \E q \in XPids : xclient'[q] = xwindow'[v]
      BY DEF OwnIds, Connected
    <3>2. xwindow'[v] = xwindow[v] /\ xwindow[v] # xclient[p] /\ xwindow[v] # 0
      BY <2>1, <3>1
    <3>3. xrange[v] = xwindow[v] /\ \E q \in XPids : xclient[q] = xwindow[v]
      BY <3>2 DEF XServerInv, OwnIds, Connected
    <3>4. PICK q \in XPids : xclient[q] = xwindow[v]
      BY <3>3
    <3>5. xclient'[q] = xwindow[v]
      BY <1>1, <2>1, <3>2, <3>4
    <3> QED
      BY <2>1, <3>2, <3>3, <3>5
  <2>5. ClientsCounted'
    BY <1>1, <2>1 DEF XServerInv, ClientsCounted
  <2> QED
    BY <2>1, <2>2, <2>3, <2>4, <2>5, IdsStay
<1>3. ASSUME NEW w \in XWindows, NEW p \in XPids, OpenXWindow(w, p)
      PROVE  XServerTypeOK' /\ XServerInv'
  <2>1. /\ xclient[p] # 0 /\ xrange[w] = xclient[p] /\ xwindow' = [xwindow EXCEPT ![w] = xclient[p]]
        /\ UNCHANGED <<xclient, xclients, xrange, xsample, xaction>>
    BY <1>3 DEF OpenXWindow
  <2>2. XServerTypeOK'
    BY <1>1, <2>1 DEF XServerTypeOK
  <2>3. \A c \in Nat \ {0} : Connected(c)' => Connected(c)
    BY <2>1 DEF Connected
  <2>4. OwnIds'
    BY <1>1, <2>1 DEF XServerInv, OwnIds, Connected
  <2>5. ClientsCounted'
    BY <1>1, <2>1 DEF XServerInv, ClientsCounted
  <2> QED
    BY <2>1, <2>2, <2>3, <2>4, <2>5, IdsStay
<1>4. ASSUME NEW w \in XWindows, CloseXWindow(w) PROVE XServerTypeOK' /\ XServerInv'
  <2>1. xwindow' = [xwindow EXCEPT ![w] = 0] /\ UNCHANGED <<xclient, xclients, xrange, xsample, xaction>>
    BY <1>4 DEF CloseXWindow
  <2>2. XServerTypeOK'
    BY <1>1, <2>1 DEF XServerTypeOK
  <2>3. \A c \in Nat \ {0} : Connected(c)' => Connected(c)
    BY <2>1 DEF Connected
  <2>4. OwnIds'
    BY <1>1, <2>1 DEF XServerInv, OwnIds, Connected
  <2>5. ClientsCounted'
    BY <1>1, <2>1 DEF XServerInv, ClientsCounted
  <2> QED
    BY <2>1, <2>2, <2>3, <2>4, <2>5, IdsStay
<1> QED
  BY <1>2, <1>3, <1>4, StartClientStep

LEMMA SampleStays ==
  ASSUME XSampleTypeOK, XSampleInv, UNCHANGED xsample
  PROVE  XSampleTypeOK' /\ XSampleInv'
BY DEF xsample, XSampleTypeOK, XSampleInv, SampleUnderWay, Keep, CutIsFailed

LEMMA ReadsNoMore ==
  ASSUME remaining \in Nat, NEW window, NEW size \in Nat, NEW limit \in Nat
  PROVE  Outcome(window, size, limit).read <= size
<1> DEFINE length == PropertyLength(limit)
<1>1. length \in Nat
  BY MinOfTwo DEF PropertyLength
<1>2. Min({size, length}) <= size
  <2> HIDE DEF length
  <2> QED
    BY <1>1, MinOfTwo
<1>3. \/ Outcome(window, size, limit) = [read |-> 0, charged |-> 0, error |-> TRUE]
      \/ Outcome(window, size, limit)
           = [read |-> Min({size, length}), charged |-> Min({size, length}), error |-> size > length]
  BY DEF Outcome
<1>4. Outcome(window, size, limit).read \in {0, Min({size, length})}
  <2> HIDE DEF length
  <2> QED
    BY <1>3
<1> QED
  BY <1>2, <1>4

\* A request is charged for what it read, which is all of the property unless
\* there is an error.
LEMMA OutcomeIs ==
  ASSUME remaining \in Nat, NEW window, NEW size \in Nat, NEW limit \in Nat
  PROVE  LET answer == Outcome(window, size, limit)
         IN /\ answer.read \in Nat /\ answer.charged \in Nat /\ answer.charged <= remaining
            /\ ~answer.error => answer.read = size
<1> DEFINE answer == Outcome(window, size, limit)
           length == PropertyLength(limit)
           n == Min({size, length})
<1>1. length \in Nat /\ length <= remaining
  <2>1. Min({limit, remaining}) \in {limit, remaining} /\ Min({limit, remaining}) <= remaining
    BY MinOfTwo
  <2> QED
    BY <2>1 DEF PropertyLength
<1>2. n \in {size, length} /\ n <= size /\ n <= length
  <2> HIDE DEF length
  <2> QED
    BY <1>1, MinOfTwo
<1>3. answer = IF length = 0 \/ window \notin xlive
               THEN [read |-> 0, charged |-> 0, error |-> TRUE]
               ELSE [read |-> n, charged |-> n, error |-> size > length]
  BY DEF Outcome
<1> HIDE DEF answer, length, n
<1>4. CASE length = 0 \/ window \notin xlive
  <2>1. answer.read = 0 /\ answer.charged = 0 /\ answer.error
    BY <1>3, <1>4
  <2> QED
    BY <2>1 DEF answer
<1>5. CASE ~(length = 0 \/ window \notin xlive)
  <2>1. answer.read = n /\ answer.charged = n /\ (answer.error <=> size > length)
    BY <1>3, <1>5
  <2>2. n \in Nat /\ n <= remaining
    BY <1>1, <1>2
  <2>3. ~answer.error => answer.read = size
    BY <1>1, <1>2, <2>1
  <2> QED
    BY <2>1, <2>2, <2>3 DEF answer
<1> QED
  BY <1>4, <1>5

LEMMA KeepType ==
  ASSUME XSampleTypeOK
  PROVE  Keep \in Nat /\ \A r \in xrows : [s \in xrows |-> s.kept][r] = r.kept /\ r.kept \in Nat
<1> DEFINE f == [s \in xrows |-> s.kept]
<1>1. IsFiniteSet(xrows) /\ DOMAIN f = xrows /\ \A r \in xrows : f[r] = r.kept /\ f[r] \in Nat
  BY DEF XSampleTypeOK, XRows
<1>2. Keep = SumFunctionOnSet(f, xrows)
  BY DEF Keep, SumFunction
<1>3. SumFunctionOnSet(f, xrows) \in Nat
  <2> HIDE DEF f
  <2> QED
    BY <1>1, SumType
<1> QED
  BY <1>1, <1>2, <1>3

\* A request goes on with the row and charges at least what the row keeps.
LEMMA RowGoesOn ==
  ASSUME XInv, UNCHANGED <<xserver, todo, listed, xrows, xaction>>,
         xstep \notin {"idle", "next"},
         xstep' \in {"legacy", "pid", "process", "icon", "class", "push"},
         remaining' \in Nat, xrow' \in XRows, xrow'.window = xrow.window,
         xrow'.kept + remaining' <= xrow.kept + remaining,
         xrow'.cut => xrow'.failed,
         MakerKeepsId(xrow.window, xrow'.maker)
  PROVE  XInv'
<1>1. xclients' = xclients /\ xclient' = xclient /\ xwindow' = xwindow /\ xrange' = xrange
      /\ todo' = todo /\ listed' = listed /\ xrows' = xrows /\ xaction' = xaction
  BY DEF xserver
<1>2. XTypeOK'
  BY <1>1 DEF XInv, XTypeOK, XServerTypeOK, XSampleTypeOK
<1>3. XServerInv'
  <2>1. MakersKeepIds'
    BY <1>1 DEF XInv, XServerInv, MakersKeepIds, MakerKeepsId, Connected
  <2> QED
    BY <1>1, <2>1 DEF XInv, XServerInv, ClientsCounted, OwnIds, Connected, CheckedInTime,
                      ActionReachesProcess
<1>4. XSampleInv'
  <2>1. Keep \in Nat /\ Keep' = Keep /\ xrow.kept \in Nat /\ xrow'.kept \in Nat /\ remaining \in Nat
    BY <1>1, KeepType DEF XInv, XTypeOK, Keep, XSampleTypeOK, XRows
  <2>2. Keep + xrow.kept + remaining <= Budget /\ {r.window : r \in xrows} = listed \ todo
        /\ xrow.window \in todo
    BY DEF XInv, XSampleInv, SampleUnderWay
  <2>3. Budget \in Nat
    BY XAssumption
  <2>4. Keep' + xrow'.kept + remaining' <= Budget
    BY <2>1, <2>2, <2>3
  <2>5. SampleUnderWay'
    BY <1>1, <2>2, <2>4 DEF SampleUnderWay
  <2>6. CutIsFailed'
    BY <1>1 DEF XInv, XSampleInv, CutIsFailed
  <2> QED
    BY <2>5, <2>6 DEF XSampleInv
<1> QED
  BY <1>2, <1>3, <1>4 DEF XInv

LEMMA ReadTitleStep ==
  ASSUME XInv, NEW property, xstep \in {"title", "legacy"}, ReadTitle(property)
  PROVE  XInv'
<1>1. PICK size \in 0..MaxProperty :
        LET answer == Outcome(xrow.window, size, TextLimit)
            kept == ~answer.error /\ Charges(answer, answer.read)
        IN /\ remaining' = remaining - answer.charged - (IF kept THEN answer.read ELSE 0)
           /\ xstep' = IF ~answer.error /\ answer.read = 0 /\ property = "title" THEN "legacy" ELSE "pid"
           /\ xrow' = [xrow EXCEPT !.title = IF kept /\ answer.read > 0 THEN "text" ELSE "id",
                                   !.kept = @ + (IF kept THEN answer.read ELSE 0),
                                   !.cut = @ \/ (kept /\ answer.read < size),
                                   !.failed = @ \/ answer.error \/ ~kept]
  BY Zenon DEF ReadTitle
<1> DEFINE answer == Outcome(xrow.window, size, TextLimit)
           read == answer.read
           charged == answer.charged
           kept == ~answer.error /\ Charges(answer, read)
           more == IF kept THEN read ELSE 0
           cut == xrow.cut \/ (kept /\ read < size)
           failed == xrow.failed \/ answer.error \/ ~kept
           title == IF kept /\ read > 0 THEN "text" ELSE "id"
<1>2. remaining \in Nat /\ xrow \in XRows /\ TextLimit \in Nat /\ size \in Nat
  BY XAssumption DEF XInv, XTypeOK, XSampleTypeOK
<1>3. read \in Nat /\ charged \in Nat /\ charged <= remaining
      /\ (~answer.error => read = size)
  BY <1>2, OutcomeIs
<1>4. kept => remaining - charged >= read
  BY DEF Charges
<1>5. xrow' = [xrow EXCEPT !.title = title, !.kept = xrow.kept + more, !.cut = cut, !.failed = failed]
      /\ remaining' = remaining - charged - more
  BY <1>1
<1>6. title \in {"text", "id"} /\ cut \in BOOLEAN /\ failed \in BOOLEAN
  BY <1>2, <1>3 DEF XRows, Charges
<1>7. xstep' \in {"legacy", "pid"}
  BY <1>1
<1>8. cut => failed
  <2>1. kept => ~(read < size)
    BY <1>2, <1>3
  <2>2. xrow.cut => xrow.failed
    BY DEF XInv, XSampleInv, CutIsFailed
  <2> QED
    BY <2>1, <2>2
<1>9. more \in Nat /\ remaining - charged - more \in Nat
  BY <1>2, <1>3, <1>4
<1> HIDE DEF answer, read, charged, kept, more, cut, failed, title
<1>10. /\ xrow' \in XRows /\ xrow'.window = xrow.window /\ xrow'.maker = xrow.maker
       /\ xrow'.kept = xrow.kept + more /\ xrow'.cut = cut /\ xrow'.failed = failed
       /\ xrow.kept \in Nat
  <2>1. xrow.kept \in Nat /\ xrow.kept + more \in Nat
    BY <1>2, <1>9 DEF XRows
  <2>2. xrow' \in XRows
    BY <1>2, <1>5, <1>6, <2>1 DEF XRows
  <2>3. xrow'.window = xrow.window /\ xrow'.maker = xrow.maker /\ xrow'.kept = xrow.kept + more
    BY <1>2, <1>5 DEF XRows
  <2>4. xrow'.cut = cut
    BY <1>2, <1>5 DEF XRows
  <2>5. xrow'.failed = failed
    BY <1>2, <1>5 DEF XRows
  <2> QED
    BY <2>1, <2>2, <2>3, <2>4, <2>5
<1>11. xrow'.kept + remaining' <= xrow.kept + remaining /\ remaining' \in Nat
  BY <1>2, <1>3, <1>5, <1>9, <1>10
<1>12. MakerKeepsId(xrow.window, xrow'.maker)
  BY <1>10 DEF XInv, XServerInv, MakersKeepIds
<1>13. UNCHANGED <<xserver, todo, listed, xrows, xaction>>
  BY DEF ReadTitle
<1> QED
  BY <1>7, <1>8, <1>10, <1>11, <1>12, <1>13, RowGoesOn

LEMMA WindowPidStep ==
  ASSUME XInv, WindowPid
  PROVE  XInv'
<1>1. PICK pid \in {0} \cup {p \in XPids : xrow.window \in xlive /\ xclient[p] = xwindow[xrow.window]} :
        xrow' = [xrow EXCEPT !.pid = pid, !.maker = IF pid = 0 THEN 0 ELSE xwindow[xrow.window]]
  BY Zenon DEF WindowPid
<1> DEFINE maker == IF pid = 0 THEN 0 ELSE xwindow[xrow.window]
<1>2. xrow \in XRows /\ xwindow \in [XWindows -> Nat] /\ xclient \in [XPids -> Nat] /\ xclients \in Nat
  BY DEF XInv, XTypeOK, XSampleTypeOK, XServerTypeOK
<1>3. pid # 0 => pid \in XPids /\ xrow.window \in XWindows /\ xwindow[xrow.window] # 0
                 /\ xclient[pid] = xwindow[xrow.window]
  BY DEF xlive
<1>4. maker \in Nat
  BY <1>2, <1>3
<1>5. MakerKeepsId(xrow.window, maker)
  <2>1. CASE pid = 0
    BY <2>1 DEF MakerKeepsId
  <2>2. CASE pid # 0
    <3>1. xrange[xrow.window] = maker
      BY <1>3, <2>2 DEF XInv, XServerInv, OwnIds
    <3>2. maker <= xclients
      BY <1>3, <2>2 DEF XInv, XServerInv, ClientsCounted
    <3> QED
      BY <1>3, <2>2, <3>1, <3>2 DEF MakerKeepsId
  <2> QED
    BY <2>1, <2>2
<1>6. pid \in XPids \cup {0} /\ xrow' = [xrow EXCEPT !.pid = pid, !.maker = maker]
  BY <1>1
<1> HIDE DEF maker
<1>7. xrow' \in XRows /\ xrow'.window = xrow.window /\ xrow'.maker = maker /\ xrow'.kept = xrow.kept
      /\ xrow'.cut = xrow.cut /\ xrow'.failed = xrow.failed /\ xrow.kept \in Nat
  BY <1>2, <1>4, <1>6 DEF XRows
<1>8. xrow'.cut => xrow'.failed
  BY <1>7 DEF XInv, XSampleInv, CutIsFailed
<1>9. /\ UNCHANGED <<xserver, todo, listed, xrows, xaction>> /\ remaining' = remaining
      /\ xstep = "pid" /\ xstep' = "process" /\ remaining \in Nat
  BY DEF WindowPid, XInv, XTypeOK, XSampleTypeOK
<1>10. xrow'.kept + remaining' <= xrow.kept + remaining
  BY <1>7, <1>9
<1> QED
  BY <1>5, <1>7, <1>8, <1>9, <1>10, RowGoesOn

LEMMA FindProcessStep ==
  ASSUME XInv, FindProcess
  PROVE  XInv'
<1>1. /\ UNCHANGED <<xserver, todo, listed, xrows, xaction>> /\ remaining' = remaining
      /\ xstep = "process" /\ xstep' = "icon" /\ remaining \in Nat
      /\ xrow' = [xrow EXCEPT !.process = IdentityOf(xrow.pid)]
  BY DEF FindProcess, XInv, XTypeOK, XSampleTypeOK
<1>2. xrow \in XRows /\ IdentityOf(xrow.pid) \in Nat
  BY DEF XInv, XTypeOK, XSampleTypeOK, XServerTypeOK, XRows, IdentityOf
<1>3. xrow' \in XRows /\ xrow'.window = xrow.window /\ xrow'.maker = xrow.maker
      /\ xrow'.kept = xrow.kept /\ xrow'.cut = xrow.cut /\ xrow'.failed = xrow.failed
      /\ xrow.kept \in Nat
  BY <1>1, <1>2 DEF XRows
<1>4. (xrow'.cut => xrow'.failed) /\ MakerKeepsId(xrow.window, xrow'.maker)
  BY <1>3 DEF XInv, XSampleInv, CutIsFailed, XServerInv, MakersKeepIds
<1>5. xrow'.kept + remaining' <= xrow.kept + remaining
  BY <1>1, <1>3
<1> QED
  BY <1>1, <1>3, <1>4, <1>5, RowGoesOn

\* The icons that are kept are those of the whole property.
LEMMA ReadIconStep ==
  ASSUME XInv, ReadIcon
  PROVE  XInv'
<1>1. PICK words \in IconProperties :
       LET answer == Outcome(xrow.window, Len(words), IconLimit)
           copied == ~answer.error /\ Charges(answer, answer.read)
           icons == Cardinality({edge \in {SmallEdge, LargeEdge} :
                                   EncodesIcon(SubSeq(words, 1, answer.read), edge)})
           encoded == Encoded * icons
           kept == copied /\ Charges(answer, answer.read + encoded)
       IN /\ remaining' = remaining - answer.charged - (IF copied THEN answer.read ELSE 0)
                                    - (IF kept THEN encoded ELSE 0)
          /\ xrow' = [xrow EXCEPT !.icon = IF kept /\ icons > 0 THEN "own" ELSE @,
                                  !.icons = IF kept THEN icons ELSE 0,
                                  !.kept = @ + (IF kept THEN encoded ELSE 0),
                                  !.cut = @ \/ (kept /\ answer.read < Len(words)),
                                  !.failed = @ \/ answer.error \/ ~kept]
          /\ xstep' = IF kept /\ icons > 0 THEN "push" ELSE "class"
  BY Zenon DEF ReadIcon
<1> DEFINE answer == Outcome(xrow.window, Len(words), IconLimit)
           read == answer.read
           charged == answer.charged
           copied == ~answer.error /\ Charges(answer, read)
           icons == Cardinality({edge \in {SmallEdge, LargeEdge} :
                                   EncodesIcon(SubSeq(words, 1, read), edge)})
           encoded == Encoded * icons
           kept == copied /\ Charges(answer, read + encoded)
           cut == xrow.cut \/ (kept /\ read < Len(words))
           failed == xrow.failed \/ answer.error \/ ~kept
           icon == IF kept /\ icons > 0 THEN "own" ELSE xrow.icon
           shown == IF kept THEN icons ELSE 0
           copy == IF copied THEN read ELSE 0
           more == IF kept THEN encoded ELSE 0
<1>2. remaining \in Nat /\ xrow \in XRows /\ IconLimit \in Nat /\ Encoded \in Nat
      /\ words \in Seq(Nat) /\ Len(words) \in Nat
  BY XAssumption DEF XInv, XTypeOK, XSampleTypeOK
<1>3. read \in Nat /\ charged \in Nat /\ charged <= remaining /\ (~answer.error => read = Len(words))
  BY <1>2, OutcomeIs
<1>4. icons \in {0, 2}
  <2>1. SubSeq(words, 1, read) \in Seq(Nat)
    <3>1. read <= Len(words)
      BY <1>2, ReadsNoMore
    <3> HIDE DEF read
    <3>2. \A i \in 1..read : words[i] \in Nat
      BY <1>2, <1>3, <3>1
    <3> QED
      BY <1>2, <1>3, <3>1, <3>2, SubSeqProperties
  <2> HIDE DEF read
  <2> QED
    BY <2>1, IconsOfBothSizes
<1>5. xrow' = [xrow EXCEPT !.icon = icon, !.icons = shown, !.kept = xrow.kept + more, !.cut = cut,
                           !.failed = failed]
      /\ remaining' = remaining - charged - copy - more
      /\ xstep' = IF kept /\ icons > 0 THEN "push" ELSE "class"
  <2> HIDE DEF answer
  <2> QED
    BY <1>1 DEF answer
<1>6. /\ copied => remaining - charged >= read
      /\ kept => copied /\ remaining - charged >= read + encoded
  BY DEF Charges
<1>7. cut => failed
  <2>1. kept => ~(read < Len(words))
    BY <1>2, <1>3
  <2>2. xrow.cut => xrow.failed
    BY DEF XInv, XSampleInv, CutIsFailed
  <2> QED
    BY <2>1, <2>2
<1>8. cut \in BOOLEAN /\ failed \in BOOLEAN
  BY <1>2 DEF XRows
<1>9. icon \in {"none", "own", "entry"} /\ xrow.kept \in Nat
  BY <1>2 DEF XRows
<1>10. xstep' \in {"push", "class"}
  BY <1>5
<1>11. encoded \in Nat
  <2> HIDE DEF icons
  <2> QED
    BY <1>2, <1>4
<1> HIDE DEF answer, read, charged, copied, icons, encoded, kept, cut, failed, icon
<1>12. shown \in {0, 2} /\ copy \in Nat /\ more \in Nat
  BY <1>3, <1>4, <1>11
<1>13. remaining - charged - copy - more \in Nat
  BY <1>2, <1>3, <1>6, <1>11
<1> HIDE DEF shown, copy, more
<1>14. xrow' \in XRows /\ xrow.kept + more \in Nat
  <2>1. xrow.kept + more \in Nat
    BY <1>9, <1>12
  <2> QED
    BY <1>2, <1>5, <1>8, <1>9, <1>12, <2>1 DEF XRows
<1>15. xrow'.window = xrow.window /\ xrow'.maker = xrow.maker /\ xrow'.kept = xrow.kept + more
  BY <1>2, <1>5 DEF XRows
<1>16. xrow'.cut => xrow'.failed
  <2>1. xrow'.cut = cut
    BY <1>2, <1>5 DEF XRows
  <2>2. xrow'.failed = failed
    BY <1>2, <1>5 DEF XRows
  <2> QED
    BY <1>7, <2>1, <2>2
<1>17. remaining' \in Nat /\ xrow'.kept + remaining' <= xrow.kept + remaining
  <2>1. remaining' = remaining - charged - copy - more /\ xrow'.kept = xrow.kept + more
    BY <1>5, <1>15
  <2>2. /\ remaining \in Nat /\ charged \in Nat /\ copy \in Nat /\ more \in Nat
        /\ xrow.kept \in Nat
    BY <1>2, <1>3, <1>9, <1>12
  <2> QED
    BY ONLY <1>13, <2>1, <2>2
<1>18. MakerKeepsId(xrow.window, xrow'.maker)
  BY <1>15 DEF XInv, XServerInv, MakersKeepIds
<1>19. UNCHANGED <<xserver, todo, listed, xrows, xaction>> /\ xstep = "icon"
  BY DEF ReadIcon
<1> QED
  BY <1>10, <1>14, <1>15, <1>16, <1>17, <1>18, <1>19, RowGoesOn

LEMMA ReadClassStep ==
  ASSUME XInv, ReadClass
  PROVE  XInv'
<1>1. PICK size \in 0..MaxProperty, found \in BOOLEAN :
        LET answer == Outcome(xrow.window, size, TextLimit)
        IN /\ remaining' = remaining - answer.charged
           /\ xrow' = [xrow EXCEPT !.icon = IF ~answer.error /\ answer.read > 0 /\ found THEN "entry" ELSE @,
                                   !.cut = @ \/ (~answer.error /\ answer.read < size),
                                   !.failed = @ \/ answer.error]
  BY Zenon DEF ReadClass
<1> DEFINE answer == Outcome(xrow.window, size, TextLimit)
           read == answer.read
           charged == answer.charged
           cut == xrow.cut \/ (~answer.error /\ read < size)
           failed == xrow.failed \/ answer.error
           icon == IF ~answer.error /\ read > 0 /\ found THEN "entry" ELSE xrow.icon
<1>2. remaining \in Nat /\ xrow \in XRows /\ TextLimit \in Nat /\ size \in Nat
  BY XAssumption DEF XInv, XTypeOK, XSampleTypeOK
<1>3. read \in Nat /\ charged \in Nat /\ charged <= remaining /\ (~answer.error => read = size)
  BY <1>2, OutcomeIs
<1>4. xrow' = [xrow EXCEPT !.icon = icon, !.cut = cut, !.failed = failed]
      /\ remaining' = remaining - charged
  BY <1>1
<1>5. cut => failed
  <2>1. ~answer.error => ~(read < size)
    BY <1>2, <1>3
  <2>2. xrow.cut => xrow.failed
    BY DEF XInv, XSampleInv, CutIsFailed
  <2> QED
    BY <2>1, <2>2
<1>6. cut \in BOOLEAN /\ failed \in BOOLEAN
  BY <1>2 DEF XRows
<1>7. icon \in {"none", "own", "entry"} /\ xrow.kept \in Nat
  BY <1>2 DEF XRows
<1> HIDE DEF answer, read, charged, cut, failed, icon
<1>8. xrow' \in XRows
  BY <1>2, <1>4, <1>6, <1>7 DEF XRows
<1>9. xrow'.window = xrow.window /\ xrow'.maker = xrow.maker /\ xrow'.kept = xrow.kept
  BY <1>2, <1>4 DEF XRows
<1>10. xrow'.cut => xrow'.failed
  <2>1. xrow'.cut = cut
    BY <1>2, <1>4 DEF XRows
  <2>2. xrow'.failed = failed
    BY <1>2, <1>4 DEF XRows
  <2> QED
    BY <1>5, <2>1, <2>2
<1>11. remaining' \in Nat /\ xrow'.kept + remaining' <= xrow.kept + remaining
  BY <1>2, <1>3, <1>4, <1>7, <1>9
<1>12. MakerKeepsId(xrow.window, xrow'.maker)
  BY <1>9 DEF XInv, XServerInv, MakersKeepIds
<1>13. UNCHANGED <<xserver, todo, listed, xrows, xaction>> /\ xstep = "class" /\ xstep' = "push"
  BY DEF ReadClass
<1> QED
  BY <1>8, <1>9, <1>10, <1>11, <1>12, <1>13, RowGoesOn

LEMMA ListWindowsStep ==
  ASSUME XInv, ListWindows
  PROVE  XInv'
<1>1. xrows' = {} /\ xrow' = NoXRow /\ UNCHANGED <<xserver, xaction>> /\ xstep = "idle"
  BY DEF ListWindows
<1>2. \/ UNCHANGED <<xstep, todo, remaining, listed>>
      \/ /\ xlive # {} /\ ~(Cardinality(xlive) > WindowLimit)
         /\ xstep' = "next" /\ todo' = xlive /\ listed' = xlive
         /\ remaining' = Budget - Cardinality(xlive)
  BY DEF ListWindows
<1>3. /\ XServerTypeOK /\ XSampleTypeOK /\ xaction \in XActions /\ XServerInv
  BY DEF XInv, XTypeOK
<1>4. xclients' = xclients /\ xclient' = xclient /\ xwindow' = xwindow /\ xrange' = xrange
      /\ xaction' = xaction
  BY <1>1 DEF xserver
<1>5. XServerInv' /\ XServerTypeOK'
  <2>1. MakersKeepIds'
    BY <1>1, <1>3, <1>4, NoRowYet DEF XServerInv, MakersKeepIds, MakerKeepsId, Connected
  <2> QED
    BY <1>3, <1>4, <2>1 DEF XServerInv, XServerTypeOK, ClientsCounted, OwnIds, Connected, CheckedInTime,
                            ActionReachesProcess
<1>6. IsFiniteSet({}) /\ Keep' = 0
  <2>1. IsFiniteSet({})
    BY FS_EmptySet
  <2>2. Keep' = SumFunctionOnSet([r \in {} |-> r.kept], {})
    BY <1>1 DEF Keep, SumFunction
  <2> QED
    BY <2>1, <2>2, SumUnfolds
<1>7. CutIsFailed'
  BY <1>1, NoRowYet DEF CutIsFailed
<1>8. {r.window : r \in xrows'} = {} /\ Budget \in Nat /\ xrow'.kept = 0
  BY <1>1, XAssumption, NoRowYet
<1>9. CASE UNCHANGED <<xstep, todo, remaining, listed>>
  <2>1. XSampleTypeOK'
    BY <1>1, <1>3, <1>6, <1>9, NoRowYet DEF XSampleTypeOK
  <2>2. SampleUnderWay'
    BY <1>1, <1>6, <1>8, <1>9 DEF SampleUnderWay
  <2> QED
    BY <1>3, <1>4, <1>5, <1>7, <2>1, <2>2 DEF XInv, XTypeOK, XSampleInv
<1>10. CASE /\ xlive # {} /\ ~(Cardinality(xlive) > WindowLimit)
            /\ xstep' = "next" /\ todo' = xlive /\ listed' = xlive
            /\ remaining' = Budget - Cardinality(xlive)
  <2>1. Cardinality(xlive) \in Nat /\ xlive \subseteq XWindows
    <3>1. xlive \subseteq XWindows
      BY DEF xlive
    <3> QED
      BY <3>1, XAssumption, FS_Subset, FS_CardinalityType
  <2>2. remaining' \in Nat
    <3>1. WindowLimit \in Nat /\ WindowLimit <= Budget
      BY XAssumption
    <3> QED
      BY <1>8, <1>10, <2>1, <3>1
  <2>3. XSampleTypeOK'
    BY <1>1, <1>6, <1>10, <2>1, <2>2, NoRowYet DEF XSampleTypeOK
  <2>4. Keep' + xrow'.kept + remaining' <= Budget
    BY <1>6, <1>8, <1>10, <2>1
  <2>5. SampleUnderWay'
    BY <1>1, <1>8, <1>10, <2>4 DEF SampleUnderWay
  <2> QED
    BY <1>3, <1>4, <1>5, <1>7, <2>3, <2>5 DEF XInv, XTypeOK, XSampleInv
<1> QED
  BY <1>2, <1>9, <1>10

LEMMA NextWindowStep ==
  ASSUME XInv, NEW w \in XWindows, NextWindow(w)
  PROVE  XInv'
<1>1. /\ xstep = "next" /\ w \in todo /\ xrow' = [NoXRow EXCEPT !.window = w] /\ xstep' = "title"
      /\ UNCHANGED <<xserver, todo, remaining, listed, xrows, xaction>>
  BY Zenon DEF NextWindow
<1>2. /\ XServerTypeOK /\ XSampleTypeOK /\ xaction \in XActions /\ XServerInv
      /\ SampleUnderWay /\ CutIsFailed
  BY DEF XInv, XTypeOK, XSampleInv
<1>3. xclients' = xclients /\ xclient' = xclient /\ xwindow' = xwindow /\ xrange' = xrange
      /\ xaction' = xaction /\ todo' = todo /\ remaining' = remaining /\ listed' = listed /\ xrows' = xrows
  BY <1>1 DEF xserver
<1>4. /\ xrow' \in XRows /\ xrow'.window = w /\ xrow'.maker = 0 /\ xrow'.kept = 0
      /\ ~xrow'.cut
  BY <1>1 DEF NoXRow, XRows
<1>5. XServerInv' /\ XServerTypeOK'
  <2>1. MakersKeepIds'
    BY <1>2, <1>3, <1>4 DEF XServerInv, MakersKeepIds, MakerKeepsId, Connected
  <2> QED
    BY <1>2, <1>3, <2>1 DEF XServerInv, XServerTypeOK, ClientsCounted, OwnIds, Connected, CheckedInTime,
                            ActionReachesProcess
<1>6. XSampleTypeOK'
  BY <1>1, <1>2, <1>3, <1>4 DEF XSampleTypeOK
<1>7. SampleUnderWay'
  <2>1. Keep' = Keep /\ xrow.kept = 0
    BY <1>1, <1>2, <1>3, NoRowYet DEF Keep, SampleUnderWay
  <2>2. Keep + 0 + remaining <= Budget /\ {r.window : r \in xrows} = listed \ todo
    BY <1>1, <1>2, <2>1 DEF SampleUnderWay
  <2> QED
    BY <1>1, <1>3, <1>4, <2>1, <2>2 DEF SampleUnderWay
<1>8. CutIsFailed'
  BY <1>2, <1>3, <1>4 DEF CutIsFailed
<1> QED
  BY <1>2, <1>3, <1>5, <1>6, <1>7, <1>8 DEF XInv, XTypeOK, XSampleInv

\* The row is of a window that has none yet.
LEMMA PushRowStep ==
  ASSUME XInv, PushRow
  PROVE  XInv'
<1>1. /\ xstep = "push" /\ todo' = todo \ {xrow.window} /\ xrows' = xrows \cup {xrow}
      /\ xstep' = (IF todo' = {} THEN "idle" ELSE "next") /\ xrow' = NoXRow
      /\ remaining' = (IF todo' = {} THEN Budget ELSE remaining)
      /\ UNCHANGED <<xserver, listed, xaction>>
  BY DEF PushRow
<1>2. /\ XServerTypeOK /\ XSampleTypeOK /\ xaction \in XActions /\ XServerInv
      /\ SampleUnderWay /\ CutIsFailed
  BY DEF XInv, XTypeOK, XSampleInv
<1>3. xclients' = xclients /\ xclient' = xclient /\ xwindow' = xwindow /\ xrange' = xrange
      /\ xaction' = xaction /\ listed' = listed
  BY <1>1 DEF xserver
<1>4. /\ {r.window : r \in xrows} = listed \ todo /\ xrow.window \in todo
      /\ Keep + xrow.kept + remaining <= Budget
  BY <1>1, <1>2 DEF SampleUnderWay
<1>5. xrow \in XRows /\ remaining \in Nat /\ todo \subseteq listed /\ xrows \subseteq XRows
      /\ IsFiniteSet(xrows) /\ Budget \in Nat /\ xrow.kept \in Nat /\ Keep \in Nat
  BY <1>2, XAssumption, KeepType DEF XSampleTypeOK, XRows
<1>6. xrow \notin xrows
  BY <1>4
<1>7. IsFiniteSet(xrows')
  BY <1>1, <1>5, FS_AddElement
<1>8. Keep' = Keep + xrow.kept
  <2> DEFINE f == [r \in xrows' |-> r.kept]
             g == [r \in xrows |-> r.kept]
  <2>1. /\ xrow \in xrows' /\ xrows' \ {xrow} = xrows /\ DOMAIN f = xrows' /\ DOMAIN g = xrows
        /\ f[xrow] = xrow.kept /\ \A r \in xrows' : f[r] \in Nat
    BY <1>1, <1>5, <1>6 DEF XRows
  <2>2. \A r \in xrows : f[r] \in Nat /\ f[r] = g[r]
    BY <1>1, <1>5 DEF XRows
  <2>3. Keep' = SumFunctionOnSet(f, xrows') /\ Keep = SumFunctionOnSet(g, xrows)
    BY <2>1 DEF Keep, SumFunction
  <2> HIDE DEF f, g
  <2>4. SumFunctionOnSet(f, xrows') = f[xrow] + SumFunctionOnSet(f, xrows' \ {xrow})
    BY <1>7, <2>1, SumWithout
  <2>5. SumFunctionOnSet(f, xrows) = SumFunctionOnSet(g, xrows)
    BY <1>5, <2>2, SumOfSame
  <2>6. SumFunctionOnSet(f, xrows' \ {xrow}) = SumFunctionOnSet(f, xrows)
    BY <2>1
  <2> QED
    BY <1>5, <2>1, <2>3, <2>4, <2>5, <2>6
<1>9. XServerInv' /\ XServerTypeOK'
  <2>1. MakersKeepIds'
    BY <1>1, <1>2, <1>3, NoRowYet DEF XServerInv, MakersKeepIds, MakerKeepsId, Connected
  <2> QED
    BY <1>2, <1>3, <2>1 DEF XServerInv, XServerTypeOK, ClientsCounted, OwnIds, Connected, CheckedInTime,
                            ActionReachesProcess
<1>10. XSampleTypeOK'
  <2>1. todo' \subseteq listed' /\ listed' \subseteq XWindows
    BY <1>1, <1>2, <1>3 DEF XSampleTypeOK
  <2>2. remaining' \in Nat /\ xstep' \in {"idle", "next"}
    BY <1>1, <1>5
  <2>3. xrow' \in XRows /\ xrows' \subseteq XRows
    BY <1>1, <1>5, NoRowYet
  <2> QED
    BY <1>7, <2>1, <2>2, <2>3 DEF XSampleTypeOK
<1>11. SampleUnderWay'
  <2>1. {r.window : r \in xrows'} = listed' \ todo'
    <3>1. {r.window : r \in xrows'} = {r.window : r \in xrows} \cup {xrow.window}
      BY <1>1
    <3> QED
      BY <1>1, <1>3, <1>4, <1>5, <3>1
  <2>2. xrow'.kept = 0
    BY <1>1, NoRowYet
  <2>3. Keep' <= Budget /\ Keep' + 0 + remaining <= Budget
    BY <1>4, <1>5, <1>8
  <2>4. CASE todo' = {}
    <3>1. xstep' = "idle" /\ listed' \ todo' = listed'
      BY <1>1, <2>4
    <3> QED
      BY <1>1, <2>1, <2>3, <3>1 DEF SampleUnderWay
  <2>5. CASE todo' # {}
    <3>1. xstep' = "next" /\ remaining' = remaining
      BY <1>1, <2>5
    <3> QED
      BY <1>1, <2>1, <2>2, <2>3, <3>1 DEF SampleUnderWay
  <2> QED
    BY <2>4, <2>5
<1>12. CutIsFailed'
  BY <1>1, <1>2, NoRowYet DEF CutIsFailed
<1> QED
  BY <1>2, <1>3, <1>9, <1>10, <1>11, <1>12 DEF XInv, XTypeOK, XSampleInv

LEMMA ActionStep ==
  ASSUME XInv, UNCHANGED <<xserver, xsample>>, xaction' \in XActions,
         MakerKeepsId(xaction'.window, xaction'.maker), CheckedInTime', ActionReachesProcess'
  PROVE  XInv'
<1>1. xclients' = xclients /\ xclient' = xclient /\ xwindow' = xwindow /\ xrange' = xrange
      /\ xrow' = xrow /\ xrows' = xrows
  BY DEF xserver, xsample
<1>2. XSampleTypeOK' /\ XSampleInv'
  BY SampleStays DEF XInv, XTypeOK
<1>3. MakersKeepIds'
  BY <1>1 DEF XInv, XServerInv, MakersKeepIds, MakerKeepsId, Connected
<1> QED
  BY <1>1, <1>2, <1>3 DEF XInv, XTypeOK, XServerInv, XServerTypeOK, ClientsCounted, OwnIds, Connected

LEMMA ForgetStep ==
  ASSUME XInv, UNCHANGED <<xserver, xsample>>, xaction' = NoXAction
  PROVE  XInv'
<1>1. xclients' = xclients /\ xclients \in Nat
  BY DEF xserver, XInv, XTypeOK, XServerTypeOK
<1>2. CheckedInTime'
  BY <1>1, NoActionYet DEF CheckedInTime
<1>3. ActionReachesProcess' /\ MakerKeepsId(xaction'.window, xaction'.maker)
  BY NoActionYet DEF ActionReachesProcess, MakerKeepsId
<1> QED
  BY <1>2, <1>3, NoActionYet, ActionStep

LEMMA ChooseXRowStep ==
  ASSUME XInv, NEW r \in xrows, ChooseXRow(r)
  PROVE  XInv'
<1>1. /\ xstep = "idle" /\ UNCHANGED <<xserver, xsample>>
      /\ xaction' = [NoXAction EXCEPT !.step = "asked", !.window = r.window, !.pid = r.pid,
                                      !.process = r.process, !.maker = r.maker]
  BY Zenon DEF ChooseXRow
<1>2. r \in XRows
  BY DEF XInv, XTypeOK, XSampleTypeOK
<1>3. /\ xaction' \in XActions /\ xaction'.step = "asked" /\ xaction'.window = r.window
      /\ xaction'.maker = r.maker /\ xaction'.since = 0
  BY <1>1, <1>2 DEF XActions, XRows, NoXAction
<1>4. r.window \in XWindows
  BY <1>1 DEF XInv, XTypeOK, XSampleTypeOK, XSampleInv, SampleUnderWay
<1>5. CheckedInTime'
  <2>1. xclients' \in Nat
    BY <1>1 DEF xserver, XInv, XTypeOK, XServerTypeOK
  <2> QED
    BY <1>3, <1>4, <2>1 DEF CheckedInTime
<1>6. ActionReachesProcess'
  BY <1>3 DEF ActionReachesProcess
<1>7. MakerKeepsId(xaction'.window, xaction'.maker)
  BY <1>3 DEF XInv, XServerInv, MakersKeepIds
<1> QED
  BY <1>1, <1>3, <1>5, <1>6, <1>7, ActionStep

\* A process that is still there has kept its ids.
LEMMA CheckIdentityStep ==
  ASSUME XInv, CheckIdentity
  PROVE  XInv'
<1>1. UNCHANGED <<xserver, xsample>> /\ xaction.step = "asked"
  BY DEF CheckIdentity
<1>2. \/ xaction' = NoXAction
      \/ /\ xaction.process # 0 => IdentityOf(xaction.pid) = xaction.process
         /\ xaction' = [xaction EXCEPT !.step = "checked", !.since = xclients]
  BY DEF CheckIdentity
<1>3. CASE xaction' = NoXAction
  BY <1>1, <1>3, ForgetStep
<1>4. CASE /\ xaction.process # 0 => IdentityOf(xaction.pid) = xaction.process
           /\ xaction' = [xaction EXCEPT !.step = "checked", !.since = xclients]
  <2>1. xaction \in XActions /\ xclients \in Nat /\ xclients' = xclients /\ xrange' = xrange
    BY <1>1 DEF XInv, XTypeOK, XServerTypeOK, xserver
  <2>2. /\ xaction' \in XActions /\ xaction'.step = "checked" /\ xaction'.since = xclients
        /\ xaction'.window = xaction.window /\ xaction'.maker = xaction.maker
        /\ xaction'.process = xaction.process
    BY <1>4, <2>1 DEF XActions
  <2>3. MakerKeepsId(xaction.window, xaction.maker) /\ xaction.window \in XWindows
    BY <1>1 DEF XInv, XServerInv, MakersKeepIds, CheckedInTime
  <2>4. ASSUME xaction.process # 0, xaction.process = xaction.maker
        PROVE  xrange[xaction.window] = xaction.maker
    <3>1. xaction.pid \in XPids /\ xclient[xaction.pid] = xaction.maker
      BY <1>4, <2>1, <2>4 DEF IdentityOf, XActions
    <3> QED
      BY <2>3, <2>4, <3>1 DEF MakerKeepsId, Connected
  <2>5. CheckedInTime'
    BY <2>1, <2>2, <2>3, <2>4 DEF CheckedInTime
  <2>6. ActionReachesProcess'
    BY <2>2 DEF ActionReachesProcess
  <2>7. MakerKeepsId(xaction'.window, xaction'.maker)
    BY <2>2, <2>3
  <2> QED
    BY <1>1, <2>2, <2>5, <2>6, <2>7, ActionStep
<1> QED
  BY <1>2, <1>3, <1>4

LEMMA SendClientMessageStep ==
  ASSUME XInv, SendClientMessage
  PROVE  XInv'
<1>1. UNCHANGED <<xserver, xsample>> /\ xaction.step = "checked"
      /\ xaction' \in {NoXAction, [xaction EXCEPT !.step = "sent"]}
  BY DEF SendClientMessage
<1>2. CASE xaction' = NoXAction
  BY <1>1, <1>2, ForgetStep
<1>3. CASE xaction' = [xaction EXCEPT !.step = "sent"]
  <2>1. xaction \in XActions /\ xclients' = xclients /\ xrange' = xrange
    BY <1>1 DEF XInv, XTypeOK, xserver
  <2>2. /\ xaction' \in XActions /\ xaction'.step = "sent" /\ xaction'.since = xaction.since
        /\ xaction'.window = xaction.window /\ xaction'.maker = xaction.maker
        /\ xaction'.process = xaction.process
    BY <1>3, <2>1 DEF XActions
  <2>3. CheckedInTime'
    BY <1>1, <2>1, <2>2 DEF XInv, XServerInv, CheckedInTime
  <2>4. ActionReachesProcess'
    BY <2>2 DEF ActionReachesProcess
  <2>5. MakerKeepsId(xaction'.window, xaction'.maker)
    BY <2>2 DEF XInv, XServerInv, MakersKeepIds
  <2> QED
    BY <1>1, <2>2, <2>3, <2>4, <2>5, ActionStep
<1> QED
  BY <1>1, <1>2, <1>3

LEMMA ManageWindowStep ==
  ASSUME XInv, ManageWindow
  PROVE  XInv'
<1>1. UNCHANGED <<xserver, xsample>> /\ xaction.step = "sent"
      /\ xaction' = [xaction EXCEPT !.step = "done", !.on = xwindow[xaction.window]]
  BY DEF ManageWindow
<1> DEFINE on == xwindow[xaction.window]
<1>2. /\ xaction \in XActions /\ xclients' = xclients /\ xrange' = xrange
      /\ xaction.window \in XWindows /\ on \in Nat
  BY <1>1 DEF XInv, XTypeOK, xserver, XServerTypeOK, XServerInv, CheckedInTime
<1>3. xaction' = [xaction EXCEPT !.step = "done", !.on = on]
  BY <1>1
<1>4. on # 0 => xrange[xaction.window] = on
  BY <1>2 DEF XInv, XServerInv, OwnIds
<1> HIDE DEF on
<1>5. /\ xaction' \in XActions /\ xaction'.step = "done" /\ xaction'.since = xaction.since
      /\ xaction'.window = xaction.window /\ xaction'.maker = xaction.maker
      /\ xaction'.process = xaction.process /\ xaction'.on = on
  BY <1>2, <1>3 DEF XActions
<1>6. CheckedInTime'
  BY <1>1, <1>2, <1>5 DEF XInv, XServerInv, CheckedInTime
<1>7. ActionReachesProcess'
  BY <1>1, <1>4, <1>5 DEF XInv, XServerInv, CheckedInTime, ActionReachesProcess
<1>8. MakerKeepsId(xaction'.window, xaction'.maker)
  BY <1>5 DEF XInv, XServerInv, MakersKeepIds
<1> QED
  BY <1>1, <1>5, <1>6, <1>7, <1>8, ActionStep

LEMMA XStep ==
  ASSUME XInv, [XNext]_xVars
  PROVE  XInv'
<1>1. CASE \/ \E p \in XPids : StartClient(p) \/ EndClient(p)
           \/ \E w \in XWindows, p \in XPids : OpenXWindow(w, p)
           \/ \E w \in XWindows : CloseXWindow(w)
  <2>1. XServerTypeOK' /\ XServerInv'
    BY <1>1, ServerStep DEF XInv, XTypeOK
  <2>2. UNCHANGED <<xsample, xaction>>
    BY <1>1 DEF StartClient, EndClient, OpenXWindow, CloseXWindow
  <2>3. XSampleTypeOK' /\ XSampleInv'
    BY <2>2, SampleStays DEF XInv, XTypeOK
  <2> QED
    BY <2>1, <2>2, <2>3 DEF XInv, XTypeOK
<1>2. CASE UNCHANGED xVars
  <2>1. UNCHANGED <<xserver, xsample>> /\ xaction' = xaction
    BY <1>2 DEF xVars
  <2>2. CheckedInTime' /\ ActionReachesProcess'
    BY <2>1 DEF xserver, XInv, XServerInv, CheckedInTime, ActionReachesProcess
  <2> QED
    BY <2>1, <2>2, ActionStep DEF XInv, XTypeOK, XServerInv, MakersKeepIds
<1>3. CASE Title \/ LegacyTitle
  BY <1>3, ReadTitleStep DEF Title, LegacyTitle
<1>4. CASE Forget
  BY <1>4, ForgetStep DEF Forget
<1> QED
  BY <1>1, <1>2, <1>3, <1>4, NextWindowStep, ListWindowsStep, WindowPidStep, FindProcessStep,
     ReadIconStep, ReadClassStep, PushRowStep, ChooseXRowStep, CheckIdentityStep,
     SendClientMessageStep, ManageWindowStep
     DEF XNext

\* Rows of the Applications page on X11 are honest and stay within the budget,
\* and actions reach no window of another client that was there when they were
\* checked: for any clients, windows, property sizes and limits.
THEOREM SnapshotCorrect == XSpec => [](XTypeOK /\ SnapshotHonest)
<1>1. XInit => XInv
  <2> SUFFICES ASSUME XInit PROVE XInv
    OBVIOUS
  <2>1. PICK p \in XPids : xclient = [q \in XPids |-> IF q = p THEN 1 ELSE 0]
    BY DEF XInit
  <2>2. PICK open \in SUBSET XWindows : xwindow = [w \in XWindows |-> IF w \in open THEN 1 ELSE 0]
    BY DEF XInit
  <2>3. /\ xclients = 1 /\ xrange = [w \in XWindows |-> 1] /\ xaction = NoXAction
        /\ xstep = "idle" /\ todo = {} /\ xrow = NoXRow /\ remaining = Budget /\ listed = {} /\ xrows = {}
    BY DEF XInit
  <2>4. IsFiniteSet({}) /\ Keep = 0 /\ Budget \in Nat
    <3>1. IsFiniteSet({})
      BY FS_EmptySet
    <3>2. Keep = SumFunctionOnSet([r \in {} |-> r.kept], {})
      BY <2>3 DEF Keep, SumFunction
    <3> QED
      BY <3>1, <3>2, SumUnfolds, XAssumption
  <2>5. XTypeOK
    BY <2>1, <2>2, <2>3, <2>4, NoRowYet, NoActionYet DEF XTypeOK, XServerTypeOK, XSampleTypeOK
  <2>6. OwnIds
    BY <2>1, <2>2, <2>3 DEF OwnIds, Connected
  <2>7. MakersKeepIds /\ CheckedInTime /\ ActionReachesProcess
    BY <2>3, NoRowYet, NoActionYet DEF MakersKeepIds, MakerKeepsId, CheckedInTime, ActionReachesProcess
  <2>8. SampleUnderWay /\ CutIsFailed
    BY <2>3, <2>4, NoRowYet DEF SampleUnderWay, CutIsFailed
  <2>9. ClientsCounted
    BY <2>1, <2>3 DEF ClientsCounted
  <2> QED
    BY <2>5, <2>6, <2>7, <2>8, <2>9 DEF XInv, XServerInv, XSampleInv
<1>2. XInv /\ [XNext]_xVars => XInv'
  BY XStep
<1>3. XInv => XTypeOK /\ SnapshotHonest
  <2> SUFFICES ASSUME XInv PROVE RowsHonest
    BY DEF XInv, XServerInv, SnapshotHonest
  <2>1. Keep + xrow.kept <= Budget
    <3>1. Keep \in Nat /\ xrow.kept \in Nat /\ remaining \in Nat /\ Budget \in Nat
      BY KeepType, XAssumption DEF XInv, XTypeOK, XSampleTypeOK, XRows
    <3>2. CASE xstep = "idle"
      BY <3>1, <3>2, NoRowYet DEF XInv, XSampleInv, SampleUnderWay
    <3>3. CASE xstep # "idle"
      BY <3>1, <3>3 DEF XInv, XSampleInv, SampleUnderWay
    <3> QED
      BY <3>2, <3>3
  <2>2. \A r \in xrows : (~r.failed => ~r.cut) /\ r.icons \in {0, 2}
    BY DEF XInv, XTypeOK, XSampleTypeOK, XRows, XSampleInv, CutIsFailed
  <2>3. xstep = "idle" => {r.window : r \in xrows} \in {listed, {}}
    BY DEF XInv, XSampleInv, SampleUnderWay
  <2> QED
    BY <2>1, <2>2, <2>3 DEF RowsHonest, Keep
<1> QED
  BY <1>1, <1>2, <1>3, PTL DEF XSpec

-----------------------------------------------------------------------------
(* WindowsCounters: every rate spans two readings of one source.           *)

\* The sum of sums.
LEMMA SumPlus ==
  ASSUME NEW f, NEW g, NEW h, NEW S, IsFiniteSet(S),
         \A x \in S : f[x] \in Nat /\ g[x] \in Nat /\ h[x] = f[x] + g[x]
  PROVE  SumFunctionOnSet(h, S) = SumFunctionOnSet(f, S) + SumFunctionOnSet(g, S)
<1> DEFINE P == {s \in SUBSET S : SumFunctionOnSet(h, s)
                                   = SumFunctionOnSet(f, s) + SumFunctionOnSet(g, s)}
<1>1. ASSUME NEW t \in SUBSET S, \A u \in SUBSET t : u # t => u \in P
      PROVE  t \in P
  <2>1. IsFiniteSet(t)
    BY FS_Subset
  <2>2. CASE t = {}
    <3>1. /\ SumFunctionOnSet(f, t) = 0 /\ SumFunctionOnSet(g, t) = 0
          /\ SumFunctionOnSet(h, t) = 0
      BY <2>1, <2>2, SumUnfolds
    <3> QED
      BY <3>1
  <2>3. CASE t # {}
    <3> DEFINE c == Choice(t)
               rest == t \ {c}
    <3>1. c \in t /\ rest \in P /\ f[c] \in Nat /\ g[c] \in Nat /\ h[c] = f[c] + g[c]
      BY <1>1, <2>3, ChoiceIn
    <3>2. /\ SumFunctionOnSet(f, t) = f[c] + SumFunctionOnSet(f, rest)
          /\ SumFunctionOnSet(g, t) = g[c] + SumFunctionOnSet(g, rest)
          /\ SumFunctionOnSet(h, t) = h[c] + SumFunctionOnSet(h, rest)
      BY <2>1, <2>3, SumUnfolds
    <3>3. SumFunctionOnSet(h, rest) = SumFunctionOnSet(f, rest) + SumFunctionOnSet(g, rest)
      BY <3>1
    <3>4. IsFiniteSet(rest) /\ \A x \in rest : f[x] \in Nat /\ g[x] \in Nat
      BY <2>1, FS_Subset
    <3>5. SumFunctionOnSet(f, rest) \in Nat /\ SumFunctionOnSet(g, rest) \in Nat
      BY <3>4, SumType
    <3> HIDE DEF rest, c
    <3>6. SumFunctionOnSet(h, t) = SumFunctionOnSet(f, t) + SumFunctionOnSet(g, t)
      BY <3>1, <3>2, <3>3, <3>5
    <3> QED
      BY <3>6
  <2> QED
    BY <2>2, <2>3
<1> HIDE DEF P
<1>2. P \in SUBSET SUBSET S
  BY DEF P
<1>3. S \in P
  BY <1>1, <1>2, SubsetsFirst
<1> QED
  BY <1>3 DEF P

\* The parts of a processor's time make up the whole.
LEMMA PartsOfTime ==
  ASSUME NEW before \in Readouts, NEW now \in Readouts
  PROVE  LET d == Difference(before, now)
         IN /\ \A k \in Kinds : d[k] \in Int
            /\ d["total"] = d["idle"] + (d["user"] + d["kernel"])
<1>1. before \in [idle : Nat, kernel : Nat, user : Nat, dpc : Nat, interrupt : Nat]
      /\ now \in [idle : Nat, kernel : Nat, user : Nat, dpc : Nat, interrupt : Nat]
  BY CounterAssumption
<1> QED
  BY <1>1 DEF Difference, TimesOf, Kinds

\* The sums of possible differences are possible.
LEMMA SumsArePossible ==
  ASSUME NEW n \in Nat, NEW before \in [1..n -> Readouts], NEW now \in [1..n -> Readouts],
         NEW apart
  PROVE  SharesAgree(Delta(before, now, apart))
<1> DEFINE ds == [i \in 1..n |-> Difference(before[i], now[i])]
           F(k) == [i \in 1..n |-> ds[i][k]]
           T(k) == SumFunctionOnSet(F(k), 1..n)
           Both == [i \in 1..n |-> ds[i]["user"] + ds[i]["kernel"]]
<1>1. Len(now) = n
  OBVIOUS
<1>2. CASE Delta(before, now, apart) = Nothing
  BY <1>2 DEF SharesAgree
<1>3. CASE Delta(before, now, apart) # Nothing
  <2>1. /\ Delta(before, now, apart) = Summary(ds)
        /\ \A i \in 1..n : Plausible(ds[i])
    <3>1. Len(ds) = n
      OBVIOUS
    <3>2. /\ Delta(before, now, apart) = IF \E i \in 1..Len(ds) : ~Plausible(ds[i]) THEN Nothing
                                           ELSE Summary(ds)
      BY <1>1, <1>3 DEF Delta
    <3> HIDE DEF ds
    <3> QED
      BY <3>1, <3>2, <1>3
  <2>2. \A i \in 1..n : /\ \A k \in Kinds : ds[i][k] \in Nat /\ ds[i][k] <= ds[i]["total"]
                        /\ ds[i]["dpc"] <= ds[i]["kernel"] /\ ds[i]["interrupt"] <= ds[i]["kernel"]
                        /\ ds[i]["total"] = ds[i]["idle"] + (ds[i]["user"] + ds[i]["kernel"])
    <3> TAKE i \in 1..n
    <3>1. ds[i] = Difference(before[i], now[i]) /\ before[i] \in Readouts /\ now[i] \in Readouts
      OBVIOUS
    <3>2. Plausible(ds[i])
      BY <2>1
    <3> HIDE DEF ds
    <3>3. /\ \A k \in Kinds : ds[i][k] \in Int
          /\ ds[i]["total"] = ds[i]["idle"] + (ds[i]["user"] + ds[i]["kernel"])
      BY <3>1, PartsOfTime
    <3> QED
      BY <3>2, <3>3 DEF Plausible
  <2>3. \A k \in Kinds : Summary(ds).sum[k] = T(k)
    <3>1. Len(ds) = n
      OBVIOUS
    <3> HIDE DEF ds
    <3>2. Summary(ds).sum = [k \in Kinds |-> SumFunction([i \in 1..n |-> ds[i][k]])]
      BY <3>1 DEF Summary
    <3> TAKE k \in Kinds
    <3>3. Summary(ds).sum[k] = SumFunction(F(k))
      BY <3>2
    <3>4. DOMAIN F(k) = 1..n
      OBVIOUS
    <3> HIDE DEF F
    <3> QED
      BY <3>3, <3>4 DEF SumFunction
  <2>4. IsFiniteSet(1..n)
    BY FS_Interval
  <2>5. \A k \in Kinds : \A i \in 1..n : F(k)[i] = ds[i][k] /\ F(k)[i] \in Nat
    <3> HIDE DEF ds
    <3> QED
      BY <2>2
  <2>6. \A i \in 1..n : Both[i] = ds[i]["user"] + ds[i]["kernel"] /\ Both[i] \in Nat
    <3> HIDE DEF ds
    <3>1. "user" \in Kinds /\ "kernel" \in Kinds
      BY DEF Kinds
    <3> QED
      BY <2>2, <3>1
  <2> HIDE DEF F, ds, Both
  <2>7. {"idle", "kernel", "user", "dpc", "interrupt", "total"} \subseteq Kinds
    BY DEF Kinds
  <2>8. \A k \in Kinds : T(k) \in Nat
    BY <2>4, <2>5, SumType
  <2>9. \A k \in Kinds : T(k) <= T("total")
    <3> TAKE k \in Kinds
    <3>1. \A i \in 1..n : F(k)[i] \in Nat /\ F("total")[i] \in Nat /\ F(k)[i] <= F("total")[i]
      BY <2>2, <2>5, <2>7
    <3> QED
      BY <3>1, <2>4, SumPointwise
  <2>10. T("dpc") <= T("kernel") /\ T("interrupt") <= T("kernel")
    <3>1. \A i \in 1..n : /\ F("dpc")[i] \in Nat /\ F("kernel")[i] \in Nat /\ F("interrupt")[i] \in Nat
                          /\ F("dpc")[i] <= F("kernel")[i] /\ F("interrupt")[i] <= F("kernel")[i]
      BY <2>2, <2>5, <2>7
    <3> QED
      BY <3>1, <2>4, SumPointwise
  <2>11. T("total") = T("idle") + (T("user") + T("kernel"))
    <3>1. SumFunctionOnSet(Both, 1..n) = T("user") + T("kernel")
      <4>1. \A i \in 1..n : /\ F("user")[i] \in Nat /\ F("kernel")[i] \in Nat
                            /\ Both[i] = F("user")[i] + F("kernel")[i]
        BY <2>5, <2>6, <2>7
      <4> QED
        BY <4>1, <2>4, SumPlus
    <3>2. T("total") = T("idle") + SumFunctionOnSet(Both, 1..n)
      <4>1. \A i \in 1..n : /\ F("idle")[i] \in Nat /\ Both[i] \in Nat
                            /\ F("total")[i] = F("idle")[i] + Both[i]
        BY <2>2, <2>5, <2>6, <2>7
      <4> QED
        BY <4>1, <2>4, SumPlus
    <3> QED
      BY <3>1, <3>2
  <2> DEFINE D == Summary(ds)
  <2> HIDE DEF T
  <2>12. /\ D.sum.total = T("total") /\ D.sum.idle = T("idle") /\ D.sum.user = T("user")
         /\ D.sum.kernel = T("kernel") /\ D.sum.dpc = T("dpc") /\ D.sum.interrupt = T("interrupt")
         /\ \A k \in Kinds : D.sum[k] = T(k)
    BY <2>3, <2>7
  <2> HIDE DEF D
  <2>13. \A k \in Kinds : D.sum[k] \in 0..D.sum.total
    BY <2>8, <2>9, <2>12, <2>7
  <2>14. /\ D.sum.total - D.sum.idle = D.sum.user + D.sum.kernel
         /\ D.sum.dpc <= D.sum.kernel /\ D.sum.interrupt <= D.sum.kernel
    BY <2>8, <2>10, <2>11, <2>12, <2>7
  <2>15. SharesAgree(D)
    BY <2>13, <2>14 DEF SharesAgree
  <2> QED
    BY <2>15, <2>1 DEF D
<1> QED
  BY <1>2, <1>3

\* Graphs of equal length stay of equal length: how much a graph grows depends
\* on its length and its capacity only.
LEMMA PushesAgree ==
  ASSUME NEW v \in Seq({"share"}), NEW w \in Seq({"share"}), Len(v) = Len(w)
  PROVE  /\ Push(v, PlotLength, "share") \in Seq({"share"})
         /\ Len(Push(v, PlotLength, "share")) = Len(Push(w, PlotLength, "share"))
<1>1. Len(v) \in Nat /\ Append(v, "share") \in Seq({"share"})
  BY LenProperties, AppendProperties
<1>2. Len(Append(v, "share")) = Len(v) + 1 /\ Len(Append(w, "share")) = Len(w) + 1
  BY AppendProperties
<1>3. CASE PlotLength # 0 /\ "share" # NotFinite /\ Len(v) = PlotLength
  <2>1. v # <<>> /\ w # <<>>
    BY <1>1, <1>3, EmptySeq
  <2>2. /\ Tail(v) \in Seq({"share"}) /\ Len(Tail(v)) = Len(v) - 1
        /\ Tail(w) \in Seq({"share"}) /\ Len(Tail(w)) = Len(w) - 1
    BY <2>1, HeadTailProperties
  <2>3. /\ Append(Tail(v), "share") \in Seq({"share"})
        /\ Len(Append(Tail(v), "share")) = Len(v) - 1 + 1
        /\ Len(Append(Tail(w), "share")) = Len(w) - 1 + 1
    BY <2>2, AppendProperties
  <2> QED
    BY <1>3, <2>3 DEF Push
<1>4. CASE ~(PlotLength # 0 /\ "share" # NotFinite /\ Len(v) = PlotLength)
  BY <1>1, <1>2, <1>4 DEF Push
<1> QED
  BY <1>3, <1>4

Graphs(plotted) == plotted \in Seq(Seq({"share"}))

\* The busy and the kernel graphs of the processors.
PlotPair(b, k) ==
  /\ Graphs(b) /\ Graphs(k) /\ Len(b) = Len(k)
  /\ \A i, j \in 1..Len(b) : Len(b[i]) = Len(k[j])

\* Both lists start anew together, so their graphs cover the same samples.
LEMMA ExtendedAgree ==
  ASSUME NEW plots0, NEW times0, PlotPair(plots0, times0), NEW count \in Nat,
         NEW former, former = IF Len(plots0) # count THEN <<>> ELSE times0,
         NEW longer, longer = Extend(plots0, count),
         NEW other, other = Extend(former, count)
  PROVE  PlotPair(longer, other)
<1>0. /\ plots0 \in Seq(Seq({"share"})) /\ times0 \in Seq(Seq({"share"}))
      /\ Len(plots0) = Len(times0)
      /\ \A i, j \in 1..Len(plots0) : Len(plots0[i]) = Len(times0[j])
  BY DEF PlotPair, Graphs
<1> DEFINE Empty == [i \in 1..count |-> <<>>]
           b == IF Len(plots0) # count THEN Empty ELSE plots0
           t == IF Len(plots0) # count THEN Empty ELSE times0
<1>1. <<>> \in Seq({"share"}) /\ Len(<<>>) = 0
  BY EmptySeq
<1>2. \A i \in 1..count : b[i] \in Seq({"share"}) /\ t[i] \in Seq({"share"})
  BY <1>0, <1>1, ElementOfSeq
<1>3. \A i, j \in 1..count : Len(b[i]) = Len(t[j])
  BY <1>0
<1>4. longer = [i \in 1..count |-> Push(b[i], PlotLength, "share")]
  BY DEF Extend
<1>5. other = [i \in 1..count |-> Push(t[i], PlotLength, "share")]
  <2>1. CASE Len(plots0) # count
    <3>1. other = Extend(<<>>, count) /\ t = Empty
      BY <2>1
    <3>2. CASE count = 0
      BY <3>1, <3>2 DEF Extend
    <3>3. CASE count # 0
      BY <3>1, <3>3, <1>1 DEF Extend
    <3> QED
      BY <3>2, <3>3
  <2>2. CASE Len(plots0) = count
    BY <1>0, <2>2 DEF Extend
  <2> QED
    BY <2>1, <2>2
<1> HIDE DEF b, t
<1>6. \A i \in 1..count : /\ Push(b[i], PlotLength, "share") \in Seq({"share"})
                          /\ Push(t[i], PlotLength, "share") \in Seq({"share"})
  BY <1>2, PushesAgree
<1>7. \A i, j \in 1..count :
         Len(Push(b[i], PlotLength, "share")) = Len(Push(t[j], PlotLength, "share"))
  BY <1>2, <1>3, PushesAgree
<1>8. \A i \in 1..count : longer[i] \in Seq({"share"}) /\ other[i] \in Seq({"share"})
  BY <1>4, <1>5, <1>6
<1>9. /\ longer = [i \in 1..count |-> longer[i]] /\ other = [i \in 1..count |-> other[i]]
  BY <1>4, <1>5
<1>10. \A i, j \in 1..count : Len(longer[i]) = Len(other[j])
  BY <1>4, <1>5, <1>7
<1> HIDE DEF Empty
<1>11. Len(longer) = count /\ Len(other) = count
  BY <1>9
<1>12. /\ longer \in [1..count -> Seq({"share"})] /\ other \in [1..count -> Seq({"share"})]
  BY <1>8, <1>9
<1>13. Graphs(longer) /\ Graphs(other)
  BY <1>12 DEF Graphs
<1>14. \A i, j \in 1..Len(longer) : Len(longer[i]) = Len(other[j])
  BY <1>10, <1>11
<1> QED
  BY <1>11, <1>13, <1>14 DEF PlotPair

CounterTypeOK ==
  /\ times \in [{"performance", "cpu"} -> Answers \cup {Nothing}]
  /\ Graphs(busyPlots) /\ Graphs(timePlots)
  /\ pdhReady \in BOOLEAN \cup {Nothing} /\ pdhRuns \in 0..2 /\ frequency \in BOOLEAN
  /\ query \in BOOLEAN \cup {Nothing} /\ queryRuns \in 0..2

\* A primed baseline is the reading of a collection that succeeded.
PrimedByCollections ==
  /\ pdhReady = TRUE => pdhRuns >= 1
  /\ frequency => pdhRuns = 2
  /\ query = TRUE => queryRuns >= 1
  /\ \A a \in DOMAIN adapterRows : adapterRows[a].busy => queryRuns = 2
  /\ \A l \in Luids : lanRates[l] # Nothing => l \in lanBefore

CounterInv == CounterTypeOK /\ PlotsAgree /\ PrimedByCollections

TimesMove ==
  \A page \in DOMAIN times :
    times'[page] # times[page] => SharesAgree(Delta(times[page], times'[page], 1))

LEMMA AdvanceMoves ==
  ASSUME CounterTypeOK, NEW page0 \in {"performance", "cpu"}, NEW now \in Answers,
         Advance(page0, now)
  PROVE  times' \in [{"performance", "cpu"} -> Answers \cup {Nothing}] /\ TimesMove
<1>1. times' = [times EXCEPT ![page0] = now]
  BY DEF Advance
<1>2. times' \in [{"performance", "cpu"} -> Answers \cup {Nothing}]
  BY <1>1 DEF CounterTypeOK
<1>3. SharesAgree(Delta(times[page0], now, 1))
  <2>1. PICK n \in 1..MaxProcessors : now \in [1..n -> Readouts]
    BY DEF Answers
  <2>2. n \in Nat
    BY <2>1, CounterAssumption
  <2>3. CASE times[page0] = Nothing
    BY <2>3 DEF Delta, SharesAgree
  <2>4. CASE times[page0] # Nothing
    <3>1. PICK m \in 1..MaxProcessors : times[page0] \in [1..m -> Readouts]
      BY <2>4 DEF Answers, CounterTypeOK
    <3>2. Len(times[page0]) = m /\ Len(now) = n
      BY <3>1, <2>1, CounterAssumption
    <3>3. CASE m = n
      BY <3>1, <3>3, <2>1, <2>2, SumsArePossible
    <3>4. CASE m # n
      BY <3>2, <3>4 DEF Delta, SharesAgree
    <3> QED
      BY <3>3, <3>4
  <2> QED
    BY <2>3, <2>4
<1>4. TimesMove
  <2> SUFFICES ASSUME NEW page1 \in {"performance", "cpu"}, times'[page1] # times[page1]
               PROVE  SharesAgree(Delta(times[page1], times'[page1], 1))
    BY DEF TimesMove, CounterTypeOK
  <2>1. page1 = page0 /\ times'[page1] = now
    BY <1>1 DEF CounterTypeOK
  <2> QED
    BY <2>1, <1>3
<1> QED
  BY <1>2, <1>4

LEMMA TimesStay == ASSUME UNCHANGED times PROVE TimesMove
  BY DEF TimesMove

LEMMA PerformanceStep ==
  ASSUME CounterInv, SampleWindowsPerformance
  PROVE  CounterInv' /\ TimesMove
<1>1. PICK now \in Answers : 
        /\ Advance("performance", now)
        /\ \/ UNCHANGED <<busyPlots, timePlots>>
           \/ /\ busyPlots' = Extend(busyPlots, Len(now))
              /\ timePlots' = Extend(IF Len(busyPlots) # Len(now) THEN <<>> ELSE timePlots, Len(now))
        /\ UNCHANGED <<pdhReady, pdhRuns, frequency, gpuPage, networkPage>>
  BY DEF SampleWindowsPerformance
<1>2. times' \in [{"performance", "cpu"} -> Answers \cup {Nothing}] /\ TimesMove
  BY <1>1, AdvanceMoves DEF CounterInv
<1>3. Len(now) \in Nat
  BY CounterAssumption DEF Answers
<1>4. Graphs(busyPlots)' /\ Graphs(timePlots)' /\ PlotsAgree'
  <2>1. CASE UNCHANGED <<busyPlots, timePlots>>
    BY <2>1 DEF CounterInv, CounterTypeOK, PlotsAgree, Graphs
  <2>2. CASE /\ busyPlots' = Extend(busyPlots, Len(now))
             /\ timePlots' = Extend(IF Len(busyPlots) # Len(now) THEN <<>> ELSE timePlots, Len(now))
    <3> DEFINE former == IF Len(busyPlots) # Len(now) THEN <<>> ELSE timePlots
    <3>1. PlotPair(busyPlots, timePlots)
      BY DEF CounterInv, CounterTypeOK, PlotsAgree, PlotPair
    <3>2. busyPlots' = Extend(busyPlots, Len(now)) /\ timePlots' = Extend(former, Len(now))
      BY <2>2
    <3>3. PlotPair(busyPlots', timePlots')
      BY <3>1, <3>2, <1>3, ExtendedAgree
    <3> QED
      BY <3>3 DEF PlotPair, PlotsAgree, Graphs
  <2> QED
    BY <1>1, <2>1, <2>2
<1>5. PrimedByCollections'
  BY <1>1 DEF CounterInv, PrimedByCollections, gpuPage, networkPage
<1> QED
  BY <1>1, <1>2, <1>4, <1>5 DEF CounterInv, CounterTypeOK, gpuPage

LEMMA ProcessorStep ==
  ASSUME CounterInv, SampleWindowsCpu
  PROVE  CounterInv' /\ TimesMove
<1>1. PICK now \in Answers, succeeds \in BOOLEAN, complete \in BOOLEAN :
        /\ Advance("cpu", now)
        /\ \/ Collect(succeeds, complete)
           \/ UNCHANGED <<pdhReady, pdhRuns, frequency>>
        /\ UNCHANGED <<busyPlots, timePlots, gpuPage, networkPage>>
  BY DEF SampleWindowsCpu
<1>2. times' \in [{"performance", "cpu"} -> Answers \cup {Nothing}] /\ TimesMove
  BY <1>1, AdvanceMoves DEF CounterInv
<1>3. /\ pdhReady' \in BOOLEAN \cup {Nothing} /\ pdhRuns' \in 0..2 /\ frequency' \in BOOLEAN
      /\ pdhReady' = TRUE => pdhRuns' >= 1
      /\ frequency' => pdhRuns' = 2
  <2>1. CASE UNCHANGED <<pdhReady, pdhRuns, frequency>>
    BY <2>1 DEF CounterInv, CounterTypeOK, PrimedByCollections
  <2>2. CASE Collect(succeeds, complete) /\ pdhReady = Nothing
    BY <2>2, CounterAssumption DEF Collect, CounterInv, CounterTypeOK
  <2>3. CASE Collect(succeeds, complete) /\ pdhReady # Nothing
    <3>1. /\ pdhReady' = succeeds /\ pdhReady \in BOOLEAN
          /\ pdhRuns' = IF ~succeeds THEN 0 ELSE IF pdhRuns = 2 THEN 2 ELSE pdhRuns + 1
          /\ frequency' = (succeeds /\ pdhReady /\ complete)
      BY <2>3 DEF Collect, CounterInv, CounterTypeOK
    <3>2. pdhRuns \in 0..2 /\ (pdhReady => pdhRuns >= 1)
      BY <3>1 DEF CounterInv, CounterTypeOK, PrimedByCollections
    <3>3. CASE succeeds
      <4>1. pdhRuns' \in 1..2 /\ (pdhReady => pdhRuns' = 2)
        BY <3>1, <3>2, <3>3
      <4> QED
        BY <3>1, <3>3, <4>1
    <3>4. CASE ~succeeds
      BY <3>1, <3>4
    <3> QED
      BY <3>3, <3>4
  <2> QED
    BY <1>1, <2>1, <2>2, <2>3
<1>4. PlotsAgree' /\ Graphs(busyPlots)' /\ Graphs(timePlots)'
  BY <1>1 DEF CounterInv, CounterTypeOK, PlotsAgree, Graphs
<1>5. PrimedByCollections'
  BY <1>1, <1>3 DEF CounterInv, PrimedByCollections, gpuPage, networkPage
<1> QED
  BY <1>1, <1>2, <1>3, <1>4, <1>5 DEF CounterInv, CounterTypeOK, gpuPage

LEMMA AdaptersStep ==
  ASSUME CounterInv, CollectFails \/ CollectAndRead \/ ReadFails
  PROVE  CounterInv' /\ TimesMove
<1>0. DOMAIN NoPlots = {}
  BY DEF NoPlots
<1>1. UNCHANGED <<processorPages, networkPage>>
  BY DEF CollectFails, CollectAndRead, ReadFails
<1>2. /\ query' \in BOOLEAN \cup {Nothing} /\ queryRuns' \in 0..2
      /\ query' = TRUE => queryRuns' >= 1
      /\ \A a \in DOMAIN adapterRows' : adapterRows'[a].busy => queryRuns' = 2
  <2>1. queryRuns \in 0..2 /\ (query = TRUE => queryRuns >= 1)
    BY DEF CounterInv, CounterTypeOK, PrimedByCollections
  <2>2. CASE CollectFails
    <3>1. query' = Nothing /\ Nothing # TRUE /\ queryRuns' = 0
      BY <2>2, CounterAssumption DEF CollectFails
    <3>2. DOMAIN adapterRows' = {}
      BY <2>2, <1>0 DEF CollectFails
    <3>3. /\ query' \in BOOLEAN \cup {Nothing} /\ query' # TRUE
          /\ \A a \in DOMAIN adapterRows' : adapterRows'[a].busy => queryRuns' = 2
      BY <3>1, <3>2, Zenon
    <3>4. queryRuns' \in 0..2
      BY <3>1
    <3> QED
      BY <3>3, <3>4
  <2>3. CASE ReadFails
    BY <2>1, <2>3, <1>0 DEF ReadFails, Primed
  <2>4. CASE CollectAndRead
    <3>0. PICK engines0 \in SUBSET Adapters, used \in SUBSET Adapters,
               inventory \in UNION {[S -> MemorySizes] : S \in SUBSET {a[1] : a \in Adapters}} :
            LET engines == EnginesRead(engines0)
                found == engines \cup used \cup {<<l, 0>> : l \in DOMAIN inventory}
                sum(a) == TotalOf(found, inventory, a)
            IN /\ query' = Primed
               /\ queryRuns' = IF queryRuns = 2 THEN 2 ELSE queryRuns + 1
               /\ plots' = [a \in found |->
                    [memory |-> IF a \in used /\ sum(a) # Nothing
                                THEN Push(PlotsOf(a).memory, PlotLength, "percent")
                                ELSE PlotsOf(a).memory,
                     engine |-> IF a \in engines
                                THEN Push(PlotsOf(a).engine, PlotLength, "percent") ELSE <<>>]]
               /\ metadata' = IF found = {} THEN metadata ELSE [a \in found |-> sum(a)]
               /\ adapterRows' = [a \in found |-> [busy |-> a \in engines, total |-> sum(a)]]
               /\ UNCHANGED <<processorPages, networkPage>>
      BY <2>4 DEF CollectAndRead
    <3> DEFINE found == EnginesRead(engines0) \cup used \cup {<<l, 0>> : l \in DOMAIN inventory}
               totals == [a \in found |-> TotalOf(found, inventory, a)]
    <3>1. /\ query' = Primed /\ queryRuns' = IF queryRuns = 2 THEN 2 ELSE queryRuns + 1
          /\ adapterRows' = [a \in found |-> [busy |-> a \in EnginesRead(engines0), total |-> totals[a]]]
      BY <3>0
    <3> HIDE DEF found, totals
    <3>2. query' = TRUE /\ queryRuns' \in 1..2
      BY <3>1, <2>1 DEF Primed
    <3>3. \A a \in DOMAIN adapterRows' : adapterRows'[a].busy <=> a \in EnginesRead(engines0)
      BY <3>1
    <3>5. ASSUME NEW a \in EnginesRead(engines0) PROVE queryRuns' = 2
      <4>1. query = TRUE
        BY <3>5 DEF EnginesRead, Ready
      <4> QED
        BY <4>1, <2>1, <3>1
    <3> QED
      BY <3>2, <3>3, <3>5
  <2> QED
    BY <2>2, <2>3, <2>4
<1>3. /\ times' = times /\ UNCHANGED <<busyPlots, timePlots, pdhReady, pdhRuns, frequency>>
      /\ UNCHANGED <<lanRates, lanBefore>>
  BY <1>1 DEF processorPages, networkPage
<1>4. PlotsAgree' /\ Graphs(busyPlots)' /\ Graphs(timePlots)'
  BY <1>3 DEF CounterInv, CounterTypeOK, PlotsAgree, Graphs
<1>5. PrimedByCollections'
  BY <1>2, <1>3 DEF CounterInv, PrimedByCollections
<1> QED
  BY <1>2, <1>3, <1>4, <1>5, TimesStay DEF CounterInv, CounterTypeOK

LEMMA InterfacesStep ==
  ASSUME CounterInv, SampleInterfaces
  PROVE  CounterInv' /\ TimesMove
<1>1. UNCHANGED <<processorPages, gpuPage>>
  BY DEF SampleInterfaces
<1>2. \A l \in Luids : lanRates'[l] # Nothing => l \in lanBefore'
  BY DEF SampleInterfaces, LanRate
<1>3. /\ times' = times /\ UNCHANGED <<busyPlots, timePlots, pdhReady, pdhRuns, frequency>>
      /\ UNCHANGED <<query, queryRuns, adapterRows>>
  BY <1>1 DEF processorPages, gpuPage
<1>4. PlotsAgree' /\ Graphs(busyPlots)' /\ Graphs(timePlots)'
  BY <1>3 DEF CounterInv, CounterTypeOK, PlotsAgree, Graphs
<1>5. PrimedByCollections'
  BY <1>2, <1>3 DEF CounterInv, PrimedByCollections
<1> QED
  BY <1>3, <1>4, <1>5, TimesStay DEF CounterInv, CounterTypeOK

LEMMA CounterStep ==
  ASSUME CounterInv, [CounterNext]_counterVars
  PROVE  CounterInv' /\ TimesMove
<1>1. CASE UNCHANGED counterVars
  <2>1. UNCHANGED <<times, busyPlots, timePlots, pdhReady, pdhRuns, frequency, query, queryRuns,
                    adapterRows, lanRates, lanBefore>>
    BY <1>1 DEF counterVars, processorPages, gpuPage, networkPage
  <2> QED
    BY <2>1, TimesStay DEF CounterInv, CounterTypeOK, PlotsAgree, PrimedByCollections, Graphs
<1>2. CASE CounterNext
  BY <1>2, PerformanceStep, ProcessorStep, AdaptersStep, InterfacesStep DEF CounterNext
<1> QED
  BY <1>1, <1>2

\* Every rate of the Performance, CPU, GPU and Network pages on Windows spans two
\* good readings of one source: for any readings, any number of processors,
\* adapters and interfaces, and graphs of any length.
THEOREM RatesSpanTwoReadings == CounterSpec => CountersHaveBaselines
<1>1. CounterInit => CounterInv
  <2> SUFFICES ASSUME CounterInit PROVE CounterInv
    OBVIOUS
  <2>1. <<>> \in Seq(Seq({"share"})) /\ Len(<<>>) = 0
    BY EmptySeq
  <2>2. CounterTypeOK
    <3>2. times \in [{"performance", "cpu"} -> Answers \cup {Nothing}]
      BY DEF CounterInit
    <3>3. pdhReady \in BOOLEAN \cup {Nothing} /\ query = Nothing
      BY DEF CounterInit
    <3>4. pdhRuns \in 0..2 /\ queryRuns \in 0..2
      BY DEF CounterInit
    <3>5. frequency \in BOOLEAN
      BY Zenon DEF CounterInit
    <3>6. Graphs(busyPlots) /\ Graphs(timePlots)
      BY <2>1 DEF CounterInit, Graphs
    <3> QED
      BY <3>2, <3>3, <3>4, <3>5, <3>6, Zenon DEF CounterTypeOK
  <2>3. PlotsAgree
    BY <2>1 DEF CounterInit, PlotsAgree
  <2>4. PrimedByCollections
    BY CounterAssumption DEF CounterInit, PrimedByCollections, NoPlots
  <2> QED
    BY <2>2, <2>3, <2>4 DEF CounterInv
<1>2. CounterInv /\ [CounterNext]_counterVars => CounterInv'
  BY CounterStep
<1>3. CounterInv /\ CounterInv' /\ [CounterNext]_counterVars
        => [/\ \A page \in DOMAIN times :
                 times'[page] # times[page] => SharesAgree(Delta(times[page], times'[page], 1))
            /\ PlotsAgree'
            /\ frequency' => pdhRuns' = 2
            /\ \A a \in DOMAIN adapterRows' : adapterRows'[a].busy => queryRuns' = 2
            /\ \A l \in Luids : lanRates'[l] # Nothing => l \in lanBefore'
           ]_counterVars
  <2> SUFFICES ASSUME CounterInv, CounterInv', [CounterNext]_counterVars
               PROVE  /\ TimesMove
                      /\ PlotsAgree'
                      /\ frequency' => pdhRuns' = 2
                      /\ \A a \in DOMAIN adapterRows' : adapterRows'[a].busy => queryRuns' = 2
                      /\ \A l \in Luids : lanRates'[l] # Nothing => l \in lanBefore'
    BY DEF TimesMove
  <2> QED
    BY CounterStep DEF CounterInv, PrimedByCollections
<1> QED
  BY <1>1, <1>2, <1>3, PTL DEF CounterSpec, CountersHaveBaselines

-----------------------------------------------------------------------------
(* ProcessorSampler: the numbers of the Performance and CPU pages agree.   *)

\* An image has no more elements than its set, and as many if none coincide.
LEMMA ImageCount ==
  ASSUME NEW S, IsFiniteSet(S), NEW f
  PROVE  /\ IsFiniteSet({f[x] : x \in S})
         /\ Cardinality({f[x] : x \in S}) <= Cardinality(S)
         /\ (\A x, y \in S : f[x] = f[y] => x = y) => Cardinality({f[x] : x \in S}) = Cardinality(S)
<1> DEFINE T == {f[x] : x \in S}
           g == [x \in S |-> f[x]]
<1>1. g \in Surjection(S, T)
  BY DEF Surjection
<1>2. (\A x, y \in S : f[x] = f[y] => x = y) => g \in Injection(S, T)
  BY DEF Injection, IsInjective
<1> QED
  BY <1>1, <1>2, FS_Surjection

Together(G, S) == UNION {G[x] : x \in S}

\* Sets that have nothing in common have together as many elements as they add
\* up to.
LEMMA DisjointCount ==
  ASSUME NEW S, IsFiniteSet(S), NEW f, NEW G,
         \A x \in S : IsFiniteSet(G[x]) /\ f[x] = Cardinality(G[x]),
         \A x, y \in S : x # y => G[x] \cap G[y] = {}
  PROVE  /\ IsFiniteSet(Together(G, S))
         /\ Cardinality(Together(G, S)) = SumFunctionOnSet(f, S)
<1> DEFINE All(s) == UNION {G[x] : x \in s}
           P == {s \in SUBSET S : /\ IsFiniteSet(All(s))
                                  /\ Cardinality(All(s)) = SumFunctionOnSet(f, s)}
<1>1. ASSUME NEW t \in SUBSET S, \A u \in SUBSET t : u # t => u \in P
      PROVE  t \in P
  <2>1. IsFiniteSet(t)
    BY FS_Subset
  <2>2. CASE t = {}
    <3>1. All(t) = {} /\ SumFunctionOnSet(f, t) = 0
      BY <2>1, <2>2, SumUnfolds
    <3> HIDE DEF All
    <3> QED
      BY <3>1, FS_EmptySet
  <2>3. CASE t # {}
    <3> DEFINE c == Choice(t)
               rest == t \ {c}
    <3>1. c \in t /\ rest \in P
      BY <1>1, <2>3, ChoiceIn
    <3>2. SumFunctionOnSet(f, t) = f[c] + SumFunctionOnSet(f, rest)
      BY <2>1, <2>3, SumUnfolds
    <3>3. IsFiniteSet(All(rest)) /\ Cardinality(All(rest)) = SumFunctionOnSet(f, rest)
      BY <3>1
    <3>4. All(t) = G[c] \cup All(rest)
      BY <3>1
    <3>5. G[c] \cap All(rest) = {}
      BY <3>1
    <3>6. IsFiniteSet(G[c]) /\ f[c] = Cardinality(G[c])
      BY <3>1
    <3> HIDE DEF All, c, rest, P
    <3>7. /\ IsFiniteSet(All(t))
          /\ Cardinality(All(t)) = Cardinality(G[c]) + Cardinality(All(rest)) - Cardinality({})
      BY <3>3, <3>4, <3>5, <3>6, FS_Union
    <3>8. Cardinality({}) = 0 /\ Cardinality(G[c]) \in Nat /\ Cardinality(All(rest)) \in Nat
      BY <3>3, <3>6, FS_EmptySet, FS_CardinalityType
    <3>9. Cardinality(All(t)) = SumFunctionOnSet(f, t)
      BY <3>2, <3>3, <3>6, <3>7, <3>8
    <3> QED
      BY <3>7, <3>9 DEF P
  <2> QED
    BY <2>2, <2>3
<1> HIDE DEF P
<1>2. P \in SUBSET SUBSET S
  BY DEF P
<1>3. S \in P
  BY <1>1, <1>2, SubsetsFirst
<1> QED
  BY <1>3 DEF P, Together

\* A finite set of numbers has a least and a greatest.
LEMMA LeastAndGreatest ==
  ASSUME NEW T \in SUBSET Nat, IsFiniteSet(T), T # {}
  PROVE  /\ Min(T) \in T /\ \A y \in T : Min(T) <= y
         /\ Max(T) \in T /\ \A y \in T : Max(T) >= y
<1>1. \E x \in T : \A y \in T : x <= y
  BY LeastNatural
<1>2. \E x \in T : \A y \in T : x >= y
  <2> DEFINE P == {s \in SUBSET T : s # {} => \E x \in s : \A y \in s : x >= y}
  <2>1. ASSUME NEW t \in SUBSET T, \A u \in SUBSET t : u # t => u \in P
        PROVE  t \in P
    <3>1. SUFFICES ASSUME t # {} PROVE \E x \in t : \A y \in t : x >= y
      OBVIOUS
    <3> DEFINE c == Choice(t)
    <3>2. c \in t /\ t \ {c} \in P
      BY <2>1, <3>1, ChoiceIn
    <3>3. CASE t \ {c} = {}
      <4>1. \A y \in t : c >= y
        BY <3>2, <3>3
      <4> QED
        BY <4>1, <3>2
    <3>4. CASE t \ {c} # {}
      <4>1. PICK x \in t \ {c} : \A y \in t \ {c} : x >= y
        BY <3>2, <3>4
      <4>2. CASE x >= c
        BY <4>1, <4>2
      <4>3. CASE ~(x >= c)
        <5>0. x \in t /\ t \subseteq Nat
          BY <4>1
        <5>1. x \in Nat /\ c \in Nat /\ c >= x
          <6> HIDE DEF c, P
          <6> QED
            BY <5>0, <3>2, <4>3
        <5>2. \A y \in t : c >= y
          BY <4>1, <5>1
        <5> QED
          BY <3>2, <5>2
      <4> QED
        BY <4>2, <4>3
    <3> QED
      BY <3>3, <3>4
  <2> HIDE DEF P
  <2>2. P \in SUBSET SUBSET T
    BY DEF P
  <2>3. T \in P
    BY <2>1, <2>2, SubsetsFirst
  <2> QED
    BY <2>3 DEF P
<1> QED
  BY <1>1, <1>2 DEF Min, Max

\* Shares that are shown are possible.
LEMMA SharesAddUp ==
  ASSUME NEW earlier \in Readings \cup {Unknown}, NEW later \in Readings
  PROVE  AddsUp(earlier, later)
<1> DEFINE d == [f \in Fields |-> Times(later)[f] - Times(earlier)[f]]
<1>1. CASE Shares(earlier, later) = Unknown
  BY <1>1 DEF AddsUp
<1>2. CASE Shares(earlier, later) # Unknown
  <2>1. /\ Shares(earlier, later) = [busy |-> d.total - d.idle, user |-> d.user, kernel |-> d.kernel,
                                     interrupt |-> d.interrupt, whole |-> d.total]
        /\ \A f \in Fields : ~(d[f] < 0 \/ d[f] > d.total)
        /\ earlier # Unknown
    <3> HIDE DEF d
    <3> QED
      BY <1>2 DEF Shares, d
  <2>2. /\ earlier \in [user : Nat, system : Nat, interrupt : Nat, idle : Nat, steal : Nat]
        /\ later \in [user : Nat, system : Nat, interrupt : Nat, idle : Nat, steal : Nat]
    BY <2>1, ProcessorAssumption
  <2>3. /\ d.user = later.user - earlier.user /\ d.interrupt = later.interrupt - earlier.interrupt
        /\ d.kernel = later.system + later.interrupt - (earlier.system + earlier.interrupt)
        /\ d.idle = later.idle - earlier.idle
        /\ d.total = later.user + later.system + later.interrupt + later.idle + later.steal
                     - (earlier.user + earlier.system + earlier.interrupt + earlier.idle + earlier.steal)
    BY <2>2 DEF Times, Fields
  <2>4. /\ ~(d.user < 0 \/ d.user > d.total) /\ ~(d.kernel < 0 \/ d.kernel > d.total)
        /\ ~(d.interrupt < 0 \/ d.interrupt > d.total) /\ ~(d.idle < 0 \/ d.idle > d.total)
    <3> HIDE DEF d
    <3> QED
      BY <2>1 DEF Fields
  <2>5. /\ d.user \in Int /\ d.kernel \in Int /\ d.interrupt \in Int /\ d.idle \in Int /\ d.total \in Int
        /\ d.user + d.kernel = d.total - d.idle + (earlier.steal - later.steal)
        /\ earlier.steal \in Nat /\ later.steal \in Nat
    BY <2>2, <2>3
  <2> HIDE DEF d
  <2>6. /\ {d.total - d.idle, d.user, d.kernel, d.interrupt} \subseteq 0..d.total
        /\ d.user + d.kernel <= d.total - d.idle + GivenBack(earlier, later)
    BY <2>4, <2>5 DEF GivenBack
  <2> QED
    BY <2>1, <2>6 DEF AddsUp
<1> QED
  BY <1>1, <1>2

\* A core has a thread for each of the processors it is made of, and every core
\* has one.
LEMMA CoresFit ==
  ASSUME NEW placed, IsFiniteSet(placed),
         NEW coreSet, coreSet = {CoreOf(p) : p \in placed},
         NEW double, double = {c \in coreSet : Cardinality(ThreadsOf(placed, c)) > 1}
  PROVE  /\ IsFiniteSet(coreSet) /\ IsFiniteSet(double)
         /\ Cardinality(coreSet) \in Nat /\ Cardinality(double) \in Nat
         /\ Cardinality(double) <= Cardinality(coreSet)
         /\ Cardinality(coreSet) + Cardinality(double) <= Cardinality(placed)
         /\ \A c \in coreSet : /\ ThreadsOf(placed, c) # {} /\ IsFiniteSet(ThreadsOf(placed, c))
                               /\ Cardinality(ThreadsOf(placed, c)) \in Nat \ {0}
<1> DEFINE Th(c) == ThreadsOf(placed, c)
           first == [c \in coreSet |-> Choice(Th(c))]
           second == [c \in double |-> Choice(Th(c) \ {first[c]})]
           A == {first[c] : c \in coreSet}
           B == {second[c] : c \in double}
<1>1. IsFiniteSet(coreSet)
  <2> DEFINE of == [p \in placed |-> CoreOf(p)]
  <2>1. IsFiniteSet({of[p] : p \in placed})
    BY ImageCount
  <2>2. {of[p] : p \in placed} = coreSet
    OBVIOUS
  <2> QED
    BY <2>1, <2>2
<1>2. double \in SUBSET coreSet
  OBVIOUS
<1>3. /\ IsFiniteSet(double) /\ Cardinality(double) <= Cardinality(coreSet)
      /\ Cardinality(coreSet) \in Nat /\ Cardinality(double) \in Nat
  BY <1>1, <1>2, FS_Subset, FS_CardinalityType
<1>4. ASSUME NEW c \in coreSet
      PROVE  /\ Th(c) # {} /\ IsFiniteSet(Th(c)) /\ Cardinality(Th(c)) \in Nat \ {0}
             /\ Th(c) \in SUBSET placed /\ \A p \in Th(c) : CoreOf(p) = c
  <2>1. Th(c) \in SUBSET placed /\ (\A p \in Th(c) : CoreOf(p) = c) /\ Th(c) # {}
    BY <1>4 DEF ThreadsOf
  <2> HIDE DEF Th
  <2>2. IsFiniteSet(Th(c)) /\ Cardinality(Th(c)) \in Nat
    BY <2>1, FS_Subset, FS_CardinalityType
  <2>3. Cardinality(Th(c)) # 0
    BY <2>1, <2>2, FS_EmptySet
  <2> QED
    BY <2>1, <2>2, <2>3
<1>5. \A c \in coreSet : first[c] \in Th(c) /\ CoreOf(first[c]) = c /\ first[c] \in placed
  <2> HIDE DEF Th
  <2> QED
    BY <1>4, ChoiceIn
<1>6. ASSUME NEW c \in double
      PROVE  second[c] \in Th(c) /\ CoreOf(second[c]) = c /\ second[c] \in placed /\ second[c] # first[c]
  <2>1. c \in coreSet /\ Cardinality(Th(c)) > 1
    BY <1>6
  <2> DEFINE others == Th(c) \ {first[c]}
  <2>2. others # {}
    <3>1. IsFiniteSet(Th(c)) /\ Cardinality(Th(c)) \in Nat /\ first[c] \in Th(c)
      BY <2>1, <1>4, <1>5
    <3> HIDE DEF Th, first
    <3>2. Cardinality(others) = Cardinality(Th(c)) - 1
      BY <3>1, FS_RemoveElement
    <3>3. Cardinality(others) # 0
      BY <3>1, <3>2, <2>1
    <3> QED
      BY <3>3, FS_EmptySet
  <2>3. second[c] = Choice(others)
    OBVIOUS
  <2>4. second[c] \in others
    <3> HIDE DEF others, second
    <3> QED
      BY <2>2, <2>3, ChoiceIn
  <2> HIDE DEF Th, first, second
  <2> QED
    BY <2>1, <2>4, <1>4
<1> HIDE DEF first, second, Th
<1>7. IsFiniteSet(A) /\ Cardinality(A) = Cardinality(coreSet)
  <2>1. \A c, e \in coreSet : first[c] = first[e] => c = e
    BY <1>5
  <2> QED
    BY <1>1, <2>1, ImageCount
<1>8. IsFiniteSet(B) /\ Cardinality(B) = Cardinality(double)
  <2>1. \A c, e \in double : second[c] = second[e] => c = e
    BY <1>6
  <2> QED
    BY <1>3, <2>1, ImageCount
<1>9. A \cap B = {} /\ A \cup B \in SUBSET placed
  BY <1>2, <1>5, <1>6
<1> HIDE DEF A, B
<1>10. Cardinality(A \cup B) = Cardinality(coreSet) + Cardinality(double)
  <2>1. Cardinality(A \cup B) = Cardinality(A) + Cardinality(B) - Cardinality(A \cap B)
    BY <1>7, <1>8, FS_Union
  <2>2. Cardinality(A \cap B) = 0
    BY <1>9, FS_EmptySet
  <2> QED
    BY <2>1, <2>2, <1>3, <1>7, <1>8
<1>11. Cardinality(A \cup B) <= Cardinality(placed)
  BY <1>9, FS_Subset
<1> QED
  BY <1>1, <1>3, <1>4, <1>10, <1>11 DEF Th

ClassesOf(class, coreSet) == {class[c] : c \in coreSet}
CountsOf(class, coreSet, classes) ==
  {<<k, Cardinality({c \in coreSet : class[c] = k})>> : k \in classes}

\* Classes count each core at most once.
LEMMA ClassesFit ==
  ASSUME NEW coreSet, IsFiniteSet(coreSet), NEW class, NEW classes,
         classes \subseteq ClassesOf(class, coreSet),
         NEW counts, counts = CountsOf(class, coreSet, classes),
         NEW f, f = [k \in counts |-> k[2]]
  PROVE  SumFunction(f) <= Cardinality(coreSet)
<1> DEFINE G == [k \in counts |-> {c \in coreSet : class[c] = k[1]}]
           n == [k \in classes |-> <<k, Cardinality({c \in coreSet : class[c] = k})>>]
<1>1. IsFiniteSet(classes)
  <2>1. IsFiniteSet({class[c] : c \in coreSet})
    BY ImageCount
  <2> QED
    BY <2>1, FS_Subset DEF ClassesOf
<1>2. IsFiniteSet(counts)
  <2>1. counts = {n[k] : k \in classes}
    BY DEF CountsOf
  <2> HIDE DEF n
  <2>2. IsFiniteSet({n[k] : k \in classes})
    BY <1>1, ImageCount
  <2> QED
    BY <2>1, <2>2
<1>3. \A x \in counts : G[x] \in SUBSET coreSet
  OBVIOUS
<1>4. \A x \in counts : IsFiniteSet(G[x]) /\ f[x] = Cardinality(G[x])
  <2> TAKE x \in counts
  <2>1. PICK k \in classes : x = <<k, Cardinality({c \in coreSet : class[c] = k})>>
    BY DEF CountsOf
  <2>2. x[1] = k /\ x[2] = Cardinality({c \in coreSet : class[c] = k})
    BY <2>1
  <2>3. G[x] = {c \in coreSet : class[c] = k} /\ f[x] = Cardinality(G[x])
    BY <2>2
  <2>4. IsFiniteSet(G[x])
    BY <1>3, FS_Subset
  <2> QED
    BY <2>3, <2>4
<1>5. \A x, y \in counts : x # y => G[x] \cap G[y] = {}
  <2> TAKE x, y \in counts
  <2>1. PICK k \in classes : x = <<k, Cardinality({c \in coreSet : class[c] = k})>>
    BY DEF CountsOf
  <2>2. PICK l \in classes : y = <<l, Cardinality({c \in coreSet : class[c] = l})>>
    BY DEF CountsOf
  <2>3. x # y => x[1] # y[1]
    BY <2>1, <2>2
  <2> QED
    BY <2>3
<1> HIDE DEF G, n
<1>6. SumFunctionOnSet(f, counts) = Cardinality(Together(G, counts))
  BY <1>2, <1>4, <1>5, DisjointCount
<1>7. Together(G, counts) \in SUBSET coreSet
  BY <1>3 DEF Together
<1>8. Cardinality(Together(G, counts)) <= Cardinality(coreSet)
  BY <1>7, FS_Subset
<1>9. DOMAIN f = counts
  OBVIOUS
<1>10. SumFunction(f) = SumFunctionOnSet(f, counts)
  BY <1>9 DEF SumFunction
<1> QED
  BY <1>6, <1>8, <1>10

LEMMA SomeCountIs ==
  ASSUME NEW set, set # {} PROVE SomeCount(set) = Cardinality(set)
  BY DEF SomeCount

LEMMA TopologyHolds ==
  ASSUME NEW list, IsFiniteSet(list), IsFiniteSet(online)
  PROVE  TopologyAddsUp(Topology(list))
<1> DEFINE placed == Placed(list \cap online)
           coreSet == {CoreOf(p) : p \in placed}
           class == [c \in coreSet |-> ClassOf(placed, c)]
           classes == {ClassOf(placed, c) : c \in coreSet} \ {Unknown}
           threads == {Cardinality(ThreadsOf(placed, c)) : c \in coreSet}
           double == {c \in coreSet : Cardinality(ThreadsOf(placed, c)) > 1}
           T == Topology(list)
           counts == {<<k, Cardinality({c \in coreSet : ClassOf(placed, c) = k})>> : k \in classes}
<1>1. /\ T.logical = Cardinality(IF list = {} THEN online ELSE list)
      /\ T.packages = SomeCount({p.package : p \in placed}) /\ T.cores = SomeCount(coreSet)
      /\ T.classCounts = IF coreSet = {} THEN {}
                         ELSE IF classes = {} THEN {<<Unknown, Cardinality(coreSet)>>} ELSE counts
      /\ T.smt = IF coreSet = {} THEN Unknown ELSE Cardinality(double)
      /\ T.fewest = IF threads = {} THEN Unknown ELSE Min(threads)
      /\ T.most = IF threads = {} THEN Unknown ELSE Max(threads)
  BY DEF Topology
<1>2. placed \in SUBSET (list \cap online)
  BY DEF Placed
<1>3. IsFiniteSet(placed)
  <2> HIDE DEF placed
  <2> QED
    BY <1>2, FS_Subset, FS_Intersection
<1>4. SUFFICES ASSUME coreSet # {} PROVE TopologyAddsUp(T)
  <2>1. CASE coreSet = {}
    <3>1. T.cores = Unknown
      BY <1>1, <2>1 DEF SomeCount
    <3> HIDE DEF T
    <3>2. TopologyAddsUp(T)
      BY <3>1 DEF TopologyAddsUp
    <3> QED
      BY <3>2 DEF T
  <2> QED
    BY <2>1
<1> HIDE DEF placed, T
<1>5. /\ IsFiniteSet(coreSet) /\ IsFiniteSet(double)
      /\ Cardinality(coreSet) \in Nat /\ Cardinality(double) \in Nat
      /\ Cardinality(double) <= Cardinality(coreSet)
      /\ Cardinality(coreSet) + Cardinality(double) <= Cardinality(placed)
      /\ \A c \in coreSet : /\ ThreadsOf(placed, c) # {} /\ IsFiniteSet(ThreadsOf(placed, c))
                            /\ Cardinality(ThreadsOf(placed, c)) \in Nat \ {0}
  <2> HIDE DEF coreSet, double
  <2> QED
    BY <1>3, CoresFit DEF coreSet, double
<1>6. Cardinality(placed) \in Nat /\ Cardinality(placed) <= T.logical /\ T.logical \in Nat
  <2>1. list # {}
    BY <1>2, <1>4
  <2>2. T.logical = Cardinality(list) /\ placed \in SUBSET list
    BY <1>1, <1>2, <2>1
  <2> QED
    BY <1>3, <2>2, FS_Subset, FS_CardinalityType
<1>7. T.cores = Cardinality(coreSet)
  BY <1>1, <1>4, SomeCountIs
<1>8. T.packages <= T.cores
  <2> DEFINE of == [c \in coreSet |-> c[1]]
             packages == {p.package : p \in placed}
  <2>1. packages = {of[c] : c \in coreSet}
    <3>1. \A p \in placed : of[CoreOf(p)] = p.package /\ CoreOf(p) \in coreSet
      BY DEF CoreOf
    <3>2. \A c \in coreSet : \E p \in placed : c = CoreOf(p)
      OBVIOUS
    <3> HIDE DEF of, coreSet
    <3> QED
      BY <3>1, <3>2
  <2> HIDE DEF coreSet, of
  <2>2. Cardinality(packages) <= Cardinality(coreSet)
    <3>1. IsFiniteSet(coreSet)
      BY <1>5
    <3>2. Cardinality({of[c] : c \in coreSet}) <= Cardinality(coreSet)
      BY <3>1, ImageCount
    <3> QED
      BY <2>1, <3>2
  <2>3. packages # {}
    BY <2>1, <1>4
  <2>4. T.packages = Cardinality(packages)
    BY <1>1, <2>3, SomeCountIs
  <2> QED
    BY <1>7, <2>2, <2>4
<1>9. SumFunction([k \in T.classCounts |-> k[2]]) <= T.cores
  <2>1. CASE classes = {}
    <3> DEFINE one == <<Unknown, Cardinality(coreSet)>>
               f == [k \in {one} |-> k[2]]
    <3>1. T.classCounts = {one}
      BY <1>1, <1>4, <2>1
    <3>2. f[one] = Cardinality(coreSet) /\ DOMAIN f = {one} /\ one \in {one}
      OBVIOUS
    <3>0. Cardinality(coreSet) \in Nat
      BY <1>5
    <3> HIDE DEF one, f, coreSet
    <3>3. IsFiniteSet({one}) /\ IsFiniteSet({}) /\ \A x \in {one} : f[x] \in Nat
      BY <3>0, <3>2, FS_Singleton, FS_EmptySet
    <3>4. SumFunctionOnSet(f, {one}) = f[one] + SumFunctionOnSet(f, {one} \ {one})
      BY <3>2, <3>3, SumWithout
    <3>5. {one} \ {one} = {} /\ SumFunctionOnSet(f, {}) = 0
      BY <3>3, SumUnfolds
    <3>6. SumFunction(f) = Cardinality(coreSet)
      <4>1. SumFunction(f) = SumFunctionOnSet(f, {one})
        BY <3>2 DEF SumFunction
      <4> QED
        BY <3>0, <3>2, <3>4, <3>5, <4>1
    <3>7. SumFunction(f) <= T.cores
      BY <3>0, <1>7, <3>6
    <3> QED
      BY <3>1, <3>7 DEF f
  <2>2. CASE classes # {}
    <3>1. T.classCounts = counts
      BY <1>1, <1>4, <2>2
    <3>2. classes \subseteq ClassesOf(class, coreSet)
      <4> HIDE DEF coreSet
      <4> QED
        BY DEF ClassesOf
    <3>3. counts = CountsOf(class, coreSet, classes)
      <4>1. \A k : {c \in coreSet : class[c] = k} = {c \in coreSet : ClassOf(placed, c) = k}
        <5> HIDE DEF coreSet
        <5> QED
          OBVIOUS
      <4> HIDE DEF class, coreSet, classes
      <4> QED
        BY <4>1 DEF CountsOf
    <3> DEFINE f == [k \in counts |-> k[2]]
    <3> HIDE DEF counts, classes, class, coreSet
    <3>4. f = [k \in counts |-> k[2]]
      OBVIOUS
    <3> HIDE DEF f
    <3>5. SumFunction(f) <= Cardinality(coreSet)
      BY <3>2, <3>3, <3>4, <1>5, ClassesFit
    <3> QED
      BY <3>1, <3>4, <3>5, <1>7
  <2> QED
    BY <2>1, <2>2
<1>10. /\ threads \in SUBSET Nat /\ IsFiniteSet(threads) /\ threads # {}
       /\ \A c \in coreSet : Cardinality(ThreadsOf(placed, c)) \in threads
       /\ \A t \in threads : \E c \in coreSet : t = Cardinality(ThreadsOf(placed, c))
  <2> DEFINE many == [c \in coreSet |-> Cardinality(ThreadsOf(placed, c))]
  <2>1. threads = {many[c] : c \in coreSet}
    <3> HIDE DEF coreSet
    <3> QED
      OBVIOUS
  <2>2. threads \in SUBSET Nat /\ threads # {}
    BY <1>4, <1>5
  <2>0. IsFiniteSet(coreSet)
    BY <1>5
  <2>3. IsFiniteSet({many[c] : c \in coreSet})
    <3> HIDE DEF many, coreSet, threads
    <3> QED
      BY <2>0, ImageCount
  <2> HIDE DEF many, coreSet
  <2>4. \A c \in coreSet : Cardinality(ThreadsOf(placed, c)) = many[c]
    BY DEF many
  <2>5. \A c \in coreSet : many[c] \in threads
    BY <2>1
  <2>6. \A c \in coreSet : Cardinality(ThreadsOf(placed, c)) \in threads
    BY <2>4, <2>5
  <2>7. \A t \in threads : \E c \in coreSet : t = many[c]
    BY <2>1
  <2>8. \A t \in threads : \E c \in coreSet : t = Cardinality(ThreadsOf(placed, c))
    BY <2>4, <2>7
  <2>9. IsFiniteSet(threads)
    BY <2>1, <2>3
  <2> HIDE DEF threads
  <2> QED
    BY <2>2, <2>6, <2>8, <2>9
<1>11. T.smt = Cardinality(double) /\ T.fewest = Min(threads) /\ T.most = Max(threads)
  BY <1>1, <1>4, <1>10
<1>12. /\ Min(threads) \in threads /\ (\A y \in threads : Min(threads) <= y)
       /\ Max(threads) \in threads /\ (\A y \in threads : Max(threads) >= y)
  <2> HIDE DEF threads
  <2> QED
    BY <1>10, LeastAndGreatest
<1>13. T.fewest <= T.most
  BY <1>11, <1>12
<1>14. (T.smt = 0) <=> (T.most = 1)
  <2>1. Cardinality(double) = 0 <=> double = {}
    BY <1>5, FS_EmptySet
  <2>2. ASSUME double = {} PROVE Max(threads) = 1
    <3>1. PICK c \in coreSet : Max(threads) = Cardinality(ThreadsOf(placed, c))
      BY <1>10, <1>12
    <3>2. ~(Cardinality(ThreadsOf(placed, c)) > 1)
      BY <2>2, <3>1
    <3> HIDE DEF coreSet, threads
    <3> QED
      BY <1>5, <3>1, <3>2
  <2>3. ASSUME NEW c \in double, Max(threads) = 1 PROVE FALSE
    <3>1. c \in coreSet /\ Cardinality(ThreadsOf(placed, c)) > 1
      BY <2>3
    <3>2. Cardinality(ThreadsOf(placed, c)) \in threads
      BY <1>10, <3>1
    <3> HIDE DEF coreSet, threads
    <3> QED
      BY <1>5, <1>12, <2>3, <3>1, <3>2
  <2> HIDE DEF double, threads, coreSet
  <2> QED
    BY <1>11, <2>1, <2>2, <2>3
<1> HIDE DEF coreSet, double, threads
<1> QED
  BY <1>5, <1>6, <1>7, <1>8, <1>9, <1>11, <1>13, <1>14 DEF TopologyAddsUp

\* What CachesAddUp compares for the row of a cache like i.
Counting(list, Q, i, same, alike, used, f) ==
  /\ Q = list \cap online
  /\ same = {j \in CacheInstances(list) : j.level = i.level /\ j.size = i.size}
  /\ alike = {c \in CpuCaches : c.level = i.level /\ c.size = i.size}
  /\ used = {c \in alike : \E p \in Q : p.id \in c.sharers}
  /\ f = [c \in {d \in used : ~d.listed} |-> Cardinality({p \in Q : p.id \in c.sharers})]

\* Each cache is counted once, or once for every processor that has it if its
\* sharers are not listed.
LEMMA CachesCounted ==
  ASSUME NEW list \in SUBSET Processors, online \in SUBSET Processors,
         NEW i \in CacheInstances(list), NEW Q, NEW same, NEW alike, NEW used, NEW f,
         Counting(list, Q, i, same, alike, used, f)
  PROVE  Cardinality(same) = Cardinality({c \in used : c.listed}) + SumFunction(f)
<1> DEFINE ids == {p.id : p \in online}
           Insts == CacheInstances(list)
<1>0. /\ Q = list \cap online
      /\ same = {j \in Insts : j.level = i.level /\ j.size = i.size}
      /\ alike = {c \in CpuCaches : c.level = i.level /\ c.size = i.size}
      /\ used = {c \in alike : \E p \in Q : p.id \in c.sharers}
      /\ f = [c \in {d \in used : ~d.listed} |-> Cardinality({p \in Q : p.id \in c.sharers})]
  BY DEF Counting
<1>1. /\ IsFiniteSet(Q) /\ Q \subseteq Processors /\ Q \subseteq online
      /\ \A p, q \in Q : p.id = q.id => p = q
  <2>1. Q \in SUBSET Processors /\ Q \subseteq online
    BY <1>0
  <2> QED
    BY <2>1, FS_Subset, ProcessorAssumption
<1>2. \A j : j \in Insts <=> \E q \in Q, c \in CpuCaches :
         /\ q.id \in c.sharers /\ c.size # Unknown
         /\ j = [level |-> c.level, size |-> c.size,
                 sharers |-> IF c.listed THEN c.sharers \cap ids ELSE {q.id}]
  BY <1>0 DEF CacheInstances
<1> DEFINE L == {c \in used : c.listed}
           U == {d \in used : ~d.listed}
           users == [c \in U |-> {p \in Q : p.id \in c.sharers}]
           V == Together(users, U)
           la == [c \in L |-> [level |-> i.level, size |-> i.size, sharers |-> c.sharers \cap ids]]
           ub == [q \in V |-> [level |-> i.level, size |-> i.size, sharers |-> {q.id}]]
           A == {la[c] : c \in L}
           B == {ub[q] : q \in V}
<1>3. i.size # Unknown
  BY <1>2
<1>4. /\ \A p \in Q : p.id \in ids
      /\ \A c \in used : c \in CpuCaches /\ c.level = i.level /\ c.size = i.size /\ \E p \in Q : p.id \in c.sharers
      /\ \A c \in CpuCaches : \A p \in Q :
           c.level = i.level /\ c.size = i.size /\ p.id \in c.sharers => c \in used
  <2>1. \A p \in Q : p.id \in ids
    BY <1>1
  <2> HIDE DEF ids, Insts
  <2> QED
    BY <1>0, <2>1
<1> HIDE DEF ids, Insts
<1>5. \A q : q \in V <=> \E c \in U : q \in Q /\ q.id \in c.sharers
  <2>1. \A c \in U : users[c] = {p \in Q : p.id \in c.sharers}
    OBVIOUS
  <2> HIDE DEF users, U
  <2>2. \A q : q \in V <=> \E c \in U : q \in users[c]
    BY DEF Together
  <2> HIDE DEF V
  <2> QED
    BY <2>1, <2>2
<1>6. \A j \in A : j = [level |-> i.level, size |-> i.size, sharers |-> j.sharers]
                   /\ \E c \in L : j.sharers = c.sharers \cap ids
  <2> TAKE j \in A
  <2>1. PICK c \in L : j = la[c]
    OBVIOUS
  <2> HIDE DEF A, L
  <2>2. j = [level |-> i.level, size |-> i.size, sharers |-> c.sharers \cap ids]
    BY <2>1
  <2> QED
    BY <2>2
<1>7. \A j \in B : \E q \in V : j = [level |-> i.level, size |-> i.size, sharers |-> {q.id}]
  OBVIOUS
<1>8. \A c, d \in used : \A p \in Q : p.id \in c.sharers /\ p.id \in d.sharers => c = d
  BY <1>4, ProcessorAssumption
<1>9. same = A \cup B
  <2>1. ASSUME NEW j \in same PROVE j \in A \cup B
    <3>1. PICK q \in Q, c \in CpuCaches :
            /\ q.id \in c.sharers /\ c.size # Unknown
            /\ j = [level |-> c.level, size |-> c.size,
                    sharers |-> IF c.listed THEN c.sharers \cap ids ELSE {q.id}]
      BY <1>0, <1>2, <2>1
    <3>2. c.level = i.level /\ c.size = i.size
      BY <1>0, <2>1, <3>1
    <3>3. c \in used
      BY <1>4, <3>1, <3>2
    <3>4. CASE c.listed
      <4>1. c \in L /\ j = la[c]
        BY <3>1, <3>2, <3>3, <3>4
      <4> QED
        BY <4>1
    <3>5. CASE ~c.listed
      <4>1. c \in U
        BY <3>3, <3>5
      <4>2. q \in V
        BY <1>5, <3>1, <4>1
      <4> HIDE DEF V
      <4>3. j = ub[q]
        BY <3>1, <3>2, <3>5, <4>2
      <4> QED
        BY <4>2, <4>3
    <3> QED
      BY <3>4, <3>5
  <2>2. ASSUME NEW c \in L PROVE la[c] \in same
    <3>1. PICK q \in Q : q.id \in c.sharers
      BY <1>4, <2>2
    <3>2. /\ c \in CpuCaches /\ c.level = i.level /\ c.size = i.size /\ c.listed
      BY <1>4, <2>2
    <3>3. la[c] = [level |-> c.level, size |-> c.size,
                   sharers |-> IF c.listed THEN c.sharers \cap ids ELSE {q.id}]
      BY <2>2, <3>2
    <3>4. la[c] \in Insts
      BY <1>2, <1>3, <3>1, <3>2, <3>3
    <3> QED
      BY <1>0, <2>2, <3>4
  <2>3. ASSUME NEW q \in V PROVE ub[q] \in same
    <3>1. PICK c \in U : q \in Q /\ q.id \in c.sharers
      BY <1>5, <2>3
    <3>2. c \in CpuCaches /\ c.level = i.level /\ c.size = i.size /\ ~c.listed
      BY <1>4, <3>1
    <3> HIDE DEF V
    <3>3. ub[q] = [level |-> c.level, size |-> c.size,
                   sharers |-> IF c.listed THEN c.sharers \cap ids ELSE {q.id}]
      BY <2>3, <3>2
    <3>4. ub[q] \in Insts
      BY <1>2, <1>3, <3>1, <3>2, <3>3
    <3> QED
      BY <1>0, <2>3, <3>4
  <2> HIDE DEF la, ub, L, V
  <2> QED
    BY <2>1, <2>2, <2>3
<1>10. A \cap B = {}
  <2> SUFFICES ASSUME NEW j \in A, j \in B PROVE FALSE
    OBVIOUS
  <2>1. PICK c \in L : j.sharers = c.sharers \cap ids
    BY <1>6
  <2>2. PICK q \in V : j = [level |-> i.level, size |-> i.size, sharers |-> {q.id}]
    BY <1>7
  <2>3. PICK d \in U : q \in Q /\ q.id \in d.sharers
    BY <1>5, <2>2
  <2>4. q.id \in c.sharers
    BY <2>1, <2>2
  <2>5. c = d
    BY <1>8, <2>3, <2>4
  <2> QED
    BY <2>5
<1>11. IsFiniteSet(L) /\ IsFiniteSet(U)
  <2>1. L \in SUBSET CpuCaches /\ U \in SUBSET CpuCaches
    BY <1>4
  <2> HIDE DEF L, U
  <2> QED
    BY <2>1, FS_Subset, ProcessorAssumption
<1>12. IsFiniteSet(A) /\ Cardinality(A) = Cardinality(L)
  <2>1. ASSUME NEW c \in L, NEW d \in L, la[c] = la[d] PROVE c = d
    <3>1. PICK p \in Q : p.id \in c.sharers
      BY <1>4, <2>1
    <3>2. c.sharers \cap ids = d.sharers \cap ids
      BY <2>1
    <3>3. p.id \in d.sharers
      BY <1>4, <3>1, <3>2
    <3> QED
      BY <1>8, <3>1, <3>3
  <2> HIDE DEF la, L
  <2>2. \A c, d \in L : la[c] = la[d] => c = d
    BY <2>1
  <2>3. IsFiniteSet({la[c] : c \in L}) /\ Cardinality({la[c] : c \in L}) = Cardinality(L)
    BY <1>11, <2>2, ImageCount
  <2> QED
    BY <2>3
<1>13. IsFiniteSet(V) /\ Cardinality(V) = SumFunctionOnSet(f, U)
  <2>1. \A c \in U : IsFiniteSet(users[c]) /\ f[c] = Cardinality(users[c])
    <3> TAKE c \in U
    <3>1. users[c] \in SUBSET Q /\ f[c] = Cardinality(users[c])
      BY <1>0
    <3> HIDE DEF users
    <3> QED
      BY <1>1, <3>1, FS_Subset
  <2>2. \A c, d \in U : c # d => users[c] \cap users[d] = {}
    BY <1>8
  <2> HIDE DEF users, U
  <2> QED
    BY <1>11, <2>1, <2>2, DisjointCount
<1>14. IsFiniteSet(B) /\ Cardinality(B) = Cardinality(V)
  <2>1. ASSUME NEW p \in V, NEW q \in V, ub[p] = ub[q] PROVE p = q
    <3>1. p \in Q /\ q \in Q
      BY <1>5, <2>1
    <3> HIDE DEF V
    <3>2. p.id = q.id
      BY <2>1
    <3> QED
      BY <1>1, <3>1, <3>2
  <2> HIDE DEF ub, V
  <2>2. \A p, q \in V : ub[p] = ub[q] => p = q
    BY <2>1
  <2>3. IsFiniteSet({ub[q] : q \in V}) /\ Cardinality({ub[q] : q \in V}) = Cardinality(V)
    BY <1>13, <2>2, ImageCount
  <2> QED
    BY <2>3
<1>15. Cardinality(same) = Cardinality(A) + Cardinality(B)
  <2> HIDE DEF A, B
  <2>1. Cardinality(A \cup B) = Cardinality(A) + Cardinality(B) - Cardinality(A \cap B)
    BY <1>12, <1>14, FS_Union
  <2>2. Cardinality(A \cap B) = 0
    BY <1>10, FS_EmptySet
  <2>3. Cardinality(A) \in Nat /\ Cardinality(B) \in Nat
    BY <1>12, <1>14, FS_CardinalityType
  <2>4. Cardinality(same) = Cardinality(A \cup B)
    BY <1>9
  <2> QED
    BY ONLY <2>1, <2>2, <2>3, <2>4
<1>16. SumFunction(f) = SumFunctionOnSet(f, U)
  <2>1. DOMAIN f = U
    BY <1>0
  <2> HIDE DEF U
  <2> QED
    BY <2>1 DEF SumFunction
<1> QED
  <2>1. Cardinality(same) = Cardinality(L) + SumFunction(f)
    <3> HIDE DEF A, B, L, U, V
    <3> QED
      BY <1>12, <1>13, <1>14, <1>15, <1>16
  <2> QED
    BY <2>1

LEMMA CachesHold ==
  ASSUME NEW list \in SUBSET Processors, online \in SUBSET Processors
  PROVE  CachesAddUp(list)
<1> DEFINE Q == list \cap online
<1> SUFFICES ASSUME NEW r \in CacheRows(list)
             PROVE  LET alike == {c \in CpuCaches : c.level = r[1] /\ c.size = r[2]}
                        used == {c \in alike : \E p \in Q : p.id \in c.sharers}
                    IN r[3] = Cardinality({c \in used : c.listed})
                              + SumFunction([c \in {d \in used : ~d.listed} |->
                                              Cardinality({p \in Q : p.id \in c.sharers})])
  BY DEF CachesAddUp
<1>1. PICK i \in CacheInstances(list) :
        r = <<i.level, i.size,
              Cardinality({j \in CacheInstances(list) : j.level = i.level /\ j.size = i.size})>>
  BY DEF CacheRows
<1> DEFINE same == {j \in CacheInstances(list) : j.level = i.level /\ j.size = i.size}
           alike == {c \in CpuCaches : c.level = r[1] /\ c.size = r[2]}
           used == {c \in alike : \E p \in Q : p.id \in c.sharers}
           f == [c \in {d \in used : ~d.listed} |-> Cardinality({p \in Q : p.id \in c.sharers})]
<1>2. r[1] = i.level /\ r[2] = i.size /\ r[3] = Cardinality(same)
  BY <1>1
<1>3. alike = {c \in CpuCaches : c.level = i.level /\ c.size = i.size}
  BY <1>2
<1>4. r[3] = Cardinality({c \in used : c.listed}) + SumFunction(f)
  <2>1. Counting(list, Q, i, same, alike, used, f)
    BY <1>3 DEF Counting
  <2> HIDE DEF Q, same, alike, used, f
  <2>2. Cardinality(same) = Cardinality({c \in used : c.listed}) + SumFunction(f)
    BY <2>1, CachesCounted
  <2> QED
    BY <1>2, <2>2
<1> QED
  BY <1>4

ProcessorInv ==
  /\ line \in Readings
  /\ aggregate \in Readings \cup {Unknown} /\ detail \in Readings \cup {Unknown}
  /\ online \in SUBSET Processors

LEMMA ProcessorsKeep == ProcessorInv /\ [ProcessorNext]_processorVars => ProcessorInv'
<1> SUFFICES ASSUME ProcessorInv, [ProcessorNext]_processorVars PROVE ProcessorInv'
  OBVIOUS
<1> USE DEF ProcessorInv
<1>1. CASE TimePasses
  BY <1>1 DEF TimePasses
<1>2. ASSUME NEW p \in Processors, SwitchProcessor(p) PROVE ProcessorInv'
  BY <1>2 DEF SwitchProcessor
<1>3. CASE SamplePerformance
  BY <1>3 DEF SamplePerformance
<1>4. CASE SampleProcessor
  BY <1>4 DEF SampleProcessor
<1>5. CASE UNCHANGED processorVars
  BY <1>5 DEF processorVars
<1> QED
  BY <1>1, <1>2, <1>3, <1>4, <1>5 DEF ProcessorNext

\* The numbers of the Performance and CPU pages on Linux agree, whatever counters
\* the kernel took back, whichever processors are on line and whatever sysfs does
\* not say: for any readings, processors and caches.
THEOREM ProcessorPagesAgree == ProcessorSpec => ProcessorPagesAddUp
<1>1. ProcessorInit => ProcessorInv
  BY ProcessorAssumption DEF ProcessorInit, ProcessorInv
<1>2. ProcessorInv /\ [ProcessorNext]_processorVars => ProcessorInv'
  BY ProcessorsKeep
<1>3. ProcessorInv
        => [/\ SamplePerformance => AddsUp(aggregate, line)
            /\ SampleProcessor =>
                 /\ AddsUp(detail, line)
                 /\ \A list \in OnlineProcessors : TopologyAddsUp(Topology(list)) /\ CachesAddUp(list)
           ]_processorVars
  <2> SUFFICES ASSUME ProcessorInv
               PROVE  /\ AddsUp(aggregate, line) /\ AddsUp(detail, line)
                      /\ \A list \in OnlineProcessors : TopologyAddsUp(Topology(list)) /\ CachesAddUp(list)
    OBVIOUS
  <2>1. AddsUp(aggregate, line) /\ AddsUp(detail, line)
    BY SharesAddUp DEF ProcessorInv
  <2>2. ASSUME NEW list \in OnlineProcessors
        PROVE  TopologyAddsUp(Topology(list)) /\ CachesAddUp(list)
    <3>1. list \in SUBSET Processors /\ online \in SUBSET Processors
      BY DEF OnlineProcessors, ProcessorInv
    <3>2. IsFiniteSet(list) /\ IsFiniteSet(online)
      BY <3>1, FS_Subset, ProcessorAssumption
    <3> QED
      BY <3>1, <3>2, TopologyHolds, CachesHold
  <2> QED
    BY <2>1, <2>2
<1> QED
  BY <1>1, <1>2, <1>3, PTL DEF ProcessorSpec, ProcessorPagesAddUp

===============================================================================
