--------------------------- MODULE ProcessSampler ---------------------------
(* The Processes page on Linux.  /proc is read file by file while processes  *)
(* start, work and end, and a PID is given to another process.               *)
(*                                                                           *)
(* A process is named by the number of its start, which is the start time in *)
(* its ProcessIdentity; ticks are its processor time.                        *)
EXTENDS Naturals, FiniteSets, Functions

CONSTANTS
  SampledPids,
  MaxStarts,  \* bound: processes ever started
  MaxTicks,   \* bound: processor time of a process
  NoValue     \* None of Option

ASSUME SamplerAssumption == {MaxStarts, MaxTicks} \subseteq Nat /\ NoValue \notin Nat

VARIABLES
  holder,     \* the process that has a PID, 0 if none
  starts,     \* how many have been started
  ticks,      \* the processor time of each process
  total,      \* the processor time of the system (also of what is not listed)
  totalBase,  \* total_cpu_baseline
  processBase,\* process_baselines: ticks of each <<pid, process>>
  step,       \* where sample_processes is: idle, list, read or status
  pending,    \* the PIDs listed and not read yet
  current,    \* the PID being read, and what its stat file said
  nextBase,   \* next_baselines
  totalDelta, \* total_delta
  processRows,\* the rows built so far; the snapshot takes them
  lastSeen    \* history: ticks each process had when last read

processVars == <<holder, starts, ticks, total, totalBase, processBase, step, pending,
                 current, nextBase, totalDelta, processRows, lastSeen>>
worldVars == <<holder, starts, ticks, total>>

Started == 1..MaxStarts

ProcessInit ==
  /\ holder = [p \in SampledPids |-> 0]
  /\ starts = 0
  /\ ticks = [n \in Started |-> 0]
  /\ total = 0
  /\ totalBase = NoValue
  /\ processBase = <<>>
  /\ step = "idle"
  /\ pending = {}
  /\ current = NoValue
  /\ nextBase = <<>>
  /\ totalDelta = NoValue
  /\ processRows = {}
  /\ lastSeen = [n \in Started |-> NoValue]

(***************************************************************************)
(* The system (external)                                                   *)
(***************************************************************************)
StartProcess(p) ==
  /\ holder[p] = 0
  /\ starts < MaxStarts
  /\ starts' = starts + 1
  /\ holder' = [holder EXCEPT ![p] = starts + 1]
  /\ UNCHANGED <<ticks, total, totalBase, processBase, step, pending, current, nextBase,
                 totalDelta, processRows, lastSeen>>

\* Nothing reads the ticks of a process that has ended.
EndProcess(p) ==
  /\ holder[p] # 0
  /\ holder' = [holder EXCEPT ![p] = 0]
  /\ ticks' = [ticks EXCEPT ![holder[p]] = 0]
  /\ lastSeen' = [lastSeen EXCEPT ![holder[p]] = NoValue]
  /\ UNCHANGED <<starts, total, totalBase, processBase, step, pending, current, nextBase,
                 totalDelta, processRows>>

RunProcess(p) ==
  /\ holder[p] # 0
  /\ ticks[holder[p]] < MaxTicks
  /\ ticks' = [ticks EXCEPT ![holder[p]] = @ + 1]
  /\ total' = total + 1
  /\ UNCHANGED <<holder, starts, totalBase, processBase, step, pending, current, nextBase,
                 totalDelta, processRows, lastSeen>>

(***************************************************************************)
(* ProcSampler::sample_processes                                           *)
(***************************************************************************)
\* process_ids, and what one read of /proc/<pid>/stat says: start time and
\* processor time belong to one process.
Listed == {p \in SampledPids : holder[p] # 0}
Stat(p) == [pid |-> p, process |-> holder[p], ticks |-> ticks[holder[p]], before |-> lastSeen[holder[p]]]

\* The row of a process whose stat file could not be parsed.
Inaccessible(p) ==
  [pid |-> p, process |-> 0, used |-> NoValue, truly |-> NoValue, memoryOf |-> 0]

\* The baseline of the whole system is replaced before anything can fail.
ReadTotal ==
  /\ step = "idle"
  /\ step' = "list"
  /\ totalDelta' = IF totalBase = NoValue \/ total <= totalBase THEN NoValue ELSE total - totalBase
  /\ totalBase' = total
  /\ UNCHANGED <<holder, starts, ticks, total, processBase, pending, current, nextBase, processRows, lastSeen>>

ListProcesses ==
  /\ step = "list"
  /\ step' = "read"
  /\ pending' = Listed
  /\ UNCHANGED <<holder, starts, ticks, total, totalBase, processBase, current, nextBase, totalDelta,
                 processRows, lastSeen>>

\* /proc cannot be listed: the sample fails and the process baselines stay.
ListFails ==
  /\ step = "list"
  /\ step' = "idle"
  /\ totalDelta' = NoValue
  /\ UNCHANGED <<holder, starts, ticks, total, totalBase, processBase, pending, current,
                 nextBase, processRows, lastSeen>>

ReadStat(p) ==
  /\ step = "read"
  /\ p \in pending /\ holder[p] # 0
  /\ pending' = pending \ {p}
  /\ step' = "status"
  /\ current' = Stat(p)
  /\ lastSeen' = [lastSeen EXCEPT ![holder[p]] = ticks[holder[p]]]
  /\ UNCHANGED <<holder, starts, ticks, total, totalBase, processBase, nextBase, totalDelta, processRows>>

\* A process that has gone, or may not be read, gets no row; a file that cannot
\* be parsed one without an identity.  Neither has a baseline next time.
SkipStat(p) ==
  /\ step = "read"
  /\ p \in pending
  /\ pending' = pending \ {p}
  /\ \/ UNCHANGED processRows
     \/ holder[p] # 0 /\ processRows' = processRows \cup {Inaccessible(p)}
  /\ UNCHANGED <<holder, starts, ticks, total, totalBase, processBase, step, current, nextBase,
                 totalDelta, lastSeen>>

\* Mutant: baselines are found by PID.
BaselineByPid(c) ==
  LET same == {id \in DOMAIN processBase : id[1] = c.pid}
  IN IF same = {} THEN NoValue ELSE processBase[CHOOSE id \in same : TRUE]

BaselineFor(c) ==
  LET id == <<c.pid, c.process>>
  IN IF id \in DOMAIN processBase THEN processBase[id] ELSE NoValue

\* The other files are found by PID again, and may be those of another process.
ReadStatus ==
  /\ step = "status"
  /\ step' = "read"
  /\ LET base == BaselineFor(current)
         used == IF base = NoValue \/ totalDelta = NoValue THEN NoValue
                 ELSE IF current.ticks >= base THEN current.ticks - base ELSE 0
     IN processRows' = processRows \cup {[pid |-> current.pid, process |-> current.process, used |-> used,
                            truly |-> IF current.before = NoValue THEN NoValue
                                      ELSE current.ticks - current.before,
                            memoryOf |-> holder[current.pid]]}
  /\ nextBase' = [id \in DOMAIN nextBase \cup {<<current.pid, current.process>>} |->
                   IF id = <<current.pid, current.process>> THEN current.ticks ELSE nextBase[id]]
  /\ current' = NoValue
  /\ UNCHANGED <<holder, starts, ticks, total, totalBase, processBase, pending, totalDelta, lastSeen>>

PublishRows ==
  /\ step = "read"
  /\ pending = {}
  /\ step' = "idle"
  /\ processBase' = nextBase
  /\ nextBase' = <<>>
  /\ totalDelta' = NoValue
  /\ processRows' = {}
  /\ UNCHANGED <<holder, starts, ticks, total, totalBase, pending, current, lastSeen>>

ProcessNext ==
  \/ \E p \in SampledPids : StartProcess(p) \/ EndProcess(p) \/ RunProcess(p)
                             \/ ReadStat(p) \/ SkipStat(p)
  \/ ReadTotal \/ ListProcesses \/ ListFails \/ ReadStatus \/ PublishRows

ProcessSpec == ProcessInit /\ [][ProcessNext]_processVars

-----------------------------------------------------------------------------
(* Properties *)

\* A share is computed from two readings of one process: what a row says a
\* process used is what that process used since it was last read, however often
\* its PID changed hands before, between or during the samples, and whatever
\* samples failed.
SharesOfOneProcess ==
  \A r \in processRows : r.used # NoValue => r.used = r.truly

=============================================================================
