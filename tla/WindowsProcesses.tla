-------------------------- MODULE WindowsProcesses --------------------------
(* The Processes page on Windows.  A sample puts a row together from a       *)
(* snapshot of the kernel, a list of PIDs, and a handle opened for each PID,  *)
(* taken one after the other while PIDs are given to new processes.  Account   *)
(* names, which are also looked up by PID, are left out.                     *)
(*                                                                           *)
(* A process is its identity: the PID and its creation time, here the number  *)
(* of its start.  A figure is represented by the process it was read from.   *)
(* PID 0, which has no creation time and is never opened, is left out.       *)
EXTENDS Integers, FiniteSets

CONSTANTS
  WindowsPids,       \* process identifiers
  MaxCreations,      \* bound: processes created
  Absent             \* no process, no figure

ASSUME CreationAssumption == MaxCreations \in Nat /\ Absent \notin 1..MaxCreations

VARIABLES
  creations,  \* processes created so far
  running,    \* the creation time of the process of each PID, or Absent
  kernel,     \* query_system_process_metrics: creation times by PID
  waiting,    \* the PIDs whose rows are still to be made
  previous,   \* the last sample: the figures of each identity
  collected,  \* and those this sample has read so far
  static,     \* static_metadata: whose path and type each identity was given
  row         \* the row made last, or where the sample is

windowsProcessVars ==
  <<creations, running, kernel, waiting, previous, collected, static, row>>

Sources == <<running, creations>>
Sampling == <<kernel, waiting, previous, collected, static, row>>

Identities == WindowsPids \X (1..MaxCreations)
NoRow == [identity |-> Absent]

WindowsProcessInit ==
  /\ creations = 0
  /\ running = [p \in WindowsPids |-> Absent]
  /\ kernel = [p \in WindowsPids |-> Absent]
  /\ waiting = {}
  /\ previous = [i \in {} |-> Absent]
  /\ collected = [i \in {} |-> Absent]
  /\ static = [i \in {} |-> Absent]
  /\ row = NoRow

(***************************************************************************)
(* The system (external)                                                   *)
(***************************************************************************)
CreateProcess(p) ==
  /\ running[p] = Absent /\ creations < MaxCreations
  /\ creations' = creations + 1
  /\ running' = [running EXCEPT ![p] = creations + 1]
  /\ UNCHANGED Sampling

ProcessEnds(p) ==
  /\ running[p] # Absent
  /\ running' = [running EXCEPT ![p] = Absent]
  /\ UNCHANGED <<creations, Sampling>>

(***************************************************************************)
(* ProcessSampler::sample                                                  *)
(***************************************************************************)
\* NtQuerySystemInformation; if it fails the sample goes on without it.
QuerySystem ==
  /\ waiting = {} /\ row = NoRow
  /\ kernel' \in {running, [p \in WindowsPids |-> Absent]}
  /\ row' = [identity |-> "listing"]
  /\ UNCHANGED <<Sources, waiting, previous, collected, static>>

\* The Toolhelp list, to which the PIDs only the kernel reported are added.  If
\* the list fails so does the sample.
EnumerateProcesses ==
  /\ row = [identity |-> "listing"]
  /\ \/ /\ waiting' = {p \in WindowsPids : running[p] # Absent \/ kernel[p] # Absent}
        /\ UNCHANGED kernel
     \/ /\ waiting' = {}
        /\ kernel' = [p \in WindowsPids |-> Absent]
  /\ row' = NoRow
  /\ UNCHANGED <<Sources, previous, collected, static>>

Kept(f, i) == IF i \in DOMAIN f THEN f[i] ELSE Absent
Put(f, i, value) == [j \in DOMAIN f \cup {i} |-> IF j = i THEN value ELSE f[j]]
First(a, b) == IF a # Absent THEN a ELSE b

\* Mutant: the snapshot is used for whoever has the PID now.
MetricsForPid(p, start) == IF kernel[p] # Absent THEN <<p, kernel[p]>> ELSE Absent

\* What the kernel's snapshot says is used for the identity it is about only.
MetricsFor(p, start) ==
  IF kernel[p] # Absent /\ (start = Absent \/ start = kernel[p])
  THEN <<p, kernel[p]>> ELSE Absent

\* The row of PID p, from a handle to process h or without one, of which some
\* queries fail: the times give the identity and the processor time, the memory
\* counters need full access, the path the least.  Without the identity of the
\* handle the row takes the kernel's and carries an error.
RowFrom(p, h, timesRead, memoryRead, pathRead) ==
  LET start == IF timesRead THEN h[2] ELSE kernel[p]
      identity == IF start = Absent THEN Absent ELSE <<p, start>>
      metrics == MetricsFor(p, start)
      cached == Kept(static, identity)
      last == Kept(previous, identity)
      figures == [cpu |-> IF timesRead THEN h ELSE metrics,
                  memory |-> IF memoryRead THEN h ELSE metrics]
  IN [pid |-> p, identity |-> identity,
      failed |-> h # Absent /\ ~timesRead,
      figures |-> figures,
      since |-> last,
      path |-> First(cached, IF pathRead THEN h ELSE Absent)]

\* The figures become the next sample's baseline and the path is kept, if the
\* row has an identity.
SampleProcess(p) ==
  /\ p \in waiting
  /\ waiting' = waiting \ {p}
  /\ \E h \in {Absent} \cup ({<<p, running[p]>>} \cap Identities), t, m, s \in BOOLEAN :
       /\ h = Absent => ~t /\ ~m /\ ~s
       /\ row' = RowFrom(p, h, t, m, s)
  /\ collected' = IF row'.identity = Absent THEN collected
                  ELSE Put(collected, row'.identity, row'.figures)
  /\ static' = IF row'.identity = Absent THEN static ELSE Put(static, row'.identity, row'.path)
  /\ UNCHANGED <<Sources, kernel, previous>>

\* The baselines are those of this sample; the paths of identities it did not see
\* are forgotten.
PublishProcesses ==
  /\ waiting = {} /\ row # NoRow /\ row # [identity |-> "listing"]
  /\ previous' = collected
  /\ collected' = [i \in {} |-> Absent]
  /\ static' = [i \in DOMAIN static \cap DOMAIN collected |-> static[i]]
  /\ kernel' = [p \in WindowsPids |-> Absent]
  /\ row' = NoRow
  /\ UNCHANGED <<Sources, waiting>>

WindowsProcessNext ==
  \/ \E p \in WindowsPids : CreateProcess(p) \/ ProcessEnds(p) \/ SampleProcess(p)
  \/ QuerySystem
  \/ EnumerateProcesses
  \/ PublishProcesses

WindowsProcessSpec == WindowsProcessInit /\ [][WindowsProcessNext]_windowsProcessVars

-----------------------------------------------------------------------------
(* Properties *)

OnlyOf(figure, i) == figure \in {Absent, i}

\* However PIDs are used again between the queries of a sample and from one
\* sample to the next, a row mixes no two processes: its figures, those they are
\* compared with, and its path were all read from the process whose identity it
\* carries.  A row whose handle did not tell who it is carries an error; its
\* processor time still belongs to its identity.
WindowsRowsOfOneProcess ==
  "figures" \in DOMAIN row /\ row.identity # Absent =>
    /\ OnlyOf(row.figures.cpu, row.identity)
    /\ ~row.failed => /\ OnlyOf(row.figures.memory, row.identity)
                      /\ OnlyOf(row.path, row.identity)
                      /\ row.since # Absent => /\ OnlyOf(row.since.cpu, row.identity)
                                               /\ OnlyOf(row.since.memory, row.identity)

=============================================================================
