------------------------ MODULE LinuxTerminationProofs ------------------------
(***************************************************************************)
(* Machine-checked proofs about actions on Linux and what they are chosen  *)
(* from.  LinuxTermination, for any PIDs and any number of processes: its  *)
(* type invariant, that only a process whose identity was captured is ever *)
(* signalled, and that a tree reported as ended has ended.  The first      *)
(* argument rests on the second check of open_pidfd: a process that is     *)
(* present after the pidfd was opened was present before, and its PID was  *)
(* its own (Opened).  The second rests on the kernel: a parent changes     *)
(* only to init, so what stays in the tree keeps its parent from the       *)
(* listing of /proc to the last read (Followed).  Toplevels, for any       *)
(* number of windows: each window is tracked from its announcement to its  *)
(* destruction through two queues in opposite directions.                  *)
(***************************************************************************)
EXTENDS LinuxTermination, Toplevels, SequenceTheorems, FiniteSetTheorems, TLAPS

\* Append adds one element and leaves the others.
LEMMA AppendLemma ==
  ASSUME NEW S, NEW s \in Seq(S), NEW e \in S
  PROVE  /\ Append(s, e) \in Seq(S)
         /\ Len(Append(s, e)) = Len(s) + 1
         /\ \A i \in 1 .. Len(s) : Append(s, e)[i] = s[i]
         /\ Append(s, e)[Len(s) + 1] = e
BY AppendProperties

-----------------------------------------------------------------------------
(* The inductive invariant.                                                *)

UniquePids == \A x, y \in Present : born[x].pid = born[y].pid => x = y

\* A PID that has been read is not read again.
ReadOnce == \A x \in DOMAIN stats : born[x].pid \notin unread

\* A pidfd refers to its target; the one that is still to be confirmed does
\* unless its target is gone.
Opened ==
  \A x \in DOMAIN pidfds :
    pidfds[x] = x \/ (pc = "confirm" /\ x = opening /\ x \notin Present)

Goals == left \cup killed \subseteq IF deep THEN DOMAIN stats ELSE {root}

Phases ==
  /\ pc \in {"idle", "check", "list", "read"} =>
       left = {} /\ killed = {} /\ pidfds = <<>> /\ opening = 0
  /\ pc \in {"idle", "check", "list"} => stats = <<>>
  /\ pc \in {"list", "read"} => deep
  /\ pc # "idle" => root \in Processes
  /\ pc = "confirm" => opening \in DOMAIN pidfds
  /\ pc = "kill" => left \subseteq DOMAIN pidfds
  /\ DOMAIN pidfds \subseteq IF deep THEN DOMAIN stats ELSE {root}
  /\ opening # 0 => IF deep THEN opening \in DOMAIN stats ELSE opening = root

IInv == TypeOK /\ UniquePids /\ ReadOnce /\ Opened /\ Goals /\ Phases

LEMMA InitIInv == Init => IInv
<1> SUFFICES ASSUME Init PROVE IInv
  OBVIOUS
<1>1. /\ born \in Seq([pid : Pids, line : SUBSET Nat])
      /\ state \in Seq({"running", "exited", "gone"})
      /\ parent \in Seq(Nat)
      /\ Len(born) = 0 /\ Len(state) = 0 /\ Len(parent) = 0
  BY EmptySeq DEF Init, TableInit
<1>2. Processes = {} /\ Present = {} /\ DOMAIN stats = {} /\ DOMAIN pidfds = {}
  BY <1>1, EmptySeq DEF Init, Processes, Present
<1>3. TypeOK
  <2>1. 0..Len(born) = {0} /\ \A x \in DOMAIN pidfds : pidfds[x] \in Processes
    BY <1>1, <1>2
  <2> QED
    BY <1>1, <1>2, <2>1 DEF Init, TypeOK, PCs
<1> QED
  BY <1>2, <1>3 DEF IInv, Init, UniquePids, ReadOnce, Opened, Goals, Phases

-----------------------------------------------------------------------------
(* The table.                                                              *)

\* The types of the table.
TableTypes ==
  /\ born \in Seq([pid : Pids, line : SUBSET Nat])
  /\ state \in Seq({"running", "exited", "gone"})
  /\ parent \in Seq(Nat)
  /\ Len(state) = Len(born) /\ Len(parent) = Len(born)

\* What no step of the system takes away: the processes keep their PIDs, and
\* one that is gone stays gone.
TableMoves ==
  /\ TableTypes' /\ UniquePids'
  /\ Len(born) <= Len(born')
  /\ Processes \subseteq Processes'
  /\ \A x \in Processes : born'[x] = born[x] /\ (x \in Present' => x \in Present)

LEMMA SpawnStep ==
  ASSUME TableTypes, UniquePids, NEW maker \in 0..MaxProcesses, NEW pid \in Pids,
         Spawn(maker, pid)
  PROVE  TableMoves
<1> DEFINE x == Len(born) + 1
           entry == [pid |-> pid, line |-> Line(x, maker)]
<1>1. Len(born) \in Nat /\ x \in Nat
  BY DEF TableTypes
<1>2. maker = 0 \/ (maker \in Processes /\ state[maker] = "running")
  BY DEF Spawn
<1>3. entry \in [pid : Pids, line : SUBSET Nat]
  <2>1. maker # 0 => born[maker] \in [pid : Pids, line : SUBSET Nat]
    BY <1>1, <1>2, ElementOfSeq DEF TableTypes, Processes
  <2>2. Line(x, maker) \in SUBSET Nat
    BY <1>1, <2>1 DEF Line
  <2> QED
    BY <2>2
<1>4. /\ born' = Append(born, entry)
      /\ state' = Append(state, "running")
      /\ parent' = Append(parent, maker)
      /\ At(pid) = {}
  BY DEF Spawn
<1>5. entry.pid = pid
  OBVIOUS
<1> HIDE DEF entry
<1>6. /\ born' \in Seq([pid : Pids, line : SUBSET Nat])
      /\ Len(born') = Len(born) + 1
      /\ \A i \in 1 .. Len(born) : born'[i] = born[i]
      /\ born'[Len(born) + 1] = entry
  BY <1>3, <1>4, AppendLemma DEF TableTypes
<1>7. /\ state' \in Seq({"running", "exited", "gone"})
      /\ Len(state') = Len(state) + 1
      /\ \A i \in 1 .. Len(state) : state'[i] = state[i]
  BY <1>4, AppendLemma DEF TableTypes
<1>8. parent' \in Seq(Nat) /\ Len(parent') = Len(parent) + 1
  BY <1>4, AppendLemma DEF TableTypes
<1>9. Processes' = Processes \cup {x} /\ x \notin Processes
  BY <1>1, <1>6 DEF Processes
<1>10. \A y \in Processes : born'[y] = born[y] /\ state'[y] = state[y]
  BY <1>6, <1>7 DEF TableTypes, Processes
<1>11. Present' \subseteq Present \cup {x} /\ Present \subseteq Processes
  BY <1>9, <1>10 DEF Present
<1>12. \A y \in Present : born[y].pid # pid
  BY <1>4 DEF At
<1>13. UniquePids'
  BY <1>5, <1>6, <1>10, <1>11, <1>12 DEF UniquePids
<1>14. \A y \in Processes : y \in Present' => y \in Present
  BY <1>9, <1>11
<1> QED
  BY <1>1, <1>6, <1>7, <1>8, <1>9, <1>10, <1>13, <1>14 DEF TableMoves, TableTypes

LEMMA EndStep ==
  ASSUME TableTypes, UniquePids, NEW x, Exit(x) \/ Vanish(x)
  PROVE  TableMoves /\ Processes' = Processes /\ born' = born
<1>1. x \in Processes /\ state[x] # "gone" /\ born' = born
  BY DEF Exit, Vanish
<1>2. \E s \in {"running", "exited", "gone"} : state' = [state EXCEPT ![x] = s]
  BY DEF Exit, Vanish
<1>3. state' \in Seq({"running", "exited", "gone"}) /\ Len(state') = Len(state)
  BY <1>1, <1>2, ExceptSeq DEF TableTypes, Processes
<1>4. parent' \in Seq(Nat) /\ Len(parent') = Len(parent)
  <2>1. parent \in [1..Len(parent) -> Nat] /\ Len(parent) \in Nat
    BY LenProperties DEF TableTypes
  <2>2. \/ parent' = parent
        \/ parent' = [y \in DOMAIN parent |-> IF parent[y] = x THEN 0 ELSE parent[y]]
    BY DEF Exit, Vanish
  <2>3. parent' \in [1..Len(parent) -> Nat]
    BY <2>1, <2>2
  <2> QED
    BY <2>1, <2>3, SeqDef, LenProperties
<1>5. Processes' = Processes
  BY <1>1 DEF Processes
<1>6. Present' \subseteq Present
  BY <1>1, <1>2, <1>5 DEF Present, Processes, TableTypes
<1>7. UniquePids'
  BY <1>1, <1>6 DEF UniquePids
<1> QED
  BY <1>1, <1>3, <1>4, <1>5, <1>6, <1>7 DEF TableTypes, TableMoves

\* A step of the table that leaves the action alone, or only forgets targets
\* and kills one, keeps the invariant.
LEMMA TableStep ==
  ASSUME IInv, TableMoves,
         UNCHANGED <<pc, root, deep, unread, stats, opening, pidfds>>,
         left' \subseteq left, killed' \subseteq killed \cup left,
         pc \in {"idle", "check", "list", "read"} => killed' = {},
         stable' \subseteq stable
  PROVE  IInv'
<1>1. Len(born) \in Nat /\ Len(born') \in Nat
  BY DEF TableMoves, TableTypes, IInv, TypeOK
<1>2. Processes \subseteq Processes' /\ 0..Len(born) \subseteq 0..Len(born')
  BY <1>1 DEF TableMoves
<1>3. TypeOK'
  <2>1. \A x, y \in DOMAIN stats' : born'[x].pid = born'[y].pid => x = y
    BY DEF TableMoves, IInv, TypeOK
  <2>2. /\ DOMAIN stats' \subseteq Processes' /\ DOMAIN pidfds' \subseteq Processes'
        /\ \A x \in DOMAIN pidfds' : pidfds'[x] \in Processes'
    BY <1>2 DEF IInv, TypeOK
  <2>3. left' \subseteq Processes' /\ killed' \subseteq Processes' /\ stable' \subseteq Processes'
    BY <1>2 DEF IInv, TypeOK
  <2>4. root' \in 0..Len(born') /\ opening' \in 0..Len(born')
    BY <1>2 DEF IInv, TypeOK
  <2> QED
    BY <2>1, <2>2, <2>3, <2>4 DEF TableMoves, TableTypes, IInv, TypeOK
<1>4. ReadOnce'
  BY DEF TableMoves, IInv, TypeOK, ReadOnce
<1>5. Opened'
  BY DEF TableMoves, IInv, TypeOK, Opened
<1>6. Goals'
  BY DEF IInv, Goals
<1>7. Phases'
  BY <1>2 DEF IInv, Phases
<1> QED
  BY <1>3, <1>4, <1>5, <1>6, <1>7 DEF IInv, TableMoves

-----------------------------------------------------------------------------
(* The steps.                                                              *)

LEMMA SystemStep == IInv /\ System => IInv'
<1> SUFFICES ASSUME IInv, System PROVE IInv'
  OBVIOUS
<1>1. TableTypes /\ UniquePids
  BY DEF IInv, TypeOK, TableTypes
<1>2. TableMoves
  <2>1. CASE \E maker \in 0..MaxProcesses, pid \in Pids : Spawn(maker, pid)
    BY <1>1, <2>1, SpawnStep
  <2>2. CASE \E x \in 1..MaxProcesses : Exit(x) \/ Vanish(x)
    BY <1>1, <2>2, EndStep
  <2> QED
    BY <2>1, <2>2 DEF System, Live
<1>3. /\ UNCHANGED <<pc, root, deep, unread, stats, opening, pidfds, left, killed>>
      /\ stable' \subseteq stable
  BY DEF System
<1>4. pc \in {"idle", "check", "list", "read"} => killed' = {}
  BY <1>3 DEF IInv, Phases
<1> QED
  BY <1>2, <1>3, <1>4, TableStep

\* A tree consists of captured processes.
LEMMA TreeCaptured == \A captured, r : Tree(captured, r) \subseteq DOMAIN captured
BY DEF Tree

\* Reading /proc and choosing the targets.
LEMMA CaptureStep ==
  ASSUME IInv, \/ \E x \in Processes, d \in BOOLEAN : Request(x, d)
               \/ CheckRoot \/ List \/ Plan
               \/ \E pid \in Pids : Read(pid)
  PROVE  IInv'
<1>1. UNCHANGED <<born, state, parent>>
  BY DEF Request, CheckRoot, List, Plan, Read, table
<1>2. Processes' = Processes /\ Present' = Present
  BY <1>1 DEF Processes, Present
<1>3. UniquePids'
  BY <1>1, <1>2 DEF IInv, UniquePids
<1>4. Processes = 1..Len(born) /\ Len(born) \in Nat /\ Present \subseteq Processes
  BY DEF Processes, Present, IInv, TypeOK
<1>5. CASE \E x \in Processes, d \in BOOLEAN : Request(x, d)
  <2>1. PICK x \in Processes, d \in BOOLEAN : Request(x, d)
    BY <1>5
  <2>2. x \in 0..Len(born)
    BY <1>4
  <2>3. /\ UNCHANGED <<unread, stats, opening, pidfds, left, killed, stable>>
        /\ root' = x /\ deep' \in BOOLEAN /\ pc' = "check" /\ pc = "idle"
    BY <2>1 DEF Request
  <2>4. left = {} /\ killed = {} /\ pidfds = <<>> /\ opening = 0 /\ stats = <<>>
    BY <2>3 DEF IInv, Phases
  <2>5. DOMAIN pidfds = {}
    BY <2>4, EmptySeq
  <2>6. TypeOK'
    BY <1>1, <1>2, <2>2, <2>3 DEF IInv, TypeOK, PCs
  <2> QED
    BY <1>1, <1>2, <1>3, <2>3, <2>4, <2>5, <2>6
    DEF IInv, ReadOnce, Opened, Goals, Phases
<1>6. CASE CheckRoot
  BY <1>1, <1>2, <1>3, <1>6 DEF CheckRoot, IInv, TypeOK, PCs, ReadOnce, Opened, Goals, Phases
<1>7. CASE List
  <2>1. CurrentTree \subseteq Processes
    BY <1>4, TreeCaptured DEF CurrentTree, Captured
  <2>2. {born[x].pid : x \in Present} \subseteq Pids
    <3>1. \A x \in Present : born[x] \in [pid : Pids, line : SUBSET Nat]
      BY <1>4, ElementOfSeq DEF IInv, TypeOK
    <3> QED
      BY <3>1
  <2>3. DOMAIN stats = {}
    BY <1>7, EmptySeq DEF List, IInv, Phases
  <2> QED
    BY <1>1, <1>2, <1>3, <1>7, <2>1, <2>2, <2>3
    DEF List, IInv, TypeOK, PCs, ReadOnce, Opened, Goals, Phases
<1>8. CASE Plan
  <2>1. left' \subseteq DOMAIN stats
    BY <1>8, TreeCaptured DEF Plan
  <2> QED
    BY <1>1, <1>2, <1>3, <1>8, <2>1
    DEF Plan, IInv, TypeOK, PCs, ReadOnce, Opened, Goals, Phases
<1>9. CASE \E pid \in Pids : Read(pid)
  <2>1. PICK pid \in Pids : Read(pid)
    BY <1>9
  <2>2. /\ DOMAIN stats' = DOMAIN stats \cup At(pid)
        /\ unread' = unread \ {pid} /\ pid \in unread
        /\ UNCHANGED <<pc, root, deep, opening, pidfds, left, killed, stable>>
        /\ pc = "read"
    BY <2>1 DEF Read
  <2>3. \A x \in At(pid) : x \in Present /\ born[x].pid = pid
    BY DEF At
  <2>4. \A x, y \in DOMAIN stats' : born[x].pid = born[y].pid => x = y
    BY <2>2, <2>3 DEF IInv, TypeOK, ReadOnce, UniquePids
  <2>5. TypeOK'
    BY <1>1, <1>2, <1>4, <2>2, <2>3, <2>4 DEF IInv, TypeOK
  <2>6. ReadOnce'
    BY <1>1, <2>2, <2>3 DEF IInv, ReadOnce
  <2>7. Opened' /\ Goals' /\ Phases'
    BY <1>1, <1>2, <2>2 DEF IInv, Opened, Goals, Phases
  <2> QED
    BY <1>3, <2>5, <2>6, <2>7 DEF IInv
<1> QED
  BY <1>5, <1>6, <1>7, <1>8, <1>9

\* open_pidfd.
LEMMA OpeningStep ==
  ASSUME IInv, \/ \E x \in Processes : Confirm(x)
               \/ OpenPidfd \/ ConfirmAgain \/ AllOpen
  PROVE  IInv'
<1>1. /\ UNCHANGED <<born, state, parent, root, deep, unread, stats, left, killed, stable>>
      /\ pc \in {"open", "confirm"}
  BY DEF Confirm, OpenPidfd, ConfirmAgain, AllOpen, table, action
<1>2. Processes' = Processes /\ Present' = Present
  BY <1>1 DEF Processes, Present
<1>3. UniquePids' /\ ReadOnce' /\ Goals'
  BY <1>1, <1>2 DEF IInv, UniquePids, ReadOnce, Goals
<1>4. Processes = 1..Len(born) /\ Len(born) \in Nat /\ Present \subseteq Processes
  BY DEF Processes, Present, IInv, TypeOK
<1>5. CASE \E x \in Processes : Confirm(x)
  <2>1. PICK x \in Processes : Confirm(x)
    BY <1>5
  <2>2. opening' = x /\ x \in left /\ UNCHANGED <<pc, pidfds>> /\ pc = "open" /\ x \in 0..Len(born)
    BY <1>4, <2>1 DEF Confirm
  <2> QED
    BY <1>1, <1>2, <1>3, <2>2 DEF IInv, TypeOK, Opened, Goals, Phases
<1>6. CASE OpenPidfd
  <2>1. PICK y \in At(Pid(opening)) :
          pidfds' = [x \in DOMAIN pidfds \cup {opening} |-> IF x = opening THEN y ELSE pidfds[x]]
    BY <1>6 DEF OpenPidfd
  <2>2. opening # 0 /\ pc = "open" /\ pc' = "confirm" /\ opening' = opening
    BY <1>6 DEF OpenPidfd
  <2>3. opening \in Processes /\ Pid(opening) = born[opening].pid
    BY <1>4, <2>2 DEF IInv, TypeOK, Pid
  <2>4. y \in Present /\ born[y].pid = born[opening].pid
    BY <2>1, <2>3 DEF At
  <2>5. DOMAIN pidfds' = DOMAIN pidfds \cup {opening}
    BY <2>1
  <2>6. opening \in Present => y = opening
    BY <2>4 DEF IInv, UniquePids
  <2>7. \A x \in DOMAIN pidfds : x # opening => pidfds'[x] = x
    BY <2>1, <2>2 DEF IInv, Opened
  <2>8. pidfds'[opening] = y
    BY <2>1
  <2>9. Opened'
    BY <1>2, <2>2, <2>5, <2>6, <2>7, <2>8 DEF Opened
  <2>10. TypeOK'
    BY <1>1, <1>2, <1>4, <2>2, <2>3, <2>4, <2>5, <2>7, <2>8 DEF IInv, TypeOK, PCs
  <2>11. Phases'
    BY <1>1, <1>2, <2>2, <2>5 DEF IInv, Phases
  <2> QED
    BY <1>3, <2>9, <2>10, <2>11 DEF IInv
<1>7. CASE ConfirmAgain
  <2>1. /\ pc = "confirm" /\ pc' = "open" /\ opening' = 0 /\ pidfds' = pidfds
        /\ At(Pid(opening)) = {opening}
    BY <1>7 DEF ConfirmAgain, Valid
  <2>2. opening \in Present
    BY <2>1 DEF At
  <2>3. Opened'
    BY <2>1, <2>2 DEF IInv, Opened
  <2> QED
    BY <1>1, <1>2, <1>3, <2>1, <2>3 DEF IInv, TypeOK, PCs, Phases
<1>8. CASE AllOpen
  BY <1>1, <1>2, <1>3, <1>8 DEF AllOpen, action, IInv, TypeOK, PCs, Opened, Phases
<1> QED
  BY <1>5, <1>6, <1>7, <1>8

\* terminate returns.
LEMMA ReturnStep ==
  ASSUME IInv, Refuse \/ Succeed \/ \E x \in Processes : KillFails(x)
  PROVE  IInv'
<1>1. /\ UNCHANGED <<born, state, parent, root, deep, unread, stats, left, killed, stable>>
      /\ pc' \in {"failed", "succeeded"} /\ pidfds' = <<>> /\ opening' = 0 /\ pc # "idle"
  BY DEF Refuse, Succeed, KillFails, NextTarget, Return, table
<1>2. Processes' = Processes /\ Present' = Present /\ DOMAIN pidfds' = {}
  BY <1>1, EmptySeq DEF Processes, Present
<1>3. 0 \in 0..Len(born)
  BY DEF IInv, TypeOK
<1> QED
  BY <1>1, <1>2, <1>3 DEF IInv, TypeOK, PCs, UniquePids, ReadOnce, Opened, Goals, Phases

\* A signal reaches the target itself.
LEMMA KillStep ==
  ASSUME IInv, NEW x \in Processes, Kill(x)
  PROVE  IInv'
<1>1. /\ UNCHANGED <<pc, root, deep, unread, stats, opening, pidfds, stable>>
      /\ pc = "kill" /\ x \in left /\ left' = left \ {x}
      /\ killed' = killed \cup {pidfds[x]}
      /\ Exit(pidfds[x]) \/ UNCHANGED table
  BY DEF Kill, NextTarget
<1>2. TableMoves
  <2>1. CASE Exit(pidfds[x])
    BY <2>1, EndStep DEF IInv, TypeOK, TableTypes
  <2>2. CASE UNCHANGED table
    <3>1. UNCHANGED <<born, state, parent>> /\ Len(born) \in Nat
      BY <2>2 DEF table, IInv, TypeOK
    <3> QED
      BY <3>1 DEF IInv, TypeOK, TableMoves, TableTypes, UniquePids, Present, Processes
  <2> QED
    BY <1>1, <2>1, <2>2
<1>3. pidfds[x] = x
  BY <1>1 DEF IInv, Phases, Opened
<1> QED
  BY <1>1, <1>2, <1>3, TableStep

LEMMA StepIInv == IInv /\ [Next]_vars => IInv'
<1> SUFFICES ASSUME IInv, [Next]_vars PROVE IInv'
  OBVIOUS
<1>1. CASE UNCHANGED vars
  <2>1. UNCHANGED <<born, state, parent, pc, root, deep, unread, stats, opening,
                    pidfds, left, killed, stable>>
    BY <1>1 DEF vars, table, action
  <2> QED
    BY <2>1 DEF IInv, TypeOK, UniquePids, ReadOnce, Opened, Goals, Phases, Present, Processes
<1>2. CASE Next
  BY <1>2, SystemStep, CaptureStep, OpeningStep, ReturnStep, KillStep DEF Next
<1> QED
  BY <1>1, <1>2

-----------------------------------------------------------------------------
\* The inductive invariant holds in every reachable state.
THEOREM Invariance == Spec => []IInv
<1> QED
  BY InitIInv, StepIInv, PTL DEF Spec

\* The variables keep their types, and each PID is captured once.
THEOREM TypeCorrect == Spec => []TypeOK
<1>1. IInv => TypeOK
  BY DEF IInv
<1> QED
  BY <1>1, Invariance, PTL

\* For any PIDs and any number of processes, a process whose identity was not
\* captured is never signalled in the place of one whose PID it took over.
THEOREM NoneAdopted == Spec => []NoAdoptedPid
<1>1. IInv => NoAdoptedPid
  BY DEF IInv, Goals, NoAdoptedPid
<1> QED
  BY <1>1, Invariance, PTL
-----------------------------------------------------------------------------
(* The tree that was there all along.  Reading /proc file by file is sound  *)
(* for it, because the children of a process that exits move to init: a     *)
(* process that stays in the tree keeps its parent, and the parent stays.   *)

\* A process reports a parent that runs, or the system.
ParentsRun ==
  \A x \in Processes :
    parent[x] = 0 \/ (parent[x] \in Processes /\ state[parent[x]] = "running")

\* What has been in the tree is, with the parent it has now, read or still
\* to be read.
Followed ==
  pc = "read" =>
    /\ stable \subseteq CurrentTree
    /\ \A x \in stable : x = root \/ parent[x] \in stable
    /\ \A x \in stable : x = root \/ x \notin DOMAIN stats \/ stats[x] = Pid(parent[x])
    /\ \A x \in stable : x \in DOMAIN stats \/ born[x].pid \in unread

\* Once the targets are chosen, all of it is among them.
Targeted ==
  /\ deep /\ pc \in {"open", "confirm", "kill", "succeeded"} => stable \subseteq left \cup killed
  /\ pc = "succeeded" => left = {}

StableInv == ParentsRun /\ Followed /\ Targeted

\* A process of the current tree other than the root hangs from its parent.
Hanging == \A x \in CurrentTree : x = root \/ parent[x] \in CurrentTree

TableOK == TableTypes /\ UniquePids /\ ParentsRun

\* Among the processes that are present, the links by PID are the links to the
\* parents.
LEMMA LinksAreParents ==
  ASSUME TableOK, NEW c \in Present, NEW y \in Present, Pid(parent[c]) = Pid(y)
  PROVE  parent[c] = y
<1>1. Present \subseteq Processes /\ Processes = 1..Len(born) /\ Len(born) \in Nat
  BY DEF Present, Processes, TableOK, TableTypes
<1>2. y # 0 /\ Pid(y) = born[y].pid
  BY <1>1 DEF Pid
<1>3. born[y] \in [pid : Pids, line : SUBSET Nat]
  BY <1>1, ElementOfSeq DEF TableOK, TableTypes
<1>4. Pid(y) # 0
  BY <1>2, <1>3, ProcessAssumption
<1>5. parent[c] # 0
  BY <1>4 DEF Pid
<1>6. parent[c] \in Present
  BY <1>1, <1>5 DEF TableOK, ParentsRun, Present
<1>7. born[parent[c]].pid = born[y].pid
  BY <1>2, <1>5 DEF Pid
<1> QED
  BY <1>6, <1>7 DEF TableOK, UniquePids

LEMMA TreeHangs == TableOK => Hanging
<1> SUFFICES ASSUME TableOK, NEW x \in CurrentTree, x # root, parent[x] \notin CurrentTree
             PROVE  FALSE
  BY DEF Hanging
<1> DEFINE captured == Captured(Present)
           S == CurrentTree \ {x}
<1>1. DOMAIN captured = Present /\ \A c \in Present : captured[c] = Pid(parent[c])
  BY DEF Captured
<1>2. CurrentTree \subseteq Present /\ root \in Present
  BY <1>1 DEF CurrentTree, Tree
<1>3. root \in S
  BY <1>1, <1>2 DEF CurrentTree, Tree
<1>4. \A y \in CurrentTree : Children(captured, y) \subseteq CurrentTree
  BY <1>1 DEF CurrentTree, Tree, Closed, Children
<1>5. \A y \in S : x \notin Children(captured, y)
  <2> SUFFICES ASSUME NEW y \in S, x \in Children(captured, y)
               PROVE  FALSE
    OBVIOUS
  <2>1. Pid(parent[x]) = Pid(y) /\ x \in Present /\ y \in Present
    BY <1>1, <1>2 DEF Children
  <2>2. parent[x] = y
    BY <2>1, LinksAreParents
  <2> QED
    BY <2>2
<1>6. Closed(captured, S)
  BY <1>4, <1>5 DEF Closed
<1>7. S \in SUBSET DOMAIN captured
  BY <1>1, <1>2
<1> QED
  BY <1>3, <1>6, <1>7 DEF CurrentTree, Tree

LEMMA TreeHangsNext == TableOK' => Hanging'
BY TreeHangs, PTL

-----------------------------------------------------------------------------
(* The steps of the table: a parent changes only into the system.           *)

LEMMA SpawnParents ==
  ASSUME TableTypes, ParentsRun, NEW maker \in 0..MaxProcesses, NEW pid \in Pids,
         Spawn(maker, pid)
  PROVE  ParentsRun' /\ \A x \in Processes : parent'[x] = parent[x]
<1> DEFINE x == Len(born) + 1
<1>1. Len(born) \in Nat /\ Processes = 1..Len(born)
  BY DEF TableTypes, Processes
<1>2. maker = 0 \/ (maker \in Processes /\ state[maker] = "running")
  BY DEF Spawn
<1>3. maker \in Nat
  BY <1>1, <1>2
<1>4. /\ state' = Append(state, "running")
      /\ parent' = Append(parent, maker)
      /\ \E entry : born' = Append(born, entry)
  BY DEF Spawn
<1>5. Len(born') = Len(born) + 1
  BY <1>4, AppendProperties DEF TableTypes
<1>6. /\ \A i \in 1 .. Len(parent) : parent'[i] = parent[i]
      /\ parent'[Len(parent) + 1] = maker
  BY <1>3, <1>4, AppendLemma DEF TableTypes
<1>7. \A i \in 1 .. Len(state) : state'[i] = state[i]
  BY <1>4, AppendLemma DEF TableTypes
<1>8. Processes' = Processes \cup {x}
  BY <1>1, <1>5 DEF Processes
<1>9. \A y \in Processes : parent'[y] = parent[y] /\ state'[y] = state[y]
  BY <1>1, <1>6, <1>7 DEF TableTypes
<1>10. parent'[x] = maker
  BY <1>6 DEF TableTypes
<1> QED
  BY <1>2, <1>8, <1>9, <1>10 DEF ParentsRun

LEMMA EndParents ==
  ASSUME TableTypes, ParentsRun, NEW x, Exit(x) \/ Vanish(x)
  PROVE  ParentsRun' /\ \A y \in Processes : parent'[y] \in {0, parent[y]}
<1>1. DOMAIN parent = Processes /\ DOMAIN state = Processes /\ x \in Processes
  <2>1. DOMAIN parent = 1..Len(parent) /\ DOMAIN state = 1..Len(state)
    BY LenProperties DEF TableTypes
  <2> QED
    BY <2>1 DEF TableTypes, Processes, Exit, Vanish
<1>2. Processes' = Processes
  BY DEF Exit, Vanish, Processes
<1>3. \A y \in Processes : y # x => state'[y] = state[y]
  BY <1>1 DEF Exit, Vanish
<1>4. CASE Exit(x)
  <2>1. \A y \in Processes : parent'[y] = IF parent[y] = x THEN 0 ELSE parent[y]
    BY <1>1, <1>4, ChildrenMove DEF Exit
  <2> QED
    BY <1>2, <1>3, <2>1 DEF ParentsRun
<1>5. CASE Vanish(x)
  <2>1. parent' = parent /\ state[x] = "exited"
    BY <1>5 DEF Vanish
  <2> QED
    BY <1>2, <1>3, <2>1 DEF ParentsRun
<1> QED
  BY <1>4, <1>5

-----------------------------------------------------------------------------
(* The steps of the action.                                                *)

LEMMA InitStable == Init => StableInv
<1> SUFFICES ASSUME Init PROVE StableInv
  OBVIOUS
<1>1. Processes = {}
  BY EmptySeq DEF Init, TableInit, Processes
<1> QED
  BY <1>1 DEF Init, StableInv, ParentsRun, Followed, Targeted

LEMMA SystemStable == IInv /\ IInv' /\ StableInv /\ System => StableInv'
<1> SUFFICES ASSUME IInv, IInv', StableInv, System PROVE StableInv'
  OBVIOUS
<1>1. /\ UNCHANGED <<pc, root, deep, unread, stats, left, killed>>
      /\ stable' = IF pc = "read" THEN stable \cap CurrentTree' ELSE stable
      /\ stable \subseteq Processes
  BY DEF System, IInv, TypeOK
<1>2. TableTypes /\ UniquePids /\ ParentsRun /\ TableTypes' /\ UniquePids'
  BY DEF IInv, TypeOK, TableTypes, StableInv
<1>3. /\ ParentsRun' /\ TableMoves
      /\ \A x \in Processes : parent'[x] \in {0, parent[x]}
  <2>1. CASE \E maker \in 0..MaxProcesses, pid \in Pids : Spawn(maker, pid)
    BY <1>2, <2>1, SpawnParents, SpawnStep
  <2>2. CASE \E x \in 1..MaxProcesses : Exit(x) \/ Vanish(x)
    BY <1>2, <2>2, EndParents, EndStep
  <2> QED
    BY <2>1, <2>2 DEF System, Live
<1>4. Hanging'
  BY <1>2, <1>3, TreeHangsNext DEF TableOK
<1>5. Targeted'
  BY <1>1 DEF StableInv, Targeted
<1>6. ASSUME pc = "read"
      PROVE  Followed'
  <2>1. stable' = stable \cap CurrentTree'
    BY <1>1, <1>6
  <2>2. \A x \in stable' : x # root => parent'[x] \in CurrentTree'
    BY <1>1, <1>4, <2>1 DEF Hanging
  <2>3. 0 \notin CurrentTree'
    <3>1. CurrentTree' \subseteq Processes'
      BY DEF CurrentTree, Tree, Captured, Present
    <3> QED
      BY <1>2, <3>1 DEF Processes, TableTypes
  <2>4. \A x \in stable' : x # root => parent'[x] = parent[x]
    BY <1>1, <1>3, <2>1, <2>2, <2>3
  <2>5. \A x \in stable' : x # root => parent'[x] \in stable'
    BY <1>6, <2>1, <2>2, <2>4 DEF StableInv, Followed
  <2>6. \A x \in stable' : x # root => Pid(parent[x])' = Pid(parent[x])
    <3> SUFFICES ASSUME NEW x \in stable', x # root
                 PROVE  Pid(parent[x])' = Pid(parent[x])
      OBVIOUS
    <3>1. parent'[x] = parent[x] /\ parent[x] \in Processes
      BY <1>1, <2>1, <2>4, <2>5
    <3>2. born'[parent[x]] = born[parent[x]]
      BY <1>3, <3>1 DEF TableMoves
    <3> QED
      BY <3>1, <3>2 DEF Pid
  <2>7. \A x \in stable' : x \in stable /\ born'[x] = born[x]
    BY <1>1, <1>3, <2>1 DEF TableMoves
  <2> QED
    BY <1>1, <1>6, <2>1, <2>5, <2>6, <2>7 DEF StableInv, Followed
<1>7. Followed'
  BY <1>1, <1>6 DEF Followed
<1> QED
  BY <1>3, <1>5, <1>7 DEF StableInv

\* Every process that stayed in the tree is in the tree of the table read.
LEMMA PlanIsWhole ==
  ASSUME IInv, StableInv, pc = "read", unread = {}, root \in DOMAIN stats
  PROVE  stable \subseteq Tree(stats, root)
<1> DEFINE captured == Captured(Present)
<1>1. DOMAIN captured = Present /\ \A c \in Present : captured[c] = Pid(parent[c])
  BY DEF Captured
<1>2. /\ stable \subseteq CurrentTree
      /\ \A x \in stable : x = root \/ parent[x] \in stable
      /\ \A x \in stable : x \in DOMAIN stats /\ (x = root \/ stats[x] = Pid(parent[x]))
  BY DEF StableInv, Followed
<1>3. TableOK
  BY DEF IInv, TypeOK, StableInv, TableOK, TableTypes
<1> SUFFICES ASSUME NEW x \in stable, NEW S \in SUBSET DOMAIN stats,
                    root \in S, Closed(stats, S)
             PROVE  x \in S
  BY <1>2 DEF Tree
<1> DEFINE T == {c \in Present : c \in stable => c \in S}
<1>4. x \in CurrentTree /\ root \in Present /\ CurrentTree \subseteq Present
  BY <1>1, <1>2 DEF CurrentTree, Tree
<1>5. Closed(captured, T)
  <2> SUFFICES ASSUME NEW y \in T, NEW c \in Children(captured, y), c \in stable, c # root
               PROVE  c \in S
    BY <1>1 DEF Closed, Children
  <2>1. c \in Present /\ Pid(parent[c]) = Pid(y)
    BY <1>1 DEF Children
  <2>2. parent[c] = y
    BY <1>3, <2>1, LinksAreParents
  <2>3. y \in S
    BY <1>2, <2>2
  <2>4. c \in Children(stats, y)
    BY <1>2, <2>2 DEF Children
  <2> QED
    BY <2>3, <2>4 DEF Closed
<1>6. root \in T /\ T \in SUBSET DOMAIN captured
  BY <1>1, <1>4
<1>7. x \in T
  BY <1>4, <1>5, <1>6 DEF CurrentTree, Tree
<1> QED
  BY <1>7

\* Reading /proc and choosing the targets.
LEMMA CaptureStable ==
  ASSUME IInv, StableInv,
         \/ \E x \in Processes, d \in BOOLEAN : Request(x, d)
         \/ CheckRoot \/ List \/ Plan
         \/ \E pid \in Pids : Read(pid)
  PROVE  StableInv'
<1>1. UNCHANGED <<born, state, parent>>
  BY DEF Request, CheckRoot, List, Plan, Read, table
<1>2. ParentsRun' /\ Present' = Present
  BY <1>1 DEF StableInv, ParentsRun, Processes, Present
<1>3. CASE (\E x \in Processes, d \in BOOLEAN : Request(x, d)) \/ CheckRoot
  BY <1>2, <1>3 DEF Request, CheckRoot, StableInv, Followed, Targeted, IInv, Phases
<1>4. CASE List
  <2>1. /\ stable' = CurrentTree /\ pc' = "read" /\ root' = root /\ stats = <<>>
        /\ stats' = stats /\ unread' = {born[x].pid : x \in Present}
    BY <1>4 DEF List, IInv, Phases
  <2>2. CurrentTree' = CurrentTree
    BY <1>1, <1>2, <2>1 DEF CurrentTree, Tree, Captured, Closed, Children, Pid
  <2>3. Hanging /\ CurrentTree \subseteq Present
    <3>1. TableOK
      BY DEF IInv, TypeOK, StableInv, TableOK, TableTypes
    <3> QED
      BY <3>1, TreeHangs DEF CurrentTree, Tree, Captured
  <2>4. DOMAIN stats = {}
    BY <2>1, EmptySeq
  <2>5. Followed'
    BY <1>1, <2>1, <2>2, <2>3, <2>4 DEF Followed, Hanging
  <2> QED
    BY <1>2, <2>1, <2>5 DEF StableInv, Targeted
<1>5. CASE Plan
  <2>1. pc = "read" /\ pc' = "open" /\ stable' = stable /\ left' = Tree(stats, root)
    BY <1>5 DEF Plan
  <2>2. stable \subseteq Tree(stats, root)
    BY <1>5, PlanIsWhole DEF Plan
  <2> QED
    BY <1>2, <2>1, <2>2 DEF StableInv, Followed, Targeted
<1>6. CASE \E pid \in Pids : Read(pid)
  <2>1. PICK pid \in Pids : Read(pid)
    BY <1>6
  <2>2. /\ stats' = [x \in DOMAIN stats \cup At(pid) |->
                       IF x \in DOMAIN stats THEN stats[x] ELSE Pid(parent[x])]
        /\ unread' = unread \ {pid}
        /\ pc = "read" /\ UNCHANGED <<pc, root, stable>>
    BY <2>1 DEF Read
  <2>3. CurrentTree' = CurrentTree
    BY <1>1, <1>2, <2>2 DEF CurrentTree, Tree, Captured, Closed, Children, Pid
  <2>4. CurrentTree \subseteq Present
    BY DEF CurrentTree, Tree, Captured
  <2>5. \A x \in stable : born[x].pid = pid => x \in At(pid)
    BY <2>2, <2>4 DEF StableInv, Followed, At
  <2>6. \A x \in stable : Pid(parent[x])' = Pid(parent[x])
    BY <1>1 DEF Pid
  <2>7. \A x \in stable : x \in DOMAIN stats' \/ born[x].pid \in unread'
    BY <2>2, <2>5 DEF StableInv, Followed
  <2>8. \A x \in stable : x = root \/ x \notin DOMAIN stats' \/ stats'[x] = Pid(parent[x])
    BY <2>2 DEF StableInv, Followed
  <2>9. Followed'
    BY <1>1, <2>2, <2>3, <2>6, <2>7, <2>8 DEF StableInv, Followed
  <2> QED
    BY <1>2, <2>2, <2>9 DEF StableInv, Targeted
<1> QED
  BY <1>3, <1>4, <1>5, <1>6

\* From the first pidfd to the return.
LEMMA ActStable ==
  ASSUME IInv, StableInv,
         \/ \E x \in Processes : Confirm(x) \/ Kill(x) \/ KillFails(x)
         \/ OpenPidfd \/ ConfirmAgain \/ AllOpen \/ Refuse \/ Succeed
  PROVE  StableInv'
<1>1. CASE \E x \in Processes : Kill(x)
  <2>1. PICK x \in Processes : Kill(x)
    BY <1>1
  <2>2. /\ UNCHANGED <<pc, deep, stable>> /\ pc = "kill" /\ x \in left
        /\ left' = left \ {x} /\ killed' = killed \cup {pidfds[x]}
        /\ Exit(pidfds[x]) \/ UNCHANGED table
    BY <2>1 DEF Kill, NextTarget
  <2>3. pidfds[x] = x
    BY <2>2 DEF IInv, Phases, Opened
  <2>4. ParentsRun'
    <3>1. CASE Exit(pidfds[x])
      BY <3>1, EndParents DEF IInv, TypeOK, TableTypes, StableInv
    <3>2. CASE UNCHANGED table
      BY <3>2 DEF table, StableInv, ParentsRun, Processes
    <3> QED
      BY <2>2, <3>1, <3>2
  <2> QED
    BY <2>2, <2>3, <2>4 DEF StableInv, Followed, Targeted
<1>2. CASE \/ \E x \in Processes : Confirm(x) \/ KillFails(x)
           \/ OpenPidfd \/ ConfirmAgain \/ AllOpen \/ Refuse \/ Succeed
  <2>1. /\ UNCHANGED <<born, state, parent, deep, stable, left, killed>>
        /\ pc' \in {"open", "confirm", "kill", "failed", "succeeded"}
        /\ pc' \in {"open", "confirm", "kill"} => pc \in {"open", "confirm", "kill"}
        /\ pc' = "succeeded" => pc = "kill" /\ left = {}
    BY <1>2 DEF Confirm, KillFails, OpenPidfd, ConfirmAgain, AllOpen, Refuse, Succeed, Return,
                NextTarget, table, action
  <2>2. ParentsRun'
    BY <2>1 DEF StableInv, ParentsRun, Processes
  <2> QED
    BY <2>1, <2>2 DEF StableInv, Followed, Targeted
<1> QED
  BY <1>1, <1>2

LEMMA StepStable == IInv /\ IInv' /\ StableInv /\ [Next]_vars => StableInv'
<1> SUFFICES ASSUME IInv, IInv', StableInv, [Next]_vars PROVE StableInv'
  OBVIOUS
<1>1. CASE UNCHANGED vars
  <2>1. UNCHANGED <<born, state, parent, pc, root, deep, unread, stats, left, killed, stable>>
    BY <1>1 DEF vars, table, action
  <2>2. Present' = Present /\ Processes' = Processes /\ \A x : Pid(x)' = Pid(x)
    BY <2>1 DEF Present, Processes, Pid
  <2>3. CurrentTree' = CurrentTree
    BY <2>1, <2>2 DEF CurrentTree, Tree, Captured, Closed, Children, Pid
  <2>4. \A x \in stable : Pid(parent[x])' = Pid(parent[x])
    BY <2>1 DEF Pid
  <2> QED
    BY <2>1, <2>2, <2>3, <2>4 DEF StableInv, ParentsRun, Followed, Targeted
<1>2. CASE Next
  BY <1>2, SystemStable, CaptureStable, ActStable DEF Next
<1> QED
  BY <1>1, <1>2

\* For any PIDs and any number of processes, a tree that was reported as ended
\* has ended: what was in it from the listing of /proc to the last read was
\* killed, although each file was read at another time.
THEOREM TreesEndWhole == Spec => []WholeStableTree
<1>1. StableInv => WholeStableTree
  BY DEF StableInv, Targeted, WholeStableTree
<1> QED
  BY InitStable, StepStable, Invariance, <1>1, PTL DEF Spec

-----------------------------------------------------------------------------
(* Toplevels: what the messages on their way say.                          *)

HandleKeys == ObjectIds \cup (1..MaxWindows)
HandleWindows == 1..MaxWindows
EventKinds == {"toplevel", "done", "closed", "uuid", "skip"}
RequestKinds == {"get", "destroy", "act"}
Synced == <<"synced", NoWindow, NoWindow>>
Sync == <<"sync", NoWindow, NoWindow>>
Messages == ((EventKinds \cup RequestKinds) \X HandleKeys \X HandleWindows) \cup {Synced, Sync}

\* A message is in the queue, before the answer of a round trip, or before
\* another message.
HasMsg(q, kind, k, w) == \E i \in 1..Len(q) : q[i] = <<kind, k, w>>
HasEarly(q, kind, k, w) ==
  \E i \in 1..Len(q) : q[i] = <<kind, k, w>> /\ \A j \in 1..i : q[j] # Synced
HasOrder(q, kind, k, w, other, l, x) ==
  \E i, j \in 1..Len(q) : i < j /\ q[i] = <<kind, k, w>> /\ q[j] = <<other, l, x>>

\* r is q with the message added at the end, or q is r with the message before.
Sent(q, r, a, b, c) ==
  /\ r \in Seq(Messages)
  /\ \A kind, k, w : HasMsg(r, kind, k, w) <=> HasMsg(q, kind, k, w) \/ (kind = a /\ k = b /\ w = c)
  /\ \A kind, k, w : HasMsg(q, "synced", NoWindow, NoWindow) \/ <<a, b, c>> = Synced =>
       (HasEarly(r, kind, k, w) <=> HasEarly(q, kind, k, w))
  /\ \A kind, k, w, other, l, x : HasOrder(r, kind, k, w, other, l, x) <=>
       \/ HasOrder(q, kind, k, w, other, l, x)
       \/ HasMsg(q, kind, k, w) /\ other = a /\ l = b /\ x = c
Taken(q, r, a, b, c) ==
  /\ r \in Seq(Messages)
  /\ \A kind, k, w : HasMsg(q, kind, k, w) <=> HasMsg(r, kind, k, w) \/ (kind = a /\ k = b /\ w = c)
  /\ \A kind, k, w : a # "synced" =>
       (HasEarly(q, kind, k, w) <=> HasEarly(r, kind, k, w) \/ (kind = a /\ k = b /\ w = c))
  /\ \A kind, k, w : <<a, b, c>> = Synced => ~HasEarly(q, kind, k, w)
  /\ \A kind, k, w, other, l, x : HasOrder(q, kind, k, w, other, l, x) <=>
       \/ HasOrder(r, kind, k, w, other, l, x)
       \/ HasMsg(r, other, l, x) /\ kind = a /\ k = b /\ w = c

LEMMA EmptyQueue ==
  ASSUME NEW kind, NEW k, NEW w, NEW other, NEW l, NEW x
  PROVE  ~HasMsg(<<>>, kind, k, w) /\ ~HasEarly(<<>>, kind, k, w)
         /\ ~HasOrder(<<>>, kind, k, w, other, l, x)
<1>1. Len(<<>>) = 0
  BY EmptySeq
<1> QED
  BY <1>1 DEF HasMsg, HasEarly, HasOrder

LEMMA OrderHas ==
  ASSUME NEW q, NEW kind, NEW k, NEW w, NEW other, NEW l, NEW x
  PROVE  /\ HasOrder(q, kind, k, w, other, l, x) => HasMsg(q, kind, k, w) /\ HasMsg(q, other, l, x)
         /\ HasEarly(q, kind, k, w) => HasMsg(q, kind, k, w)
  BY DEF HasMsg, HasEarly, HasOrder

LEMMA NoAnswerYet ==
  ASSUME NEW q, ~HasMsg(q, "synced", NoWindow, NoWindow), NEW kind, NEW k, NEW w
  PROVE  HasEarly(q, kind, k, w) <=> HasMsg(q, kind, k, w)
<1>1. \A j \in 1..Len(q) : q[j] # Synced
  BY DEF HasMsg, Synced
<1>2. ASSUME NEW i \in 1..Len(q) PROVE \A j \in 1..i : q[j] # Synced
  <2>1. CASE Len(q) \in Nat
    BY <1>1, <1>2, <2>1
  <2> QED
    BY <1>1, <1>2
<1> QED
  BY <1>2 DEF HasMsg, HasEarly

LEMMA AppendedMsg ==
  ASSUME NEW q \in Seq(Messages), NEW a, NEW b, NEW c, <<a, b, c>> \in Messages
  PROVE  Sent(q, Append(q, <<a, b, c>>), a, b, c)
<1> DEFINE m == <<a, b, c>>
           r == Append(q, m)
           n == Len(q)
<1>1. /\ n \in Nat /\ r \in Seq(Messages) /\ Len(r) = n + 1
      /\ r[n + 1] = m /\ \A i \in 1..n : r[i] = q[i]
  BY AppendProperties, LenProperties
<1> HIDE DEF r, n
<1>2. /\ \A i \in 1..n : i \in 1..Len(r)
      /\ \A i \in 1..Len(r) : i \in 1..n \/ i = n + 1
      /\ n + 1 \in 1..Len(r)
  BY <1>1
<1>3. \A kind, k, w : HasMsg(r, kind, k, w) <=>
         HasMsg(q, kind, k, w) \/ (kind = a /\ k = b /\ w = c)
  <2> TAKE kind, k, w
  <2>1. ASSUME HasMsg(r, kind, k, w) PROVE HasMsg(q, kind, k, w) \/ (kind = a /\ k = b /\ w = c)
    BY <2>1, <1>1, <1>2 DEF HasMsg, n
  <2>2. ASSUME HasMsg(q, kind, k, w) PROVE HasMsg(r, kind, k, w)
    BY <2>2, <1>1, <1>2 DEF HasMsg, n
  <2>3. ASSUME kind = a, k = b, w = c PROVE HasMsg(r, kind, k, w)
    BY <2>3, <1>1, <1>2 DEF HasMsg
  <2> QED
    BY <2>1, <2>2, <2>3
<1>4. \A kind, k, w : HasEarly(q, kind, k, w) => HasEarly(r, kind, k, w)
  <2> SUFFICES ASSUME NEW kind, NEW k, NEW w, HasEarly(q, kind, k, w) PROVE HasEarly(r, kind, k, w)
    OBVIOUS
  <2>1. PICK i \in 1..n : q[i] = <<kind, k, w>> /\ \A j \in 1..i : q[j] # Synced
    BY DEF HasEarly, n
  <2>2. \A j \in 1..i : j \in 1..n
    BY <1>1, <2>1
  <2> QED
    BY <1>1, <1>2, <2>1, <2>2 DEF HasEarly
<1>5. ASSUME NEW kind, NEW k, NEW w, HasEarly(r, kind, k, w),
             HasMsg(q, "synced", NoWindow, NoWindow) \/ m = Synced
      PROVE  HasEarly(q, kind, k, w)
  <2>1. PICK i \in 1..Len(r) : r[i] = <<kind, k, w>> /\ \A j \in 1..i : r[j] # Synced
    BY <1>5 DEF HasEarly
  <2>2. i \in 1..n
    <3>1. CASE HasMsg(q, "synced", NoWindow, NoWindow)
      <4>1. PICK s \in 1..n : q[s] = Synced
        BY <3>1 DEF HasMsg, n, Synced
      <4>2. r[s] = Synced /\ ~(s \in 1..i)
        BY <4>1, <1>1, <2>1
      <4> QED
        BY <4>1, <4>2, <2>1, <1>1, <1>2
    <3>2. CASE m = Synced
      <4>1. i # n + 1
        BY <3>2, <1>1, <2>1
      <4> QED
        BY <4>1, <1>2
    <3> QED
      BY <1>5, <3>1, <3>2
  <2>3. \A j \in 1..i : j \in 1..n
    BY <1>1, <2>2
  <2> QED
    BY <1>1, <2>1, <2>2, <2>3 DEF HasEarly, n
<1>6. \A kind, k, w, other, l, x : HasOrder(r, kind, k, w, other, l, x) <=>
         \/ HasOrder(q, kind, k, w, other, l, x)
         \/ HasMsg(q, kind, k, w) /\ other = a /\ l = b /\ x = c
  <2> TAKE kind, k, w, other, l, x
  <2>1. ASSUME HasOrder(r, kind, k, w, other, l, x)
        PROVE  \/ HasOrder(q, kind, k, w, other, l, x)
               \/ HasMsg(q, kind, k, w) /\ other = a /\ l = b /\ x = c
    <3>1. PICK i \in 1..Len(r), j \in 1..Len(r) :
            i < j /\ r[i] = <<kind, k, w>> /\ r[j] = <<other, l, x>>
      BY <2>1 DEF HasOrder
    <3>2. i \in 1..n
      BY <1>1, <1>2, <3>1
    <3>3. CASE j \in 1..n
      BY <1>1, <3>1, <3>2, <3>3 DEF HasOrder, n
    <3>4. CASE j = n + 1
      BY <1>1, <3>1, <3>2, <3>4 DEF HasMsg, n
    <3> QED
      BY <1>2, <3>3, <3>4
  <2>2. ASSUME HasOrder(q, kind, k, w, other, l, x) PROVE HasOrder(r, kind, k, w, other, l, x)
    BY <2>2, <1>1, <1>2 DEF HasOrder, n
  <2>3. ASSUME HasMsg(q, kind, k, w), other = a, l = b, x = c
        PROVE  HasOrder(r, kind, k, w, other, l, x)
    <3>1. PICK i \in 1..n : q[i] = <<kind, k, w>>
      BY <2>3 DEF HasMsg, n
    <3>2. i < n + 1 /\ r[i] = <<kind, k, w>> /\ i \in 1..Len(r)
      BY <1>1, <1>2, <3>1
    <3> QED
      BY <3>2, <1>1, <1>2, <2>3 DEF HasOrder
  <2> QED
    BY <2>1, <2>2, <2>3
<1>7. \A kind, k, w : HasMsg(q, "synced", NoWindow, NoWindow) \/ m = Synced =>
         (HasEarly(r, kind, k, w) <=> HasEarly(q, kind, k, w))
  BY <1>4, <1>5
<1>8. Sent(q, r, a, b, c)
  BY <1>1, <1>3, <1>6, <1>7 DEF Sent
<1> QED
  BY <1>8 DEF r

LEMMA TakenMsg ==
  ASSUME NEW q \in Seq(Messages), q # <<>>, NEW a, NEW b, NEW c, Head(q) = <<a, b, c>>
  PROVE  Taken(q, Tail(q), a, b, c)
<1> DEFINE m == <<a, b, c>>
           r == Tail(q)
           n == Len(r)
<1>1. /\ n \in Nat /\ r \in Seq(Messages) /\ Len(q) = n + 1
      /\ q[1] = m /\ \A i \in 1..n : r[i] = q[i + 1]
  BY HeadTailProperties, LenProperties
<1> HIDE DEF r, n
<1>2. /\ \A i \in 1..n : i + 1 \in 1..Len(q)
      /\ \A i \in 1..Len(q) : i = 1 \/ (i - 1 \in 1..n /\ q[i] = r[i - 1])
      /\ 1 \in 1..Len(q)
  BY <1>1
<1>3. \A kind, k, w : HasMsg(q, kind, k, w) <=> 
         HasMsg(r, kind, k, w) \/ (kind = a /\ k = b /\ w = c)
  <2> TAKE kind, k, w
  <2>1. ASSUME HasMsg(q, kind, k, w) PROVE HasMsg(r, kind, k, w) \/ (kind = a /\ k = b /\ w = c)
    BY <2>1, <1>1, <1>2 DEF HasMsg, n
  <2>2. ASSUME HasMsg(r, kind, k, w) PROVE HasMsg(q, kind, k, w)
    BY <2>2, <1>1, <1>2 DEF HasMsg, n
  <2>3. ASSUME kind = a, k = b, w = c PROVE HasMsg(q, kind, k, w)
    BY <2>3, <1>1, <1>2 DEF HasMsg
  <2> QED
    BY <2>1, <2>2, <2>3
<1>4. ASSUME NEW kind, NEW k, NEW w, HasEarly(q, kind, k, w)
      PROVE  m # Synced /\ (HasEarly(r, kind, k, w) \/ (kind = a /\ k = b /\ w = c))
  <2>1. PICK i \in 1..Len(q) : q[i] = <<kind, k, w>> /\ \A j \in 1..i : q[j] # Synced
    BY <1>4 DEF HasEarly
  <2>2. m # Synced
    <3>1. 1 \in 1..i
      BY <1>1, <2>1
    <3> QED
      BY <1>1, <2>1, <3>1
  <2>3. CASE i = 1
    BY <1>1, <2>1, <2>2, <2>3
  <2>4. CASE i # 1
    <3>1. i - 1 \in 1..n /\ r[i - 1] = <<kind, k, w>>
      BY <1>2, <2>1, <2>4
    <3>2. ASSUME NEW j \in 1..(i - 1) PROVE r[j] # Synced
      <4>1. j \in 1..n /\ j + 1 \in 1..i
        BY <1>1, <3>1, <3>2, <2>1
      <4> QED
        BY <1>1, <2>1, <4>1
    <3>3. HasEarly(r, kind, k, w)
      BY <3>1, <3>2 DEF HasEarly, n
    <3> QED
      BY <2>2, <3>3
  <2> QED
    BY <2>3, <2>4
<1>5. ASSUME NEW kind, NEW k, NEW w, m # Synced, HasEarly(r, kind, k, w) \/ (kind = a /\ k = b /\ w = c)
      PROVE  HasEarly(q, kind, k, w)
  <2>1. CASE kind = a /\ k = b /\ w = c
    <3>1. q[1] = <<kind, k, w>> /\ \A j \in 1..1 : q[j] # Synced
      <4>1. \A j \in 1..1 : j = 1
        OBVIOUS
      <4> QED
        BY <1>1, <1>5, <2>1, <4>1
    <3> QED
      BY <3>1, <1>2 DEF HasEarly
  <2>2. CASE HasEarly(r, kind, k, w)
    <3>1. PICK i \in 1..n : r[i] = <<kind, k, w>> /\ \A j \in 1..i : r[j] # Synced
      BY <2>2 DEF HasEarly, n
    <3>2. ASSUME NEW j \in 1..(i + 1) PROVE q[j] # Synced
      <4>1. j = 1 \/ (j - 1 \in 1..i /\ j \in 1..Len(q))
        BY <1>1, <3>1, <3>2
      <4> QED
        BY <1>1, <1>2, <1>5, <3>1, <4>1
    <3> QED
      BY <1>1, <1>2, <3>1, <3>2 DEF HasEarly
  <2> QED
    BY <1>5, <2>1, <2>2
<1>6. \A kind, k, w, other, l, x : HasOrder(q, kind, k, w, other, l, x) <=>
         \/ HasOrder(r, kind, k, w, other, l, x)
         \/ HasMsg(r, other, l, x) /\ kind = a /\ k = b /\ w = c
  <2> TAKE kind, k, w, other, l, x
  <2>1. ASSUME HasOrder(q, kind, k, w, other, l, x)
        PROVE  \/ HasOrder(r, kind, k, w, other, l, x)
               \/ HasMsg(r, other, l, x) /\ kind = a /\ k = b /\ w = c
    <3>1. PICK i \in 1..Len(q), j \in 1..Len(q) :
            i < j /\ q[i] = <<kind, k, w>> /\ q[j] = <<other, l, x>>
      BY <2>1 DEF HasOrder
    <3>2. j - 1 \in 1..n /\ r[j - 1] = <<other, l, x>>
      BY <1>2, <3>1
    <3>3. CASE i = 1
      BY <1>1, <3>1, <3>2, <3>3 DEF HasMsg, n
    <3>4. CASE i # 1
      <4>1. i - 1 \in 1..n /\ r[i - 1] = <<kind, k, w>> /\ i - 1 < j - 1
        BY <1>2, <3>1, <3>4
      <4> QED
        BY <4>1, <3>2 DEF HasOrder, n
    <3> QED
      BY <3>3, <3>4
  <2>2. ASSUME HasOrder(r, kind, k, w, other, l, x) PROVE HasOrder(q, kind, k, w, other, l, x)
    <3>1. PICK i \in 1..n, j \in 1..n : i < j /\ r[i] = <<kind, k, w>> /\ r[j] = <<other, l, x>>
      BY <2>2 DEF HasOrder, n
    <3>2. i + 1 < j + 1 /\ q[i + 1] = <<kind, k, w>> /\ q[j + 1] = <<other, l, x>>
      <4>1. q[i + 1] = r[i]
        BY <1>1
      <4>2. q[j + 1] = r[j]
        BY <1>1
      <4>3. i + 1 < j + 1
        BY <1>1, <3>1
      <4> QED
        BY <3>1, <4>1, <4>2, <4>3
    <3> QED
      BY <3>1, <3>2, <1>2 DEF HasOrder
  <2>3. ASSUME HasMsg(r, other, l, x), kind = a, k = b, w = c
        PROVE  HasOrder(q, kind, k, w, other, l, x)
    <3>1. PICK j \in 1..n : r[j] = <<other, l, x>>
      BY <2>3 DEF HasMsg, n
    <3>2. 1 < j + 1 /\ q[j + 1] = <<other, l, x>> /\ q[1] = <<kind, k, w>>
      BY <1>1, <3>1, <2>3
    <3> QED
      BY <3>1, <3>2, <1>2 DEF HasOrder
  <2> QED
    BY <2>1, <2>2, <2>3
<1>7. a # "synced" => m # Synced
  BY DEF Synced
<1>8. /\ \A kind, k, w : a # "synced" =>
           (HasEarly(q, kind, k, w) <=> HasEarly(r, kind, k, w) \/ (kind = a /\ k = b /\ w = c))
      /\ \A kind, k, w : m = Synced => ~HasEarly(q, kind, k, w)
  BY <1>4, <1>5, <1>7
<1>9. Taken(q, r, a, b, c)
  BY <1>1, <1>3, <1>6, <1>8 DEF Taken
<1> QED
  BY <1>9 DEF r

LEMMA AppendSends ==
  ASSUME NEW q \in Seq(Messages), NEW a, NEW b, NEW c, <<a, b, c>> \in Messages, NEW r,
         r = Append(q, <<a, b, c>>)
  PROVE  Sent(q, r, a, b, c)
<1>1. Sent(q, Append(q, <<a, b, c>>), a, b, c)
  BY AppendedMsg
<1> QED
  BY <1>1

LEMMA TailTakes ==
  ASSUME NEW q \in Seq(Messages), q # <<>>, NEW a, NEW b, NEW c, Head(q) = <<a, b, c>>, NEW r,
         r = Tail(q)
  PROVE  Taken(q, r, a, b, c)
<1>1. Taken(q, Tail(q), a, b, c)
  BY TakenMsg
<1> QED
  BY <1>1

LEMMA HeadOf ==
  ASSUME NEW q \in Seq(Messages), q # <<>>
  PROVE  /\ Head(q) = <<Head(q)[1], Head(q)[2], Head(q)[3]>>
         /\ Head(q)[1] = "synced" => Head(q) = Synced
         /\ Head(q)[1] = "sync" => Head(q) = Sync
         /\ Head(q)[1] \in EventKinds \cup RequestKinds =>
              Head(q)[2] \in HandleKeys /\ Head(q)[3] \in HandleWindows
<1>1. Head(q) \in Messages
  BY HeadTailProperties
<1>2. CASE Head(q) \in (EventKinds \cup RequestKinds) \X HandleKeys \X HandleWindows
  BY <1>2 DEF EventKinds, RequestKinds
<1>3. CASE Head(q) \in {Synced, Sync}
  BY <1>3 DEF Synced, Sync, EventKinds, RequestKinds
<1> QED
  BY <1>1, <1>2, <1>3 DEF Messages

LEMMA MsgTyped ==
  ASSUME NEW q \in Seq(Messages), NEW kind \in EventKinds \cup RequestKinds, NEW k, NEW w,
         HasMsg(q, kind, k, w)
  PROVE  k \in HandleKeys /\ w \in HandleWindows
<1>1. PICK i \in 1..Len(q) : q[i] = <<kind, k, w>>
  BY DEF HasMsg
<1>2. <<kind, k, w>> \in Messages
  BY <1>1, ElementOfSeq
<1>3. <<kind, k, w>> # Synced /\ <<kind, k, w>> # Sync
  BY DEF Synced, Sync, EventKinds, RequestKinds
<1> QED
  BY <1>2, <1>3 DEF Messages

LEMMA Sendable ==
  /\ <<"sync", NoWindow, NoWindow>> \in Messages /\ <<"synced", NoWindow, NoWindow>> \in Messages
  /\ \A kind \in EventKinds \cup RequestKinds, k \in HandleKeys, w \in HandleWindows :
       <<kind, k, w>> \in Messages
  BY DEF Messages, Synced, Sync

Handle == [window : HandleWindows, ready : BOOLEAN, skip : BOOLEAN]

ToplevelTypeOK ==
  /\ protocol \in {"ext", "wlr", "kde"}
  /\ opened \in 0..MaxWindows
  /\ events \in Seq(Messages) /\ requests \in Seq(Messages)
  /\ DOMAIN registry \subseteq HandleKeys /\ \A k \in DOMAIN registry : registry[k] \in Handle
  /\ windowRows \subseteq HandleKeys \X HandleWindows
  /\ selected \in (HandleKeys \X HandleWindows) \cup {NoWindow}
  /\ answered \in BOOLEAN /\ synced \cup absent \subseteq 1..opened

\* At most one round trip is under way.
OneRoundTrip ==
  /\ answered => /\ busy /\ ~HasMsg(requests, "sync", NoWindow, NoWindow)
                 /\ ~HasMsg(events, "synced", NoWindow, NoWindow)
  /\ HasMsg(requests, "sync", NoWindow, NoWindow) =>
       /\ busy /\ ~HasMsg(events, "synced", NoWindow, NoWindow)
       /\ ~HasOrder(requests, "sync", NoWindow, NoWindow, "sync", NoWindow, NoWindow)
  /\ HasMsg(events, "synced", NoWindow, NoWindow) =>
       /\ busy
       /\ ~HasOrder(events, "synced", NoWindow, NoWindow, "synced", NoWindow, NoWindow)

\* The compositor has answered; a message that comes before the answer, which is
\* none once the answer has been dispatched.
Answering == answered \/ HasMsg(events, "synced", NoWindow, NoWindow)
Early(kind, k, w) == ~answered /\ HasEarly(events, kind, k, w)

-----------------------------------------------------------------------------
(* ext and wlr: every handle is announced, completed, closed and destroyed, *)
(* in this order.                                                          *)

ExtHandles ==
  /\ skipping = {} /\ live \subseteq 1..opened
  /\ \A k \in DOMAIN resources : k \in ObjectIds /\ resources[k] \in 1..opened
  /\ \A k, l \in DOMAIN resources : resources[k] = resources[l] => k = l
  /\ \A w \in live : \E k \in DOMAIN resources : resources[k] = w

\* Events are about handles that exist and are not being destroyed; an
\* announcement comes first and is followed by its completion, a closure last.
ExtEvents ==
  /\ \A kind \in EventKinds, k \in HandleKeys, w \in HandleWindows : HasMsg(events, kind, k, w) =>
       /\ kind \in {"toplevel", "done", "closed"}
       /\ k \in DOMAIN resources /\ resources[k] = w /\ ~HasMsg(requests, "destroy", k, w)
       /\ ~HasOrder(events, "closed", k, w, kind, k, w)
       /\ ~HasOrder(events, kind, k, w, "toplevel", k, w)
  /\ \A k \in HandleKeys, w \in HandleWindows :
       HasMsg(events, "toplevel", k, w) => HasMsg(events, "done", k, w)

ExtRequests ==
  \A k \in HandleKeys, w \in HandleWindows :
    /\ ~HasMsg(requests, "get", k, w)
    /\ HasMsg(requests, "destroy", k, w) =>
         /\ k \in DOMAIN resources /\ resources[k] = w
         /\ ~HasOrder(requests, "destroy", k, w, "destroy", k, w)

ExtRegistry ==
  /\ \A k \in DOMAIN registry :
       /\ k \in DOMAIN resources /\ registry[k].window = resources[k]
       /\ ~HasMsg(requests, "destroy", k, resources[k])
       /\ ~HasMsg(events, "toplevel", k, resources[k])
       /\ ~registry[k].ready => HasMsg(events, "done", k, resources[k])
  /\ \A k \in DOMAIN resources :
       /\ \/ k \in DOMAIN registry
          \/ HasMsg(events, "toplevel", k, resources[k])
          \/ HasMsg(requests, "destroy", k, resources[k])
       /\ resources[k] \in live <=> /\ ~HasMsg(events, "closed", k, resources[k])
                                    /\ ~HasMsg(requests, "destroy", k, resources[k])

\* A window that had closed at the answer is gone, and one that was open then and
\* still is will be complete, when all that came before the answer is dispatched.
ExtSynced ==
  Answering =>
    \A k \in DOMAIN resources :
      /\ resources[k] \in absent =>
           HasMsg(requests, "destroy", k, resources[k]) \/ Early("closed", k, resources[k])
      /\ resources[k] \in synced \cap live =>
           (k \in DOMAIN registry /\ registry[k].ready) \/ Early("done", k, resources[k])

\* As long as a window is open its handle has the key by which it was shown.
RowStands(k, w) == w \in 1..opened /\ (w \in live => k \in DOMAIN resources /\ resources[k] = w)

ExtActions ==
  /\ ~misdirected
  /\ \A r \in windowRows : RowStands(r[1], r[2])
  /\ selected # NoWindow => RowStands(selected[1], selected[2])
  /\ \A k \in HandleKeys, w \in HandleWindows : HasMsg(requests, "act", k, w) => RowStands(k, w)

ExtInv ==
  /\ ToplevelTypeOK /\ OneRoundTrip
  /\ ExtHandles /\ ExtEvents /\ ExtRequests /\ ExtRegistry /\ ExtSynced /\ ExtActions

\* Rows and requests stand as long as open windows keep their handles.
LEMMA RowsStand ==
  ASSUME ExtActions, UNCHANGED <<windowRows, selected, misdirected>>,
         \A k \in HandleKeys, w \in HandleWindows :
            HasMsg(requests', "act", k, w) => HasMsg(requests, "act", k, w),
         \A k, w : RowStands(k, w) => /\ w \in 1..opened'
                                      /\ w \in live' => k \in DOMAIN resources' /\ resources'[k] = w
  PROVE  ExtActions'
<1>1. \A k, w : RowStands(k, w) => RowStands(k, w)'
  BY DEF RowStands
<1>2. /\ ~misdirected'
      /\ \A r \in windowRows' : RowStands(r[1], r[2])'
      /\ selected' # NoWindow => RowStands(selected[1], selected[2])'
  BY <1>1 DEF ExtActions, RowStands
<1>3. \A k \in HandleKeys, w \in HandleWindows : HasMsg(requests', "act", k, w) => RowStands(k, w)'
  BY <1>1 DEF ExtActions
<1>4. QED
  BY <1>2, <1>3 DEF ExtActions

LEMMA HandleNumbers ==
  ASSUME NEW o \in 0..MaxWindows
  PROVE  /\ 1..o \subseteq HandleWindows /\ 1..o \subseteq HandleKeys /\ ObjectIds \subseteq HandleKeys
         /\ o < MaxWindows => o + 1 \in HandleWindows /\ o + 1 \in HandleKeys /\ o + 1 \in 0..MaxWindows
                              /\ o + 1 \in 1..(o + 1) /\ o + 1 \notin 1..o /\ 1..o \subseteq 1..(o + 1)
  BY ToplevelAssumption DEF HandleWindows, HandleKeys

\* A window opens: both its messages are the last.
LEMMA ExtOpens ==
  ASSUME ExtInv, protocol # "kde", NEW key \in ObjectIds, OpenWindow(key)
  PROVE  ExtInv'
<1> DEFINE n == opened + 1
           mid == Append(events, <<"toplevel", key, n>>)
<1>1. /\ opened < MaxWindows /\ key \notin DOMAIN resources /\ opened' = n /\ live' = live \cup {n}
      /\ events' = events \o <<<<"toplevel", key, n>>, <<"done", key, n>>>>
      /\ resources' = With(resources, key, n)
      /\ UNCHANGED <<skipping, requests, synced, absent, answered, protocol, registry, busy,
                     windowRows, selected, misdirected>>
  BY DEF OpenWindow, Announce, clientVars, tripVars
<1>2. /\ opened \in 0..MaxWindows /\ key \in HandleKeys /\ n \in HandleWindows /\ n \in 0..MaxWindows
      /\ n \in 1..n /\ n \notin 1..opened /\ 1..opened \subseteq 1..n /\ events \in Seq(Messages)
  BY <1>1, HandleNumbers DEF ExtInv, ToplevelTypeOK
<1> HIDE DEF n
<1>3. <<"toplevel", key, n>> \in Messages /\ <<"done", key, n>> \in Messages
  BY <1>2, Sendable DEF EventKinds
<1>4. /\ mid \in Seq(Messages) /\ events' = Append(mid, <<"done", key, n>>)
  <2>1. mid \in Seq(Messages)
    BY <1>2, <1>3, AppendProperties
  <2>2. events \o <<<<"toplevel", key, n>>, <<"done", key, n>>>> =
          Append(Append(events, <<"toplevel", key, n>>), <<"done", key, n>>)
    <3>1. <<<<"toplevel", key, n>>>> \in Seq(Messages) /\ <<<<"done", key, n>>>> \in Seq(Messages)
      BY <1>3
    <3>2. <<<<"toplevel", key, n>>, <<"done", key, n>>>> = <<<<"toplevel", key, n>>>> \o <<<<"done", key, n>>>>
      OBVIOUS
    <3>3. events \o (<<<<"toplevel", key, n>>>> \o <<<<"done", key, n>>>>) =
            (events \o <<<<"toplevel", key, n>>>>) \o <<<<"done", key, n>>>>
      BY <1>2, <3>1, ConcatAssociative
    <3>4. events \o <<<<"toplevel", key, n>>>> = mid
      BY <1>2, <1>3, AppendIsConcat
    <3>5. mid \o <<<<"done", key, n>>>> = Append(mid, <<"done", key, n>>)
      BY <2>1, <1>3, AppendIsConcat
    <3> QED
      BY <3>2, <3>3, <3>4, <3>5
  <2> QED
    BY <1>1, <2>1, <2>2
<1>5. Sent(events, mid, "toplevel", key, n)
  BY <1>2, <1>3, AppendSends
<1> HIDE DEF mid
<1>6. Sent(mid, events', "done", key, n)
  BY <1>3, <1>4, AppendSends
<1>7. /\ \A kind, k, w : HasMsg(events', kind, k, w) <=>
            \/ HasMsg(events, kind, k, w)
            \/ kind \in {"toplevel", "done"} /\ k = key /\ w = n
      /\ HasMsg(events', "synced", NoWindow, NoWindow) => HasMsg(events, "synced", NoWindow, NoWindow)
      /\ \A kind, k, w : HasMsg(events, "synced", NoWindow, NoWindow) =>
            (HasEarly(events', kind, k, w) <=> HasEarly(events, kind, k, w))
      /\ \A kind, k, w, other, l, x : HasOrder(events', kind, k, w, other, l, x) =>
            \/ HasOrder(events, kind, k, w, other, l, x)
            \/ HasMsg(events, kind, k, w) /\ other \in {"toplevel", "done"} /\ l = key
            \/ kind = "toplevel" /\ k = key /\ w = n /\ other = "done" /\ l = key /\ x = n
  BY <1>5, <1>6 DEF Sent, Synced
<1>8. /\ DOMAIN resources' = DOMAIN resources \cup {key} /\ resources'[key] = n
      /\ \A k \in DOMAIN resources : resources'[k] = resources[k]
  BY <1>1 DEF With
<1>9. ToplevelTypeOK' /\ OneRoundTrip'
  <2>1. ToplevelTypeOK'
    BY <1>1, <1>2, <1>6 DEF ExtInv, ToplevelTypeOK, Sent
  <2>2. OneRoundTrip'
    BY <1>1, <1>7 DEF ExtInv, OneRoundTrip
  <2> QED
    BY <2>1, <2>2
<1>10. ExtHandles'
  BY <1>1, <1>2, <1>8 DEF ExtInv, ExtHandles
<1>11. \A kind \in EventKinds, w \in HandleWindows : ~HasMsg(events, kind, key, w)
  BY <1>1, <1>2 DEF ExtInv, ExtEvents
<1>12. \A w \in HandleWindows : ~HasMsg(requests, "destroy", key, w)
  BY <1>1, <1>2 DEF ExtInv, ExtRequests
<1>13. ExtEvents'
  <2>1. ASSUME NEW kind \in EventKinds, NEW k \in HandleKeys, NEW w \in HandleWindows,
               HasMsg(events', kind, k, w)
        PROVE  /\ kind \in {"toplevel", "done", "closed"}
               /\ k \in DOMAIN resources' /\ resources'[k] = w /\ ~HasMsg(requests', "destroy", k, w)
               /\ ~HasOrder(events', "closed", k, w, kind, k, w)
               /\ ~HasOrder(events', kind, k, w, "toplevel", k, w)
    <3>1. CASE HasMsg(events, kind, k, w)
      <4>1. k # key
        BY <1>11, <3>1
      <4> QED
        BY <1>1, <1>7, <1>8, <2>1, <3>1, <4>1 DEF ExtInv, ExtEvents
    <3>2. CASE kind \in {"toplevel", "done"} /\ k = key /\ w = n
      <4>1. ~HasOrder(events, "closed", k, w, kind, k, w) /\ ~HasMsg(events, "closed", k, w)
        BY <1>11, <3>2, OrderHas DEF EventKinds
      <4>2. ~HasOrder(events, kind, k, w, "toplevel", k, w) /\ ~HasMsg(events, kind, k, w)
        BY <1>11, <3>2, OrderHas
      <4> QED
        BY <1>1, <1>7, <1>8, <1>12, <3>2, <4>1, <4>2
    <3> QED
      BY <1>7, <2>1, <3>1, <3>2
  <2>2. ASSUME NEW k \in HandleKeys, NEW w \in HandleWindows, HasMsg(events', "toplevel", k, w)
        PROVE  HasMsg(events', "done", k, w)
    BY <1>7, <2>2 DEF ExtInv, ExtEvents
  <2> QED
    BY <2>1, <2>2 DEF ExtEvents
<1>14. ExtRequests'
  BY <1>1, <1>8 DEF ExtInv, ExtRequests
<1>15. ExtRegistry'
  <2>1. \A k \in DOMAIN resources : resources[k] \in HandleWindows /\ resources[k] # n /\ k # key
    BY <1>1, <1>2, HandleNumbers DEF ExtInv, ExtHandles
  <2>2. ASSUME NEW k \in DOMAIN registry'
        PROVE  /\ k \in DOMAIN resources' /\ registry'[k].window = resources'[k]
               /\ ~HasMsg(requests', "destroy", k, resources'[k])
               /\ ~HasMsg(events', "toplevel", k, resources'[k])
               /\ ~registry'[k].ready => HasMsg(events', "done", k, resources'[k])
    BY <1>1, <1>7, <1>8, <2>1, <2>2 DEF ExtInv, ExtRegistry
  <2>3. ASSUME NEW k \in DOMAIN resources'
        PROVE  /\ \/ k \in DOMAIN registry'
                  \/ HasMsg(events', "toplevel", k, resources'[k])
                  \/ HasMsg(requests', "destroy", k, resources'[k])
               /\ resources'[k] \in live' <=> /\ ~HasMsg(events', "closed", k, resources'[k])
                                              /\ ~HasMsg(requests', "destroy", k, resources'[k])
    <3>1. CASE k = key
      <4>1. ~HasMsg(events, "closed", k, n)
        BY <1>2, <1>11, <3>1 DEF EventKinds
      <4> QED
        BY <1>1, <1>2, <1>7, <1>8, <1>12, <3>1, <4>1
    <3>2. CASE k # key
      BY <1>1, <1>7, <1>8, <2>1, <2>3, <3>2 DEF ExtInv, ExtRegistry
    <3> QED
      BY <3>1, <3>2
  <2> QED
    BY <2>2, <2>3 DEF ExtRegistry
<1>16. ExtSynced'
  <2> SUFFICES ASSUME Answering' PROVE ExtSynced'
    BY DEF ExtSynced
  <2>1. Answering
    BY <1>1, <1>7 DEF Answering
  <2>2. \A kind, k, w : Early(kind, k, w)' <=> Early(kind, k, w)
    BY <1>1, <1>7, <2>1 DEF Early, Answering
  <2>3. n \notin synced \cup absent
    BY <1>2 DEF ExtInv, ToplevelTypeOK
  <2>4. ASSUME NEW k \in DOMAIN resources'
        PROVE  /\ resources'[k] \in absent' =>
                    HasMsg(requests', "destroy", k, resources'[k]) \/ Early("closed", k, resources[k])'
               /\ resources'[k] \in synced' \cap live' =>
                    (k \in DOMAIN registry' /\ registry'[k].ready) \/ Early("done", k, resources[k])'
    <3>1. CASE k = key
      BY <1>1, <1>8, <2>3, <3>1
    <3>2. CASE k # key
      <4>1. k \in DOMAIN resources /\ resources'[k] = resources[k]
        BY <1>8, <2>4, <3>2
      <4>2. resources[k] \in synced /\ resources[k] \in live' => resources[k] \in live
        BY <1>1, <2>3
      <4>3. /\ resources[k] \in absent =>
                 HasMsg(requests, "destroy", k, resources[k]) \/ Early("closed", k, resources[k])
            /\ resources[k] \in synced \cap live =>
                 (k \in DOMAIN registry /\ registry[k].ready) \/ Early("done", k, resources[k])
        BY <2>1, <4>1 DEF ExtInv, ExtSynced
      <4>4. \A kind, w : Early(kind, k, w)' <=> Early(kind, k, w)
        BY <2>2
      <4> QED
        BY <1>1, <4>1, <4>2, <4>3, <4>4 DEF Early
    <3> QED
      BY <3>1, <3>2
  <2> QED
    BY <2>4 DEF ExtSynced
<1>17. ExtActions'
  <2>1. \A k, w : RowStands(k, w) => /\ w \in 1..opened'
                                     /\ w \in live' => k \in DOMAIN resources' /\ resources'[k] = w
    BY <1>1, <1>2, <1>8 DEF RowStands
  <2> QED
    BY <1>1, <2>1, RowsStand DEF ExtInv
<1> QED
  BY <1>9, <1>10, <1>13, <1>14, <1>15, <1>16, <1>17 DEF ExtInv

\* A window closes: the closure is the last of its handle's events.
LEMMA ExtCloses ==
  ASSUME ExtInv, protocol # "kde", NEW window \in 1..MaxWindows, CloseWindow(window)
  PROVE  ExtInv'
<1>1. PICK key \in DOMAIN resources : resources[key] = window
  BY DEF ExtInv, ExtHandles, CloseWindow
<1>2. {k \in DOMAIN resources : resources[k] = window} = {key}
  BY <1>1 DEF ExtInv, ExtHandles
<1>3. (CHOOSE k \in {key} : TRUE) = key
  OBVIOUS
<1>4. /\ window \in live /\ live' = live \ {window} /\ skipping' = skipping \ {window}
      /\ events' = Append(events, <<"closed", key, window>>)
      /\ UNCHANGED <<resources, opened, requests, synced, absent, answered, protocol, registry,
                     busy, windowRows, selected, misdirected>>
  BY <1>2, <1>3 DEF CloseWindow, clientVars, tripVars
<1>5. /\ opened \in 0..MaxWindows /\ key \in HandleKeys /\ window \in HandleWindows
      /\ events \in Seq(Messages)
  BY <1>1, HandleNumbers DEF ExtInv, ToplevelTypeOK, ExtHandles, HandleWindows
<1>6. <<"closed", key, window>> \in Messages
  BY <1>5, Sendable DEF EventKinds
<1>7. Sent(events, events', "closed", key, window)
  BY <1>4, <1>5, <1>6, AppendSends
<1>8. ~HasMsg(events, "closed", key, window) /\ ~HasMsg(requests, "destroy", key, window)
  BY <1>1, <1>4 DEF ExtInv, ExtRegistry
<1>9. ToplevelTypeOK' /\ OneRoundTrip'
  <2>1. ToplevelTypeOK'
    BY <1>4, <1>7 DEF ExtInv, ToplevelTypeOK, Sent
  <2>2. /\ HasMsg(events', "synced", NoWindow, NoWindow) <=> HasMsg(events, "synced", NoWindow, NoWindow)
        /\ HasOrder(events', "synced", NoWindow, NoWindow, "synced", NoWindow, NoWindow) <=>
             HasOrder(events, "synced", NoWindow, NoWindow, "synced", NoWindow, NoWindow)
    BY <1>7 DEF Sent
  <2>3. OneRoundTrip'
    BY <1>4, <2>2 DEF ExtInv, OneRoundTrip
  <2> QED
    BY <2>1, <2>3
<1>10. ExtHandles'
  BY <1>4 DEF ExtInv, ExtHandles
<1>11. ExtEvents'
  <2>1. ASSUME NEW kind \in EventKinds, NEW k \in HandleKeys, NEW w \in HandleWindows,
               HasMsg(events', kind, k, w)
        PROVE  /\ kind \in {"toplevel", "done", "closed"}
               /\ k \in DOMAIN resources' /\ resources'[k] = w /\ ~HasMsg(requests', "destroy", k, w)
               /\ ~HasOrder(events', "closed", k, w, kind, k, w)
               /\ ~HasOrder(events', kind, k, w, "toplevel", k, w)
    <3>1. CASE HasMsg(events, kind, k, w)
      <4>1. /\ kind \in {"toplevel", "done", "closed"}
            /\ k \in DOMAIN resources /\ resources[k] = w /\ ~HasMsg(requests, "destroy", k, w)
            /\ ~HasOrder(events, "closed", k, w, kind, k, w)
            /\ ~HasOrder(events, kind, k, w, "toplevel", k, w)
        BY <2>1, <3>1 DEF ExtInv, ExtEvents
      <4>2. HasOrder(events', "closed", k, w, kind, k, w) =>
              HasOrder(events, "closed", k, w, kind, k, w) \/ (HasMsg(events, "closed", k, w) /\ k = key /\ w = window)
        BY <1>7 DEF Sent
      <4>3. HasOrder(events', kind, k, w, "toplevel", k, w) => HasOrder(events, kind, k, w, "toplevel", k, w)
        BY <1>7 DEF Sent
      <4> QED
        BY <1>4, <1>8, <4>1, <4>2, <4>3
    <3>2. CASE kind = "closed" /\ k = key /\ w = window
      <4>1. ~HasOrder(events, "closed", k, w, "closed", k, w) /\ ~HasOrder(events, "closed", k, w, "toplevel", k, w)
        BY <1>8, <3>2, OrderHas
      <4> QED
        BY <1>1, <1>4, <1>7, <1>8, <3>2, <4>1 DEF Sent
    <3> QED
      BY <1>7, <2>1, <3>1, <3>2 DEF Sent
  <2>2. ASSUME NEW k \in HandleKeys, NEW w \in HandleWindows, HasMsg(events', "toplevel", k, w)
        PROVE  HasMsg(events', "done", k, w)
    BY <1>7, <2>2 DEF ExtInv, ExtEvents, Sent
  <2> QED
    BY <2>1, <2>2 DEF ExtEvents
<1>12. ExtRequests'
  BY <1>4 DEF ExtInv, ExtRequests
<1>13. ExtRegistry'
  <2>1. ASSUME NEW k \in DOMAIN registry'
        PROVE  /\ k \in DOMAIN resources' /\ registry'[k].window = resources'[k]
               /\ ~HasMsg(requests', "destroy", k, resources'[k])
               /\ ~HasMsg(events', "toplevel", k, resources'[k])
               /\ ~registry'[k].ready => HasMsg(events', "done", k, resources'[k])
    BY <1>4, <1>7, <2>1 DEF ExtInv, ExtRegistry, Sent
  <2>2. ASSUME NEW k \in DOMAIN resources'
        PROVE  /\ \/ k \in DOMAIN registry'
                  \/ HasMsg(events', "toplevel", k, resources'[k])
                  \/ HasMsg(requests', "destroy", k, resources'[k])
               /\ resources'[k] \in live' <=> /\ ~HasMsg(events', "closed", k, resources'[k])
                                              /\ ~HasMsg(requests', "destroy", k, resources'[k])
    <3>1. CASE k = key
      BY <1>1, <1>4, <1>7, <3>1 DEF ExtInv, ExtRegistry, Sent
    <3>2. CASE k # key
      <4>1. resources[k] # window
        BY <1>1, <1>4, <2>2, <3>2 DEF ExtInv, ExtHandles
      <4> QED
        BY <1>4, <1>7, <2>2, <3>2, <4>1 DEF ExtInv, ExtRegistry, Sent
    <3> QED
      BY <3>1, <3>2
  <2> QED
    BY <2>1, <2>2 DEF ExtRegistry
<1>14. ExtSynced'
  <2> SUFFICES ASSUME Answering' PROVE ExtSynced'
    BY DEF ExtSynced
  <2>1. Answering
    BY <1>4, <1>7 DEF Answering, Sent
  <2>2. \A kind, k, w : Early(kind, k, w)' <=> Early(kind, k, w)
    BY <1>4, <1>7, <2>1 DEF Early, Answering, Sent
  <2> QED
    BY <1>4, <2>1, <2>2 DEF ExtInv, ExtSynced
<1>15. ExtActions'
  <2>1. \A k, w : RowStands(k, w) => /\ w \in 1..opened'
                                     /\ w \in live' => k \in DOMAIN resources' /\ resources'[k] = w
    BY <1>4 DEF RowStands
  <2> QED
    BY <1>4, <2>1, RowsStand DEF ExtInv
<1> QED
  BY <1>9, <1>10, <1>11, <1>12, <1>13, <1>14, <1>15 DEF ExtInv

\* The compositor answers a round trip.
LEMMA ExtAnswers ==
  ASSUME ExtInv, protocol # "kde", requests # <<>>, Head(requests)[1] = "sync", HandleRequest
  PROVE  ExtInv'
<1>1. /\ requests' = Tail(requests) /\ events' = Append(events, <<"synced", NoWindow, NoWindow>>)
      /\ synced' = live /\ absent' = (1..opened) \ live
      /\ UNCHANGED <<resources, opened, live, skipping, protocol, registry, busy, windowRows, selected, answered,
                     misdirected>>
  BY DEF HandleRequest, clientVars, tripVars, ExtInv, ExtHandles
<1>2. events \in Seq(Messages) /\ requests \in Seq(Messages)
  BY DEF ExtInv, ToplevelTypeOK
<1>3. Taken(requests, requests', "sync", NoWindow, NoWindow)
  <2>1. Head(requests) = <<"sync", NoWindow, NoWindow>>
    BY <1>2, HeadOf DEF Sync
  <2> QED
    BY <1>1, <1>2, <2>1, TailTakes
<1>4. Sent(events, events', "synced", NoWindow, NoWindow)
  BY <1>1, <1>2, Sendable, AppendSends
<1>5. /\ HasMsg(requests, "sync", NoWindow, NoWindow) /\ ~HasMsg(requests', "sync", NoWindow, NoWindow)
      /\ ~HasMsg(events, "synced", NoWindow, NoWindow) /\ busy /\ ~answered
  BY <1>3 DEF ExtInv, OneRoundTrip, Taken
<1>6. \A k, w : HasMsg(requests', "destroy", k, w) <=> HasMsg(requests, "destroy", k, w)
  BY <1>3 DEF Taken
<1>7. \A k, w : \A kind \in EventKinds : HasMsg(events', kind, k, w) <=> HasMsg(events, kind, k, w)
  BY <1>4 DEF Sent, EventKinds
<1>8. \A kind, k, w, l, x : \A other \in EventKinds :
         HasOrder(events', kind, k, w, other, l, x) <=> HasOrder(events, kind, k, w, other, l, x)
  BY <1>4 DEF Sent, EventKinds
<1>9. ToplevelTypeOK' /\ OneRoundTrip'
  <2>1. ToplevelTypeOK'
    BY <1>1, <1>3, <1>4 DEF ExtInv, ToplevelTypeOK, ExtHandles, Sent, Taken
  <2>2. ~HasOrder(events', "synced", NoWindow, NoWindow, "synced", NoWindow, NoWindow)
    BY <1>4, <1>5, OrderHas DEF Sent
  <2>3. OneRoundTrip'
    BY <1>1, <1>5, <2>2 DEF OneRoundTrip
  <2> QED
    BY <2>1, <2>3
<1>10. ExtHandles'
  BY <1>1 DEF ExtInv, ExtHandles
<1>11. ExtEvents'
  <2>1. ASSUME NEW kind \in EventKinds, NEW k \in HandleKeys, NEW w \in HandleWindows,
               HasMsg(events', kind, k, w)
        PROVE  /\ kind \in {"toplevel", "done", "closed"}
               /\ k \in DOMAIN resources' /\ resources'[k] = w /\ ~HasMsg(requests', "destroy", k, w)
               /\ ~HasOrder(events', "closed", k, w, kind, k, w)
               /\ ~HasOrder(events', kind, k, w, "toplevel", k, w)
    <3>1. /\ kind \in {"toplevel", "done", "closed"}
          /\ k \in DOMAIN resources /\ resources[k] = w /\ ~HasMsg(requests, "destroy", k, w)
          /\ ~HasOrder(events, "closed", k, w, kind, k, w)
          /\ ~HasOrder(events, kind, k, w, "toplevel", k, w)
      BY <1>7, <2>1 DEF ExtInv, ExtEvents
    <3> QED
      BY <1>1, <1>6, <1>8, <3>1 DEF EventKinds
  <2>2. ASSUME NEW k \in HandleKeys, NEW w \in HandleWindows, HasMsg(events', "toplevel", k, w)
        PROVE  HasMsg(events', "done", k, w)
    BY <1>7, <2>2 DEF ExtInv, ExtEvents, EventKinds
  <2> QED
    BY <2>1, <2>2 DEF ExtEvents
<1>12. ExtRequests'
  BY <1>1, <1>3 DEF ExtInv, ExtRequests, Taken
<1>13. ExtRegistry'
  BY <1>1, <1>6, <1>7 DEF ExtInv, ExtRegistry, EventKinds
<1>14. ExtSynced'
  <2>1. \A k, w : /\ Early("done", k, w)' <=> HasMsg(events, "done", k, w)
                  /\ Early("closed", k, w)' <=> HasMsg(events, "closed", k, w)
    BY <1>1, <1>4, <1>5, NoAnswerYet DEF Sent, Synced, Early
  <2>2. \A k \in DOMAIN resources : k \in HandleKeys /\ resources[k] \in HandleWindows
    BY HandleNumbers DEF ExtInv, ExtHandles, ToplevelTypeOK
  <2>3. ASSUME NEW k \in DOMAIN resources, resources[k] \notin live
        PROVE  HasMsg(requests, "destroy", k, resources[k]) \/ HasMsg(events, "closed", k, resources[k])
    BY <2>3 DEF ExtInv, ExtRegistry
  <2>4. ASSUME NEW k \in DOMAIN resources, resources[k] \in live
        PROVE  (k \in DOMAIN registry /\ registry[k].ready) \/ HasMsg(events, "done", k, resources[k])
    <3>1. ~HasMsg(requests, "destroy", k, resources[k])
      BY <2>4 DEF ExtInv, ExtRegistry
    <3>2. k \in DOMAIN registry \/ HasMsg(events, "done", k, resources[k])
      BY <2>2, <3>1 DEF ExtInv, ExtRegistry, ExtEvents
    <3> QED
      BY <3>2 DEF ExtInv, ExtRegistry
  <2> QED
    BY <1>1, <1>6, <2>1, <2>3, <2>4 DEF ExtSynced, Early
<1>15. ExtActions'
  <2>1. \A k, w : HasMsg(requests', "act", k, w) => HasMsg(requests, "act", k, w)
    BY <1>3 DEF Taken
  <2> QED
    BY <1>1, <2>1, RowsStand DEF ExtInv, RowStands
<1> QED
  BY <1>9, <1>10, <1>11, <1>12, <1>13, <1>14, <1>15 DEF ExtInv

\* A handle is destroyed: nothing is under way about it any more.
LEMMA ExtDestroys ==
  ASSUME ExtInv, protocol # "kde", requests # <<>>, Head(requests)[1] = "destroy", HandleRequest
  PROVE  ExtInv'
<1> DEFINE key == Head(requests)[2]
           window == Head(requests)[3]
<1>1. /\ requests' = Tail(requests) /\ resources' = Without(resources, key)
      /\ UNCHANGED <<events, synced, absent, answered, opened, live, skipping, protocol, registry,
                     busy, windowRows, selected, misdirected>>
  BY DEF HandleRequest, clientVars, tripVars
<1>2. events \in Seq(Messages) /\ requests \in Seq(Messages)
  BY DEF ExtInv, ToplevelTypeOK
<1>3. Taken(requests, requests', "destroy", key, window) /\ key \in HandleKeys /\ window \in HandleWindows
  <2>1. Head(requests) = <<"destroy", key, window>> /\ key \in HandleKeys /\ window \in HandleWindows
    BY <1>2, HeadOf DEF RequestKinds
  <2> QED
    BY <1>1, <1>2, <2>1, TailTakes
<1> HIDE DEF key, window
<1>4. /\ HasMsg(requests, "destroy", key, window)
      /\ key \in DOMAIN resources /\ resources[key] = window
      /\ ~HasMsg(requests', "destroy", key, window)
  BY <1>3 DEF ExtInv, ExtRequests, Taken
<1>5. /\ DOMAIN resources' = DOMAIN resources \ {key}
      /\ \A k \in DOMAIN resources' : resources'[k] = resources[k] /\ k # key
  BY <1>1 DEF Without, Restrict
<1>6. /\ \A kind \in EventKinds, k \in HandleKeys, w \in HandleWindows : HasMsg(events, kind, k, w) => k # key
      /\ key \notin DOMAIN registry /\ window \notin live
  <2>1. ASSUME NEW kind \in EventKinds, NEW k \in HandleKeys, NEW w \in HandleWindows,
               HasMsg(events, kind, k, w)
        PROVE  k # key
    BY <1>4, <2>1 DEF ExtInv, ExtEvents
  <2>2. key \notin DOMAIN registry /\ window \notin live
    BY <1>4 DEF ExtInv, ExtRegistry
  <2> QED
    BY <2>1, <2>2
<1>7. ToplevelTypeOK' /\ OneRoundTrip'
  <2>1. ToplevelTypeOK'
    BY <1>1, <1>3 DEF ExtInv, ToplevelTypeOK, Taken
  <2>2. OneRoundTrip'
    BY <1>1, <1>3 DEF ExtInv, OneRoundTrip, Taken
  <2> QED
    BY <2>1, <2>2
<1>8. ExtHandles'
  <2>1. \A w \in live : \E k \in DOMAIN resources : k # key /\ resources[k] = w
    BY <1>4, <1>6 DEF ExtInv, ExtHandles
  <2> QED
    BY <1>1, <1>5, <2>1 DEF ExtInv, ExtHandles
<1>9. ExtEvents'
  <2>1. ASSUME NEW kind \in EventKinds, NEW k \in HandleKeys, NEW w \in HandleWindows,
               HasMsg(events', kind, k, w)
        PROVE  /\ kind \in {"toplevel", "done", "closed"}
               /\ k \in DOMAIN resources' /\ resources'[k] = w /\ ~HasMsg(requests', "destroy", k, w)
               /\ ~HasOrder(events', "closed", k, w, kind, k, w)
               /\ ~HasOrder(events', kind, k, w, "toplevel", k, w)
    <3>1. k # key
      BY <1>1, <1>6, <2>1
    <3>2. ~HasMsg(requests', "destroy", k, w)
      BY <1>1, <1>3, <2>1 DEF ExtInv, ExtEvents, Taken
    <3> QED
      BY <1>1, <1>5, <2>1, <3>1, <3>2 DEF ExtInv, ExtEvents
  <2> QED
    BY <1>1, <2>1 DEF ExtInv, ExtEvents
<1>10. ExtRequests'
  <2>1. ASSUME NEW k \in HandleKeys, NEW w \in HandleWindows
        PROVE  /\ ~HasMsg(requests', "get", k, w)
               /\ HasMsg(requests', "destroy", k, w) =>
                    /\ k \in DOMAIN resources' /\ resources'[k] = w
                    /\ ~HasOrder(requests', "destroy", k, w, "destroy", k, w)
    <3>1. ~HasMsg(requests', "get", k, w)
      BY <1>3 DEF ExtInv, ExtRequests, Taken
    <3>2. ASSUME HasMsg(requests', "destroy", k, w)
          PROVE  /\ k \in DOMAIN resources' /\ resources'[k] = w
                 /\ ~HasOrder(requests', "destroy", k, w, "destroy", k, w)
      <4>1. /\ k \in DOMAIN resources /\ resources[k] = w
            /\ ~HasOrder(requests', "destroy", k, w, "destroy", k, w)
        BY <1>3, <3>2 DEF ExtInv, ExtRequests, Taken
      <4>2. k # key
        BY <1>4, <3>2, <4>1
      <4> QED
        BY <1>5, <4>1, <4>2
    <3> QED
      BY <3>1, <3>2
  <2> QED
    BY <2>1 DEF ExtRequests
<1>11. \A k \in DOMAIN resources' :
         /\ k \in DOMAIN resources /\ resources'[k] = resources[k]
         /\ HasMsg(requests', "destroy", k, resources'[k]) <=> HasMsg(requests, "destroy", k, resources[k])
  BY <1>3, <1>5 DEF Taken
<1>12. ExtRegistry'
  BY <1>1, <1>5, <1>6, <1>11 DEF ExtInv, ExtRegistry
<1>13. ExtSynced'
  <2> SUFFICES ASSUME Answering' PROVE ExtSynced'
    BY DEF ExtSynced
  <2>1. Answering /\ \A kind, k, w : Early(kind, k, w)' <=> Early(kind, k, w)
    BY <1>1 DEF Answering, Early
  <2>2. ASSUME NEW k \in DOMAIN resources'
        PROVE  /\ resources'[k] \in absent' =>
                    HasMsg(requests', "destroy", k, resources'[k]) \/ Early("closed", k, resources[k])'
               /\ resources'[k] \in synced' \cap live' =>
                    (k \in DOMAIN registry' /\ registry'[k].ready) \/ Early("done", k, resources[k])'
    <3>1. /\ resources[k] \in absent =>
               HasMsg(requests, "destroy", k, resources[k]) \/ Early("closed", k, resources[k])
          /\ resources[k] \in synced \cap live =>
               (k \in DOMAIN registry /\ registry[k].ready) \/ Early("done", k, resources[k])
      BY <1>11, <2>1, <2>2 DEF ExtInv, ExtSynced
    <3> QED
      BY <1>1, <1>11, <2>2, <3>1 DEF Early
  <2> QED
    BY <2>2 DEF ExtSynced
<1>14. ExtActions'
  <2>1. \A k, w : HasMsg(requests', "act", k, w) => HasMsg(requests, "act", k, w)
    BY <1>3 DEF Taken
  <2>2. \A k, w : RowStands(k, w) => /\ w \in 1..opened'
                                     /\ w \in live' => k \in DOMAIN resources' /\ resources'[k] = w
    BY <1>1, <1>4, <1>5, <1>6 DEF RowStands
  <2> QED
    BY <1>1, <2>1, <2>2, RowsStand DEF ExtInv
<1> QED
  BY <1>7, <1>8, <1>9, <1>10, <1>12, <1>13, <1>14 DEF ExtInv

\* An action on a handle (wlr).
LEMMA ExtActs ==
  ASSUME ExtInv, protocol # "kde", requests # <<>>, Head(requests)[1] = "act", HandleRequest
  PROVE  ExtInv'
<1>1. /\ requests' = Tail(requests)
      /\ UNCHANGED <<resources, events, synced, absent, answered, opened, live, skipping, protocol, registry, busy,
                     windowRows, selected>>
  BY DEF HandleRequest, clientVars, tripVars
<1>2. requests \in Seq(Messages)
  BY DEF ExtInv, ToplevelTypeOK
<1>3. Taken(requests, requests', "act", Head(requests)[2], Head(requests)[3])
  <2>1. Head(requests) = <<"act", Head(requests)[2], Head(requests)[3]>>
    BY <1>2, HeadOf
  <2> QED
    BY <1>1, <1>2, <2>1, TailTakes
<1>4. /\ \A k, w : \A kind \in {"get", "destroy", "sync"} : HasMsg(requests', kind, k, w)
                                                              <=> HasMsg(requests, kind, k, w)
      /\ \A kind, k, w, other, l, x : HasOrder(requests', kind, k, w, other, l, x) =>
           HasOrder(requests, kind, k, w, other, l, x)
      /\ requests' \in Seq(Messages)
  BY <1>3 DEF Taken
<1>5. ToplevelTypeOK'
  BY <1>1, <1>4 DEF ExtInv, ToplevelTypeOK
<1>6. OneRoundTrip'
  BY <1>1, <1>4 DEF ExtInv, OneRoundTrip
<1>7. ExtHandles' /\ ExtSynced'
  BY <1>1, <1>4 DEF ExtInv, ExtHandles, ExtSynced, Answering, Early
<1>8. ExtEvents'
  BY <1>1, <1>4 DEF ExtInv, ExtEvents
<1>9. ExtRequests' /\ ExtRegistry'
  BY <1>1, <1>4 DEF ExtInv, ExtRequests, ExtRegistry
<1>10. ~misdirected'
  <2> DEFINE key == Head(requests)[2]
             window == Head(requests)[3]
  <2>1. misdirected' = (misdirected \/ (window \in live /\ resources[key] # window))
    BY DEF HandleRequest
  <2>2. HasMsg(requests, "act", key, window)
    BY <1>3 DEF Taken
  <2>3. key \in HandleKeys /\ window \in HandleWindows
    BY <1>2, <2>2, MsgTyped DEF RequestKinds
  <2>4. RowStands(key, window) /\ ~misdirected
    BY <2>2, <2>3 DEF ExtInv, ExtActions
  <2> QED
    BY <2>1, <2>4 DEF RowStands
<1>11. ExtActions'
  <2>1. \A k, w : HasMsg(requests', "act", k, w) => HasMsg(requests, "act", k, w)
    BY <1>3 DEF Taken
  <2> QED
    BY <1>1, <1>10, <2>1 DEF ExtInv, ExtActions, RowStands
<1> QED
  BY <1>5, <1>6, <1>7, <1>8, <1>9, <1>11 DEF ExtInv

\* What every event of ext and wlr tells when it is taken from the queue.
LEMMA ExtTakes ==
  ASSUME ExtInv, protocol # "kde", Dispatch
  PROVE  LET kind == Head(events)[1]
             key == Head(events)[2]
             window == Head(events)[3]
         IN /\ kind \in {"toplevel", "done", "closed"} /\ key \in HandleKeys /\ window \in HandleWindows
            /\ Taken(events, events', kind, key, window)
            /\ key \in DOMAIN resources /\ resources[key] = window
            /\ ~HasMsg(requests, "destroy", key, window)
            /\ kind = "closed" => \A other \in EventKinds : ~HasMsg(events', other, key, window)
            /\ ~HasMsg(events', "toplevel", key, window)
            /\ UNCHANGED <<protocol, opened, live, skipping, resources, busy, windowRows, selected,
                           synced, absent, answered, misdirected>>
<1> DEFINE kind == Head(events)[1]
           key == Head(events)[2]
           window == Head(events)[3]
<1>1. /\ events # <<>> /\ events \in Seq(Messages) /\ events' = Tail(events)
      /\ UNCHANGED <<protocol, opened, live, skipping, resources, busy, windowRows, selected,
                     synced, absent, answered, misdirected>>
      /\ kind \in EventKinds
  BY DEF ExtInv, ToplevelTypeOK, Dispatch, DispatchToplevel, DispatchWindowWithUuid, DispatchDone,
         DispatchKdeWindow, DispatchClosed, EventKinds
<1>2. Head(events) = <<kind, key, window>> /\ key \in HandleKeys /\ window \in HandleWindows
  BY <1>1, HeadOf
<1> HIDE DEF kind, key, window
<1>3. Taken(events, events', kind, key, window)
  BY <1>1, <1>2, TailTakes
<1>4. HasMsg(events, kind, key, window)
  BY <1>3 DEF Taken
<1>5. /\ kind \in {"toplevel", "done", "closed"}
      /\ key \in DOMAIN resources /\ resources[key] = window /\ ~HasMsg(requests, "destroy", key, window)
      /\ ~HasOrder(events, kind, key, window, "toplevel", key, window)
  BY <1>1, <1>2, <1>4 DEF ExtInv, ExtEvents
<1>6. ~HasMsg(events', "toplevel", key, window)
  BY <1>3, <1>5 DEF Taken
<1>7. ASSUME kind = "closed", NEW other \in EventKinds, HasMsg(events', other, key, window) PROVE FALSE
  <2>1. HasMsg(events, other, key, window) /\ HasOrder(events, "closed", key, window, other, key, window)
    BY <1>3, <1>7 DEF Taken
  <2> QED
    BY <1>2, <1>7, <2>1 DEF ExtInv, ExtEvents
<1> QED
  BY <1>1, <1>2, <1>3, <1>5, <1>6, <1>7 DEF kind, key, window

\* A handle is announced, and registered.
LEMMA ExtDispatchesToplevel ==
  ASSUME ExtInv, protocol # "kde", Dispatch, DispatchToplevel
  PROVE  ExtInv'
<1> DEFINE key == Head(events)[2]
           window == Head(events)[3]
<1>1. /\ registry' = With(registry, key, [window |-> window, ready |-> FALSE, skip |-> FALSE])
      /\ requests' = requests /\ Head(events)[1] = "toplevel"
  BY DEF DispatchToplevel
<1>2. /\ key \in HandleKeys /\ window \in HandleWindows
      /\ Taken(events, events', "toplevel", key, window)
      /\ key \in DOMAIN resources /\ resources[key] = window
      /\ ~HasMsg(requests, "destroy", key, window)
      /\ ~HasMsg(events', "toplevel", key, window)
      /\ UNCHANGED <<protocol, opened, live, skipping, resources, busy, windowRows, selected,
                     synced, absent, answered, misdirected>>
  BY <1>1, ExtTakes
<1> HIDE DEF key, window
<1>3. /\ DOMAIN registry' = DOMAIN registry \cup {key}
      /\ registry'[key] = [window |-> window, ready |-> FALSE, skip |-> FALSE]
      /\ \A k \in DOMAIN registry : k # key => registry'[k] = registry[k]
  BY <1>1 DEF With
<1>4. HasMsg(events, "toplevel", key, window)
  BY <1>2 DEF Taken
<1>5. HasMsg(events', "done", key, window)
  <2>1. HasMsg(events, "done", key, window)
    BY <1>2, <1>4 DEF ExtInv, ExtEvents
  <2> QED
    BY <1>2, <2>1 DEF Taken
<1>6. ToplevelTypeOK' /\ OneRoundTrip'
  <2>1. ToplevelTypeOK'
    <3>1. \A k \in DOMAIN registry' : registry'[k] \in Handle
      <4>1. registry'[key] \in Handle
        BY <1>2, <1>3 DEF Handle
      <4>2. \A k \in DOMAIN registry' : k = key \/ (k \in DOMAIN registry /\ registry'[k] = registry[k])
        BY <1>3
      <4>3. \A k \in DOMAIN registry : registry[k] \in Handle
        BY DEF ExtInv, ToplevelTypeOK
      <4> QED
        BY <4>1, <4>2, <4>3
    <3> QED
      BY <1>1, <1>2, <1>3, <3>1 DEF ExtInv, ToplevelTypeOK, Taken
  <2>2. /\ HasMsg(events', "synced", NoWindow, NoWindow) <=> HasMsg(events, "synced", NoWindow, NoWindow)
        /\ HasOrder(events', "synced", NoWindow, NoWindow, "synced", NoWindow, NoWindow) <=>
             HasOrder(events, "synced", NoWindow, NoWindow, "synced", NoWindow, NoWindow)
    BY <1>2 DEF Taken
  <2>3. OneRoundTrip'
    BY <1>1, <1>2, <2>2 DEF ExtInv, OneRoundTrip
  <2> QED
    BY <2>1, <2>3
<1>7. ExtHandles'
  BY <1>2 DEF ExtInv, ExtHandles
<1>8. ExtEvents'
  <2>1. ASSUME NEW kind \in EventKinds, NEW k \in HandleKeys, NEW w \in HandleWindows,
               HasMsg(events', kind, k, w)
        PROVE  /\ kind \in {"toplevel", "done", "closed"}
               /\ k \in DOMAIN resources' /\ resources'[k] = w /\ ~HasMsg(requests', "destroy", k, w)
               /\ ~HasOrder(events', "closed", k, w, kind, k, w)
               /\ ~HasOrder(events', kind, k, w, "toplevel", k, w)
    <3>1. HasMsg(events, kind, k, w)
      BY <1>2, <2>1 DEF Taken
    <3>2. /\ HasOrder(events', "closed", k, w, kind, k, w) => HasOrder(events, "closed", k, w, kind, k, w)
          /\ HasOrder(events', kind, k, w, "toplevel", k, w) => HasOrder(events, kind, k, w, "toplevel", k, w)
      BY <1>2 DEF Taken
    <3> QED
      BY <1>1, <1>2, <2>1, <3>1, <3>2 DEF ExtInv, ExtEvents
  <2>2. ASSUME NEW k \in HandleKeys, NEW w \in HandleWindows, HasMsg(events', "toplevel", k, w)
        PROVE  HasMsg(events', "done", k, w)
    <3>1. HasMsg(events, "done", k, w)
      BY <1>2, <2>2 DEF ExtInv, ExtEvents, Taken
    <3> QED
      BY <1>2, <3>1 DEF Taken
  <2> QED
    BY <2>1, <2>2 DEF ExtEvents
<1>9. ExtRequests'
  BY <1>1, <1>2 DEF ExtInv, ExtRequests
<1>10. ExtRegistry'
  <2>1. ASSUME NEW k \in DOMAIN registry'
        PROVE  /\ k \in DOMAIN resources' /\ registry'[k].window = resources'[k]
               /\ ~HasMsg(requests', "destroy", k, resources'[k])
               /\ ~HasMsg(events', "toplevel", k, resources'[k])
               /\ ~registry'[k].ready => HasMsg(events', "done", k, resources'[k])
    <3>1. CASE k = key
      BY <1>1, <1>2, <1>3, <1>5, <3>1
    <3>2. CASE k # key
      <4>1. k \in DOMAIN registry /\ registry'[k] = registry[k]
        BY <1>3, <2>1, <3>2
      <4>2. /\ HasMsg(events', "done", k, resources[k]) <=> HasMsg(events, "done", k, resources[k])
            /\ HasMsg(events', "toplevel", k, resources[k]) => HasMsg(events, "toplevel", k, resources[k])
        BY <1>2 DEF Taken
      <4> QED
        BY <1>1, <1>2, <4>1, <4>2 DEF ExtInv, ExtRegistry
    <3> QED
      BY <3>1, <3>2
  <2>2. ASSUME NEW k \in DOMAIN resources'
        PROVE  /\ \/ k \in DOMAIN registry'
                  \/ HasMsg(events', "toplevel", k, resources'[k])
                  \/ HasMsg(requests', "destroy", k, resources'[k])
               /\ resources'[k] \in live' <=> /\ ~HasMsg(events', "closed", k, resources'[k])
                                              /\ ~HasMsg(requests', "destroy", k, resources'[k])
    <3>1. HasMsg(events', "closed", k, resources[k]) <=> HasMsg(events, "closed", k, resources[k])
      BY <1>2 DEF Taken
    <3>2. k \in DOMAIN registry' \/ (k # key /\ k \notin DOMAIN registry)
      BY <1>3
    <3>3. k # key => (HasMsg(events', "toplevel", k, resources[k])
         <=> HasMsg(events, "toplevel", k, resources[k]))
      BY <1>2 DEF Taken
    <3> QED
      BY <1>1, <1>2, <2>2, <3>1, <3>2, <3>3 DEF ExtInv, ExtRegistry
  <2> QED
    BY <2>1, <2>2 DEF ExtRegistry
<1>11. ExtSynced'
  <2> SUFFICES ASSUME Answering' PROVE ExtSynced'
    BY DEF ExtSynced
  <2>1. Answering
    BY <1>2 DEF Answering, Taken
  <2>2. \A k, w : (Early("done", k, w)' <=> Early("done", k, w)) /\ (Early("closed", k, w)' <=> Early("closed", k, w))
    BY <1>2 DEF Early, Taken
  <2>3. key \notin DOMAIN registry
    BY <1>2, <1>4 DEF ExtInv, ExtRegistry
  <2>4. ASSUME NEW k \in DOMAIN resources'
        PROVE  /\ resources'[k] \in absent' =>
                    HasMsg(requests', "destroy", k, resources'[k]) \/ Early("closed", k, resources[k])'
               /\ resources'[k] \in synced' \cap live' =>
                    (k \in DOMAIN registry' /\ registry'[k].ready) \/ Early("done", k, resources[k])'
    <3>1. /\ resources[k] \in absent =>
               HasMsg(requests, "destroy", k, resources[k]) \/ Early("closed", k, resources[k])
          /\ resources[k] \in synced \cap live =>
               (k \in DOMAIN registry /\ registry[k].ready) \/ Early("done", k, resources[k])
      BY <1>2, <2>1, <2>4 DEF ExtInv, ExtSynced
    <3>2. k \in DOMAIN registry => k \in DOMAIN registry' /\ registry'[k] = registry[k]
      BY <1>3, <2>3
    <3>3. /\ Early("done", k, resources[k])' <=> Early("done", k, resources[k])
          /\ Early("closed", k, resources[k])' <=> Early("closed", k, resources[k])
      BY <1>2, <2>2, <2>4 DEF Early
    <3> QED
      BY <1>1, <1>2, <3>1, <3>2, <3>3 DEF Early
  <2> QED
    BY <2>4 DEF ExtSynced
<1>12. ExtActions'
  BY <1>1, <1>2, RowsStand DEF ExtInv, RowStands
<1> QED
  BY <1>6, <1>7, <1>8, <1>9, <1>10, <1>11, <1>12 DEF ExtInv

\* A handle is complete.
LEMMA ExtDispatchesDone ==
  ASSUME ExtInv, protocol # "kde", Dispatch, DispatchDone
  PROVE  ExtInv'
<1> DEFINE key == Head(events)[2]
           window == Head(events)[3]
<1>1. /\ registry' = IF key \in DOMAIN registry THEN [registry EXCEPT ![key].ready = TRUE] ELSE registry
      /\ requests' = requests /\ Head(events)[1] = "done"
  BY DEF DispatchDone
<1>2. /\ key \in HandleKeys /\ window \in HandleWindows
      /\ Taken(events, events', "done", key, window)
      /\ key \in DOMAIN resources /\ resources[key] = window
      /\ ~HasMsg(requests, "destroy", key, window)
      /\ ~HasMsg(events', "toplevel", key, window)
      /\ UNCHANGED <<protocol, opened, live, skipping, resources, busy, windowRows, selected,
                     synced, absent, answered, misdirected>>
  BY <1>1, ExtTakes
<1> HIDE DEF key, window
<1>3. /\ DOMAIN registry' = DOMAIN registry
      /\ \A k \in DOMAIN registry : registry'[k] \in Handle /\ registry'[k].window = registry[k].window
      /\ \A k \in DOMAIN registry : k # key => registry'[k] = registry[k]
      /\ key \in DOMAIN registry => registry'[key].ready
  BY <1>1 DEF ExtInv, ToplevelTypeOK, Handle
<1>4. ToplevelTypeOK' /\ OneRoundTrip'
  <2>1. ToplevelTypeOK'
    BY <1>1, <1>2, <1>3 DEF ExtInv, ToplevelTypeOK, Taken
  <2>2. /\ HasMsg(events', "synced", NoWindow, NoWindow) <=> HasMsg(events, "synced", NoWindow, NoWindow)
        /\ HasOrder(events', "synced", NoWindow, NoWindow, "synced", NoWindow, NoWindow) <=>
             HasOrder(events, "synced", NoWindow, NoWindow, "synced", NoWindow, NoWindow)
    BY <1>2 DEF Taken
  <2>3. OneRoundTrip'
    BY <1>1, <1>2, <2>2 DEF ExtInv, OneRoundTrip
  <2> QED
    BY <2>1, <2>3
<1>5. ExtHandles'
  BY <1>2 DEF ExtInv, ExtHandles
<1>6. ExtEvents'
  <2>1. ASSUME NEW kind \in EventKinds, NEW k \in HandleKeys, NEW w \in HandleWindows,
               HasMsg(events', kind, k, w)
        PROVE  /\ kind \in {"toplevel", "done", "closed"}
               /\ k \in DOMAIN resources' /\ resources'[k] = w /\ ~HasMsg(requests', "destroy", k, w)
               /\ ~HasOrder(events', "closed", k, w, kind, k, w)
               /\ ~HasOrder(events', kind, k, w, "toplevel", k, w)
    <3>1. HasMsg(events, kind, k, w)
      BY <1>2, <2>1 DEF Taken
    <3>2. /\ HasOrder(events', "closed", k, w, kind, k, w) => HasOrder(events, "closed", k, w, kind, k, w)
          /\ HasOrder(events', kind, k, w, "toplevel", k, w) => HasOrder(events, kind, k, w, "toplevel", k, w)
      BY <1>2 DEF Taken
    <3> QED
      BY <1>1, <1>2, <2>1, <3>1, <3>2 DEF ExtInv, ExtEvents
  <2>2. ASSUME NEW k \in HandleKeys, NEW w \in HandleWindows, HasMsg(events', "toplevel", k, w)
        PROVE  HasMsg(events', "done", k, w)
    <3>1. HasMsg(events, "done", k, w) /\ ~(k = key /\ w = window)
      BY <1>2, <2>2 DEF ExtInv, ExtEvents, Taken
    <3> QED
      BY <1>2, <3>1 DEF Taken
  <2> QED
    BY <2>1, <2>2 DEF ExtEvents
<1>7. ExtRequests'
  BY <1>1, <1>2 DEF ExtInv, ExtRequests
<1>8. ExtRegistry'
  <2>1. ASSUME NEW k \in DOMAIN registry'
        PROVE  /\ k \in DOMAIN resources' /\ registry'[k].window = resources'[k]
               /\ ~HasMsg(requests', "destroy", k, resources'[k])
               /\ ~HasMsg(events', "toplevel", k, resources'[k])
               /\ ~registry'[k].ready => HasMsg(events', "done", k, resources'[k])
    <3>1. k \in DOMAIN registry /\ registry'[k].window = registry[k].window
      BY <1>3, <2>1
    <3>2. HasMsg(events', "toplevel", k, resources[k]) => HasMsg(events, "toplevel", k, resources[k])
      BY <1>2 DEF Taken
    <3>3. ~registry'[k].ready => k # key /\ ~registry[k].ready
      BY <1>3, <2>1
    <3>4. k # key => (HasMsg(events', "done", k, resources[k]) <=> HasMsg(events, "done", k, resources[k]))
      BY <1>2 DEF Taken
    <3> QED
      BY <1>1, <1>2, <3>1, <3>2, <3>3, <3>4 DEF ExtInv, ExtRegistry
  <2>2. ASSUME NEW k \in DOMAIN resources'
        PROVE  /\ \/ k \in DOMAIN registry'
                  \/ HasMsg(events', "toplevel", k, resources'[k])
                  \/ HasMsg(requests', "destroy", k, resources'[k])
               /\ resources'[k] \in live' <=> /\ ~HasMsg(events', "closed", k, resources'[k])
                                              /\ ~HasMsg(requests', "destroy", k, resources'[k])
    <3>1. /\ HasMsg(events', "closed", k, resources[k]) <=> HasMsg(events, "closed", k, resources[k])
          /\ HasMsg(events', "toplevel", k, resources[k]) <=> HasMsg(events, "toplevel", k, resources[k])
      BY <1>2 DEF Taken
    <3> QED
      BY <1>1, <1>2, <1>3, <2>2, <3>1 DEF ExtInv, ExtRegistry
  <2> QED
    BY <2>1, <2>2 DEF ExtRegistry
<1>9. ExtSynced'
  <2> SUFFICES ASSUME Answering' PROVE ExtSynced'
    BY DEF ExtSynced
  <2>1. Answering
    BY <1>2 DEF Answering, Taken
  <2>2. /\ \A k, w : Early("closed", k, w)' <=> Early("closed", k, w)
        /\ \A k, w : Early("done", k, w) => Early("done", k, w)' \/ (k = key /\ w = window)
    BY <1>2 DEF Early, Taken
  <2>3. key \in DOMAIN registry
    <3>1. ~HasMsg(events, "toplevel", key, window)
      BY <1>2 DEF Taken
    <3> QED
      BY <1>2, <3>1 DEF ExtInv, ExtRegistry
  <2>4. ASSUME NEW k \in DOMAIN resources'
        PROVE  /\ resources'[k] \in absent' =>
                    HasMsg(requests', "destroy", k, resources'[k]) \/ Early("closed", k, resources[k])'
               /\ resources'[k] \in synced' \cap live' =>
                    (k \in DOMAIN registry' /\ registry'[k].ready) \/ Early("done", k, resources[k])'
    <3>1. /\ resources[k] \in absent =>
               HasMsg(requests, "destroy", k, resources[k]) \/ Early("closed", k, resources[k])
          /\ resources[k] \in synced \cap live =>
               (k \in DOMAIN registry /\ registry[k].ready) \/ Early("done", k, resources[k])
      BY <1>2, <2>1, <2>4 DEF ExtInv, ExtSynced
    <3>2. /\ Early("closed", k, resources[k])' <=> Early("closed", k, resources[k])
          /\ Early("done", k, resources[k]) => Early("done", k, resources[k])' \/ k = key
      BY <1>2, <2>2, <2>4 DEF Early
    <3>3. CASE k = key
      BY <1>1, <1>2, <1>3, <2>3, <3>1, <3>2, <3>3 DEF Early
    <3>4. CASE k # key
      BY <1>1, <1>2, <1>3, <3>1, <3>2, <3>4 DEF Early
    <3> QED
      BY <3>3, <3>4
  <2> QED
    BY <2>4 DEF ExtSynced
<1>10. ExtActions'
  BY <1>1, <1>2, RowsStand DEF ExtInv, RowStands
<1> QED
  BY <1>4, <1>5, <1>6, <1>7, <1>8, <1>9, <1>10 DEF ExtInv

\* A window has closed: its handle is known, is forgotten, and is to be destroyed.
LEMMA ExtDispatchesClosed ==
  ASSUME ExtInv, protocol # "kde", Dispatch, DispatchClosed
  PROVE  ExtInv'
<1> DEFINE key == Head(events)[2]
           window == Head(events)[3]
<1>1. /\ IF key \in DOMAIN registry
         THEN /\ registry' = Without(registry, key)
              /\ requests' = Append(requests, <<"destroy", key, window>>)
         ELSE UNCHANGED <<registry, requests>>
      /\ Head(events)[1] = "closed"
  BY DEF DispatchClosed
<1>2. /\ key \in HandleKeys /\ window \in HandleWindows
      /\ Taken(events, events', "closed", key, window)
      /\ key \in DOMAIN resources /\ resources[key] = window
      /\ ~HasMsg(requests, "destroy", key, window)
      /\ \A other \in EventKinds : ~HasMsg(events', other, key, window)
      /\ UNCHANGED <<protocol, opened, live, skipping, resources, busy, windowRows, selected,
                     synced, absent, answered, misdirected>>
  BY <1>1, ExtTakes
<1> HIDE DEF key, window
<1>3. ~HasMsg(events, "toplevel", key, window)
  BY <1>2 DEF Taken, EventKinds
<1>4. key \in DOMAIN registry
  BY <1>2, <1>3 DEF ExtInv, ExtRegistry
<1>5. /\ DOMAIN registry' = DOMAIN registry \ {key}
      /\ \A k \in DOMAIN registry' : registry'[k] = registry[k]
  BY <1>1, <1>4 DEF Without, Restrict
<1>6. Sent(requests, requests', "destroy", key, window)
  <2>1. requests \in Seq(Messages) /\ <<"destroy", key, window>> \in Messages
    BY <1>2, Sendable DEF ExtInv, ToplevelTypeOK, RequestKinds
  <2> QED
    BY <1>1, <1>4, <2>1, AppendSends
<1>7. ToplevelTypeOK' /\ OneRoundTrip'
  <2>1. ToplevelTypeOK'
    BY <1>2, <1>5, <1>6 DEF ExtInv, ToplevelTypeOK, Taken, Sent
  <2>2. /\ HasMsg(events', "synced", NoWindow, NoWindow) <=> HasMsg(events, "synced", NoWindow, NoWindow)
        /\ HasOrder(events', "synced", NoWindow, NoWindow, "synced", NoWindow, NoWindow) <=>
             HasOrder(events, "synced", NoWindow, NoWindow, "synced", NoWindow, NoWindow)
    BY <1>2 DEF Taken
  <2>3. /\ HasMsg(requests', "sync", NoWindow, NoWindow) <=> HasMsg(requests, "sync", NoWindow, NoWindow)
        /\ HasOrder(requests', "sync", NoWindow, NoWindow, "sync", NoWindow, NoWindow) <=>
             HasOrder(requests, "sync", NoWindow, NoWindow, "sync", NoWindow, NoWindow)
    BY <1>6 DEF Sent
  <2>4. OneRoundTrip'
    BY <1>2, <2>2, <2>3 DEF ExtInv, OneRoundTrip
  <2> QED
    BY <2>1, <2>4
<1>8. ExtHandles'
  BY <1>2 DEF ExtInv, ExtHandles
<1>9. ExtEvents'
  <2>1. ASSUME NEW kind \in EventKinds, NEW k \in HandleKeys, NEW w \in HandleWindows,
               HasMsg(events', kind, k, w)
        PROVE  /\ kind \in {"toplevel", "done", "closed"}
               /\ k \in DOMAIN resources' /\ resources'[k] = w /\ ~HasMsg(requests', "destroy", k, w)
               /\ ~HasOrder(events', "closed", k, w, kind, k, w)
               /\ ~HasOrder(events', kind, k, w, "toplevel", k, w)
    <3>1. HasMsg(events, kind, k, w) /\ ~(k = key /\ w = window)
      BY <1>2, <2>1 DEF Taken
    <3>2. /\ HasOrder(events', "closed", k, w, kind, k, w) => HasOrder(events, "closed", k, w, kind, k, w)
          /\ HasOrder(events', kind, k, w, "toplevel", k, w) => HasOrder(events, kind, k, w, "toplevel", k, w)
      BY <1>2 DEF Taken
    <3>3. HasMsg(requests', "destroy", k, w) => HasMsg(requests, "destroy", k, w)
      BY <1>6, <3>1 DEF Sent
    <3> QED
      BY <1>2, <2>1, <3>1, <3>2, <3>3 DEF ExtInv, ExtEvents
  <2>2. ASSUME NEW k \in HandleKeys, NEW w \in HandleWindows, HasMsg(events', "toplevel", k, w)
        PROVE  HasMsg(events', "done", k, w)
    <3>1. HasMsg(events, "done", k, w)
      BY <1>2, <2>2 DEF ExtInv, ExtEvents, Taken
    <3> QED
      BY <1>2, <3>1 DEF Taken
  <2> QED
    BY <2>1, <2>2 DEF ExtEvents
<1>10. ExtRequests'
  <2>1. ASSUME NEW k \in HandleKeys, NEW w \in HandleWindows
        PROVE  /\ ~HasMsg(requests', "get", k, w)
               /\ HasMsg(requests', "destroy", k, w) =>
                    /\ k \in DOMAIN resources' /\ resources'[k] = w
                    /\ ~HasOrder(requests', "destroy", k, w, "destroy", k, w)
    <3>1. ~HasMsg(requests', "get", k, w)
      BY <1>6 DEF ExtInv, ExtRequests, Sent
    <3>2. CASE k = key /\ w = window
      <4>1. ~HasOrder(requests', "destroy", k, w, "destroy", k, w)
        BY <1>2, <1>6, <3>2, OrderHas DEF Sent
      <4> QED
        BY <1>2, <3>1, <3>2, <4>1
    <3>3. CASE ~(k = key /\ w = window)
      <4>1. /\ HasMsg(requests', "destroy", k, w) <=> HasMsg(requests, "destroy", k, w)
            /\ HasOrder(requests', "destroy", k, w, "destroy", k, w)
                 <=> HasOrder(requests, "destroy", k, w, "destroy", k, w)
        BY <1>6, <3>3 DEF Sent
      <4> QED
        BY <1>2, <3>1, <4>1 DEF ExtInv, ExtRequests
    <3> QED
      BY <3>2, <3>3
  <2> QED
    BY <2>1 DEF ExtRequests
<1>11. \A k \in DOMAIN resources : k # key =>
         /\ HasMsg(requests', "destroy", k, resources[k]) <=> HasMsg(requests, "destroy", k, resources[k])
         /\ \A kind : HasMsg(events', kind, k, resources[k]) <=> HasMsg(events, kind, k, resources[k])
  BY <1>2, <1>6 DEF Sent, Taken
<1>12. HasMsg(requests', "destroy", key, window)
  BY <1>6 DEF Sent
<1>13. ExtRegistry'
  <2>1. ASSUME NEW k \in DOMAIN registry'
        PROVE  /\ k \in DOMAIN resources' /\ registry'[k].window = resources'[k]
               /\ ~HasMsg(requests', "destroy", k, resources'[k])
               /\ ~HasMsg(events', "toplevel", k, resources'[k])
               /\ ~registry'[k].ready => HasMsg(events', "done", k, resources'[k])
    <3>1. k \in DOMAIN registry /\ registry'[k] = registry[k] /\ k # key
      BY <1>5, <2>1
    <3>2. k \in DOMAIN resources
      BY <3>1 DEF ExtInv, ExtRegistry
    <3> QED
      BY <1>2, <1>11, <3>1, <3>2 DEF ExtInv, ExtRegistry
  <2>2. ASSUME NEW k \in DOMAIN resources'
        PROVE  /\ \/ k \in DOMAIN registry'
                  \/ HasMsg(events', "toplevel", k, resources'[k])
                  \/ HasMsg(requests', "destroy", k, resources'[k])
               /\ resources'[k] \in live' <=> /\ ~HasMsg(events', "closed", k, resources'[k])
                                              /\ ~HasMsg(requests', "destroy", k, resources'[k])
    <3>1. CASE k = key
      <4>1. HasMsg(events, "closed", key, window)
        BY <1>2 DEF Taken
      <4>2. window \notin live
        BY <1>2, <4>1 DEF ExtInv, ExtRegistry
      <4> QED
        BY <1>2, <1>12, <3>1, <4>2
    <3>2. CASE k # key
      BY <1>2, <1>5, <1>11, <2>2, <3>2 DEF ExtInv, ExtRegistry
    <3> QED
      BY <3>1, <3>2
  <2> QED
    BY <2>1, <2>2 DEF ExtRegistry
<1>14. ExtSynced'
  <2> SUFFICES ASSUME Answering' PROVE ExtSynced'
    BY DEF ExtSynced
  <2>1. Answering
    BY <1>2 DEF Answering, Taken
  <2>2. /\ \A k, w : Early("done", k, w)' <=> Early("done", k, w)
        /\ \A k, w : Early("closed", k, w) => Early("closed", k, w)' \/ (k = key /\ w = window)
    BY <1>2 DEF Early, Taken
  <2>3. window \notin live
    BY <1>2 DEF ExtInv, ExtRegistry, Taken
  <2>4. ASSUME NEW k \in DOMAIN resources'
        PROVE  /\ resources'[k] \in absent' =>
                    HasMsg(requests', "destroy", k, resources'[k]) \/ Early("closed", k, resources[k])'
               /\ resources'[k] \in synced' \cap live' =>
                    (k \in DOMAIN registry' /\ registry'[k].ready) \/ Early("done", k, resources[k])'
    <3>1. /\ resources[k] \in absent =>
               HasMsg(requests, "destroy", k, resources[k]) \/ Early("closed", k, resources[k])
          /\ resources[k] \in synced \cap live =>
               (k \in DOMAIN registry /\ registry[k].ready) \/ Early("done", k, resources[k])
      BY <1>2, <2>1, <2>4 DEF ExtInv, ExtSynced
    <3>2. /\ Early("done", k, resources[k])' <=> Early("done", k, resources[k])
          /\ Early("closed", k, resources[k]) => Early("closed", k, resources[k])' \/ k = key
      BY <1>2, <2>2, <2>4 DEF Early
    <3>3. CASE k = key
      BY <1>2, <1>12, <2>3, <3>3
    <3>4. CASE k # key
      BY <1>2, <1>5, <1>11, <2>4, <3>1, <3>2, <3>4 DEF Early
    <3> QED
      BY <3>3, <3>4
  <2> QED
    BY <2>4 DEF ExtSynced
<1>15. ExtActions'
  <2>1. \A k, w : HasMsg(requests', "act", k, w) => HasMsg(requests, "act", k, w)
    BY <1>6 DEF Sent
  <2> QED
    BY <1>2, <2>1, RowsStand DEF ExtInv, RowStands
<1> QED
  BY <1>7, <1>8, <1>9, <1>10, <1>13, <1>14, <1>15 DEF ExtInv

-----------------------------------------------------------------------------
(* Sampling and acting, whatever the protocol is.                          *)

restVars == <<protocol, opened, live, skipping, resources, registry, misdirected>>

LEMMA Starts ==
  ASSUME ToplevelTypeOK, OneRoundTrip, StartSample
  PROVE  /\ ToplevelTypeOK' /\ OneRoundTrip'
         /\ Sent(requests, requests', "sync", NoWindow, NoWindow)
         /\ ~HasMsg(events, "synced", NoWindow, NoWindow)
         /\ UNCHANGED <<restVars, events, windowRows, selected, synced, absent, answered, known>>
<1>1. /\ requests' = Append(requests, <<"sync", NoWindow, NoWindow>>) /\ ~busy /\ busy'
      /\ UNCHANGED <<restVars, events, windowRows, selected, synced, absent, answered, known>>
  BY DEF StartSample, restVars
<1>2. Sent(requests, requests', "sync", NoWindow, NoWindow)
  BY <1>1, Sendable, AppendSends DEF ToplevelTypeOK
<1>3. ~HasMsg(events, "synced", NoWindow, NoWindow) /\ ~HasMsg(requests, "sync", NoWindow, NoWindow)
  BY <1>1 DEF OneRoundTrip
<1>4. ~HasOrder(requests', "sync", NoWindow, NoWindow, "sync", NoWindow, NoWindow)
  BY <1>2, <1>3, OrderHas DEF Sent
<1>5. OneRoundTrip'
  BY <1>1, <1>3, <1>4 DEF OneRoundTrip
<1>6. ToplevelTypeOK'
  BY <1>1, <1>2 DEF ToplevelTypeOK, Sent, restVars
<1> QED
  BY <1>1, <1>2, <1>3, <1>5, <1>6

LEMMA Ends ==
  ASSUME ToplevelTypeOK, OneRoundTrip, EndSample
  PROVE  /\ OneRoundTrip' /\ answered /\ synced' = {} /\ absent' = {}
         /\ answered' \in BOOLEAN
         /\ windowRows' = {<<k, registry[k].window>> : k \in ShownKeys}
         /\ known' = {registry[k].window : k \in DOMAIN registry}
         /\ UNCHANGED <<restVars, events, requests, selected>>
<1>1. /\ answered /\ ~busy' /\ ~answered' /\ answered' \in BOOLEAN /\ synced' = {} /\ absent' = {}
      /\ windowRows' = {<<k, registry[k].window>> : k \in ShownKeys}
      /\ known' = {registry[k].window : k \in DOMAIN registry}
      /\ UNCHANGED <<restVars, events, requests, selected>>
  BY DEF EndSample, restVars
<1>2. OneRoundTrip'
  BY <1>1 DEF OneRoundTrip
<1> QED
  BY <1>1, <1>2

\* The answer: nothing that came before it is left.
LEMMA Answers ==
  ASSUME ToplevelTypeOK, OneRoundTrip, DispatchAnswer
  PROVE  /\ ToplevelTypeOK' /\ OneRoundTrip' /\ Answering /\ answered'
         /\ Taken(events, events', "synced", NoWindow, NoWindow)
         /\ \A kind, k, w : ~Early(kind, k, w) /\ ~Early(kind, k, w)'
         /\ UNCHANGED <<restVars, requests, windowRows, selected, synced, absent, known>>
<1>1. /\ busy /\ busy' /\ answered' = TRUE
      /\ events # <<>> /\ Head(events)[1] = "synced" /\ events' = Tail(events)
      /\ UNCHANGED <<restVars, requests, windowRows, selected, synced, absent, known>>
  BY DEF DispatchAnswer, restVars
<1>2. Head(events) = Synced
  BY <1>1, HeadOf DEF ToplevelTypeOK
<1>3. Taken(events, events', "synced", NoWindow, NoWindow)
  BY <1>1, <1>2, TailTakes DEF ToplevelTypeOK, Synced
<1>4. \A kind, k, w : ~HasEarly(events, kind, k, w)
  BY <1>3 DEF Taken, Synced
<1>5. HasMsg(events, "synced", NoWindow, NoWindow) /\ ~HasMsg(events', "synced", NoWindow, NoWindow)
  BY <1>3 DEF Taken, OneRoundTrip
<1>6. ~HasMsg(requests, "sync", NoWindow, NoWindow)
  BY <1>5 DEF OneRoundTrip
<1>7. OneRoundTrip'
  BY <1>1, <1>5, <1>6 DEF OneRoundTrip
<1>8. ToplevelTypeOK'
  BY <1>1, <1>3 DEF ToplevelTypeOK, Taken, restVars
<1>9. \A kind, k, w : ~Early(kind, k, w) /\ ~Early(kind, k, w)'
  BY <1>1, <1>4 DEF Early
<1> QED
  BY <1>1, <1>3, <1>5, <1>7, <1>8, <1>9 DEF Answering

LEMMA Executes ==
  ASSUME ToplevelTypeOK, OneRoundTrip, Execute
  PROVE  /\ ToplevelTypeOK' /\ OneRoundTrip' /\ selected # NoWindow /\ selected' = NoWindow
         /\ selected[1] \in HandleKeys /\ selected[2] \in HandleWindows
         /\ \/ requests' = requests
            \/ selected[1] \in DOMAIN registry /\ Sent(requests, requests', "act", selected[1], selected[2])
         /\ UNCHANGED <<restVars, events, windowRows, synced, absent, answered, known>>
<1>1. /\ selected # NoWindow /\ selected' = NoWindow
      /\ \/ requests' = requests
         \/ /\ selected[1] \in DOMAIN registry
            /\ requests' = Append(requests, <<"act", selected[1], selected[2]>>)
      /\ UNCHANGED <<restVars, events, busy, windowRows, synced, absent, answered, known>>
  BY DEF Execute, ExecuteKde, ExecuteWlr, Acts, restVars, tripVars
<1>2. selected[1] \in HandleKeys /\ selected[2] \in HandleWindows
  BY <1>1 DEF ToplevelTypeOK
<1>3. CASE requests' = requests
  <2>1. ToplevelTypeOK' /\ OneRoundTrip'
    BY <1>1, <1>3 DEF ToplevelTypeOK, OneRoundTrip, restVars
  <2> QED
    BY <1>1, <1>2, <1>3, <2>1
<1>4. CASE selected[1] \in DOMAIN registry /\ requests' = Append(requests, <<"act", selected[1], selected[2]>>)
  <2>1. Sent(requests, requests', "act", selected[1], selected[2])
    BY <1>2, <1>4, Sendable, AppendSends DEF ToplevelTypeOK, RequestKinds
  <2>2. /\ HasMsg(requests', "sync", NoWindow, NoWindow) <=> HasMsg(requests, "sync", NoWindow, NoWindow)
        /\ HasOrder(requests', "sync", NoWindow, NoWindow, "sync", NoWindow, NoWindow) <=>
             HasOrder(requests, "sync", NoWindow, NoWindow, "sync", NoWindow, NoWindow)
    BY <2>1 DEF Sent
  <2>3. OneRoundTrip'
    BY <1>1, <2>2 DEF OneRoundTrip
  <2>4. ToplevelTypeOK'
    BY <1>1, <2>1 DEF ToplevelTypeOK, Sent, restVars
  <2> QED
    BY <1>1, <1>2, <1>4, <2>1, <2>3, <2>4
<1> QED
  BY <1>1, <1>3, <1>4

LEMMA Selects ==
  ASSUME ToplevelTypeOK, OneRoundTrip, NEW r \in windowRows, Select(r)
  PROVE  /\ ToplevelTypeOK' /\ OneRoundTrip' /\ selected' = r
         /\ UNCHANGED <<restVars, events, requests, windowRows, synced, absent, answered, known>>
<1>1. /\ selected' = r
      /\ UNCHANGED <<restVars, events, requests, windowRows, synced, absent, answered, known, busy>>
  BY DEF Select, restVars, tripVars
<1> QED
  BY <1>1 DEF ToplevelTypeOK, OneRoundTrip, restVars

-----------------------------------------------------------------------------
(* ext and wlr again.                                                      *)

\* Requests other than those for a handle and for its destruction change nothing.
LEMMA ExtAsks ==
  ASSUME ExtInv, ToplevelTypeOK', OneRoundTrip', ExtActions', UNCHANGED <<restVars, events, synced,
                                                                          absent, answered>>,
         \A k, w : /\ HasMsg(requests', "destroy", k, w) <=> HasMsg(requests, "destroy", k, w)
                   /\ HasMsg(requests', "get", k, w) <=> HasMsg(requests, "get", k, w)
                   /\ HasOrder(requests', "destroy", k, w, "destroy", k, w) <=>
                        HasOrder(requests, "destroy", k, w, "destroy", k, w)
  PROVE  ExtInv'
<1>1. UNCHANGED <<protocol, opened, live, skipping, resources, registry, events, synced, absent, answered>>
  BY DEF restVars
<1>2. ExtHandles' /\ ExtSynced'
  <2>1. \A k, w : HasMsg(requests', "destroy", k, w) <=> HasMsg(requests, "destroy", k, w)
    OBVIOUS
  <2> QED
    BY <1>1, <2>1 DEF ExtInv, ExtHandles, ExtSynced, Answering, Early
<1>3. ExtEvents'
  BY <1>1 DEF ExtInv, ExtEvents
<1>4. ExtRequests' /\ ExtRegistry'
  BY <1>1 DEF ExtInv, ExtRequests, ExtRegistry
<1> QED
  BY <1>2, <1>3, <1>4 DEF ExtInv

\* The answer is dispatched.
LEMMA ExtDispatchesAnswer ==
  ASSUME ExtInv, protocol # "kde", DispatchAnswer
  PROVE  ExtInv'
<1>1. /\ ToplevelTypeOK' /\ OneRoundTrip' /\ Answering
      /\ Taken(events, events', "synced", NoWindow, NoWindow)
      /\ \A kind, k, w : ~Early(kind, k, w) /\ ~Early(kind, k, w)'
      /\ UNCHANGED <<protocol, opened, live, skipping, resources, registry, misdirected, requests,
                     windowRows, selected, synced, absent>>
  BY Answers DEF ExtInv, restVars
<1>2. \A k, w : \A kind \in EventKinds : HasMsg(events', kind, k, w) <=> HasMsg(events, kind, k, w)
  BY <1>1 DEF Taken, EventKinds
<1>3. \A kind, k, w, other, l, x : HasOrder(events', kind, k, w, other, l, x) =>
         HasOrder(events, kind, k, w, other, l, x)
  BY <1>1 DEF Taken
<1>4. ExtEvents'
  <2>1. ASSUME NEW kind \in EventKinds, NEW k \in HandleKeys, NEW w \in HandleWindows,
               HasMsg(events', kind, k, w)
        PROVE  /\ kind \in {"toplevel", "done", "closed"}
               /\ k \in DOMAIN resources' /\ resources'[k] = w /\ ~HasMsg(requests', "destroy", k, w)
               /\ ~HasOrder(events', "closed", k, w, kind, k, w)
               /\ ~HasOrder(events', kind, k, w, "toplevel", k, w)
    BY <1>1, <1>2, <1>3, <2>1 DEF ExtInv, ExtEvents
  <2>2. ASSUME NEW k \in HandleKeys, NEW w \in HandleWindows, HasMsg(events', "toplevel", k, w)
        PROVE  HasMsg(events', "done", k, w)
    BY <1>2, <2>2 DEF ExtInv, ExtEvents, EventKinds
  <2> QED
    BY <2>1, <2>2 DEF ExtEvents
<1>5. ExtHandles' /\ ExtRequests'
  BY <1>1 DEF ExtInv, ExtHandles, ExtRequests
<1>6. ExtRegistry'
  BY <1>1, <1>2 DEF ExtInv, ExtRegistry, EventKinds
<1>7. ExtSynced'
  <2>1. \A k \in DOMAIN resources :
          /\ resources[k] \in absent => HasMsg(requests, "destroy", k, resources[k])
          /\ resources[k] \in synced \cap live => k \in DOMAIN registry /\ registry[k].ready
    BY <1>1 DEF ExtInv, ExtSynced
  <2> QED
    BY <1>1, <2>1 DEF ExtSynced
<1>8. ExtActions'
  BY <1>1, RowsStand DEF ExtInv, RowStands
<1> QED
  BY <1>1, <1>4, <1>5, <1>6, <1>7, <1>8 DEF ExtInv

\* A round trip ends: no handle that is ready is one of a window that had closed at
\* the answer, and every window that was open then and still is has a ready one.
LEMMA ExtEnds ==
  ASSUME ExtInv, protocol # "kde", EndSample
  PROVE  /\ ExtInv'
         /\ {r[2] : r \in windowRows'} \cap absent = {}
         /\ synced \cap live \subseteq {r[2] : r \in windowRows'}
<1>1. ToplevelTypeOK /\ OneRoundTrip
  BY DEF ExtInv
<1>2. /\ OneRoundTrip' /\ answered /\ synced' = {} /\ absent' = {} /\ answered' \in BOOLEAN
      /\ windowRows' = {<<k, registry[k].window>> : k \in ShownKeys}
      /\ UNCHANGED <<protocol, opened, live, skipping, resources, registry, misdirected, events, requests,
                     selected>>
  BY <1>1, Ends DEF restVars
<1>3. ShownKeys = {k \in DOMAIN registry : registry[k].ready}
  BY DEF ShownKeys, ReadyKeys
<1>4. ToplevelTypeOK'
  <2>1. windowRows' \subseteq HandleKeys \X HandleWindows
    BY <1>1, <1>2, <1>3 DEF ToplevelTypeOK, Handle
  <2> QED
    BY <1>1, <1>2, <2>1 DEF ToplevelTypeOK
<1>5. ExtHandles' /\ ExtEvents' /\ ExtRequests'
  BY <1>2 DEF ExtInv, ExtHandles, ExtEvents, ExtRequests
<1>6. ExtRegistry'
  BY <1>2 DEF ExtInv, ExtRegistry
<1>7. ExtSynced'
  BY <1>2 DEF ExtSynced
<1>8. \A k \in ShownKeys : k \in DOMAIN resources /\ registry[k].window = resources[k]
  BY <1>3 DEF ExtInv, ExtRegistry
<1>9. ExtActions'
  <2>1. ASSUME NEW r \in windowRows' PROVE RowStands(r[1], r[2])'
    <3>1. PICK k \in ShownKeys : r = <<k, registry[k].window>>
      BY <1>2
    <3>2. r[1] = k /\ r[2] = resources[k] /\ k \in DOMAIN resources
      BY <1>8, <3>1
    <3>3. r[2] \in 1..opened
      BY <3>2 DEF ExtInv, ExtHandles
    <3> QED
      BY <1>2, <3>2, <3>3 DEF RowStands
  <2>2. selected # NoWindow => RowStands(selected[1], selected[2])'
    BY <1>2 DEF ExtInv, ExtActions, RowStands
  <2>3. \A k \in HandleKeys, w \in HandleWindows : HasMsg(requests', "act", k, w) => RowStands(k, w)'
    BY <1>2 DEF ExtInv, ExtActions, RowStands
  <2> QED
    BY <1>2, <2>1, <2>2, <2>3 DEF ExtInv, ExtActions
<1>10. \A k \in DOMAIN resources :
         /\ resources[k] \in absent => HasMsg(requests, "destroy", k, resources[k])
         /\ resources[k] \in synced \cap live => k \in DOMAIN registry /\ registry[k].ready
  BY <1>2 DEF ExtInv, ExtSynced, Answering, Early
<1>11. ASSUME NEW r \in windowRows' PROVE r[2] \notin absent
  <2>1. PICK k \in ShownKeys : r = <<k, registry[k].window>>
    BY <1>2
  <2>2. r[2] = resources[k] /\ k \in DOMAIN resources /\ ~HasMsg(requests, "destroy", k, resources[k])
    BY <1>3, <1>8, <2>1 DEF ExtInv, ExtRegistry
  <2> QED
    BY <1>10, <2>2
<1>12. ASSUME NEW w \in synced \cap live PROVE \E r \in windowRows' : r[2] = w
  <2>1. PICK k \in DOMAIN resources : resources[k] = w
    BY DEF ExtInv, ExtHandles
  <2>2. k \in ShownKeys
    BY <1>3, <1>10, <2>1
  <2>3. <<k, w>> \in windowRows'
    BY <1>2, <1>8, <2>1, <2>2
  <2> QED
    BY <2>3
<1> QED
  BY <1>2, <1>4, <1>5, <1>6, <1>7, <1>9, <1>11, <1>12 DEF ExtInv

\* Every step of ext and wlr.
LEMMA ExtSteps ==
  ASSUME ExtInv, protocol # "kde", [ToplevelNext]_toplevelVars
  PROVE  ExtInv' /\ protocol' = protocol
<1>1. ToplevelTypeOK /\ OneRoundTrip /\ ExtRequests
  BY DEF ExtInv
<1>2. CASE UNCHANGED toplevelVars
  BY <1>2 DEF toplevelVars, ExtInv, ToplevelTypeOK, OneRoundTrip, ExtHandles, ExtEvents, ExtRequests,
              ExtRegistry, ExtSynced, ExtActions, RowStands, Answering, Early
<1>3. CASE Connect
  BY <1>1, <1>3, ToplevelAssumption DEF Connect, ToplevelTypeOK
<1>4. ASSUME NEW key \in ObjectIds, OpenWindow(key) PROVE ExtInv' /\ protocol' = protocol
  BY <1>4, ExtOpens DEF OpenWindow, clientVars, tripVars
<1>5. ASSUME NEW window \in 1..MaxWindows, CloseWindow(window) PROVE ExtInv' /\ protocol' = protocol
  BY <1>5, ExtCloses DEF CloseWindow, clientVars, tripVars
<1>6. ASSUME NEW window \in 1..MaxWindows, SkipTaskbar(window) PROVE FALSE
  BY <1>6 DEF SkipTaskbar
<1>7. CASE HandleRequest
  <2>1. /\ requests # <<>> /\ Head(requests)[1] \in {"sync", "get", "destroy", "act"}
        /\ protocol' = protocol
    BY <1>7 DEF HandleRequest, clientVars, tripVars
  <2>2. Head(requests)[1] # "get"
    <3> SUFFICES ASSUME Head(requests)[1] = "get" PROVE FALSE
      OBVIOUS
    <3>1. /\ Head(requests) = <<"get", Head(requests)[2], Head(requests)[3]>>
          /\ Head(requests)[2] \in HandleKeys /\ Head(requests)[3] \in HandleWindows
      BY <1>1, <2>1, HeadOf DEF ToplevelTypeOK, RequestKinds
    <3>2. Taken(requests, Tail(requests), "get", Head(requests)[2], Head(requests)[3])
      BY <1>1, <2>1, <3>1, TailTakes DEF ToplevelTypeOK
    <3>3. HasMsg(requests, "get", Head(requests)[2], Head(requests)[3])
      BY <3>2 DEF Taken
    <3> QED
      BY <1>1, <3>1, <3>3 DEF ExtRequests
  <2> QED
    BY <1>7, <2>1, <2>2, ExtAnswers, ExtDestroys, ExtActs
<1>8. CASE Dispatch
  <2>1. /\ DispatchToplevel \/ DispatchWindowWithUuid \/ DispatchDone \/ DispatchKdeWindow \/ DispatchClosed
        /\ protocol' = protocol
    BY <1>8 DEF Dispatch
  <2>2. ~DispatchWindowWithUuid
    <3>1. Head(events)[1] # "uuid"
      BY <1>8, ExtTakes
    <3> QED
      BY <3>1 DEF DispatchWindowWithUuid
  <2>3. ~DispatchKdeWindow
    BY DEF DispatchKdeWindow
  <2> QED
    BY <1>8, <2>1, <2>2, <2>3, ExtDispatchesToplevel, ExtDispatchesDone, ExtDispatchesClosed
<1>9. CASE StartSample
  <2>1. /\ ToplevelTypeOK' /\ OneRoundTrip' /\ Sent(requests, requests', "sync", NoWindow, NoWindow)
        /\ UNCHANGED <<restVars, events, synced, absent, answered>> /\ protocol' = protocol
        /\ UNCHANGED <<opened, live, resources, misdirected, windowRows, selected>>
    BY <1>1, <1>9, Starts DEF restVars
  <2>2. \A k, w : /\ HasMsg(requests', "destroy", k, w) <=> HasMsg(requests, "destroy", k, w)
                  /\ HasMsg(requests', "get", k, w) <=> HasMsg(requests, "get", k, w)
                  /\ HasOrder(requests', "destroy", k, w, "destroy", k, w) <=>
                       HasOrder(requests, "destroy", k, w, "destroy", k, w)
    BY <2>1 DEF Sent
  <2>3. ExtActions'
    <3>1. \A k, w : HasMsg(requests', "act", k, w) => HasMsg(requests, "act", k, w)
      BY <2>1 DEF Sent
    <3> QED
      BY <2>1, <3>1, RowsStand DEF ExtInv, RowStands
  <2> QED
    BY <2>1, <2>2, <2>3, ExtAsks
<1>10. CASE EndSample
  BY <1>10, ExtEnds DEF EndSample
<1>13. CASE DispatchAnswer
  BY <1>13, ExtDispatchesAnswer DEF DispatchAnswer
<1>11. ASSUME NEW r \in windowRows, Select(r) PROVE ExtInv' /\ protocol' = protocol
  <2>1. /\ ToplevelTypeOK' /\ OneRoundTrip' /\ requests' = requests /\ selected' = r
        /\ UNCHANGED <<restVars, events, synced, absent, answered>> /\ protocol' = protocol
        /\ UNCHANGED <<opened, live, resources, misdirected, windowRows>>
    BY <1>1, <1>11, Selects DEF restVars
  <2>2. ExtActions'
    <3>1. RowStands(r[1], r[2])
      BY <1>11 DEF ExtInv, ExtActions
    <3> QED
      BY <2>1, <3>1 DEF ExtInv, ExtActions, RowStands
  <2> QED
    BY <2>1, <2>2, ExtAsks
<1>12. CASE Execute
  <2>1. /\ ToplevelTypeOK' /\ OneRoundTrip'
        /\ requests' = requests \/ Sent(requests, requests', "act", selected[1], selected[2])
        /\ UNCHANGED <<restVars, events, synced, absent, answered>> /\ protocol' = protocol
        /\ UNCHANGED <<opened, live, resources, misdirected, windowRows>>
        /\ selected # NoWindow /\ selected' = NoWindow
    BY <1>1, <1>12, Executes DEF restVars
  <2>2. \A k, w : /\ HasMsg(requests', "destroy", k, w) <=> HasMsg(requests, "destroy", k, w)
                  /\ HasMsg(requests', "get", k, w) <=> HasMsg(requests, "get", k, w)
                  /\ HasOrder(requests', "destroy", k, w, "destroy", k, w) <=>
                       HasOrder(requests, "destroy", k, w, "destroy", k, w)
    BY <2>1 DEF Sent
  <2>3. ExtActions'
    <3>1. \A k, w : HasMsg(requests', "act", k, w) =>
                       HasMsg(requests, "act", k, w) \/ (k = selected[1] /\ w = selected[2])
      BY <2>1 DEF Sent
    <3>2. RowStands(selected[1], selected[2])
      BY <2>1 DEF ExtInv, ExtActions
    <3>3. \A k \in HandleKeys, w \in HandleWindows : HasMsg(requests', "act", k, w) => RowStands(k, w)
      BY <3>1, <3>2 DEF ExtInv, ExtActions
    <3>4. ~misdirected /\ \A q \in windowRows : RowStands(q[1], q[2])
      BY DEF ExtInv, ExtActions
    <3> QED
      BY <2>1, <3>3, <3>4 DEF ExtActions, RowStands
  <2> QED
    BY <2>1, <2>2, <2>3, ExtAsks
<1> QED
  BY <1>2, <1>3, <1>4, <1>5, <1>6, <1>7, <1>8, <1>9, <1>10, <1>11, <1>12, <1>13 DEF ToplevelNext

-----------------------------------------------------------------------------
(* KDE: a window is announced by its UUID, its handle is requested, filled, *)
(* closed and destroyed.  Handles have the number of their window.         *)

Coming(kind, w) == HasMsg(events, kind, w, w)
ComingFirst(kind, w) == HasEarly(events, kind, w, w)
ComingTwice(kind, other, w) == HasOrder(events, kind, w, w, other, w, w)
Asked(kind, w) == HasMsg(requests, kind, w, w)
AskedTwice(kind, other, w) == HasOrder(requests, kind, w, w, other, w, w)

KdeHandles ==
  /\ live \subseteq 1..opened /\ skipping \subseteq live /\ known \subseteq 1..opened
  /\ \A w \in DOMAIN resources : w \in 1..opened /\ resources[w] = w
  /\ \A w \in DOMAIN registry : w \in 1..opened /\ registry[w].window = w
  /\ \A w \in live : w \in DOMAIN registry \/ Coming("uuid", w)

KdeNumbers ==
  \A kind \in EventKinds \cup RequestKinds, k \in HandleKeys, w \in HandleWindows :
    HasMsg(events, kind, k, w) \/ HasMsg(requests, kind, k, w) => k = w /\ w \in 1..opened

\* A UUID is announced once, before anything is known of the window; the other
\* events are about a handle that both sides have, and the closure is the last.
KdeEvents ==
  \A w \in HandleWindows :
    /\ ~Coming("toplevel", w)
    /\ Coming("uuid", w) => /\ w \notin DOMAIN registry /\ w \notin DOMAIN resources /\ w \notin known
                            /\ ~ComingTwice("uuid", "uuid", w)
    /\ \A kind \in {"skip", "done", "closed"} :
         Coming(kind, w) => w \in DOMAIN registry /\ w \in DOMAIN resources
    /\ \A kind \in EventKinds : ~ComingTwice("closed", kind, w)

\* A handle is requested once, before the round trip of a sample that knows the
\* window already; it is destroyed once, after every action on it.
KdeRequests ==
  \A w \in HandleWindows :
    /\ Asked("get", w) => /\ w \in DOMAIN registry /\ w \notin DOMAIN resources
                          /\ ~AskedTwice("get", "get", w)
                          /\ w \in known => ~HasOrder(requests, "sync", NoWindow, NoWindow, "get", w, w)
    /\ Asked("destroy", w) => /\ w \notin DOMAIN registry /\ w \in DOMAIN resources /\ w \notin live
                              /\ ~AskedTwice("destroy", "destroy", w)
    /\ Asked("act", w) => w \in DOMAIN resources /\ ~AskedTwice("destroy", "act", w)

KdeRegistry ==
  /\ \A w \in DOMAIN registry :
       w \in DOMAIN resources \/ (Asked("get", w) /\ ~registry[w].ready /\ ~registry[w].skip)
  /\ \A w \in DOMAIN resources :
       /\ w \in DOMAIN registry \/ Asked("destroy", w)
       /\ w \in DOMAIN registry =>
            /\ w \in live <=> ~Coming("closed", w)
            /\ w \in live => /\ registry[w].ready \/ Coming("done", w)
                             /\ w \in skipping <=> registry[w].skip \/ Coming("skip", w)

\* A row is about a window whose handle has been given out.
RowOfWindow(r) ==
  r[1] = r[2] /\ r[1] \in 1..opened /\ ~Asked("get", r[1]) /\ ~Coming("uuid", r[1])

KdeRows ==
  /\ ~misdirected
  /\ \A r \in windowRows : RowOfWindow(r)
  /\ selected # NoWindow => RowOfWindow(selected)

\* The client will not show the window when the round trip ends: it is told so
\* before the answer, or it is not told yet that the window is complete, which it
\* will not be before it is known to be kept out of the task bar.
KdeEarly(kind, w) == ~answered /\ ComingFirst(kind, w)
KdeHidden(w) ==
  \/ registry[w].skip \/ KdeEarly("skip", w) \/ KdeEarly("closed", w)
  \/ /\ ~registry[w].ready /\ ~KdeEarly("done", w)
     /\ Coming("done", w) => Coming("skip", w) /\ ~ComingTwice("done", "skip", w)

KdeSynced ==
  Answering =>
    \A w \in HandleWindows :
      /\ w \in absent => w \notin live \/ w \in skipping
      /\ w \in absent /\ w \in DOMAIN registry => KdeHidden(w)
      /\ w \in synced /\ w \in known /\ w \in live =>
           /\ w \in DOMAIN registry /\ w \in DOMAIN resources
           /\ registry[w].ready \/ KdeEarly("done", w)

KdeInv ==
  /\ protocol = "kde" /\ ToplevelTypeOK /\ OneRoundTrip
  /\ KdeHandles /\ KdeNumbers /\ KdeEvents /\ KdeRequests /\ KdeRegistry /\ KdeRows /\ KdeSynced

\* What a message in either queue says of the other ones.
LEMMA Comes ==
  ASSUME NEW kind, NEW w, Sent(events, events', kind, w, w)
  PROVE  /\ events' \in Seq(Messages)
         /\ \A other, x : Coming(other, x)' <=> Coming(other, x) \/ (other = kind /\ x = w)
         /\ \A a, b, x : ComingTwice(a, b, x)' <=>
              ComingTwice(a, b, x) \/ (Coming(a, x) /\ b = kind /\ x = w)
         /\ \A a, k, x : HasMsg(events', a, k, x) <=> HasMsg(events, a, k, x) \/ (a = kind /\ k = w /\ x = w)
         /\ kind # "synced" =>
              /\ HasMsg(events', "synced", NoWindow, NoWindow) <=> HasMsg(events, "synced", NoWindow, NoWindow)
              /\ HasOrder(events', "synced", NoWindow, NoWindow, "synced", NoWindow, NoWindow) <=>
                   HasOrder(events, "synced", NoWindow, NoWindow, "synced", NoWindow, NoWindow)
         /\ HasMsg(events, "synced", NoWindow, NoWindow) =>
              \A other, x : ComingFirst(other, x)' <=> ComingFirst(other, x)
  BY DEF Sent, Coming, ComingTwice, ComingFirst

LEMMA Asks ==
  ASSUME NEW kind, NEW w, Sent(requests, requests', kind, w, w)
  PROVE  /\ requests' \in Seq(Messages)
         /\ \A other, x : Asked(other, x)' <=> Asked(other, x) \/ (other = kind /\ x = w)
         /\ \A a, b, x : AskedTwice(a, b, x)' <=>
              AskedTwice(a, b, x) \/ (Asked(a, x) /\ b = kind /\ x = w)
         /\ \A a, k, x : HasMsg(requests', a, k, x)
                           <=> HasMsg(requests, a, k, x) \/ (a = kind /\ k = w /\ x = w)
         /\ kind # "sync" =>
              /\ HasMsg(requests', "sync", NoWindow, NoWindow) <=> HasMsg(requests, "sync", NoWindow, NoWindow)
              /\ HasOrder(requests', "sync", NoWindow, NoWindow, "sync", NoWindow, NoWindow) <=>
                   HasOrder(requests, "sync", NoWindow, NoWindow, "sync", NoWindow, NoWindow)
         /\ \A x : HasOrder(requests', "sync", NoWindow, NoWindow, "get", x, x) <=>
              \/ HasOrder(requests, "sync", NoWindow, NoWindow, "get", x, x)
              \/ HasMsg(requests, "sync", NoWindow, NoWindow) /\ kind = "get" /\ x = w
  BY DEF Sent, Asked, AskedTwice

LEMMA Arrives ==
  ASSUME NEW kind, NEW w, Taken(events, events', kind, w, w), kind # "synced"
  PROVE  /\ events' \in Seq(Messages)
         /\ \A other, x : Coming(other, x) <=> Coming(other, x)' \/ (other = kind /\ x = w)
         /\ \A a, b, x : ComingTwice(a, b, x) <=>
              ComingTwice(a, b, x)' \/ (Coming(b, x)' /\ a = kind /\ x = w)
         /\ \A a, k, x : HasMsg(events, a, k, x) <=> HasMsg(events', a, k, x) \/ (a = kind /\ k = w /\ x = w)
         /\ HasMsg(events', "synced", NoWindow, NoWindow) <=> HasMsg(events, "synced", NoWindow, NoWindow)
         /\ HasOrder(events', "synced", NoWindow, NoWindow, "synced", NoWindow, NoWindow) <=>
              HasOrder(events, "synced", NoWindow, NoWindow, "synced", NoWindow, NoWindow)
         /\ \A other, x : ComingFirst(other, x) <=> ComingFirst(other, x)' \/ (other = kind /\ x = w)
  BY DEF Taken, Coming, ComingTwice, ComingFirst

LEMMA Handled ==
  ASSUME NEW kind, NEW w, Taken(requests, requests', kind, w, w)
  PROVE  /\ requests' \in Seq(Messages)
         /\ \A other, x : Asked(other, x) <=> Asked(other, x)' \/ (other = kind /\ x = w)
         /\ \A a, b, x : AskedTwice(a, b, x) <=>
              AskedTwice(a, b, x)' \/ (Asked(b, x)' /\ a = kind /\ x = w)
         /\ \A a, k, x : HasMsg(requests, a, k, x)
                           <=> HasMsg(requests', a, k, x) \/ (a = kind /\ k = w /\ x = w)
         /\ kind # "sync" =>
              /\ HasMsg(requests', "sync", NoWindow, NoWindow) <=> HasMsg(requests, "sync", NoWindow, NoWindow)
              /\ HasOrder(requests', "sync", NoWindow, NoWindow, "sync", NoWindow, NoWindow) <=>
                   HasOrder(requests, "sync", NoWindow, NoWindow, "sync", NoWindow, NoWindow)
         /\ \A x : HasOrder(requests', "sync", NoWindow, NoWindow, "get", x, x) =>
              HasOrder(requests, "sync", NoWindow, NoWindow, "get", x, x)
  BY DEF Taken, Asked, AskedTwice

\* One round trip at most, as long as no message of one comes or goes.
LEMMA TripStays ==
  ASSUME OneRoundTrip, busy' = busy, answered' = answered,
         HasMsg(events', "synced", NoWindow, NoWindow) <=> HasMsg(events, "synced", NoWindow, NoWindow),
         HasOrder(events', "synced", NoWindow, NoWindow, "synced", NoWindow, NoWindow) =>
           HasOrder(events, "synced", NoWindow, NoWindow, "synced", NoWindow, NoWindow),
         HasMsg(requests', "sync", NoWindow, NoWindow) <=> HasMsg(requests, "sync", NoWindow, NoWindow),
         HasOrder(requests', "sync", NoWindow, NoWindow, "sync", NoWindow, NoWindow) =>
           HasOrder(requests, "sync", NoWindow, NoWindow, "sync", NoWindow, NoWindow)
  PROVE  OneRoundTrip'
  BY DEF OneRoundTrip

LEMMA KdeWindows ==
  ASSUME KdeInv
  PROVE  /\ 1..opened \subseteq HandleWindows /\ 1..opened \subseteq HandleKeys
         /\ DOMAIN resources \subseteq 1..opened /\ DOMAIN registry \subseteq 1..opened
         /\ live \subseteq 1..opened /\ known \subseteq 1..opened
         /\ events \in Seq(Messages) /\ requests \in Seq(Messages)
<1>1. 1..opened \subseteq HandleWindows /\ 1..opened \subseteq HandleKeys
  BY HandleNumbers DEF KdeInv, ToplevelTypeOK
<1> QED
  BY <1>1 DEF KdeInv, KdeHandles, ToplevelTypeOK

\* Several events of a window, the last of which is not followed by another.
SentAll(q, r, kinds, w) ==
  /\ r \in Seq(Messages)
  /\ \A a, k, x : HasMsg(r, a, k, x) <=> HasMsg(q, a, k, x) \/ (a \in kinds /\ k = w /\ x = w)
  /\ \A a, k, x, b, l, y : HasOrder(r, a, k, x, b, l, y) =>
       \/ HasOrder(q, a, k, x, b, l, y)
       \/ b \in kinds /\ l = w /\ y = w /\ (HasMsg(q, a, k, x) \/ a = "skip")
  /\ HasMsg(q, "synced", NoWindow, NoWindow) =>
       \A a, k, x : HasEarly(r, a, k, x) <=> HasEarly(q, a, k, x)

LEMMA TwoAreSent ==
  ASSUME NEW q, NEW mid, NEW r, NEW w, Sent(q, mid, "skip", w, w), Sent(mid, r, "done", w, w)
  PROVE  SentAll(q, r, {"skip", "done"}, w)
<1>1. HasMsg(q, "synced", NoWindow, NoWindow) =>
        /\ HasMsg(mid, "synced", NoWindow, NoWindow)
        /\ \A a, k, x : HasEarly(r, a, k, x) <=> HasEarly(q, a, k, x)
  BY DEF Sent
<1>2. ASSUME NEW a, NEW k, NEW x, NEW b, NEW l, NEW y, HasOrder(r, a, k, x, b, l, y)
      PROVE  \/ HasOrder(q, a, k, x, b, l, y)
             \/ b \in {"skip", "done"} /\ l = w /\ y = w /\ (HasMsg(q, a, k, x) \/ a = "skip")
  <2>1. HasOrder(mid, a, k, x, b, l, y) \/ (HasMsg(mid, a, k, x) /\ b = "done" /\ l = w /\ y = w)
    BY <1>2 DEF Sent
  <2>2. HasOrder(mid, a, k, x, b, l, y) =>
          HasOrder(q, a, k, x, b, l, y) \/ (HasMsg(q, a, k, x) /\ b = "skip" /\ l = w /\ y = w)
    BY DEF Sent
  <2>3. HasMsg(mid, a, k, x) => HasMsg(q, a, k, x) \/ a = "skip"
    BY DEF Sent
  <2> QED
    BY <2>1, <2>2, <2>3
<1>3. \A a, k, x : HasMsg(r, a, k, x) <=> HasMsg(q, a, k, x) \/ (a \in {"skip", "done"} /\ k = w /\ x = w)
  BY DEF Sent
<1>4. r \in Seq(Messages)
  BY DEF Sent
<1> QED
  BY <1>1, <1>2, <1>3, <1>4 DEF SentAll

LEMMA OneIsSent ==
  ASSUME NEW q, NEW r, NEW w, NEW kind, Sent(q, r, kind, w, w)
  PROVE  SentAll(q, r, {kind}, w)
  BY DEF Sent, SentAll

LEMMA StateIsSent ==
  ASSUME NEW q \in Seq(Messages), NEW w \in HandleWindows, w \in HandleKeys
  PROVE  /\ SentAll(q, q \o <<<<"closed", w, w>>>>, {"closed"}, w)
         /\ SentAll(q, q \o <<<<"done", w, w>>>>, {"done"}, w)
         /\ SentAll(q, q \o (<<<<"skip", w, w>>>> \o <<<<"done", w, w>>>>), {"skip", "done"}, w)
<1>1. <<"closed", w, w>> \in Messages /\ <<"done", w, w>> \in Messages /\ <<"skip", w, w>> \in Messages
  BY Sendable DEF EventKinds
<1>2. /\ q \o <<<<"closed", w, w>>>> = Append(q, <<"closed", w, w>>)
      /\ q \o <<<<"done", w, w>>>> = Append(q, <<"done", w, w>>)
      /\ q \o (<<<<"skip", w, w>>>> \o <<<<"done", w, w>>>>) = Append(Append(q, <<"skip", w, w>>), <<"done", w, w>>)
  <2>1. q \o <<<<"skip", w, w>>>> = Append(q, <<"skip", w, w>>) /\ Append(q, <<"skip", w, w>>) \in Seq(Messages)
    BY <1>1, AppendIsConcat, AppendProperties
  <2>2. <<<<"skip", w, w>>>> \in Seq(Messages) /\ <<<<"done", w, w>>>> \in Seq(Messages)
    BY <1>1
  <2>3. q \o (<<<<"skip", w, w>>>> \o <<<<"done", w, w>>>>) = (q \o <<<<"skip", w, w>>>>) \o <<<<"done", w, w>>>>
    BY <2>2, ConcatAssociative
  <2>4. Append(q, <<"skip", w, w>>) \o <<<<"done", w, w>>>> = Append(Append(q, <<"skip", w, w>>), <<"done", w, w>>)
    BY <1>1, <2>1, AppendIsConcat
  <2>5. /\ q \o <<<<"closed", w, w>>>> = Append(q, <<"closed", w, w>>)
        /\ q \o <<<<"done", w, w>>>> = Append(q, <<"done", w, w>>)
    BY <1>1, AppendIsConcat
  <2> QED
    BY <2>1, <2>3, <2>4, <2>5
<1>3. Sent(q, Append(q, <<"closed", w, w>>), "closed", w, w) /\ Sent(q, Append(q, <<"done", w, w>>), "done", w, w)
  BY <1>1, AppendSends
<1>4. SentAll(q, Append(Append(q, <<"skip", w, w>>), <<"done", w, w>>), {"skip", "done"}, w)
  <2> DEFINE mid == Append(q, <<"skip", w, w>>)
             r == Append(mid, <<"done", w, w>>)
  <2>1. Sent(q, mid, "skip", w, w)
    BY <1>1, AppendSends
  <2>2. mid \in Seq(Messages)
    BY <2>1 DEF Sent
  <2> HIDE DEF mid
  <2>3. Sent(mid, r, "done", w, w)
    BY <1>1, <2>2, AppendSends
  <2> HIDE DEF r
  <2>4. SentAll(q, r, {"skip", "done"}, w)
    BY <2>1, <2>3, TwoAreSent
  <2> QED
    BY <2>4 DEF mid, r
<1>5. SentAll(q, Append(q, <<"closed", w, w>>), {"closed"}, w) /\ SentAll(q, Append(q, <<"done", w, w>>), {"done"}, w)
  BY <1>3, OneIsSent
<1> QED
  BY <1>2, <1>4, <1>5

\* A window opens, and its UUID is announced.
LEMMA KdeOpens ==
  ASSUME KdeInv, NEW key \in ObjectIds, OpenWindow(key)
  PROVE  KdeInv'
<1> SUFFICES ASSUME NEW n, n = opened + 1 PROVE KdeInv'
  OBVIOUS
<1>1. /\ opened < MaxWindows /\ opened' = n /\ live' = live \cup {n}
      /\ events' = Append(events, <<"uuid", n, n>>)
      /\ UNCHANGED <<skipping, requests, resources, synced, absent, answered, misdirected, protocol, registry, busy,
                     windowRows, selected, known>>
  BY DEF OpenWindow, Announce, clientVars, tripVars, KdeInv
<1>2. /\ n \in HandleKeys /\ n \in HandleWindows /\ n \in 0..MaxWindows
      /\ n \in 1..n /\ n \notin 1..opened /\ 1..opened \subseteq 1..n /\ events \in Seq(Messages)
  BY <1>1, HandleNumbers DEF KdeInv, ToplevelTypeOK
<1>3. Sent(events, events', "uuid", n, n)
  BY <1>1, <1>2, Sendable, AppendSends DEF EventKinds
<1>4. /\ events' \in Seq(Messages)
      /\ \A other, x : Coming(other, x)' <=> Coming(other, x) \/ (other = "uuid" /\ x = n)
      /\ \A a, b, x : ComingTwice(a, b, x)' <=>
           ComingTwice(a, b, x) \/ (Coming(a, x) /\ b = "uuid" /\ x = n)
      /\ \A a, k, x : HasMsg(events', a, k, x) <=> HasMsg(events, a, k, x) \/ (a = "uuid" /\ k = n /\ x = n)
      /\ HasMsg(events', "synced", NoWindow, NoWindow) <=> HasMsg(events, "synced", NoWindow, NoWindow)
      /\ HasOrder(events', "synced", NoWindow, NoWindow, "synced", NoWindow, NoWindow) <=>
           HasOrder(events, "synced", NoWindow, NoWindow, "synced", NoWindow, NoWindow)
      /\ HasMsg(events, "synced", NoWindow, NoWindow) =>
           \A other, x : ComingFirst(other, x)' <=> ComingFirst(other, x)
  BY <1>3, Comes
<1>5. \A other, x : Asked(other, x)' <=> Asked(other, x)
  BY <1>1 DEF Asked
<1>6. \A kind \in EventKinds \cup RequestKinds : ~Coming(kind, n) /\ ~Asked(kind, n)
  BY <1>2 DEF KdeInv, KdeNumbers, Coming, Asked
<1>7. n \notin DOMAIN resources /\ n \notin DOMAIN registry /\ n \notin known /\ n \notin live
  BY <1>2, KdeWindows
<1>8. ToplevelTypeOK' /\ OneRoundTrip'
  <2>1. ToplevelTypeOK'
    BY <1>1, <1>2, <1>4 DEF KdeInv, ToplevelTypeOK
  <2>2. OneRoundTrip'
    BY <1>1, <1>4, TripStays DEF KdeInv
  <2> QED
    BY <2>1, <2>2
<1>9. KdeHandles'
  <2>1. \A w \in live' : w \in DOMAIN registry \/ Coming("uuid", w)'
    BY <1>1, <1>4 DEF KdeInv, KdeHandles
  <2> QED
    BY <1>1, <1>2, <2>1 DEF KdeInv, KdeHandles
<1>10. KdeNumbers'
  <2>1. ASSUME NEW kind \in EventKinds \cup RequestKinds, NEW k \in HandleKeys, NEW w \in HandleWindows,
               HasMsg(events', kind, k, w) \/ HasMsg(requests', kind, k, w)
        PROVE  k = w /\ w \in 1..n
    <3>1. HasMsg(events, kind, k, w) \/ HasMsg(requests, kind, k, w) \/ (k = n /\ w = n)
      BY <1>1, <1>4, <2>1
    <3> QED
      BY <1>2, <2>1, <3>1 DEF KdeInv, KdeNumbers
  <2> QED
    BY <1>1, <2>1 DEF KdeNumbers
<1>11. KdeEvents'
  <2> SUFFICES ASSUME NEW w \in HandleWindows
               PROVE  /\ ~Coming("toplevel", w)'
                      /\ Coming("uuid", w)' => /\ w \notin DOMAIN registry' /\ w \notin DOMAIN resources'
                                               /\ w \notin known' /\ ~ComingTwice("uuid", "uuid", w)'
                      /\ \A kind \in {"skip", "done", "closed"} :
                           Coming(kind, w)' => w \in DOMAIN registry' /\ w \in DOMAIN resources'
                      /\ \A kind \in EventKinds : ~ComingTwice("closed", kind, w)'
    BY DEF KdeEvents
  <2>1. /\ ~Coming("toplevel", w)
        /\ Coming("uuid", w) => /\ w \notin DOMAIN registry /\ w \notin DOMAIN resources /\ w \notin known
                                /\ ~ComingTwice("uuid", "uuid", w)
        /\ \A kind \in {"skip", "done", "closed"} :
             Coming(kind, w) => w \in DOMAIN registry /\ w \in DOMAIN resources
        /\ \A kind \in EventKinds : ~ComingTwice("closed", kind, w)
    BY DEF KdeInv, KdeEvents
  <2>2. CASE w = n
    <3>1. ~ComingTwice("uuid", "uuid", n) /\ ~Coming("closed", n)
      BY <1>6, OrderHas DEF EventKinds, ComingTwice, Coming
    <3> QED
      BY <1>1, <1>4, <1>6, <1>7, <2>1, <2>2, <3>1 DEF EventKinds
  <2>3. CASE w # n
    BY <1>1, <1>4, <2>1, <2>3
  <2> QED
    BY <2>2, <2>3
<1>12. KdeRequests'
  <2>1. \A w \in HandleWindows : Asked("destroy", w) => w # n
    BY <1>6 DEF RequestKinds
  <2> QED
    BY <1>1, <1>5, <2>1 DEF KdeInv, KdeRequests, AskedTwice
<1>13. KdeRegistry'
  <2>1. \A w \in DOMAIN resources : w # n
    BY <1>7
  <2> QED
    BY <1>1, <1>4, <1>5, <2>1 DEF KdeInv, KdeRegistry
<1>14. KdeRows'
  <2>1. \A r : RowOfWindow(r) => /\ r[1] = r[2] /\ r[1] \in 1..opened' /\ ~Asked("get", r[1])'
                                 /\ ~Coming("uuid", r[1])'
    BY <1>1, <1>2, <1>4, <1>5 DEF RowOfWindow
  <2> QED
    BY <1>1, <2>1 DEF KdeInv, KdeRows, RowOfWindow
<1>15. KdeSynced'
  <2> SUFFICES ASSUME Answering' PROVE KdeSynced'
    BY DEF KdeSynced
  <2>1. Answering
    BY <1>1, <1>4 DEF Answering
  <2>2. \A kind, w : KdeEarly(kind, w)' <=> KdeEarly(kind, w)
    BY <1>1, <1>4, <2>1 DEF KdeEarly, Answering
  <2>3. n \notin synced \cup absent
    BY <1>2 DEF KdeInv, ToplevelTypeOK
  <2>5. ASSUME NEW w \in HandleWindows
        PROVE  /\ w \in absent' => w \notin live' \/ w \in skipping'
               /\ w \in absent' /\ w \in DOMAIN registry' => KdeHidden(w)'
               /\ w \in synced' /\ w \in known' /\ w \in live' =>
                    /\ w \in DOMAIN registry' /\ w \in DOMAIN resources'
                    /\ registry'[w].ready \/ KdeEarly("done", w)'
    <3>1. /\ w \in absent => w \notin live \/ w \in skipping
          /\ w \in absent /\ w \in DOMAIN registry => KdeHidden(w)
          /\ w \in synced /\ w \in known /\ w \in live =>
               /\ w \in DOMAIN registry /\ w \in DOMAIN resources
               /\ registry[w].ready \/ KdeEarly("done", w)
      BY <2>1, <2>5 DEF KdeInv, KdeSynced
    <3>2. CASE w = n
      BY <1>1, <2>3, <3>2
    <3>3. CASE w # n
      <4>1. w \in DOMAIN registry => (KdeHidden(w)' <=> KdeHidden(w))
        BY <1>1, <1>4, <2>2, <3>3 DEF KdeHidden
      <4> QED
        BY <1>1, <2>2, <3>1, <3>3, <4>1
    <3> QED
      BY <3>2, <3>3
  <2> QED
    BY <2>5 DEF KdeSynced
<1> QED
  BY <1>1, <1>8, <1>9, <1>10, <1>11, <1>12, <1>13, <1>14, <1>15 DEF KdeInv

\* An event of a live window with a handle: its closure, or that it is kept out
\* of task bars.
LEMMA KdeTells ==
  ASSUME KdeInv, NEW window \in live, window \in DOMAIN resources, NEW kind \in {"closed", "skip"},
         Sent(events, events', kind, window, window),
         kind = "closed" => live' = live \ {window} /\ skipping' = skipping \ {window},
         kind = "skip" => live' = live /\ skipping = {} /\ skipping' = skipping \cup {window},
         UNCHANGED <<opened, resources, requests, synced, absent, answered, misdirected, protocol, registry, busy,
                     windowRows, selected, known>>
  PROVE  KdeInv'
<1>1. /\ events' \in Seq(Messages)
      /\ \A other, x : Coming(other, x)' <=> Coming(other, x) \/ (other = kind /\ x = window)
      /\ \A a, b, x : ComingTwice(a, b, x)' <=>
           ComingTwice(a, b, x) \/ (Coming(a, x) /\ b = kind /\ x = window)
      /\ \A a, k, x : HasMsg(events', a, k, x) <=>
           HasMsg(events, a, k, x) \/ (a = kind /\ k = window /\ x = window)
      /\ HasMsg(events', "synced", NoWindow, NoWindow) <=> HasMsg(events, "synced", NoWindow, NoWindow)
      /\ HasOrder(events', "synced", NoWindow, NoWindow, "synced", NoWindow, NoWindow) <=>
           HasOrder(events, "synced", NoWindow, NoWindow, "synced", NoWindow, NoWindow)
      /\ HasMsg(events, "synced", NoWindow, NoWindow) =>
           \A other, x : ComingFirst(other, x)' <=> ComingFirst(other, x)
  BY Comes
<1>2. \A other, x : Asked(other, x)' <=> Asked(other, x)
  BY DEF Asked
<1>3. window \in 1..opened /\ window \in HandleWindows
  BY KdeWindows
<1>4. window \in DOMAIN registry /\ ~Coming("closed", window)
  BY <1>3 DEF KdeInv, KdeRegistry, KdeRequests
<1>5. ToplevelTypeOK' /\ OneRoundTrip'
  <2>1. ToplevelTypeOK'
    BY <1>1 DEF KdeInv, ToplevelTypeOK
  <2>2. OneRoundTrip'
    BY <1>1, TripStays DEF KdeInv
  <2> QED
    BY <2>1, <2>2
<1>6. KdeHandles'
  <2>1. /\ live' \subseteq live /\ skipping' \subseteq live'
        /\ \A w : Coming("uuid", w) => Coming("uuid", w)'
    BY <1>1 DEF KdeInv, KdeHandles
  <2> QED
    BY <2>1 DEF KdeInv, KdeHandles
<1>7. KdeNumbers'
  BY <1>1, <1>3 DEF KdeInv, KdeNumbers
<1>8. KdeEvents'
  <2> SUFFICES ASSUME NEW w \in HandleWindows
               PROVE  /\ ~Coming("toplevel", w)'
                      /\ Coming("uuid", w)' => /\ w \notin DOMAIN registry' /\ w \notin DOMAIN resources'
                                               /\ w \notin known' /\ ~ComingTwice("uuid", "uuid", w)'
                      /\ \A other \in {"skip", "done", "closed"} :
                           Coming(other, w)' => w \in DOMAIN registry' /\ w \in DOMAIN resources'
                      /\ \A other \in EventKinds : ~ComingTwice("closed", other, w)'
    BY DEF KdeEvents
  <2>1. /\ ~Coming("toplevel", w)
        /\ Coming("uuid", w) => /\ w \notin DOMAIN registry /\ w \notin DOMAIN resources /\ w \notin known
                                /\ ~ComingTwice("uuid", "uuid", w)
        /\ \A other \in {"skip", "done", "closed"} :
             Coming(other, w) => w \in DOMAIN registry /\ w \in DOMAIN resources
        /\ \A other \in EventKinds : ~ComingTwice("closed", other, w)
    BY DEF KdeInv, KdeEvents
  <2> QED
    BY <1>1, <1>4, <2>1
<1>9. KdeRequests'
  <2>1. live' \subseteq live
    OBVIOUS
  <2> QED
    BY <1>2, <2>1 DEF KdeInv, KdeRequests, AskedTwice
<1>10. KdeRegistry'
  <2>1. ASSUME NEW w \in DOMAIN resources'
        PROVE  /\ w \in DOMAIN registry' \/ Asked("destroy", w)'
               /\ w \in DOMAIN registry' =>
                    /\ w \in live' <=> ~Coming("closed", w)'
                    /\ w \in live' => /\ registry'[w].ready \/ Coming("done", w)'
                                      /\ w \in skipping' <=> registry'[w].skip \/ Coming("skip", w)'
    <3>1. /\ w \in DOMAIN registry \/ Asked("destroy", w)
          /\ w \in DOMAIN registry =>
               /\ w \in live <=> ~Coming("closed", w)
               /\ w \in live => /\ registry[w].ready \/ Coming("done", w)
                                /\ w \in skipping <=> registry[w].skip \/ Coming("skip", w)
      BY <2>1 DEF KdeInv, KdeRegistry
    <3>2. CASE kind = "closed"
      BY <1>1, <1>2, <3>1, <3>2
    <3>3. CASE kind = "skip"
      BY <1>1, <1>2, <3>1, <3>3
    <3> QED
      BY <3>2, <3>3
  <2>2. \A w \in DOMAIN registry' :
          w \in DOMAIN resources' \/ (Asked("get", w)' /\ ~registry'[w].ready /\ ~registry'[w].skip)
    BY <1>2 DEF KdeInv, KdeRegistry
  <2> QED
    BY <2>1, <2>2 DEF KdeRegistry
<1>11. KdeRows'
  BY <1>1, <1>2 DEF KdeInv, KdeRows, RowOfWindow
<1>12. KdeSynced'
  <2> SUFFICES ASSUME Answering' PROVE KdeSynced'
    BY DEF KdeSynced
  <2>1. Answering
    BY <1>1 DEF Answering
  <2>2. \A other, w : KdeEarly(other, w)' <=> KdeEarly(other, w)
    BY <1>1, <2>1 DEF KdeEarly, Answering
  <2>5. ASSUME NEW w \in HandleWindows
        PROVE  /\ w \in absent' => w \notin live' \/ w \in skipping'
               /\ w \in absent' /\ w \in DOMAIN registry' => KdeHidden(w)'
               /\ w \in synced' /\ w \in known' /\ w \in live' =>
                    /\ w \in DOMAIN registry' /\ w \in DOMAIN resources'
                    /\ registry'[w].ready \/ KdeEarly("done", w)'
    <3>1. /\ w \in absent => w \notin live \/ w \in skipping
          /\ w \in absent /\ w \in DOMAIN registry => KdeHidden(w)
          /\ w \in synced /\ w \in known /\ w \in live =>
               /\ w \in DOMAIN registry /\ w \in DOMAIN resources
               /\ registry[w].ready \/ KdeEarly("done", w)
      BY <2>1, <2>5 DEF KdeInv, KdeSynced
    <3>2. w \in absent => w \notin live' \/ w \in skipping'
      BY <3>1
    <3>3. ASSUME w \in absent, w \in DOMAIN registry PROVE KdeHidden(w)'
      <4>1. kind = "skip" => w # window
        BY <3>1, <3>3
      <4>2. /\ Coming("done", w)' <=> Coming("done", w)
            /\ Coming("skip", w)' <=> Coming("skip", w)
            /\ ComingTwice("done", "skip", w)' <=> ComingTwice("done", "skip", w)
        BY <1>1, <4>1
      <4>3. KdeHidden(w)
        BY <3>1, <3>3
      <4> QED
        BY <2>2, <4>2, <4>3 DEF KdeHidden
    <3>4. w \in live' => w \in live
      OBVIOUS
    <3> QED
      BY <2>2, <3>1, <3>2, <3>3, <3>4
  <2> QED
    BY <2>5 DEF KdeSynced
<1> QED
  BY <1>5, <1>6, <1>7, <1>8, <1>9, <1>10, <1>11, <1>12 DEF KdeInv

\* A window closes or leaves the task bars.
LEMMA KdeCloses ==
  ASSUME KdeInv, NEW window \in 1..MaxWindows, CloseWindow(window) \/ SkipTaskbar(window)
  PROVE  KdeInv'
<1>1. /\ window \in live
      /\ UNCHANGED <<opened, resources, requests, synced, absent, answered, misdirected, protocol, registry, busy,
                     windowRows, selected, known>>
  BY DEF CloseWindow, SkipTaskbar, clientVars, tripVars
<1>2. CASE window \in DOMAIN resources
  <2>1. {k \in DOMAIN resources : resources[k] = window} = {window}
    BY <1>2 DEF KdeInv, KdeHandles
  <2>2. (CHOOSE k \in {window} : TRUE) = window
    OBVIOUS
  <2>3. CASE CloseWindow(window)
    <3>1. /\ events' = Append(events, <<"closed", window, window>>)
          /\ live' = live \ {window} /\ skipping' = skipping \ {window}
      BY <2>1, <2>2, <2>3 DEF CloseWindow
    <3>2. Sent(events, events', "closed", window, window)
      BY <1>1, <3>1, KdeWindows, Sendable, AppendSends DEF EventKinds
    <3> QED
      BY <1>1, <1>2, <3>1, <3>2, KdeTells
  <2>4. CASE SkipTaskbar(window)
    <3>1. /\ events' = Append(events, <<"skip", window, window>>)
          /\ live' = live /\ skipping = {} /\ skipping' = skipping \cup {window}
      BY <1>2, <2>4 DEF SkipTaskbar
    <3>2. Sent(events, events', "skip", window, window)
      BY <1>1, <3>1, KdeWindows, Sendable, AppendSends DEF EventKinds
    <3> QED
      BY <1>1, <1>2, <3>1, <3>2, KdeTells
  <2> QED
    BY <2>3, <2>4
<1>3. CASE window \notin DOMAIN resources
  <2>1. {k \in DOMAIN resources : resources[k] = window} = {}
    BY <1>3 DEF KdeInv, KdeHandles
  <2>2. /\ events' = events
        /\ live' \subseteq live /\ skipping' \subseteq live'
        /\ \A w : w # window => (w \in live' <=> w \in live) /\ (w \in skipping' <=> w \in skipping)
    <3>1. CASE CloseWindow(window)
      BY <2>1, <3>1 DEF CloseWindow, KdeInv, KdeHandles
    <3>2. CASE SkipTaskbar(window)
      BY <1>3, <3>2 DEF SkipTaskbar
    <3> QED
      BY <3>1, <3>2
  <2>3. /\ \A kind, w : Coming(kind, w)' <=> Coming(kind, w)
        /\ \A kind, w : Asked(kind, w)' <=> Asked(kind, w)
        /\ \A kind, w : KdeEarly(kind, w)' <=> KdeEarly(kind, w)
    BY <1>1, <2>2 DEF Coming, Asked, KdeEarly, ComingFirst
  <2>4. ToplevelTypeOK' /\ OneRoundTrip' /\ KdeNumbers'
    BY <1>1, <2>2 DEF KdeInv, ToplevelTypeOK, OneRoundTrip, KdeNumbers
  <2>5. KdeHandles'
    BY <1>1, <2>2, <2>3 DEF KdeInv, KdeHandles
  <2>6. KdeEvents' /\ KdeRequests'
    BY <1>1, <2>2, <2>3 DEF KdeInv, KdeEvents, KdeRequests, ComingTwice, AskedTwice
  <2>7. KdeRegistry'
    <3>1. \A w \in DOMAIN resources : w # window
      BY <1>3
    <3> QED
      BY <1>1, <2>2, <2>3, <3>1 DEF KdeInv, KdeRegistry
  <2>8. KdeRows'
    BY <1>1, <2>2, <2>3 DEF KdeInv, KdeRows, RowOfWindow
  <2>9. KdeSynced'
    <3>1. \A w : w \in DOMAIN registry => (KdeHidden(w)' <=> KdeHidden(w))
      BY <1>1, <2>2, <2>3 DEF KdeHidden, ComingTwice
    <3>2. (Answering' <=> Answering) /\ live' \subseteq live /\ window \notin live' \cap ({window} \ skipping')
      <4>1. window \notin live' \/ window \in skipping'
        BY DEF CloseWindow, SkipTaskbar
      <4> QED
        BY <1>1, <2>2, <4>1 DEF Answering
    <3>3. \A w : w \notin live \/ w \in skipping => w \notin live' \/ w \in skipping'
      BY <2>2, <3>2
    <3> QED
      BY <1>1, <2>3, <3>1, <3>2, <3>3 DEF KdeInv, KdeSynced
  <2> QED
    BY <1>1, <2>4, <2>5, <2>6, <2>7, <2>8, <2>9 DEF KdeInv
<1> QED
  BY <1>2, <1>3

\* The compositor answers a round trip.
LEMMA KdeAnswers ==
  ASSUME KdeInv, requests # <<>>, Head(requests)[1] = "sync", HandleRequest
  PROVE  KdeInv'
<1>1. /\ requests' = Tail(requests) /\ events' = Append(events, <<"synced", NoWindow, NoWindow>>)
      /\ synced' = live \ skipping /\ absent' = (1..opened) \ synced'
      /\ UNCHANGED <<resources, misdirected, opened, live, skipping, protocol, registry, busy,
                     windowRows, selected, answered, known>>
  BY DEF HandleRequest, clientVars, tripVars
<1>2. events \in Seq(Messages) /\ requests \in Seq(Messages)
  BY KdeWindows
<1>3. Taken(requests, requests', "sync", NoWindow, NoWindow)
  <2>1. Head(requests) = <<"sync", NoWindow, NoWindow>>
    BY <1>2, HeadOf DEF Sync
  <2> QED
    BY <1>1, <1>2, <2>1, TailTakes
<1>4. Sent(events, events', "synced", NoWindow, NoWindow)
  BY <1>1, <1>2, Sendable, AppendSends
<1>5. /\ HasMsg(requests, "sync", NoWindow, NoWindow) /\ ~HasMsg(requests', "sync", NoWindow, NoWindow)
      /\ ~HasMsg(events, "synced", NoWindow, NoWindow) /\ busy /\ ~answered
  BY <1>3 DEF KdeInv, OneRoundTrip, Taken
<1>6. /\ \A kind, k, w : kind # "sync" => (HasMsg(requests', kind, k, w) <=> HasMsg(requests, kind, k, w))
      /\ \A kind, w : kind # "sync" => (Asked(kind, w)' <=> Asked(kind, w))
      /\ \A kind, other, w : kind # "sync" => (AskedTwice(kind, other, w)' <=> AskedTwice(kind, other, w))
      /\ \A w : HasOrder(requests', "sync", NoWindow, NoWindow, "get", w, w) =>
           HasOrder(requests, "sync", NoWindow, NoWindow, "get", w, w)
      /\ \A w : Asked("get", w) => HasOrder(requests, "sync", NoWindow, NoWindow, "get", w, w)
  BY <1>3 DEF Taken, Asked, AskedTwice
<1>7. /\ \A kind, k, w : kind # "synced" => (HasMsg(events', kind, k, w) <=> HasMsg(events, kind, k, w))
      /\ \A kind, w : kind # "synced" => (Coming(kind, w)' <=> Coming(kind, w))
      /\ \A kind, other, w : other # "synced" => (ComingTwice(kind, other, w)' <=> ComingTwice(kind, other, w))
  BY <1>4 DEF Sent, Coming, ComingTwice
<1>8. ToplevelTypeOK' /\ OneRoundTrip'
  <2>1. ToplevelTypeOK'
    BY <1>1, <1>3, <1>4 DEF KdeInv, ToplevelTypeOK, KdeHandles, Sent, Taken
  <2>2. ~HasOrder(events', "synced", NoWindow, NoWindow, "synced", NoWindow, NoWindow)
    BY <1>4, <1>5, OrderHas DEF Sent
  <2>3. OneRoundTrip'
    BY <1>1, <1>5, <2>2 DEF OneRoundTrip
  <2> QED
    BY <2>1, <2>3
<1>9. KdeHandles'
  BY <1>1, <1>7 DEF KdeInv, KdeHandles
<1>10. KdeNumbers'
  BY <1>1, <1>6, <1>7 DEF KdeInv, KdeNumbers, EventKinds, RequestKinds
<1>11. KdeEvents'
  BY <1>1, <1>7 DEF KdeInv, KdeEvents, EventKinds
<1>12. KdeRequests'
  BY <1>1, <1>6 DEF KdeInv, KdeRequests
<1>13. KdeRegistry'
  BY <1>1, <1>6, <1>7 DEF KdeInv, KdeRegistry
<1>14. KdeRows'
  BY <1>1, <1>6, <1>7 DEF KdeInv, KdeRows, RowOfWindow
<1>15. KdeSynced'
  <2>1. \A kind, w : KdeEarly(kind, w)' <=> Coming(kind, w)
    BY <1>1, <1>4, <1>5, NoAnswerYet DEF Sent, Synced, KdeEarly, ComingFirst, Coming
  <2>2. ASSUME NEW w \in HandleWindows, w \in DOMAIN registry, w \notin live \/ w \in skipping
        PROVE  KdeHidden(w)'
    <3>1. CASE w \notin DOMAIN resources
      <4>1. ~registry[w].ready /\ ~Coming("done", w)
        BY <2>2, <3>1 DEF KdeInv, KdeRegistry, KdeEvents
      <4>2. ~Coming("done", w)'
        BY <1>7, <4>1
      <4> QED
        BY <1>1, <2>1, <4>1, <4>2 DEF KdeHidden
    <3>2. CASE w \in DOMAIN resources /\ w \notin live
      <4>1. Coming("closed", w)
        BY <2>2, <3>2 DEF KdeInv, KdeRegistry
      <4> QED
        BY <2>1, <4>1 DEF KdeHidden
    <3>3. CASE w \in DOMAIN resources /\ w \in live /\ w \in skipping
      <4>1. registry[w].skip \/ Coming("skip", w)
        BY <2>2, <3>3 DEF KdeInv, KdeRegistry
      <4> QED
        BY <1>1, <2>1, <4>1 DEF KdeHidden
    <3> QED
      BY <2>2, <3>1, <3>2, <3>3
  <2>3. ASSUME NEW w \in HandleWindows, w \in live, w \in known
        PROVE  /\ w \in DOMAIN registry /\ w \in DOMAIN resources
               /\ registry[w].ready \/ Coming("done", w)
    <3>1. w \in DOMAIN registry
      BY <2>3 DEF KdeInv, KdeHandles, KdeEvents
    <3>2. w \in DOMAIN resources
      BY <1>6, <2>3, <3>1 DEF KdeInv, KdeRegistry, KdeRequests
    <3> QED
      BY <2>3, <3>1, <3>2 DEF KdeInv, KdeRegistry
  <2>4. \A w \in HandleWindows : w \in absent' => w \notin live \/ w \in skipping
    BY <1>1
  <2> QED
    BY <1>1, <2>1, <2>2, <2>3, <2>4 DEF KdeSynced
<1> QED
  BY <1>1, <1>8, <1>9, <1>10, <1>11, <1>12, <1>13, <1>14, <1>15 DEF KdeInv

\* What the requests for a handle, its destruction and an action change.
LEMMA KdeRequest ==
  ASSUME KdeInv, requests # <<>>, Head(requests)[1] \in RequestKinds
  PROVE  \E w \in 1..opened :
           /\ Head(requests) = <<Head(requests)[1], w, w>> /\ w \in HandleWindows
           /\ Taken(requests, Tail(requests), Head(requests)[1], w, w)
           /\ Asked(Head(requests)[1], w)
<1> DEFINE kind == Head(requests)[1]
           key == Head(requests)[2]
           w == Head(requests)[3]
<1>1. requests \in Seq(Messages)
  BY KdeWindows
<1>2. Head(requests) = <<kind, key, w>> /\ key \in HandleKeys /\ w \in HandleWindows
  BY <1>1, HeadOf
<1>3. Taken(requests, Tail(requests), kind, key, w)
  BY <1>1, <1>2, TailTakes
<1>4. HasMsg(requests, kind, key, w)
  BY <1>3 DEF Taken
<1>5. key = w /\ w \in 1..opened
  BY <1>2, <1>4 DEF KdeInv, KdeNumbers
<1> QED
  BY <1>2, <1>3, <1>4, <1>5 DEF Asked

\* A handle is given out; what comes first is the state of the window.
LEMMA KdeGets ==
  ASSUME KdeInv, requests # <<>>, Head(requests)[1] = "get", HandleRequest
  PROVE  KdeInv'
<1>1. PICK w \in 1..opened :
        /\ Head(requests) = <<"get", w, w>> /\ w \in HandleWindows
        /\ Taken(requests, Tail(requests), "get", w, w) /\ Asked("get", w)
  BY KdeRequest DEF RequestKinds
<1>2. /\ requests' = Tail(requests) /\ resources' = With(resources, w, w)
      /\ events' = events \o InitialState(w)
      /\ UNCHANGED <<synced, absent, answered, misdirected, opened, live, skipping, protocol, registry, busy,
                     windowRows, selected, known>>
  <2>1. Head(requests)[1] = "get" /\ Head(requests)[2] = w
    BY <1>1
  <2>2. /\ requests' = Tail(requests) /\ resources' = With(resources, Head(requests)[2], Head(requests)[2])
        /\ events' = events \o InitialState(Head(requests)[2])
        /\ UNCHANGED <<synced, absent, misdirected, opened, live, skipping, clientVars>>
    BY <2>1 DEF HandleRequest
  <2> QED
    BY <2>1, <2>2 DEF clientVars, tripVars
<1>3. /\ requests' \in Seq(Messages)
      /\ \A other, x : Asked(other, x) <=> Asked(other, x)' \/ (other = "get" /\ x = w)
      /\ \A a, b, x : AskedTwice(a, b, x) <=>
           AskedTwice(a, b, x)' \/ (Asked(b, x)' /\ a = "get" /\ x = w)
      /\ \A a, k, x : HasMsg(requests, a, k, x) <=> HasMsg(requests', a, k, x) \/ (a = "get" /\ k = w /\ x = w)
      /\ HasMsg(requests', "sync", NoWindow, NoWindow) <=> HasMsg(requests, "sync", NoWindow, NoWindow)
      /\ HasOrder(requests', "sync", NoWindow, NoWindow, "sync", NoWindow, NoWindow) <=>
           HasOrder(requests, "sync", NoWindow, NoWindow, "sync", NoWindow, NoWindow)
      /\ \A x : HasOrder(requests', "sync", NoWindow, NoWindow, "get", x, x) =>
           HasOrder(requests, "sync", NoWindow, NoWindow, "get", x, x)
  BY <1>1, <1>2, Handled
<1>4. /\ DOMAIN resources' = DOMAIN resources \cup {w}
      /\ \A k \in DOMAIN resources' : resources'[k] = k
  BY <1>2 DEF With, KdeInv, KdeHandles
<1>5. /\ w \in DOMAIN registry /\ w \notin DOMAIN resources /\ ~registry[w].ready /\ ~registry[w].skip
      /\ ~Asked("get", w)'
  <2>1. w \in DOMAIN registry /\ w \notin DOMAIN resources /\ ~AskedTwice("get", "get", w)
    BY <1>1 DEF KdeInv, KdeRequests
  <2> QED
    BY <1>3, <2>1 DEF KdeInv, KdeRegistry
<1>6. \A kind \in {"toplevel", "uuid", "skip", "done", "closed"} : ~Coming(kind, w)
  BY <1>1, <1>5 DEF KdeInv, KdeEvents
<1>7. PICK kinds \in SUBSET {"skip", "done", "closed"} :
        /\ SentAll(events, events', kinds, w)
        /\ "closed" \in kinds <=> w \notin live
        /\ w \notin live => kinds = {"closed"}
        /\ w \in live => "done" \in kinds /\ ("skip" \in kinds <=> w \in skipping)
  <2>1. events \in Seq(Messages) /\ w \in HandleKeys
    BY <1>1, KdeWindows
  <2>2. CASE w \notin live
    <3>1. events' = events \o <<<<"closed", w, w>>>>
      BY <1>2, <2>2 DEF InitialState
    <3>2. SentAll(events, events', {"closed"}, w)
      BY <1>1, <2>1, <3>1, StateIsSent
    <3> QED
      BY <2>2, <3>2
  <2>3. CASE w \in live /\ w \notin skipping
    <3>1. events' = events \o <<<<"done", w, w>>>>
      <4>1. InitialState(w) = <<>> \o <<<<"done", w, w>>>>
        BY <2>3 DEF InitialState
      <4>2. <<>> \o <<<<"done", w, w>>>> = <<<<"done", w, w>>>>
        OBVIOUS
      <4> QED
        BY <1>2, <4>1, <4>2
    <3>2. SentAll(events, events', {"done"}, w)
      BY <1>1, <2>1, <3>1, StateIsSent
    <3> QED
      BY <2>3, <3>2
  <2>4. CASE w \in live /\ w \in skipping
    <3>1. events' = events \o (<<<<"skip", w, w>>>> \o <<<<"done", w, w>>>>)
      BY <1>2, <2>4 DEF InitialState
    <3>2. SentAll(events, events', {"skip", "done"}, w)
      BY <1>1, <2>1, <3>1, StateIsSent
    <3> QED
      BY <2>4, <3>2
  <2> QED
    BY <2>2, <2>3, <2>4
<1>8. /\ events' \in Seq(Messages)
      /\ \A kind, x : Coming(kind, x)' <=> Coming(kind, x) \/ (kind \in kinds /\ x = w)
      /\ \A a, b, x : ComingTwice(a, b, x)' =>
           ComingTwice(a, b, x) \/ (b \in kinds /\ x = w /\ (Coming(a, x) \/ a = "skip"))
      /\ \A a, k, x : HasMsg(events', a, k, x) <=> HasMsg(events, a, k, x) \/ (a \in kinds /\ k = w /\ x = w)
      /\ HasMsg(events', "synced", NoWindow, NoWindow) <=> HasMsg(events, "synced", NoWindow, NoWindow)
      /\ HasOrder(events', "synced", NoWindow, NoWindow, "synced", NoWindow, NoWindow) =>
           HasOrder(events, "synced", NoWindow, NoWindow, "synced", NoWindow, NoWindow)
      /\ HasMsg(events, "synced", NoWindow, NoWindow) =>
           \A other, x : ComingFirst(other, x)' <=> ComingFirst(other, x)
  <2>1. "synced" \notin kinds
    OBVIOUS
  <2> QED
    BY <1>7, <2>1 DEF SentAll, Coming, ComingTwice, ComingFirst
<1>9. ToplevelTypeOK' /\ OneRoundTrip'
  <2>1. ToplevelTypeOK'
    BY <1>2, <1>3, <1>8 DEF KdeInv, ToplevelTypeOK
  <2>2. OneRoundTrip'
    BY <1>2, <1>3, <1>8, TripStays DEF KdeInv
  <2> QED
    BY <2>1, <2>2
<1>10. KdeHandles'
  <2>1. \A x : Coming("uuid", x) => Coming("uuid", x)'
    BY <1>8
  <2> QED
    BY <1>2, <1>4, <2>1 DEF KdeInv, KdeHandles
<1>11. KdeNumbers'
  BY <1>2, <1>3, <1>8 DEF KdeInv, KdeNumbers
<1>12. KdeEvents'
  <2> SUFFICES ASSUME NEW x \in HandleWindows
               PROVE  /\ ~Coming("toplevel", x)'
                      /\ Coming("uuid", x)' => /\ x \notin DOMAIN registry' /\ x \notin DOMAIN resources'
                                               /\ x \notin known' /\ ~ComingTwice("uuid", "uuid", x)'
                      /\ \A kind \in {"skip", "done", "closed"} :
                           Coming(kind, x)' => x \in DOMAIN registry' /\ x \in DOMAIN resources'
                      /\ \A kind \in EventKinds : ~ComingTwice("closed", kind, x)'
    BY DEF KdeEvents
  <2>1. /\ ~Coming("toplevel", x)
        /\ Coming("uuid", x) => /\ x \notin DOMAIN registry /\ x \notin DOMAIN resources /\ x \notin known
                                /\ ~ComingTwice("uuid", "uuid", x)
        /\ \A kind \in {"skip", "done", "closed"} :
             Coming(kind, x) => x \in DOMAIN registry /\ x \in DOMAIN resources
        /\ \A kind \in EventKinds : ~ComingTwice("closed", kind, x)
    BY DEF KdeInv, KdeEvents
  <2>2. /\ ~Coming("toplevel", x)'
        /\ Coming("uuid", x)' => Coming("uuid", x) /\ x # w /\ ~ComingTwice("uuid", "uuid", x)'
    BY <1>6, <1>8, <2>1
  <2>3. \A kind \in EventKinds : ~ComingTwice("closed", kind, x)'
    BY <1>6, <1>8, <2>1
  <2>4. \A kind \in {"skip", "done", "closed"} : Coming(kind, x)' => Coming(kind, x) \/ x = w
    BY <1>8
  <2> QED
    BY <1>2, <1>4, <1>5, <2>1, <2>2, <2>3, <2>4
<1>13. KdeRequests'
  <2>1. ~Asked("destroy", w)
    BY <1>1, <1>5 DEF KdeInv, KdeRequests
  <2>2. \A kind, x : Asked(kind, x)' => Asked(kind, x)
    BY <1>3
  <2>3. \A a, b, x : AskedTwice(a, b, x)' => AskedTwice(a, b, x)
    BY <1>3
  <2> QED
    BY <1>2, <1>3, <1>4, <1>5, <2>1, <2>2, <2>3 DEF KdeInv, KdeRequests
<1>14. KdeRegistry'
  <2>1. ASSUME NEW x \in DOMAIN registry'
        PROVE  x \in DOMAIN resources' \/ (Asked("get", x)' /\ ~registry'[x].ready /\ ~registry'[x].skip)
    BY <1>2, <1>3, <1>4, <2>1 DEF KdeInv, KdeRegistry
  <2>2. ASSUME NEW x \in DOMAIN resources'
        PROVE  /\ x \in DOMAIN registry' \/ Asked("destroy", x)'
               /\ x \in DOMAIN registry' =>
                    /\ x \in live' <=> ~Coming("closed", x)'
                    /\ x \in live' => /\ registry'[x].ready \/ Coming("done", x)'
                                      /\ x \in skipping' <=> registry'[x].skip \/ Coming("skip", x)'
    <3>1. CASE x = w
      BY <1>2, <1>5, <1>6, <1>7, <1>8, <3>1
    <3>2. CASE x # w
      BY <1>2, <1>3, <1>4, <1>8, <2>2, <3>2 DEF KdeInv, KdeRegistry
    <3> QED
      BY <3>1, <3>2
  <2> QED
    BY <2>1, <2>2 DEF KdeRegistry
<1>15. KdeRows'
  <2>1. \A r : RowOfWindow(r) => r[1] = r[2] /\ r[1] \in 1..opened /\ ~Asked("get", r[1])' /\ ~Coming("uuid", r[1])'
    BY <1>3, <1>8 DEF RowOfWindow
  <2> QED
    BY <1>2, <2>1 DEF KdeInv, KdeRows, RowOfWindow
<1>16. KdeSynced'
  <2> SUFFICES ASSUME Answering' PROVE KdeSynced'
    BY DEF KdeSynced
  <2>1. Answering
    BY <1>2, <1>8 DEF Answering
  <2>2. \A kind, x : KdeEarly(kind, x)' <=> KdeEarly(kind, x)
    BY <1>2, <1>8, <2>1 DEF KdeEarly, Answering
  <2>5. ASSUME NEW x \in HandleWindows
        PROVE  /\ x \in absent' => x \notin live' \/ x \in skipping'
               /\ x \in absent' /\ x \in DOMAIN registry' => KdeHidden(x)'
               /\ x \in synced' /\ x \in known' /\ x \in live' =>
                    /\ x \in DOMAIN registry' /\ x \in DOMAIN resources'
                    /\ registry'[x].ready \/ KdeEarly("done", x)'
    <3>1. /\ x \in absent => x \notin live \/ x \in skipping
          /\ x \in absent /\ x \in DOMAIN registry => KdeHidden(x)
          /\ x \in synced /\ x \in known /\ x \in live =>
               /\ x \in DOMAIN registry /\ x \in DOMAIN resources
               /\ registry[x].ready \/ KdeEarly("done", x)
      BY <2>1, <2>5 DEF KdeInv, KdeSynced
    <3>2. CASE x = w
      <4>1. ASSUME x \in absent PROVE KdeHidden(x)'
        <5>1. w \notin live \/ w \in skipping
          BY <3>1, <3>2, <4>1
        <5>2. ~KdeEarly("done", w)
          BY <1>6, OrderHas DEF KdeEarly, ComingFirst, Coming
        <5>3. Coming("done", w)' => Coming("skip", w)'
          BY <1>6, <1>7, <1>8, <5>1
        <5>4. ~ComingTwice("done", "skip", w)'
          <6>1. ~ComingTwice("done", "skip", w)
            BY <1>6, OrderHas DEF ComingTwice, Coming
          <6> QED
            BY <1>6, <1>8, <6>1
        <5> QED
          BY <1>2, <1>5, <2>2, <3>2, <5>2, <5>3, <5>4 DEF KdeHidden
      <4> QED
        BY <1>2, <1>5, <3>1, <3>2, <4>1
    <3>3. CASE x # w
      <4>1. /\ \A kind : Coming(kind, x)' <=> Coming(kind, x)
            /\ ComingTwice("done", "skip", x)' => ComingTwice("done", "skip", x)
        BY <1>8, <3>3
      <4>2. x \in DOMAIN registry /\ KdeHidden(x) => KdeHidden(x)'
        BY <1>2, <2>2, <4>1 DEF KdeHidden
      <4> QED
        BY <1>2, <1>4, <2>2, <3>1, <3>3, <4>2
    <3> QED
      BY <3>2, <3>3
  <2> QED
    BY <2>5 DEF KdeSynced
<1> QED
  BY <1>2, <1>9, <1>10, <1>11, <1>12, <1>13, <1>14, <1>15, <1>16 DEF KdeInv

\* A handle is destroyed: nothing is under way about it any more.
LEMMA KdeDestroys ==
  ASSUME KdeInv, requests # <<>>, Head(requests)[1] = "destroy", HandleRequest
  PROVE  KdeInv'
<1>1. PICK w \in 1..opened :
        /\ Head(requests) = <<"destroy", w, w>> /\ w \in HandleWindows
        /\ Taken(requests, Tail(requests), "destroy", w, w) /\ Asked("destroy", w)
  BY KdeRequest DEF RequestKinds
<1>2. /\ requests' = Tail(requests) /\ resources' = Without(resources, w)
      /\ UNCHANGED <<events, synced, absent, answered, misdirected, opened, live, skipping, protocol, registry, busy,
                     windowRows, selected, known>>
  <2>1. Head(requests)[1] = "destroy" /\ Head(requests)[2] = w
    BY <1>1
  <2>2. /\ requests' = Tail(requests) /\ resources' = Without(resources, Head(requests)[2])
        /\ UNCHANGED <<events, synced, absent, misdirected, opened, live, skipping, clientVars>>
    BY <2>1 DEF HandleRequest
  <2> QED
    BY <2>1, <2>2 DEF clientVars, tripVars
<1>3. /\ requests' \in Seq(Messages)
      /\ \A other, x : Asked(other, x) <=> Asked(other, x)' \/ (other = "destroy" /\ x = w)
      /\ \A a, b, x : AskedTwice(a, b, x) <=>
           AskedTwice(a, b, x)' \/ (Asked(b, x)' /\ a = "destroy" /\ x = w)
      /\ \A a, k, x : HasMsg(requests, a, k, x)
                        <=> HasMsg(requests', a, k, x) \/ (a = "destroy" /\ k = w /\ x = w)
      /\ HasMsg(requests', "sync", NoWindow, NoWindow) <=> HasMsg(requests, "sync", NoWindow, NoWindow)
      /\ HasOrder(requests', "sync", NoWindow, NoWindow, "sync", NoWindow, NoWindow) <=>
           HasOrder(requests, "sync", NoWindow, NoWindow, "sync", NoWindow, NoWindow)
      /\ \A x : HasOrder(requests', "sync", NoWindow, NoWindow, "get", x, x) =>
           HasOrder(requests, "sync", NoWindow, NoWindow, "get", x, x)
  BY <1>1, <1>2, Handled
<1>4. /\ DOMAIN resources' = DOMAIN resources \ {w}
      /\ \A k \in DOMAIN resources' : resources'[k] = resources[k]
  BY <1>2 DEF Without, Restrict
<1>5. /\ w \notin DOMAIN registry /\ w \in DOMAIN resources /\ w \notin live
      /\ ~AskedTwice("destroy", "destroy", w) /\ ~AskedTwice("destroy", "act", w)
  <2>1. /\ w \notin DOMAIN registry /\ w \in DOMAIN resources /\ w \notin live
        /\ ~AskedTwice("destroy", "destroy", w)
    BY <1>1 DEF KdeInv, KdeRequests
  <2>2. ~AskedTwice("destroy", "act", w)
    BY <1>1, OrderHas DEF KdeInv, KdeRequests, AskedTwice, Asked
  <2> QED
    BY <2>1, <2>2
<1>6. ~Asked("destroy", w)' /\ ~Asked("act", w)'
  BY <1>3, <1>5
<1>7. \A kind \in {"uuid", "skip", "done", "closed"} : ~Coming(kind, w)
  BY <1>1, <1>5 DEF KdeInv, KdeEvents
<1>8. \A other, x : Coming(other, x)' <=> Coming(other, x)
  BY <1>2 DEF Coming
<1>9. ToplevelTypeOK' /\ OneRoundTrip'
  <2>1. ToplevelTypeOK'
    BY <1>2, <1>3 DEF KdeInv, ToplevelTypeOK
  <2>2. OneRoundTrip'
    BY <1>2, <1>3, TripStays DEF KdeInv
  <2> QED
    BY <2>1, <2>2
<1>10. KdeHandles'
  BY <1>2, <1>4, <1>8 DEF KdeInv, KdeHandles
<1>11. KdeNumbers'
  BY <1>2, <1>3 DEF KdeInv, KdeNumbers
<1>12. KdeEvents'
  BY <1>2, <1>4, <1>7, <1>8 DEF KdeInv, KdeEvents, ComingTwice
<1>13. KdeRequests'
  <2>1. \A a, b, x : AskedTwice(a, b, x)' => AskedTwice(a, b, x)
    BY <1>3
  <2>2. \A kind, x : Asked(kind, x)' => Asked(kind, x)
    BY <1>3
  <2> QED
    BY <1>2, <1>3, <1>4, <1>6, <2>1, <2>2 DEF KdeInv, KdeRequests
<1>14. KdeRegistry'
  <2>1. ASSUME NEW x \in DOMAIN registry'
        PROVE  x \in DOMAIN resources' \/ (Asked("get", x)' /\ ~registry'[x].ready /\ ~registry'[x].skip)
    BY <1>2, <1>3, <1>4, <1>5, <2>1 DEF KdeInv, KdeRegistry
  <2>2. ASSUME NEW x \in DOMAIN resources'
        PROVE  /\ x \in DOMAIN registry' \/ Asked("destroy", x)'
               /\ x \in DOMAIN registry' =>
                    /\ x \in live' <=> ~Coming("closed", x)'
                    /\ x \in live' => /\ registry'[x].ready \/ Coming("done", x)'
                                      /\ x \in skipping' <=> registry'[x].skip \/ Coming("skip", x)'
    <3>1. x \in DOMAIN resources /\ x # w
      BY <1>4, <2>2
    <3> QED
      BY <1>2, <1>3, <1>8, <3>1 DEF KdeInv, KdeRegistry
  <2> QED
    BY <2>1, <2>2 DEF KdeRegistry
<1>15. KdeRows'
  <2>1. \A r : RowOfWindow(r) => r[1] = r[2] /\ r[1] \in 1..opened /\ ~Asked("get", r[1])' /\ ~Coming("uuid", r[1])'
    BY <1>3, <1>8 DEF RowOfWindow
  <2> QED
    BY <1>2, <2>1 DEF KdeInv, KdeRows, RowOfWindow
<1>16. KdeSynced'
  <2> SUFFICES ASSUME Answering' PROVE KdeSynced'
    BY DEF KdeSynced
  <2>1. Answering
    BY <1>2 DEF Answering
  <2>2. \A kind, x : KdeEarly(kind, x)' <=> KdeEarly(kind, x)
    BY <1>2 DEF KdeEarly, ComingFirst
  <2>3. \A kind, other, x : ComingTwice(kind, other, x)' <=> ComingTwice(kind, other, x)
    BY <1>2 DEF ComingTwice
  <2>5. ASSUME NEW x \in HandleWindows
        PROVE  /\ x \in absent' => x \notin live' \/ x \in skipping'
               /\ x \in absent' /\ x \in DOMAIN registry' => KdeHidden(x)'
               /\ x \in synced' /\ x \in known' /\ x \in live' =>
                    /\ x \in DOMAIN registry' /\ x \in DOMAIN resources'
                    /\ registry'[x].ready \/ KdeEarly("done", x)'
    <3>1. /\ x \in absent => x \notin live \/ x \in skipping
          /\ x \in absent /\ x \in DOMAIN registry => KdeHidden(x)
          /\ x \in synced /\ x \in known /\ x \in live =>
               /\ x \in DOMAIN registry /\ x \in DOMAIN resources
               /\ registry[x].ready \/ KdeEarly("done", x)
      BY <2>1, <2>5 DEF KdeInv, KdeSynced
    <3>2. x \in DOMAIN registry => (KdeHidden(x)' <=> KdeHidden(x))
      BY <1>2, <1>8, <2>2, <2>3 DEF KdeHidden
    <3> QED
      BY <1>2, <1>4, <1>5, <2>2, <3>1, <3>2
  <2> QED
    BY <2>5 DEF KdeSynced
<1> QED
  BY <1>2, <1>9, <1>10, <1>11, <1>12, <1>13, <1>14, <1>15, <1>16 DEF KdeInv

\* An action reaches the window it is for.
LEMMA KdeActs ==
  ASSUME KdeInv, requests # <<>>, Head(requests)[1] = "act", HandleRequest
  PROVE  KdeInv'
<1>1. PICK w \in 1..opened :
        /\ Head(requests) = <<"act", w, w>> /\ w \in HandleWindows
        /\ Taken(requests, Tail(requests), "act", w, w) /\ Asked("act", w)
  BY KdeRequest DEF RequestKinds
<1>2. /\ requests' = Tail(requests) /\ misdirected' = (misdirected \/ (w \in live /\ resources[w] # w))
      /\ UNCHANGED <<events, synced, absent, answered, resources, opened, live, skipping, protocol, registry, busy,
                     windowRows, selected, known>>
  <2>1. Head(requests)[1] = "act" /\ Head(requests)[2] = w /\ Head(requests)[3] = w
    BY <1>1
  <2>2. /\ requests' = Tail(requests)
        /\ misdirected' = (misdirected \/ (/\ Head(requests)[3] \in live
                                           /\ resources[Head(requests)[2]] # Head(requests)[3]))
        /\ UNCHANGED <<events, synced, absent, resources, opened, live, skipping, clientVars>>
    BY <2>1 DEF HandleRequest
  <2> QED
    BY <2>1, <2>2 DEF clientVars, tripVars
<1>3. ~misdirected'
  BY <1>1, <1>2 DEF KdeInv, KdeRequests, KdeHandles, KdeRows
<1>4. /\ requests' \in Seq(Messages)
      /\ \A other, x : other # "act" => (Asked(other, x)' <=> Asked(other, x))
      /\ \A other, x : Asked(other, x)' => Asked(other, x)
      /\ \A a, b, x : AskedTwice(a, b, x)' => AskedTwice(a, b, x)
      /\ \A a, k, x : HasMsg(requests', a, k, x) => HasMsg(requests, a, k, x)
      /\ HasMsg(requests', "sync", NoWindow, NoWindow) <=> HasMsg(requests, "sync", NoWindow, NoWindow)
      /\ HasOrder(requests', "sync", NoWindow, NoWindow, "sync", NoWindow, NoWindow) =>
           HasOrder(requests, "sync", NoWindow, NoWindow, "sync", NoWindow, NoWindow)
      /\ \A x : HasOrder(requests', "sync", NoWindow, NoWindow, "get", x, x) =>
           HasOrder(requests, "sync", NoWindow, NoWindow, "get", x, x)
  BY <1>1, <1>2, Handled
<1>5. \A other, x : Coming(other, x)' <=> Coming(other, x)
  BY <1>2 DEF Coming
<1>6. ToplevelTypeOK' /\ OneRoundTrip'
  <2>1. ToplevelTypeOK'
    BY <1>2, <1>4 DEF KdeInv, ToplevelTypeOK
  <2>2. OneRoundTrip'
    BY <1>2, <1>4, TripStays DEF KdeInv
  <2> QED
    BY <2>1, <2>2
<1>7. KdeHandles' /\ KdeNumbers'
  BY <1>2, <1>4, <1>5 DEF KdeInv, KdeHandles, KdeNumbers
<1>8. KdeEvents'
  BY <1>2, <1>5 DEF KdeInv, KdeEvents, ComingTwice
<1>9. KdeRequests'
  BY <1>2, <1>4 DEF KdeInv, KdeRequests
<1>10. KdeRegistry'
  BY <1>2, <1>4, <1>5 DEF KdeInv, KdeRegistry
<1>11. KdeRows'
  BY <1>2, <1>3, <1>4, <1>5 DEF KdeInv, KdeRows, RowOfWindow
<1>12. KdeSynced'
  BY <1>2 DEF KdeInv, KdeSynced, KdeHidden, KdeEarly, ComingFirst, Coming, ComingTwice, Answering
<1> QED
  BY <1>2, <1>6, <1>7, <1>8, <1>9, <1>10, <1>11, <1>12 DEF KdeInv

-----------------------------------------------------------------------------
(* KDE: what is dispatched.                                                *)

LEMMA KdeTakes ==
  ASSUME KdeInv, Dispatch
  PROVE  \E w \in 1..opened, kind \in {"uuid", "skip", "done", "closed"} :
           /\ Head(events) = <<kind, w, w>> /\ w \in HandleWindows
           /\ Taken(events, events', kind, w, w) /\ Coming(kind, w)
           /\ UNCHANGED <<protocol, opened, live, skipping, resources, busy, windowRows, selected,
                          synced, absent, answered, known, misdirected>>
<1> DEFINE kind == Head(events)[1]
           key == Head(events)[2]
           w == Head(events)[3]
<1>1. /\ events # <<>> /\ events \in Seq(Messages) /\ events' = Tail(events)
      /\ UNCHANGED <<protocol, opened, live, skipping, resources, busy, windowRows, selected, synced, absent, answered,
                     known, misdirected>>
      /\ kind \in EventKinds
  BY DEF KdeInv, ToplevelTypeOK, Dispatch, DispatchToplevel, DispatchWindowWithUuid, DispatchDone,
         DispatchKdeWindow, DispatchClosed, EventKinds
<1>2. Head(events) = <<kind, key, w>> /\ key \in HandleKeys /\ w \in HandleWindows
  BY <1>1, HeadOf
<1>3. Taken(events, events', kind, key, w)
  BY <1>1, <1>2, TailTakes
<1>4. HasMsg(events, kind, key, w)
  BY <1>3 DEF Taken
<1>5. key = w /\ w \in 1..opened
  BY <1>1, <1>2, <1>4 DEF KdeInv, KdeNumbers
<1>6. kind # "toplevel"
  <2> SUFFICES ASSUME kind = "toplevel" PROVE FALSE
    OBVIOUS
  <2>1. Coming("toplevel", w)
    BY <1>4, <1>5 DEF Coming
  <2> QED
    BY <1>2, <2>1 DEF KdeInv, KdeEvents
<1>7. kind \in {"uuid", "skip", "done", "closed"}
  BY <1>1, <1>6 DEF EventKinds
<1>8. Coming(kind, w)
  BY <1>4, <1>5 DEF Coming
<1>9. Head(events) = <<kind, w, w>> /\ Taken(events, events', kind, w, w)
  BY <1>2, <1>3, <1>5
<1> HIDE DEF kind, w
<1> QED
  BY <1>1, <1>2, <1>5, <1>7, <1>8, <1>9

\* A UUID: the window is registered, and its handle requested.
LEMMA KdeDispatchesUuid ==
  ASSUME KdeInv, NEW w \in 1..opened, w \in HandleWindows,
         Taken(events, events', "uuid", w, w), Coming("uuid", w),
         registry' = With(registry, w, [window |-> w, ready |-> FALSE, skip |-> FALSE]),
         Sent(requests, requests', "get", w, w),
         UNCHANGED <<protocol, opened, live, skipping, resources, busy, windowRows, selected,
                     synced, absent, answered, known, misdirected>>
  PROVE  KdeInv'
<1>1. /\ events' \in Seq(Messages)
      /\ \A other, x : Coming(other, x) <=> Coming(other, x)' \/ (other = "uuid" /\ x = w)
      /\ \A a, b, x : ComingTwice(a, b, x) <=>
           ComingTwice(a, b, x)' \/ (Coming(b, x)' /\ a = "uuid" /\ x = w)
      /\ \A a, k, x : HasMsg(events, a, k, x) <=> HasMsg(events', a, k, x) \/ (a = "uuid" /\ k = w /\ x = w)
      /\ HasMsg(events', "synced", NoWindow, NoWindow) <=> HasMsg(events, "synced", NoWindow, NoWindow)
      /\ HasOrder(events', "synced", NoWindow, NoWindow, "synced", NoWindow, NoWindow) <=>
           HasOrder(events, "synced", NoWindow, NoWindow, "synced", NoWindow, NoWindow)
      /\ \A other, x : ComingFirst(other, x) <=> ComingFirst(other, x)' \/ (other = "uuid" /\ x = w)
  BY Arrives
<1>2. /\ requests' \in Seq(Messages)
      /\ \A other, x : Asked(other, x)' <=> Asked(other, x) \/ (other = "get" /\ x = w)
      /\ \A a, b, x : AskedTwice(a, b, x)' <=>
           AskedTwice(a, b, x) \/ (Asked(a, x) /\ b = "get" /\ x = w)
      /\ \A a, k, x : HasMsg(requests', a, k, x) <=> HasMsg(requests, a, k, x) \/ (a = "get" /\ k = w /\ x = w)
      /\ HasMsg(requests', "sync", NoWindow, NoWindow) <=> HasMsg(requests, "sync", NoWindow, NoWindow)
      /\ HasOrder(requests', "sync", NoWindow, NoWindow, "sync", NoWindow, NoWindow) <=>
           HasOrder(requests, "sync", NoWindow, NoWindow, "sync", NoWindow, NoWindow)
      /\ \A x : HasOrder(requests', "sync", NoWindow, NoWindow, "get", x, x) <=>
           \/ HasOrder(requests, "sync", NoWindow, NoWindow, "get", x, x)
           \/ HasMsg(requests, "sync", NoWindow, NoWindow) /\ x = w
  BY Asks
<1>3. /\ DOMAIN registry' = DOMAIN registry \cup {w}
      /\ registry'[w] = [window |-> w, ready |-> FALSE, skip |-> FALSE]
      /\ \A k \in DOMAIN registry : k # w => registry'[k] = registry[k]
  BY DEF With
<1>4. /\ w \notin DOMAIN registry /\ w \notin DOMAIN resources /\ w \notin known /\ ~Coming("uuid", w)'
      /\ ~Asked("get", w) /\ ~Asked("destroy", w)
  <2>1. /\ w \notin DOMAIN registry /\ w \notin DOMAIN resources /\ w \notin known
        /\ ~ComingTwice("uuid", "uuid", w)
    BY DEF KdeInv, KdeEvents
  <2>2. ~Asked("get", w) /\ ~Asked("destroy", w)
    BY <2>1 DEF KdeInv, KdeRequests
  <2> QED
    BY <1>1, <2>1, <2>2
<1>5. ToplevelTypeOK' /\ OneRoundTrip'
  <2>1. w \in HandleKeys
    BY KdeWindows
  <2>2. \A k \in DOMAIN registry' : registry'[k] \in Handle
    <3>1. registry'[w] \in Handle
      <4>1. [window |-> w, ready |-> FALSE, skip |-> FALSE] \in Handle
        BY Zenon DEF Handle
      <4> QED
        BY <1>3, <4>1
    <3>2. \A k \in DOMAIN registry' : k = w \/ (k \in DOMAIN registry /\ registry'[k] = registry[k])
      BY <1>3
    <3>3. \A k \in DOMAIN registry : registry[k] \in Handle
      BY DEF KdeInv, ToplevelTypeOK
    <3> QED
      BY <3>1, <3>2, <3>3
  <2>3. ToplevelTypeOK'
    BY <1>1, <1>2, <1>3, <2>1, <2>2 DEF KdeInv, ToplevelTypeOK
  <2>4. OneRoundTrip'
    BY <1>1, <1>2, TripStays DEF KdeInv
  <2> QED
    BY <2>3, <2>4
<1>6. KdeHandles'
  <2>1. \A x \in live : x \in DOMAIN registry' \/ Coming("uuid", x)'
    BY <1>1, <1>3 DEF KdeInv, KdeHandles
  <2>2. \A x \in DOMAIN registry' : x \in 1..opened /\ registry'[x].window = x
    <3>1. \A x \in DOMAIN registry : x \in 1..opened /\ registry[x].window = x
      BY DEF KdeInv, KdeHandles
    <3>2. registry'[w].window = w
      BY <1>3
    <3>3. \A x \in DOMAIN registry' : x = w \/ (x \in DOMAIN registry /\ registry'[x] = registry[x])
      BY <1>3
    <3> QED
      BY <3>1, <3>2, <3>3
  <2> QED
    BY <2>1, <2>2 DEF KdeInv, KdeHandles
<1>7. KdeNumbers'
  BY <1>1, <1>2 DEF KdeInv, KdeNumbers
<1>8. KdeEvents'
  <2> SUFFICES ASSUME NEW x \in HandleWindows
               PROVE  /\ ~Coming("toplevel", x)'
                      /\ Coming("uuid", x)' => /\ x \notin DOMAIN registry' /\ x \notin DOMAIN resources'
                                               /\ x \notin known' /\ ~ComingTwice("uuid", "uuid", x)'
                      /\ \A kind \in {"skip", "done", "closed"} :
                           Coming(kind, x)' => x \in DOMAIN registry' /\ x \in DOMAIN resources'
                      /\ \A kind \in EventKinds : ~ComingTwice("closed", kind, x)'
    BY DEF KdeEvents
  <2>1. /\ ~Coming("toplevel", x)
        /\ Coming("uuid", x) => /\ x \notin DOMAIN registry /\ x \notin DOMAIN resources /\ x \notin known
                                /\ ~ComingTwice("uuid", "uuid", x)
        /\ \A kind \in {"skip", "done", "closed"} :
             Coming(kind, x) => x \in DOMAIN registry /\ x \in DOMAIN resources
        /\ \A kind \in EventKinds : ~ComingTwice("closed", kind, x)
    BY DEF KdeInv, KdeEvents
  <2> QED
    BY <1>1, <1>3, <1>4, <2>1
<1>9. KdeRequests'
  <2> SUFFICES ASSUME NEW x \in HandleWindows
               PROVE  /\ Asked("get", x)' =>
                           /\ x \in DOMAIN registry' /\ x \notin DOMAIN resources'
                           /\ ~AskedTwice("get", "get", x)'
                           /\ x \in known' => ~HasOrder(requests', "sync", NoWindow, NoWindow, "get", x, x)
                      /\ Asked("destroy", x)' =>
                           /\ x \notin DOMAIN registry' /\ x \in DOMAIN resources' /\ x \notin live'
                           /\ ~AskedTwice("destroy", "destroy", x)'
                      /\ Asked("act", x)' => x \in DOMAIN resources' /\ ~AskedTwice("destroy", "act", x)'
    BY DEF KdeRequests
  <2>1. /\ Asked("get", x) =>
             /\ x \in DOMAIN registry /\ x \notin DOMAIN resources
             /\ ~AskedTwice("get", "get", x)
             /\ x \in known => ~HasOrder(requests, "sync", NoWindow, NoWindow, "get", x, x)
        /\ Asked("destroy", x) =>
             /\ x \notin DOMAIN registry /\ x \in DOMAIN resources /\ x \notin live
             /\ ~AskedTwice("destroy", "destroy", x)
        /\ Asked("act", x) => x \in DOMAIN resources /\ ~AskedTwice("destroy", "act", x)
    BY DEF KdeInv, KdeRequests
  <2>2. CASE x = w
    <3>1. ~AskedTwice("get", "get", w)
      BY <1>4, OrderHas DEF AskedTwice, Asked
    <3> QED
      BY <1>2, <1>3, <1>4, <2>1, <2>2, <3>1
  <2>3. CASE x # w
    BY <1>2, <1>3, <2>1, <2>3
  <2> QED
    BY <2>2, <2>3
<1>10. KdeRegistry'
  <2>1. ASSUME NEW x \in DOMAIN registry'
        PROVE  x \in DOMAIN resources' \/ (Asked("get", x)' /\ ~registry'[x].ready /\ ~registry'[x].skip)
    <3>1. CASE x = w
      BY <1>2, <1>3, <3>1
    <3>2. CASE x # w
      BY <1>2, <1>3, <2>1, <3>2 DEF KdeInv, KdeRegistry
    <3> QED
      BY <3>1, <3>2
  <2>2. ASSUME NEW x \in DOMAIN resources'
        PROVE  /\ x \in DOMAIN registry' \/ Asked("destroy", x)'
               /\ x \in DOMAIN registry' =>
                    /\ x \in live' <=> ~Coming("closed", x)'
                    /\ x \in live' => /\ registry'[x].ready \/ Coming("done", x)'
                                      /\ x \in skipping' <=> registry'[x].skip \/ Coming("skip", x)'
    <3>1. x # w
      BY <1>4, <2>2
    <3> QED
      BY <1>1, <1>2, <1>3, <2>2, <3>1 DEF KdeInv, KdeRegistry
  <2> QED
    BY <2>1, <2>2 DEF KdeRegistry
<1>11. KdeRows'
  <2>1. \A r : RowOfWindow(r) => r[1] = r[2] /\ r[1] \in 1..opened /\ ~Asked("get", r[1])' /\ ~Coming("uuid", r[1])'
    BY <1>1, <1>2 DEF RowOfWindow
  <2> QED
    BY <2>1 DEF KdeInv, KdeRows, RowOfWindow
<1>12. KdeSynced'
  <2> SUFFICES ASSUME Answering' PROVE KdeSynced'
    BY DEF KdeSynced
  <2>1. Answering
    BY <1>1 DEF Answering
  <2>2. \A other, x : KdeEarly(other, x) <=> KdeEarly(other, x)' \/ (~answered /\ other = "uuid" /\ x = w)
    BY <1>1 DEF KdeEarly
  <2>3. ~KdeEarly("done", w) /\ ~Coming("done", w)
    <3>1. ~Coming("done", w)
      BY <1>4 DEF KdeInv, KdeEvents
    <3> QED
      BY <3>1, OrderHas DEF KdeEarly, ComingFirst, Coming
  <2>5. ASSUME NEW x \in HandleWindows
        PROVE  /\ x \in absent' => x \notin live' \/ x \in skipping'
               /\ x \in absent' /\ x \in DOMAIN registry' => KdeHidden(x)'
               /\ x \in synced' /\ x \in known' /\ x \in live' =>
                    /\ x \in DOMAIN registry' /\ x \in DOMAIN resources'
                    /\ registry'[x].ready \/ KdeEarly("done", x)'
    <3>1. /\ x \in absent => x \notin live \/ x \in skipping
          /\ x \in absent /\ x \in DOMAIN registry => KdeHidden(x)
          /\ x \in synced /\ x \in known /\ x \in live =>
               /\ x \in DOMAIN registry /\ x \in DOMAIN resources
               /\ registry[x].ready \/ KdeEarly("done", x)
      BY <2>1, <2>5 DEF KdeInv, KdeSynced
    <3>2. CASE x = w
      <4>1. KdeHidden(w)'
        BY <1>1, <1>3, <2>2, <2>3 DEF KdeHidden
      <4> QED
        BY <1>4, <3>1, <3>2, <4>1
    <3>3. CASE x # w
      <4>1. /\ \A kind : Coming(kind, x)' <=> Coming(kind, x)
            /\ ComingTwice("done", "skip", x)' <=> ComingTwice("done", "skip", x)
            /\ \A kind : KdeEarly(kind, x)' <=> KdeEarly(kind, x)
        BY <1>1, <2>2, <3>3
      <4>2. x \in DOMAIN registry' => x \in DOMAIN registry /\ registry'[x] = registry[x]
        BY <1>3, <3>3
      <4>3. x \in DOMAIN registry /\ KdeHidden(x) => KdeHidden(x)'
        BY <1>3, <3>3, <4>1 DEF KdeHidden
      <4> QED
        BY <1>3, <3>1, <3>3, <4>1, <4>2, <4>3
    <3> QED
      BY <3>2, <3>3
  <2> QED
    BY <2>5 DEF KdeSynced
<1> QED
  BY <1>5, <1>6, <1>7, <1>8, <1>9, <1>10, <1>11, <1>12 DEF KdeInv

\* The state of a registered window, or that it is complete.
LEMMA KdeDispatchesState ==
  ASSUME KdeInv, NEW w \in 1..opened, w \in HandleWindows, NEW kind \in {"skip", "done"},
         Taken(events, events', kind, w, w), Coming(kind, w),
         w \in DOMAIN registry =>
           registry' = IF kind = "skip" THEN [registry EXCEPT ![w].skip = TRUE]
                       ELSE [registry EXCEPT ![w].ready = TRUE],
         UNCHANGED <<requests, protocol, opened, live, skipping, resources, busy, windowRows, selected,
                     synced, absent, answered, known, misdirected>>
  PROVE  KdeInv'
<1>1. /\ events' \in Seq(Messages)
      /\ \A other, x : Coming(other, x) <=> Coming(other, x)' \/ (other = kind /\ x = w)
      /\ \A a, b, x : ComingTwice(a, b, x) <=>
           ComingTwice(a, b, x)' \/ (Coming(b, x)' /\ a = kind /\ x = w)
      /\ \A a, k, x : HasMsg(events, a, k, x) <=> HasMsg(events', a, k, x) \/ (a = kind /\ k = w /\ x = w)
      /\ HasMsg(events', "synced", NoWindow, NoWindow) <=> HasMsg(events, "synced", NoWindow, NoWindow)
      /\ HasOrder(events', "synced", NoWindow, NoWindow, "synced", NoWindow, NoWindow) <=>
           HasOrder(events, "synced", NoWindow, NoWindow, "synced", NoWindow, NoWindow)
      /\ \A other, x : ComingFirst(other, x) <=> ComingFirst(other, x)' \/ (other = kind /\ x = w)
  BY Arrives
<1>2. \A other, x : Asked(other, x)' <=> Asked(other, x)
  BY DEF Asked
<1>3. w \in DOMAIN registry /\ w \in DOMAIN resources
  BY DEF KdeInv, KdeEvents
<1>4. /\ DOMAIN registry' = DOMAIN registry
      /\ \A k \in DOMAIN registry : registry'[k] \in Handle /\ registry'[k].window = registry[k].window
      /\ \A k \in DOMAIN registry : k # w => registry'[k] = registry[k]
      /\ kind = "skip" => registry'[w].skip /\ (registry'[w].ready <=> registry[w].ready)
      /\ kind = "done" => registry'[w].ready /\ (registry'[w].skip <=> registry[w].skip)
  <2>1. \A k \in DOMAIN registry : registry[k] \in Handle
    BY DEF KdeInv, ToplevelTypeOK
  <2>2. CASE kind = "skip"
    <3>1. /\ DOMAIN registry' = DOMAIN registry
          /\ \A k \in DOMAIN registry : k # w => registry'[k] = registry[k]
          /\ registry'[w] = [registry[w] EXCEPT !.skip = TRUE]
      BY <1>3, <2>2
    <3>2. /\ registry'[w] \in Handle /\ registry'[w].window = registry[w].window
          /\ registry'[w].skip = TRUE /\ registry'[w].ready = registry[w].ready
      BY <1>3, <2>1, <3>1 DEF Handle
    <3> QED
      BY <2>1, <2>2, <3>1, <3>2
  <2>3. CASE kind = "done"
    <3>1. /\ DOMAIN registry' = DOMAIN registry
          /\ \A k \in DOMAIN registry : k # w => registry'[k] = registry[k]
          /\ registry'[w] = [registry[w] EXCEPT !.ready = TRUE]
      BY <1>3, <2>3
    <3>2. /\ registry'[w] \in Handle /\ registry'[w].window = registry[w].window
          /\ registry'[w].ready = TRUE /\ registry'[w].skip = registry[w].skip
      BY <1>3, <2>1, <3>1 DEF Handle
    <3> QED
      BY <2>1, <2>3, <3>1, <3>2
  <2> QED
    BY <2>2, <2>3
<1>5. ToplevelTypeOK' /\ OneRoundTrip'
  <2>1. ToplevelTypeOK'
    BY <1>1, <1>4 DEF KdeInv, ToplevelTypeOK
  <2>2. OneRoundTrip'
    BY <1>1, TripStays DEF KdeInv
  <2> QED
    BY <2>1, <2>2
<1>6. KdeHandles'
  <2>1. \A x \in live : x \in DOMAIN registry \/ Coming("uuid", x)'
    BY <1>1 DEF KdeInv, KdeHandles
  <2> QED
    BY <1>4, <2>1 DEF KdeInv, KdeHandles
<1>7. KdeNumbers'
  BY <1>1 DEF KdeInv, KdeNumbers
<1>8. KdeEvents'
  <2>1. /\ \A other, x : Coming(other, x)' => Coming(other, x)
        /\ \A a, b, x : ComingTwice(a, b, x)' => ComingTwice(a, b, x)
    BY <1>1
  <2> QED
    BY <1>4, <2>1 DEF KdeInv, KdeEvents
<1>9. KdeRequests'
  BY <1>2, <1>4 DEF KdeInv, KdeRequests, AskedTwice
<1>10. KdeRegistry'
  <2>1. ASSUME NEW x \in DOMAIN registry'
        PROVE  x \in DOMAIN resources' \/ (Asked("get", x)' /\ ~registry'[x].ready /\ ~registry'[x].skip)
    BY <1>2, <1>3, <1>4, <2>1 DEF KdeInv, KdeRegistry
  <2>2. ASSUME NEW x \in DOMAIN resources'
        PROVE  /\ x \in DOMAIN registry' \/ Asked("destroy", x)'
               /\ x \in DOMAIN registry' =>
                    /\ x \in live' <=> ~Coming("closed", x)'
                    /\ x \in live' => /\ registry'[x].ready \/ Coming("done", x)'
                                      /\ x \in skipping' <=> registry'[x].skip \/ Coming("skip", x)'
    <3>1. /\ x \in DOMAIN registry \/ Asked("destroy", x)
          /\ x \in DOMAIN registry =>
               /\ x \in live <=> ~Coming("closed", x)
               /\ x \in live => /\ registry[x].ready \/ Coming("done", x)
                                /\ x \in skipping <=> registry[x].skip \/ Coming("skip", x)
      BY <2>2 DEF KdeInv, KdeRegistry
    <3>2. Coming("closed", x)' <=> Coming("closed", x)
      BY <1>1
    <3>3. CASE x # w
      BY <1>1, <1>2, <1>4, <3>1, <3>2, <3>3
    <3>4. CASE x = w /\ kind = "skip"
      <4>1. (Coming("done", x)' <=> Coming("done", x)) /\ Coming("skip", x)
        BY <1>1, <3>4
      <4> QED
        BY <1>2, <1>3, <1>4, <3>1, <3>2, <3>4, <4>1
    <3>5. CASE x = w /\ kind = "done"
      <4>1. Coming("skip", x)' <=> Coming("skip", x)
        BY <1>1, <3>5
      <4> QED
        BY <1>2, <1>3, <1>4, <3>1, <3>2, <3>5, <4>1
    <3> QED
      BY <3>3, <3>4, <3>5
  <2> QED
    BY <2>1, <2>2 DEF KdeRegistry
<1>11. KdeRows'
  <2>1. \A r : RowOfWindow(r) => r[1] = r[2] /\ r[1] \in 1..opened /\ ~Asked("get", r[1])' /\ ~Coming("uuid", r[1])'
    BY <1>1, <1>2 DEF RowOfWindow
  <2> QED
    BY <2>1 DEF KdeInv, KdeRows, RowOfWindow
<1>12. KdeSynced'
  <2> SUFFICES ASSUME Answering' PROVE KdeSynced'
    BY DEF KdeSynced
  <2>1. Answering
    BY <1>1 DEF Answering
  <2>2. \A other, x : KdeEarly(other, x) <=> KdeEarly(other, x)' \/ (~answered /\ other = kind /\ x = w)
    BY <1>1 DEF KdeEarly
  <2>5. ASSUME NEW x \in HandleWindows
        PROVE  /\ x \in absent' => x \notin live' \/ x \in skipping'
               /\ x \in absent' /\ x \in DOMAIN registry' => KdeHidden(x)'
               /\ x \in synced' /\ x \in known' /\ x \in live' =>
                    /\ x \in DOMAIN registry' /\ x \in DOMAIN resources'
                    /\ registry'[x].ready \/ KdeEarly("done", x)'
    <3>1. /\ x \in absent => x \notin live \/ x \in skipping
          /\ x \in absent /\ x \in DOMAIN registry => KdeHidden(x)
          /\ x \in synced /\ x \in known /\ x \in live =>
               /\ x \in DOMAIN registry /\ x \in DOMAIN resources
               /\ registry[x].ready \/ KdeEarly("done", x)
      BY <2>1, <2>5 DEF KdeInv, KdeSynced
    <3>2. CASE x # w
      <4>1. /\ \A other : Coming(other, x)' <=> Coming(other, x)
            /\ ComingTwice("done", "skip", x)' <=> ComingTwice("done", "skip", x)
            /\ \A other : KdeEarly(other, x)' <=> KdeEarly(other, x)
        BY <1>1, <2>2, <3>2
      <4>2. x \in DOMAIN registry /\ KdeHidden(x) => KdeHidden(x)'
        BY <1>4, <3>2, <4>1 DEF KdeHidden
      <4> QED
        BY <1>4, <3>1, <3>2, <4>1, <4>2
    <3>3. CASE x = w /\ kind = "skip"
      <4>1. registry'[w].skip /\ (registry'[w].ready <=> registry[w].ready)
        BY <1>4, <3>3
      <4>2. KdeHidden(w)'
        BY <4>1 DEF KdeHidden
      <4>3. KdeEarly("done", w)' <=> KdeEarly("done", w)
        BY <2>2, <3>3
      <4> QED
        BY <1>4, <3>1, <3>3, <4>1, <4>2, <4>3
    <3>4. CASE x = w /\ kind = "done"
      <4>1. /\ registry'[w].ready /\ (registry'[w].skip <=> registry[w].skip)
            /\ KdeEarly("skip", w)' <=> KdeEarly("skip", w)
            /\ KdeEarly("closed", w)' <=> KdeEarly("closed", w)
        BY <1>4, <2>2, <3>4
      <4>2. Coming("skip", w) => ComingTwice("done", "skip", w)
        BY <1>1, <3>4
      <4>3. ASSUME KdeHidden(w) PROVE KdeHidden(w)'
        <5>1. registry[w].skip \/ KdeEarly("skip", w) \/ KdeEarly("closed", w)
          BY <3>4, <4>2, <4>3 DEF KdeHidden
        <5> QED
          BY <4>1, <5>1 DEF KdeHidden
      <4> QED
        BY <1>3, <1>4, <3>1, <3>4, <4>1, <4>3
    <3> QED
      BY <3>2, <3>3, <3>4
  <2> QED
    BY <2>5 DEF KdeSynced
<1> QED
  BY <1>5, <1>6, <1>7, <1>8, <1>9, <1>10, <1>11, <1>12 DEF KdeInv

\* A window has closed: it is forgotten, and its handle is to be destroyed.
LEMMA KdeDispatchesClosed ==
  ASSUME KdeInv, NEW w \in 1..opened, w \in HandleWindows,
         Taken(events, events', "closed", w, w), Coming("closed", w),
         w \in DOMAIN registry => registry' = Without(registry, w) /\ Sent(requests, requests', "destroy", w, w),
         UNCHANGED <<protocol, opened, live, skipping, resources, busy, windowRows, selected,
                     synced, absent, answered, known, misdirected>>
  PROVE  KdeInv'
<1>1. /\ events' \in Seq(Messages)
      /\ \A other, x : Coming(other, x) <=> Coming(other, x)' \/ (other = "closed" /\ x = w)
      /\ \A a, b, x : ComingTwice(a, b, x) <=>
           ComingTwice(a, b, x)' \/ (Coming(b, x)' /\ a = "closed" /\ x = w)
      /\ \A a, k, x : HasMsg(events, a, k, x) <=> HasMsg(events', a, k, x) \/ (a = "closed" /\ k = w /\ x = w)
      /\ HasMsg(events', "synced", NoWindow, NoWindow) <=> HasMsg(events, "synced", NoWindow, NoWindow)
      /\ HasOrder(events', "synced", NoWindow, NoWindow, "synced", NoWindow, NoWindow) <=>
           HasOrder(events, "synced", NoWindow, NoWindow, "synced", NoWindow, NoWindow)
      /\ \A other, x : ComingFirst(other, x) <=> ComingFirst(other, x)' \/ (other = "closed" /\ x = w)
  BY Arrives
<1>2. w \in DOMAIN registry /\ w \in DOMAIN resources
  BY DEF KdeInv, KdeEvents
<1>3. /\ requests' \in Seq(Messages)
      /\ \A other, x : Asked(other, x)' <=> Asked(other, x) \/ (other = "destroy" /\ x = w)
      /\ \A a, b, x : AskedTwice(a, b, x)' <=>
           AskedTwice(a, b, x) \/ (Asked(a, x) /\ b = "destroy" /\ x = w)
      /\ \A a, k, x : HasMsg(requests', a, k, x)
                        <=> HasMsg(requests, a, k, x) \/ (a = "destroy" /\ k = w /\ x = w)
      /\ HasMsg(requests', "sync", NoWindow, NoWindow) <=> HasMsg(requests, "sync", NoWindow, NoWindow)
      /\ HasOrder(requests', "sync", NoWindow, NoWindow, "sync", NoWindow, NoWindow) <=>
           HasOrder(requests, "sync", NoWindow, NoWindow, "sync", NoWindow, NoWindow)
      /\ \A x : HasOrder(requests', "sync", NoWindow, NoWindow, "get", x, x) <=>
           HasOrder(requests, "sync", NoWindow, NoWindow, "get", x, x)
  <2>1. Sent(requests, requests', "destroy", w, w)
    BY <1>2
  <2> QED
    BY <2>1, Asks
<1>4. /\ DOMAIN registry' = DOMAIN registry \ {w}
      /\ \A k \in DOMAIN registry' : registry'[k] = registry[k]
  <2>1. registry' = Without(registry, w)
    BY <1>2
  <2> QED
    BY <2>1 DEF Without, Restrict
<1>5. /\ w \notin live /\ ~Asked("destroy", w) /\ ~Asked("get", w)
      /\ \A kind \in EventKinds : ~Coming(kind, w)'
  <2>1. w \notin live
    BY <1>2 DEF KdeInv, KdeRegistry
  <2>2. ~Asked("destroy", w) /\ ~Asked("get", w)
    BY <1>2 DEF KdeInv, KdeRequests
  <2>3. \A kind \in EventKinds : ~Coming(kind, w)'
    BY <1>1 DEF KdeInv, KdeEvents
  <2> QED
    BY <2>1, <2>2, <2>3
<1>6. ToplevelTypeOK' /\ OneRoundTrip'
  <2>1. ToplevelTypeOK'
    BY <1>1, <1>3, <1>4 DEF KdeInv, ToplevelTypeOK
  <2>2. OneRoundTrip'
    BY <1>1, <1>3, TripStays DEF KdeInv
  <2> QED
    BY <2>1, <2>2
<1>7. KdeHandles'
  <2>1. \A x \in live : x \in DOMAIN registry' \/ Coming("uuid", x)'
    BY <1>1, <1>4, <1>5 DEF KdeInv, KdeHandles
  <2>2. \A x \in DOMAIN registry' : x \in 1..opened /\ registry'[x].window = x
    BY <1>4 DEF KdeInv, KdeHandles
  <2> QED
    BY <2>1, <2>2 DEF KdeInv, KdeHandles
<1>8. KdeNumbers'
  BY <1>1, <1>3 DEF KdeInv, KdeNumbers
<1>9. KdeEvents'
  <2> SUFFICES ASSUME NEW x \in HandleWindows
               PROVE  /\ ~Coming("toplevel", x)'
                      /\ Coming("uuid", x)' => /\ x \notin DOMAIN registry' /\ x \notin DOMAIN resources'
                                               /\ x \notin known' /\ ~ComingTwice("uuid", "uuid", x)'
                      /\ \A kind \in {"skip", "done", "closed"} :
                           Coming(kind, x)' => x \in DOMAIN registry' /\ x \in DOMAIN resources'
                      /\ \A kind \in EventKinds : ~ComingTwice("closed", kind, x)'
    BY DEF KdeEvents
  <2>1. /\ ~Coming("toplevel", x)
        /\ Coming("uuid", x) => /\ x \notin DOMAIN registry /\ x \notin DOMAIN resources /\ x \notin known
                                /\ ~ComingTwice("uuid", "uuid", x)
        /\ \A kind \in {"skip", "done", "closed"} :
             Coming(kind, x) => x \in DOMAIN registry /\ x \in DOMAIN resources
        /\ \A kind \in EventKinds : ~ComingTwice("closed", kind, x)
    BY DEF KdeInv, KdeEvents
  <2>2. \A kind \in {"skip", "done", "closed"} : Coming(kind, x)' => x # w
    BY <1>5 DEF EventKinds
  <2> QED
    BY <1>1, <1>4, <2>1, <2>2
<1>10. KdeRequests'
  <2> SUFFICES ASSUME NEW x \in HandleWindows
               PROVE  /\ Asked("get", x)' =>
                           /\ x \in DOMAIN registry' /\ x \notin DOMAIN resources'
                           /\ ~AskedTwice("get", "get", x)'
                           /\ x \in known' => ~HasOrder(requests', "sync", NoWindow, NoWindow, "get", x, x)
                      /\ Asked("destroy", x)' =>
                           /\ x \notin DOMAIN registry' /\ x \in DOMAIN resources' /\ x \notin live'
                           /\ ~AskedTwice("destroy", "destroy", x)'
                      /\ Asked("act", x)' => x \in DOMAIN resources' /\ ~AskedTwice("destroy", "act", x)'
    BY DEF KdeRequests
  <2>1. /\ Asked("get", x) =>
             /\ x \in DOMAIN registry /\ x \notin DOMAIN resources
             /\ ~AskedTwice("get", "get", x)
             /\ x \in known => ~HasOrder(requests, "sync", NoWindow, NoWindow, "get", x, x)
        /\ Asked("destroy", x) =>
             /\ x \notin DOMAIN registry /\ x \in DOMAIN resources /\ x \notin live
             /\ ~AskedTwice("destroy", "destroy", x)
        /\ Asked("act", x) => x \in DOMAIN resources /\ ~AskedTwice("destroy", "act", x)
    BY DEF KdeInv, KdeRequests
  <2>2. CASE x = w
    <3>1. ~AskedTwice("destroy", "destroy", w)
      BY <1>5, OrderHas DEF AskedTwice, Asked
    <3> QED
      BY <1>2, <1>3, <1>4, <1>5, <2>1, <2>2, <3>1
  <2>3. CASE x # w
    BY <1>3, <1>4, <2>1, <2>3
  <2> QED
    BY <2>2, <2>3
<1>11. KdeRegistry'
  <2>1. ASSUME NEW x \in DOMAIN registry'
        PROVE  x \in DOMAIN resources' \/ (Asked("get", x)' /\ ~registry'[x].ready /\ ~registry'[x].skip)
    BY <1>3, <1>4, <2>1 DEF KdeInv, KdeRegistry
  <2>2. ASSUME NEW x \in DOMAIN resources'
        PROVE  /\ x \in DOMAIN registry' \/ Asked("destroy", x)'
               /\ x \in DOMAIN registry' =>
                    /\ x \in live' <=> ~Coming("closed", x)'
                    /\ x \in live' => /\ registry'[x].ready \/ Coming("done", x)'
                                      /\ x \in skipping' <=> registry'[x].skip \/ Coming("skip", x)'
    <3>1. CASE x = w
      BY <1>3, <1>4, <3>1
    <3>2. CASE x # w
      <4>1. \A kind : Coming(kind, x)' <=> Coming(kind, x)
        BY <1>1, <3>2
      <4> QED
        BY <1>3, <1>4, <2>2, <3>2, <4>1 DEF KdeInv, KdeRegistry
    <3> QED
      BY <3>1, <3>2
  <2> QED
    BY <2>1, <2>2 DEF KdeRegistry
<1>12. KdeRows'
  <2>1. \A r : RowOfWindow(r) => r[1] = r[2] /\ r[1] \in 1..opened /\ ~Asked("get", r[1])' /\ ~Coming("uuid", r[1])'
    BY <1>1, <1>3 DEF RowOfWindow
  <2> QED
    BY <2>1 DEF KdeInv, KdeRows, RowOfWindow
<1>13. KdeSynced'
  <2> SUFFICES ASSUME Answering' PROVE KdeSynced'
    BY DEF KdeSynced
  <2>1. Answering
    BY <1>1 DEF Answering
  <2>2. \A other, x : KdeEarly(other, x) <=> KdeEarly(other, x)' \/ (~answered /\ other = "closed" /\ x = w)
    BY <1>1 DEF KdeEarly
  <2>5. ASSUME NEW x \in HandleWindows
        PROVE  /\ x \in absent' => x \notin live' \/ x \in skipping'
               /\ x \in absent' /\ x \in DOMAIN registry' => KdeHidden(x)'
               /\ x \in synced' /\ x \in known' /\ x \in live' =>
                    /\ x \in DOMAIN registry' /\ x \in DOMAIN resources'
                    /\ registry'[x].ready \/ KdeEarly("done", x)'
    <3>1. /\ x \in absent => x \notin live \/ x \in skipping
          /\ x \in absent /\ x \in DOMAIN registry => KdeHidden(x)
          /\ x \in synced /\ x \in known /\ x \in live =>
               /\ x \in DOMAIN registry /\ x \in DOMAIN resources
               /\ registry[x].ready \/ KdeEarly("done", x)
      BY <2>1, <2>5 DEF KdeInv, KdeSynced
    <3>2. CASE x # w
      <4>1. /\ \A other : Coming(other, x)' <=> Coming(other, x)
            /\ ComingTwice("done", "skip", x)' <=> ComingTwice("done", "skip", x)
            /\ \A other : KdeEarly(other, x)' <=> KdeEarly(other, x)
        BY <1>1, <2>2, <3>2
      <4>2. x \in DOMAIN registry <=> x \in DOMAIN registry'
        BY <1>4, <3>2
      <4>3. x \in DOMAIN registry /\ KdeHidden(x) => KdeHidden(x)'
        BY <1>4, <4>1, <4>2 DEF KdeHidden
      <4> QED
        BY <1>4, <3>1, <4>1, <4>2, <4>3
    <3>3. CASE x = w
      BY <1>4, <1>5, <3>1, <3>3
    <3> QED
      BY <3>2, <3>3
  <2> QED
    BY <2>5 DEF KdeSynced
<1> QED
  BY <1>6, <1>7, <1>8, <1>9, <1>10, <1>11, <1>12, <1>13 DEF KdeInv

LEMMA KdeDispatches ==
  ASSUME KdeInv, Dispatch
  PROVE  KdeInv'
<1>1. PICK w \in 1..opened, kind \in {"uuid", "skip", "done", "closed"} :
        /\ Head(events) = <<kind, w, w>> /\ w \in HandleWindows
        /\ Taken(events, events', kind, w, w) /\ Coming(kind, w)
        /\ UNCHANGED <<protocol, opened, live, skipping, resources, busy, windowRows, selected,
                       synced, absent, answered, known, misdirected>>
  BY KdeTakes
<1>2. Head(events)[1] = kind /\ Head(events)[2] = w /\ Head(events)[3] = w
  BY <1>1
<1>3. protocol = "kde" /\ requests \in Seq(Messages) /\ w \in HandleKeys
  BY KdeWindows DEF KdeInv
<1>4. DispatchToplevel \/ DispatchWindowWithUuid \/ DispatchDone \/ DispatchKdeWindow \/ DispatchClosed
  BY DEF Dispatch
<1>5. ~DispatchToplevel /\ ~DispatchDone
  BY <1>2, <1>3 DEF DispatchToplevel, DispatchDone
<1>6. CASE DispatchWindowWithUuid
  <2>1. /\ kind = "uuid" /\ registry' = With(registry, w, [window |-> w, ready |-> FALSE, skip |-> FALSE])
        /\ requests' = Append(requests, <<"get", w, w>>)
    BY <1>2, <1>6 DEF DispatchWindowWithUuid
  <2>2. Sent(requests, requests', "get", w, w)
    BY <1>1, <1>3, <2>1, Sendable, AppendSends DEF RequestKinds
  <2> QED
    BY <1>1, <2>1, <2>2, KdeDispatchesUuid
<1>7. CASE DispatchKdeWindow
  <2>1. /\ kind \in {"skip", "done"} /\ requests' = requests
        /\ w \in DOMAIN registry =>
             registry' = IF kind = "skip" THEN [registry EXCEPT ![w].skip = TRUE]
                         ELSE [registry EXCEPT ![w].ready = TRUE]
    BY <1>2, <1>7 DEF DispatchKdeWindow
  <2> QED
    BY <1>1, <2>1, KdeDispatchesState
<1>8. CASE DispatchClosed
  <2>1. /\ kind = "closed"
        /\ w \in DOMAIN registry =>
             registry' = Without(registry, w) /\ requests' = Append(requests, <<"destroy", w, w>>)
    BY <1>2, <1>8 DEF DispatchClosed
  <2>2. w \in DOMAIN registry => Sent(requests, requests', "destroy", w, w)
    BY <1>1, <1>3, <2>1, Sendable, AppendSends DEF RequestKinds
  <2> QED
    BY <1>1, <2>1, <2>2, KdeDispatchesClosed
<1> QED
  BY <1>4, <1>5, <1>6, <1>7, <1>8

-----------------------------------------------------------------------------
(* KDE: sampling, acting, and every step.                                  *)

LEMMA KdeStarts ==
  ASSUME KdeInv, StartSample
  PROVE  KdeInv'
<1>1. /\ ToplevelTypeOK' /\ OneRoundTrip'
      /\ Sent(requests, requests', "sync", NoWindow, NoWindow)
      /\ ~HasMsg(events, "synced", NoWindow, NoWindow)
      /\ UNCHANGED <<protocol, opened, live, skipping, resources, registry, misdirected, events,
                     windowRows, selected, synced, absent, answered, known>>
  BY Starts DEF KdeInv, restVars
<1>2. /\ \A kind, k, w : kind # "sync" => (HasMsg(requests', kind, k, w) <=> HasMsg(requests, kind, k, w))
      /\ \A kind, w : kind # "sync" => (Asked(kind, w)' <=> Asked(kind, w))
      /\ \A kind, other, w : other # "sync" => (AskedTwice(kind, other, w)' <=> AskedTwice(kind, other, w))
      /\ \A w : HasOrder(requests', "sync", NoWindow, NoWindow, "get", w, w) <=>
           HasOrder(requests, "sync", NoWindow, NoWindow, "get", w, w)
  BY <1>1 DEF Sent, Asked, AskedTwice
<1>3. \A kind, w : Coming(kind, w)' <=> Coming(kind, w)
  BY <1>1 DEF Coming
<1>4. KdeHandles' /\ KdeEvents'
  BY <1>1, <1>3 DEF KdeInv, KdeHandles, KdeEvents, ComingTwice
<1>5. KdeNumbers'
  BY <1>1, <1>2 DEF KdeInv, KdeNumbers, EventKinds, RequestKinds
<1>6. KdeRequests'
  BY <1>1, <1>2 DEF KdeInv, KdeRequests
<1>7. KdeRegistry' /\ KdeRows'
  BY <1>1, <1>2, <1>3 DEF KdeInv, KdeRegistry, KdeRows, RowOfWindow
<1>8. KdeSynced'
  BY <1>1 DEF KdeInv, KdeSynced, KdeHidden, KdeEarly, ComingFirst, Coming, ComingTwice, Answering
<1> QED
  BY <1>1, <1>4, <1>5, <1>6, <1>7, <1>8 DEF KdeInv

\* The answer is dispatched.
LEMMA KdeDispatchesAnswer ==
  ASSUME KdeInv, DispatchAnswer
  PROVE  KdeInv'
<1>1. /\ ToplevelTypeOK' /\ OneRoundTrip' /\ Answering /\ answered'
      /\ Taken(events, events', "synced", NoWindow, NoWindow)
      /\ \A kind, k, w : ~Early(kind, k, w) /\ ~Early(kind, k, w)'
      /\ UNCHANGED <<protocol, opened, live, skipping, resources, registry, misdirected, requests,
                     windowRows, selected, synced, absent, known>>
  BY Answers DEF KdeInv, restVars
<1>2. /\ \A kind, k, w : kind # "synced" => (HasMsg(events', kind, k, w) <=> HasMsg(events, kind, k, w))
      /\ \A kind, w : kind # "synced" => (Coming(kind, w)' <=> Coming(kind, w))
      /\ \A kind, other, w : kind # "synced" => (ComingTwice(kind, other, w)' <=> ComingTwice(kind, other, w))
      /\ \A kind, w : ~KdeEarly(kind, w) /\ ~KdeEarly(kind, w)'
  BY <1>1 DEF Taken, Coming, ComingTwice, Early, KdeEarly, ComingFirst
<1>3. \A kind, w : Asked(kind, w)' <=> Asked(kind, w)
  BY <1>1 DEF Asked
<1>4. KdeHandles'
  BY <1>1, <1>2 DEF KdeInv, KdeHandles
<1>5. KdeNumbers'
  BY <1>1, <1>2 DEF KdeInv, KdeNumbers, EventKinds, RequestKinds
<1>6. KdeEvents'
  BY <1>1, <1>2 DEF KdeInv, KdeEvents
<1>7. KdeRequests'
  BY <1>1, <1>3 DEF KdeInv, KdeRequests, AskedTwice
<1>8. KdeRegistry'
  BY <1>1, <1>2, <1>3 DEF KdeInv, KdeRegistry
<1>9. KdeRows'
  BY <1>1, <1>2, <1>3 DEF KdeInv, KdeRows, RowOfWindow
<1>10. KdeSynced'
  <2>1. \A w : w \in DOMAIN registry => (KdeHidden(w)' <=> KdeHidden(w))
    BY <1>1, <1>2 DEF KdeHidden
  <2> QED
    BY <1>1, <1>2, <2>1 DEF KdeInv, KdeSynced
<1> QED
  BY <1>1, <1>4, <1>5, <1>6, <1>7, <1>8, <1>9, <1>10 DEF KdeInv

\* A round trip ends: what is shown had not closed or left the task bar when the
\* compositor answered, and what was open then, is still and is known from the
\* last sample is shown.
LEMMA KdeEnds ==
  ASSUME KdeInv, EndSample
  PROVE  /\ KdeInv'
         /\ {r[2] : r \in windowRows'} \cap absent = {}
         /\ (synced \cap (live \ skipping)) \cap known \subseteq {r[2] : r \in windowRows'}
<1>1. /\ OneRoundTrip' /\ answered /\ synced' = {} /\ absent' = {} /\ answered' \in BOOLEAN
      /\ windowRows' = {<<k, registry[k].window>> : k \in ShownKeys}
      /\ known' = {registry[k].window : k \in DOMAIN registry}
      /\ UNCHANGED <<protocol, opened, live, skipping, resources, registry, misdirected, events, requests,
                     selected>>
  BY Ends DEF KdeInv, restVars
<1>2. ShownKeys = {k \in DOMAIN registry : registry[k].ready /\ ~registry[k].skip}
  BY DEF ShownKeys, KdeKeys, KdeInv
<1>3. \A k \in DOMAIN registry : registry[k].window = k /\ k \in 1..opened /\ k \in HandleWindows /\ k \in HandleKeys
  BY KdeWindows DEF KdeInv, KdeHandles
<1>4. known' = DOMAIN registry /\ windowRows' = {<<k, k>> : k \in ShownKeys}
  <2>1. known' = DOMAIN registry
    BY <1>1, <1>3
  <2>2. \A k \in ShownKeys : registry[k].window = k
    BY <1>2, <1>3
  <2>3. windowRows' = {<<k, k>> : k \in ShownKeys}
    BY <1>1, <2>2
  <2> QED
    BY <2>1, <2>3
<1>5. /\ \A kind, w : Coming(kind, w)' <=> Coming(kind, w)
      /\ \A kind, w : Asked(kind, w)' <=> Asked(kind, w)
  BY <1>1 DEF Coming, Asked
<1>7. ToplevelTypeOK'
  <2>1. windowRows' \subseteq HandleKeys \X HandleWindows
    BY <1>2, <1>3, <1>4
  <2> QED
    BY <1>1, <2>1 DEF KdeInv, ToplevelTypeOK
<1>8. KdeHandles'
  <2>1. known' \subseteq 1..opened
    BY <1>3, <1>4
  <2> QED
    BY <1>1, <1>5, <2>1 DEF KdeInv, KdeHandles
<1>9. KdeNumbers'
  BY <1>1 DEF KdeInv, KdeNumbers
<1>10. KdeEvents'
  <2>1. \A w \in HandleWindows : Coming("uuid", w) => w \notin known'
    BY <1>4 DEF KdeInv, KdeEvents
  <2> QED
    BY <1>1, <1>5, <2>1 DEF KdeInv, KdeEvents, ComingTwice
<1>11. KdeRequests'
  <2>1. ~HasMsg(requests, "sync", NoWindow, NoWindow)
    BY <1>1 DEF KdeInv, OneRoundTrip
  <2>2. \A w : ~HasOrder(requests', "sync", NoWindow, NoWindow, "get", w, w)
    BY <1>1, <2>1, OrderHas
  <2> QED
    BY <1>1, <1>5, <2>2 DEF KdeInv, KdeRequests, AskedTwice
<1>12. KdeRegistry'
  BY <1>1, <1>5 DEF KdeInv, KdeRegistry
<1>13. KdeRows'
  <2>1. ASSUME NEW r \in windowRows' PROVE RowOfWindow(r)'
    <3>1. PICK k \in ShownKeys : r = <<k, k>>
      BY <1>4
    <3>2. r[1] = k /\ r[2] = k
      BY <3>1
    <3>3. k \in DOMAIN resources
      BY <1>2 DEF KdeInv, KdeRegistry
    <3>4. ~Asked("get", k) /\ ~Coming("uuid", k)
      BY <1>2, <1>3, <3>3 DEF KdeInv, KdeRequests, KdeEvents
    <3> QED
      BY <1>1, <1>2, <1>3, <1>5, <3>2, <3>4 DEF RowOfWindow
  <2>2. selected # NoWindow => RowOfWindow(selected)'
    BY <1>1, <1>5 DEF KdeInv, KdeRows, RowOfWindow
  <2> QED
    BY <1>1, <2>1, <2>2 DEF KdeInv, KdeRows
<1>14. KdeSynced'
  BY <1>1 DEF KdeSynced
<1>15. ASSUME NEW r \in windowRows' PROVE r[2] \notin absent
  <2>1. PICK k \in ShownKeys : r = <<k, k>>
    BY <1>4
  <2>2. /\ registry[k].ready /\ ~registry[k].skip /\ k \in HandleWindows /\ k \in DOMAIN registry
        /\ \A kind : ~KdeEarly(kind, k)
    BY <1>1, <1>2, <1>3 DEF KdeEarly
  <2>3. ~KdeHidden(k)
    BY <2>2 DEF KdeHidden
  <2> QED
    BY <1>1, <2>1, <2>2, <2>3 DEF KdeInv, KdeSynced, Answering
<1>16. ASSUME NEW w \in synced, w \in live, w \notin skipping, w \in known
       PROVE  \E r \in windowRows' : r[2] = w
  <2>1. w \in HandleWindows
    BY <1>16, KdeWindows
  <2>2. w \in DOMAIN registry /\ w \in DOMAIN resources /\ registry[w].ready
    BY <1>1, <1>16, <2>1 DEF KdeInv, KdeSynced, KdeEarly, Answering
  <2>3. w \in ShownKeys
    BY <1>2, <1>16, <2>2 DEF KdeInv, KdeRegistry
  <2>4. <<w, w>> \in windowRows'
    BY <1>4, <2>3
  <2> QED
    BY <2>4
<1>17. KdeInv'
  BY <1>1, <1>7, <1>8, <1>9, <1>10, <1>11, <1>12, <1>13, <1>14 DEF KdeInv
<1> QED
  BY <1>15, <1>16, <1>17

LEMMA KdeSelects ==
  ASSUME KdeInv, NEW r \in windowRows, Select(r)
  PROVE  KdeInv'
<1>1. /\ ToplevelTypeOK' /\ OneRoundTrip' /\ selected' = r
      /\ UNCHANGED <<protocol, opened, live, skipping, resources, registry, misdirected, events,
                     requests, windowRows, synced, absent, answered, known>>
  BY Selects DEF KdeInv, restVars
<1>2. /\ \A kind, w : Coming(kind, w)' <=> Coming(kind, w)
      /\ \A kind, w : Asked(kind, w)' <=> Asked(kind, w)
  BY <1>1 DEF Coming, Asked
<1>3. KdeHandles' /\ KdeNumbers' /\ KdeEvents' /\ KdeRequests'
  BY <1>1, <1>2 DEF KdeInv, KdeHandles, KdeNumbers, KdeEvents, KdeRequests, ComingTwice, AskedTwice
<1>4. KdeRegistry' /\ KdeRows'
  BY <1>1, <1>2 DEF KdeInv, KdeRegistry, KdeRows, RowOfWindow
<1>5. KdeSynced'
  BY <1>1 DEF KdeInv, KdeSynced, KdeHidden, KdeEarly, ComingFirst, Coming, ComingTwice, Answering
<1> QED
  BY <1>1, <1>3, <1>4, <1>5 DEF KdeInv

\* An action is asked for on the handle of the window that was chosen.
LEMMA KdeExecutes ==
  ASSUME KdeInv, Execute
  PROVE  KdeInv'
<1>1. /\ ToplevelTypeOK' /\ OneRoundTrip' /\ selected # NoWindow /\ selected' = NoWindow
      /\ selected[1] \in HandleKeys /\ selected[2] \in HandleWindows
      /\ \/ requests' = requests
         \/ selected[1] \in DOMAIN registry /\ Sent(requests, requests', "act", selected[1], selected[2])
      /\ UNCHANGED <<protocol, opened, live, skipping, resources, registry, misdirected, events,
                     windowRows, synced, absent, answered, known>>
  BY Executes DEF KdeInv, restVars
<1> SUFFICES ASSUME NEW w, w = selected[1] PROVE KdeInv'
  OBVIOUS
<1>2. selected[2] = w /\ w \in 1..opened /\ ~Asked("get", w) /\ w \in HandleWindows
  BY <1>1 DEF KdeInv, KdeRows, RowOfWindow
<1>3. \A kind, x : Coming(kind, x)' <=> Coming(kind, x)
  BY <1>1 DEF Coming
<1>4. /\ \A kind, x : kind # "act" => (Asked(kind, x)' <=> Asked(kind, x))
      /\ \A a, b, x : b # "act" => (AskedTwice(a, b, x)' <=> AskedTwice(a, b, x))
      /\ \A a, k, x : HasMsg(requests', a, k, x) => HasMsg(requests, a, k, x) \/ (k = w /\ x = w)
      /\ \A x : HasOrder(requests', "sync", NoWindow, NoWindow, "get", x, x) =>
           HasOrder(requests, "sync", NoWindow, NoWindow, "get", x, x)
      /\ \A x \in HandleWindows : Asked("act", x)' => x \in DOMAIN resources /\ ~AskedTwice("destroy", "act", x)'
  <2>1. CASE requests' = requests
    BY <2>1 DEF Asked, AskedTwice, KdeInv, KdeRequests
  <2>2. CASE w \in DOMAIN registry /\ Sent(requests, requests', "act", w, w)
    <3>1. /\ \A other, x : Asked(other, x)' <=> Asked(other, x) \/ (other = "act" /\ x = w)
          /\ \A a, b, x : AskedTwice(a, b, x)' <=>
               AskedTwice(a, b, x) \/ (Asked(a, x) /\ b = "act" /\ x = w)
          /\ \A a, k, x : HasMsg(requests', a, k, x)
                            <=> HasMsg(requests, a, k, x) \/ (a = "act" /\ k = w /\ x = w)
          /\ \A x : HasOrder(requests', "sync", NoWindow, NoWindow, "get", x, x) <=>
               HasOrder(requests, "sync", NoWindow, NoWindow, "get", x, x)
      BY <2>2, Asks
    <3>2. w \in DOMAIN resources
      BY <1>2, <2>2 DEF KdeInv, KdeRegistry
    <3>3. ~Asked("destroy", w)
      BY <1>2, <2>2 DEF KdeInv, KdeRequests
    <3>4. ~AskedTwice("destroy", "act", w)
      BY <3>3, OrderHas DEF Asked, AskedTwice
    <3>5. ASSUME NEW x \in HandleWindows, Asked("act", x)'
          PROVE  x \in DOMAIN resources /\ ~AskedTwice("destroy", "act", x)'
      <4>1. CASE x = w
        BY <3>1, <3>2, <3>3, <3>4, <4>1
      <4>2. CASE x # w
        BY <3>1, <3>5, <4>2 DEF KdeInv, KdeRequests
      <4> QED
        BY <4>1, <4>2
    <3> QED
      BY <3>1, <3>5
  <2> QED
    BY <1>1, <1>2, <2>1, <2>2
<1>5. KdeHandles' /\ KdeEvents'
  BY <1>1, <1>3 DEF KdeInv, KdeHandles, KdeEvents, ComingTwice
<1>6. KdeNumbers'
  BY <1>1, <1>2, <1>4 DEF KdeInv, KdeNumbers
<1>7. KdeRequests'
  BY <1>1, <1>4 DEF KdeInv, KdeRequests
<1>8. KdeRegistry' /\ KdeRows'
  BY <1>1, <1>3, <1>4 DEF KdeInv, KdeRegistry, KdeRows, RowOfWindow
<1>9. KdeSynced'
  BY <1>1 DEF KdeInv, KdeSynced, KdeHidden, KdeEarly, ComingFirst, Coming, ComingTwice, Answering
<1> QED
  BY <1>1, <1>5, <1>6, <1>7, <1>8, <1>9 DEF KdeInv

LEMMA KdeSteps ==
  ASSUME KdeInv, [ToplevelNext]_toplevelVars
  PROVE  KdeInv'
<1>1. CASE UNCHANGED toplevelVars
  <2>1. /\ \A kind, w : Coming(kind, w)' <=> Coming(kind, w)
        /\ \A kind, w : Asked(kind, w)' <=> Asked(kind, w)
    BY <1>1 DEF toplevelVars, Coming, Asked
  <2>2. ToplevelTypeOK' /\ OneRoundTrip' /\ KdeNumbers' /\ KdeSynced'
    BY <1>1 DEF toplevelVars, KdeInv, ToplevelTypeOK, OneRoundTrip, KdeNumbers, KdeSynced, KdeHidden,
                KdeEarly, ComingFirst, Coming, ComingTwice, Answering
  <2>3. KdeHandles' /\ KdeEvents' /\ KdeRequests'
    BY <1>1, <2>1 DEF toplevelVars, KdeInv, KdeHandles, KdeEvents, KdeRequests, ComingTwice, AskedTwice
  <2>4. KdeRegistry' /\ KdeRows'
    BY <1>1, <2>1 DEF toplevelVars, KdeInv, KdeRegistry, KdeRows, RowOfWindow
  <2> QED
    BY <1>1, <2>2, <2>3, <2>4 DEF KdeInv, toplevelVars
<1>2. ~Connect
  BY ToplevelAssumption DEF Connect, KdeInv
<1>3. CASE HandleRequest
  <2>1. requests # <<>> /\ Head(requests)[1] \in {"sync", "get", "destroy", "act"}
    BY <1>3 DEF HandleRequest
  <2> QED
    BY <1>3, <2>1, KdeAnswers, KdeGets, KdeDestroys, KdeActs
<1> QED
  BY <1>1, <1>2, <1>3, KdeOpens, KdeCloses, KdeDispatches, KdeDispatchesAnswer, KdeStarts, KdeEnds,
     KdeSelects, KdeExecutes
  DEF ToplevelNext

-----------------------------------------------------------------------------
(* Toplevels: before the connection nothing has happened; then the protocol *)
(* stays the one that was chosen.                                          *)

ToplevelInv ==
  \/ protocol = NoWindow /\ ToplevelInit
  \/ protocol \in {"ext", "wlr"} /\ ExtInv
  \/ KdeInv

LEMMA Connects ==
  ASSUME ToplevelInit, Connect
  PROVE  (protocol' \in {"ext", "wlr"} /\ ExtInv') \/ KdeInv'
<1>1. /\ protocol' \in {"ext", "wlr", "kde"} /\ busy'
      /\ requests' = Append(<<>>, <<"sync", NoWindow, NoWindow>>)
      /\ opened' = 0 /\ live' = {} /\ skipping' = {} /\ resources' = None /\ registry' = None
      /\ events' = <<>> /\ windowRows' = {} /\ selected' = NoWindow /\ known' = {} /\ ~misdirected'
      /\ ~answered' /\ answered' \in BOOLEAN /\ synced' = {} /\ absent' = {}
  <2>1. <<<<"sync", NoWindow, NoWindow>>>> = Append(<<>>, <<"sync", NoWindow, NoWindow>>)
    OBVIOUS
  <2> QED
    BY <2>1 DEF Connect, ToplevelInit
<1>2. DOMAIN resources' = {} /\ DOMAIN registry' = {}
  BY <1>1 DEF None
<1>3. Sent(<<>>, requests', "sync", NoWindow, NoWindow)
  BY <1>1, Sendable, EmptySeq, AppendSends
<1>4. /\ requests' \in Seq(Messages)
      /\ \A kind, k, w : kind # "sync" => ~HasMsg(requests', kind, k, w)
      /\ \A kind, k, w, other, l, x : ~HasOrder(requests', kind, k, w, other, l, x)
  BY <1>3, EmptyQueue DEF Sent
<1>5. /\ events' \in Seq(Messages)
      /\ \A kind, k, w : ~HasMsg(events', kind, k, w) /\ ~HasEarly(events', kind, k, w)
      /\ \A kind, k, w, other, l, x : ~HasOrder(events', kind, k, w, other, l, x)
  BY <1>1, EmptyQueue, EmptySeq
<1>6. ToplevelTypeOK' /\ OneRoundTrip'
  <2>1. 0 \in 0..MaxWindows
    BY ToplevelAssumption
  <2> QED
    BY <1>1, <1>2, <1>4, <1>5, <2>1 DEF ToplevelTypeOK, OneRoundTrip
<1>7. CASE protocol' \in {"ext", "wlr"}
  <2>1. ExtHandles' /\ ExtRegistry' /\ ExtSynced'
    BY <1>1, <1>2, <1>5 DEF ExtHandles, ExtRegistry, ExtSynced
  <2>2. ExtEvents' /\ ExtRequests'
    BY <1>4, <1>5 DEF ExtEvents, ExtRequests
  <2>3. ExtActions'
    BY <1>1, <1>4 DEF ExtActions
  <2> QED
    BY <1>6, <1>7, <2>1, <2>2, <2>3 DEF ExtInv
<1>8. CASE protocol' = "kde"
  <2>1. /\ \A kind, w : ~Coming(kind, w)'
        /\ \A kind, w : kind # "sync" => ~Asked(kind, w)'
        /\ \A kind, other, w : ~ComingTwice(kind, other, w)'
    BY <1>4, <1>5 DEF Coming, Asked, ComingTwice
  <2>2. KdeHandles' /\ KdeRegistry' /\ KdeRows' /\ KdeSynced'
    BY <1>1, <1>2, <1>5 DEF KdeHandles, KdeRegistry, KdeRows, KdeSynced
  <2>3. KdeNumbers'
    BY <1>4, <1>5 DEF KdeNumbers, EventKinds, RequestKinds
  <2>4. KdeEvents' /\ KdeRequests'
    BY <2>1 DEF KdeEvents, KdeRequests
  <2> QED
    BY <1>6, <1>8, <2>2, <2>3, <2>4 DEF KdeInv
<1> QED
  BY <1>1, <1>7, <1>8

LEMMA ToplevelSteps ==
  ASSUME ToplevelInv, [ToplevelNext]_toplevelVars
  PROVE  ToplevelInv'
<1>1. CASE protocol = NoWindow /\ ToplevelInit
  <2>1. CASE UNCHANGED toplevelVars
    BY <1>1, <2>1 DEF toplevelVars, ToplevelInit, ToplevelInv
  <2>2. CASE Connect
    BY <1>1, <2>2, Connects DEF ToplevelInv
  <2>3. requests = <<>> /\ live = {} /\ ~busy /\ selected = NoWindow /\ windowRows = {}
    BY <1>1 DEF ToplevelInit
  <2>4. ~HandleRequest /\ ~Dispatch /\ ~DispatchAnswer /\ ~StartSample /\ ~EndSample /\ ~Execute
    BY <1>1, <2>3 DEF HandleRequest, Dispatch, DispatchAnswer, StartSample, EndSample, Execute
  <2>5. /\ \A key \in ObjectIds : ~OpenWindow(key)
        /\ \A window \in 1..MaxWindows : ~CloseWindow(window) /\ ~SkipTaskbar(window)
    BY <1>1, <2>3 DEF OpenWindow, CloseWindow, SkipTaskbar
  <2> QED
    BY <2>1, <2>2, <2>3, <2>4, <2>5 DEF ToplevelNext
<1>2. CASE protocol \in {"ext", "wlr"} /\ ExtInv
  BY <1>2, ExtSteps DEF ToplevelInv
<1>3. CASE KdeInv
  BY <1>3, KdeSteps DEF ToplevelInv
<1> QED
  BY <1>1, <1>2, <1>3 DEF ToplevelInv

\* No handle leaks.
LEMMA Released ==
  ASSUME ToplevelInv
  PROVE  HandlesReleased
<1>1. \A kind, k, w : HasMsg(events, kind, k, w) \/ HasMsg(requests, kind, k, w) => InFlight(kind, k)
  BY DEF HasMsg, InFlight
<1>2. CASE protocol = NoWindow /\ ToplevelInit
  <2>1. DOMAIN resources = {}
    BY <1>2 DEF ToplevelInit, None
  <2> QED
    BY <2>1 DEF HandlesReleased
<1>3. CASE ExtInv
  <2>1. \A k \in DOMAIN resources :
          /\ resources[k] \notin live =>
               HasMsg(events, "closed", k, resources[k]) \/ HasMsg(requests, "destroy", k, resources[k])
          /\ k \notin DOMAIN registry =>
               HasMsg(events, "toplevel", k, resources[k]) \/ HasMsg(requests, "destroy", k, resources[k])
    BY <1>3 DEF ExtInv, ExtRegistry
  <2> QED
    BY <1>1, <2>1 DEF HandlesReleased
<1>4. CASE KdeInv
  <2>1. \A k \in DOMAIN resources :
          /\ resources[k] = k
          /\ k \notin DOMAIN registry => HasMsg(requests, "destroy", k, k)
          /\ k \in DOMAIN registry /\ k \notin live => HasMsg(events, "closed", k, k)
    BY <1>4 DEF KdeInv, KdeHandles, KdeRegistry, Coming, Asked
  <2> QED
    BY <1>1, <2>1 DEF HandlesReleased
<1> QED
  BY <1>2, <1>3, <1>4 DEF ToplevelInv

\* In every behaviour of the toplevels: no handle leaks; a snapshot shows no window
\* that had closed or left the task bar when the compositor answered, and every one
\* that was open then and still is (on KDE, if it was known); and an action reaches
\* no other window while the one that was chosen is open.
THEOREM WindowsTracked == ToplevelSpec => WindowsAreTracked
<1>1. ToplevelInit => ToplevelInv
  BY DEF ToplevelInit, ToplevelInv
<1>2. ToplevelInv /\ [ToplevelNext]_toplevelVars => ToplevelInv'
  BY ToplevelSteps
<1>3. ToplevelInv => HandlesReleased /\ ~misdirected
  BY Released DEF ToplevelInv, ToplevelInit, ExtInv, ExtActions, KdeInv, KdeRows
<1>4. ToplevelInv' => HandlesReleased' /\ ~misdirected'
  BY <1>3, PTL
<1>5. ToplevelInv /\ [ToplevelNext]_toplevelVars
        => [/\ HandlesReleased'
            /\ ~misdirected'
            /\ EndSample => LET shown == {r[2] : r \in windowRows'}
                                due == synced \cap (live \ skipping)
                            IN /\ shown \cap absent = {}
                               /\ due \cap (IF protocol = "kde" THEN known ELSE due) \subseteq shown
           ]_toplevelVars
  <2> SUFFICES ASSUME ToplevelInv, [ToplevelNext]_toplevelVars
               PROVE  /\ HandlesReleased'
                      /\ ~misdirected'
                      /\ EndSample => LET shown == {r[2] : r \in windowRows'}
                                          due == synced \cap (live \ skipping)
                                      IN /\ shown \cap absent = {}
                                         /\ due \cap (IF protocol = "kde" THEN known ELSE due) \subseteq shown
    OBVIOUS
  <2>1. HandlesReleased' /\ ~misdirected'
    BY <1>2, <1>4
  <2>2. CASE protocol = NoWindow /\ ToplevelInit
    <3>1. ~EndSample
      BY <2>2 DEF EndSample, ToplevelInit
    <3> QED
      BY <2>1, <3>1
  <2>3. CASE protocol \in {"ext", "wlr"} /\ ExtInv
    <3>1. EndSample => /\ {r[2] : r \in windowRows'} \cap absent = {}
                       /\ synced \cap live \subseteq {r[2] : r \in windowRows'}
      BY <2>3, ExtEnds
    <3> QED
      BY <2>1, <2>3, <3>1
  <2>4. CASE KdeInv
    <3>1. protocol = "kde"
      BY <2>4 DEF KdeInv
    <3> QED
      BY <2>1, <2>4, <3>1, KdeEnds
  <2> QED
    BY <2>2, <2>3, <2>4 DEF ToplevelInv
<1> QED
  BY <1>1, <1>2, <1>5, PTL DEF ToplevelSpec, WindowsAreTracked

===============================================================================
