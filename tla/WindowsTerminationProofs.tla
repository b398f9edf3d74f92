----------------------- MODULE WindowsTerminationProofs -----------------------
(***************************************************************************)
(* Machine-checked proofs about Windows code that meets a system which     *)
(* changes between any two calls.                                          *)
(*                                                                         *)
(* WindowsTermination, for any PIDs and any number of processes: its type  *)
(* invariant, and that no process outside the tree is ever terminated.     *)
(* The argument rests on the age check of build_process_tree_plan: among   *)
(* the processes present at one moment, one that is not older than its     *)
(* child and has the PID of the child's parent is that parent (Ages).      *)
(*                                                                         *)
(* WindowsRecords, WindowsAccounts and WindowsTargets, for buffers, names  *)
(* and numbers of any size: what is read is inside of what was written,    *)
(* what is shown of a name is agreed on, and what is touched was chosen.   *)
(***************************************************************************)
EXTENDS WindowsTermination, WindowsRecords, WindowsAccounts, WindowsTargets, SequenceTheorems,
        FiniteSetTheorems, TLAPS

\* Append adds one element and leaves the others.
LEMMA AppendLemma ==
  ASSUME NEW S, NEW s \in Seq(S), NEW e \in S
  PROVE  /\ Append(s, e) \in Seq(S)
         /\ Len(Append(s, e)) = Len(s) + 1
         /\ \A i \in 1 .. Len(s) : Append(s, e)[i] = s[i]
         /\ Append(s, e)[Len(s) + 1] = e
BY AppendProperties

-----------------------------------------------------------------------------
(* The inductive invariant.                                                *)

\* A process is older than those it creates, and their forebears include its.
Lineage ==
  \A x \in Processes :
    /\ x \in born[x].line
    /\ parent[x] \in 0..(x - 1)
    /\ parent[x] # 0 => born[parent[x]].line \subseteq born[x].line

UniquePids == \A x, y \in Present : born[x].pid = born[y].pid => x = y

\* Who has the PID of x's parent and is not younger than x is the parent.
Ages ==
  \A x \in Processes : parent[x] # 0 =>
    \A y \in Present : y <= x /\ born[y].pid = born[parent[x]].pid => y = parent[x]

Chosen(x) == IF deep THEN Descends(x, root) ELSE x = root

Targets == \A x \in left \cup killed : Chosen(x)

Phases ==
  /\ pc = "idle" => left = {} /\ killed = {}
  /\ pc = "snapshot" => deep /\ left = {} /\ killed = {}

TableInv == Lineage /\ UniquePids /\ Ages

IInv == TypeOK /\ TableInv /\ Targets /\ Phases

LEMMA InitIInv == Init => IInv
<1> SUFFICES ASSUME Init PROVE IInv
  OBVIOUS
<1>1. Len(born) = 0 /\ Len(state) = 0 /\ Len(parent) = 0 /\ Processes = {} /\ Present = {}
  BY DEF Init, TableInit, Processes, Present
<1>2. TypeOK
  <2>1. /\ born \in Seq([pid : Pids, line : SUBSET Nat])
        /\ state \in Seq({"running", "exited", "gone"})
        /\ parent \in Seq(Nat)
    BY EmptySeq DEF Init, TableInit
  <2>2. DOMAIN targets = {}
    BY EmptySeq DEF Init
  <2> QED
    BY <1>1, <2>1, <2>2 DEF Init, TypeOK, PCs
<1>3. TableInv
  BY <1>1 DEF TableInv, Lineage, UniquePids, Ages
<1> QED
  BY <1>2, <1>3 DEF IInv, Init, Targets, Phases

-----------------------------------------------------------------------------
(* The system.                                                             *)

\* The types of the table.
TableTypes ==
  /\ born \in Seq([pid : Pids, line : SUBSET Nat])
  /\ state \in Seq({"running", "exited", "gone"})
  /\ parent \in Seq(Nat)
  /\ Len(state) = Len(born) /\ Len(parent) = Len(born)

\* A new process keeps what is known of the table.
LEMMA SpawnStep ==
  ASSUME TableTypes, TableInv, NEW maker \in 0..MaxProcesses, NEW pid \in Pids,
         Spawn(maker, pid)
  PROVE  /\ TableTypes' /\ TableInv'
         /\ Processes \subseteq Processes'
         /\ \A x \in Processes : born'[x] = born[x]
<1> DEFINE x == Len(born) + 1
           entry == [pid |-> pid, line |-> {x} \cup IF maker = 0 THEN {} ELSE born[maker].line]
<1>1. Len(born) \in Nat /\ x \in Nat
  BY DEF TableTypes
<1>2. maker = 0 \/ (maker \in Processes /\ state[maker] = "running")
  BY DEF Spawn
<1>3. entry \in [pid : Pids, line : SUBSET Nat]
  <2>1. maker # 0 => born[maker] \in [pid : Pids, line : SUBSET Nat]
    BY <1>1, <1>2, ElementOfSeq DEF TableTypes, Processes
  <2>2. {x} \cup (IF maker = 0 THEN {} ELSE born[maker].line) \in SUBSET Nat
    BY <1>1, <2>1
  <2> QED
    BY <2>2
<1>4. /\ born' = Append(born, entry)
      /\ state' = Append(state, "running")
      /\ parent' = Append(parent, maker)
      /\ At(pid) = {}
  BY AncestryKnown DEF Spawn, Line
<1> HIDE DEF entry
<1>5. /\ born' \in Seq([pid : Pids, line : SUBSET Nat])
      /\ Len(born') = Len(born) + 1
      /\ \A i \in 1 .. Len(born) : born'[i] = born[i]
      /\ born'[Len(born) + 1] = entry
  BY <1>3, <1>4, AppendLemma DEF TableTypes
<1>6. /\ state' \in Seq({"running", "exited", "gone"})
      /\ Len(state') = Len(state) + 1
      /\ \A i \in 1 .. Len(state) : state'[i] = state[i]
      /\ state'[Len(state) + 1] = "running"
  BY <1>4, AppendLemma DEF TableTypes
<1>7. /\ parent' \in Seq(Nat)
      /\ Len(parent') = Len(parent) + 1
      /\ \A i \in 1 .. Len(parent) : parent'[i] = parent[i]
      /\ parent'[Len(parent) + 1] = maker
  BY <1>4, AppendLemma DEF TableTypes
<1>8. TableTypes'
  BY <1>5, <1>6, <1>7 DEF TableTypes
<1>9. Processes' = Processes \cup {x} /\ x \notin Processes
  BY <1>1, <1>5 DEF Processes
<1>10. /\ \A y \in Processes : born'[y] = born[y] /\ state'[y] = state[y] /\ parent'[y] = parent[y]
       /\ born'[x] = entry /\ parent'[x] = maker /\ state'[x] = "running"
  BY <1>5, <1>6, <1>7 DEF TableTypes, Processes
<1>11. Present' = Present \cup {x}
  BY <1>9, <1>10 DEF Present
<1>12. \A y \in Present : born[y].pid # pid
  BY <1>4 DEF At
<1>13. entry.pid = pid /\ x \in entry.line /\ (maker # 0 => born[maker].line \subseteq entry.line)
  BY DEF entry
<1>14. \A y \in Processes : y \in Nat /\ y < x /\ y # 0 /\ parent[y] \in 0..(y - 1)
  BY <1>1 DEF Processes, TableInv, Lineage
<1>15. \A y \in Processes : parent[y] # 0 => parent[y] \in Processes
  BY <1>1, <1>14 DEF Processes
<1>16. Lineage'
  <2>1. \A y \in Processes : /\ y \in born'[y].line
                             /\ parent'[y] \in 0..(y - 1)
                             /\ parent'[y] # 0 => born'[parent'[y]].line \subseteq born'[y].line
    BY <1>10, <1>15 DEF TableInv, Lineage
  <2>2. maker \in 0..(x - 1)
    BY <1>1, <1>2, <1>14
  <2>3. maker # 0 => born'[maker] = born[maker]
    BY <1>2, <1>10
  <2> QED
    BY <2>1, <2>2, <2>3, <1>9, <1>10, <1>13 DEF Lineage
<1>17. UniquePids'
  <2>1. Present \subseteq Processes
    BY DEF Present
  <2> QED
    BY <2>1, <1>10, <1>11, <1>12, <1>13 DEF TableInv, UniquePids
<1>18. Ages'
  <2>1. Present \subseteq Processes
    BY DEF Present
  <2> SUFFICES ASSUME NEW c \in Processes', parent'[c] # 0, NEW y \in Present',
                      y <= c, born'[y].pid = born'[parent'[c]].pid
               PROVE  y = parent'[c]
    BY DEF Ages
  <2>2. CASE c = x
    <3>1. maker \in Present /\ parent'[c] = maker /\ born'[maker] = born[maker]
      BY <2>2, <1>2, <1>10 DEF Present
    <3>2. y # x
      BY <3>1, <1>12, <1>10, <1>13
    <3> QED
      BY <3>1, <3>2, <2>1, <1>10, <1>11 DEF TableInv, UniquePids
  <2>3. CASE c \in Processes
    <3>1. y \in Present
      BY <2>3, <1>11, <1>14, <1>1
    <3>2. parent'[c] = parent[c] /\ parent[c] \in Processes
      BY <2>3, <1>10, <1>15
    <3> QED
      BY <2>1, <2>3, <3>1, <3>2, <1>10 DEF TableInv, Ages
  <2> QED
    BY <2>2, <2>3, <1>9
<1> QED
  BY <1>8, <1>9, <1>10, <1>16, <1>17, <1>18 DEF TableInv

\* A process that exits or vanishes leaves the rest of the table alone.
LEMMA EndStep ==
  ASSUME TableTypes, TableInv, NEW x, Exit(x) \/ Vanish(x)
  PROVE  /\ TableTypes' /\ TableInv'
         /\ Processes' = Processes
         /\ born' = born
<1>1. x \in Processes /\ state[x] # "gone" /\ born' = born /\ parent' = parent
  BY ParentsStay DEF Exit, Vanish
<1>2. \E s \in {"running", "exited", "gone"} : state' = [state EXCEPT ![x] = s]
  BY DEF Exit, Vanish
<1>3. state' \in Seq({"running", "exited", "gone"}) /\ Len(state') = Len(state)
  BY <1>1, <1>2, ExceptSeq DEF TableTypes, Processes
<1>4. Processes' = Processes
  BY <1>1 DEF Processes
<1>5. Present' \subseteq Present
  BY <1>1, <1>2, <1>4 DEF Present, Processes, TableTypes
<1> QED
  BY <1>1, <1>3, <1>4, <1>5 DEF TableTypes, TableInv, Lineage, UniquePids, Ages

-----------------------------------------------------------------------------
(* The plan.                                                               *)

\* A plan that is not refused holds only descendants of the chosen process.
LEMMA PlanIsDescent ==
  ASSUME TypeOK, TableInv, root \in Present, ~ ForgedAncestry(Captured(Present))
  PROVE  \A x \in Tree(Captured(Present), root) : x \in Processes /\ Descends(x, root)
<1> DEFINE C == Captured(Present)
           D == {x \in Tree(C, root) : Descends(x, root)}
<1>1. DOMAIN C = Present /\ \A x \in Present : C[x] = Pid(parent[x])
  BY DEF Captured
<1> HIDE DEF C
<1>2. Tree(C, root) \subseteq Present /\ Present \subseteq Processes /\ Processes \subseteq Nat
  BY <1>1 DEF Tree, Present, Processes, TypeOK
<1>3. root \in D
  BY <1>1, <1>2 DEF Tree, Descends, TableInv, Lineage
<1>4. Closed(C, D)
  <2> SUFFICES ASSUME NEW x \in D, NEW c \in Children(C, x)
               PROVE  c \in D
    BY DEF Closed
  <2>1. c \in Present /\ Pid(parent[c]) = Pid(x)
    BY <1>1 DEF Children
  <2>2. c \in Tree(C, root)
    BY <1>1, <2>1 DEF Tree, Closed, Children
  <2>3. ~ (c < x)
    BY DEF ForgedAncestry, C
  <2>4. x \in Present /\ x \in Processes /\ x # 0 /\ x \in Nat /\ c \in Nat /\ c \in Processes
    <3>1. x \in Present /\ x \in Processes /\ c \in Processes
      BY <1>2, <2>1
    <3> QED
      BY <3>1 DEF Processes, TypeOK
  <2>5. Pid(x) = born[x].pid /\ born[x].pid # 0
    <3>1. born[x] \in [pid : Pids, line : SUBSET Nat]
      BY <2>4, ElementOfSeq DEF TypeOK, Processes
    <3> QED
      BY <2>4, <3>1, ProcessAssumption DEF Pid
  <2>6. parent[c] # 0
    BY <2>1, <2>5 DEF Pid
  <2>7. born[x].pid = born[parent[c]].pid
    BY <2>1, <2>5, <2>6 DEF Pid
  <2>8. x <= c
    BY <2>3, <2>4
  <2>9. x = parent[c]
    BY <2>4, <2>6, <2>7, <2>8 DEF TableInv, Ages
  <2>10. Descends(c, root)
    BY <2>4, <2>6, <2>9 DEF TableInv, Lineage, Descends
  <2> QED
    BY <2>2, <2>10
<1>5. D \in SUBSET DOMAIN C
  BY <1>1, <1>2
<1>6. Tree(C, root) \subseteq D
  BY <1>3, <1>4, <1>5 DEF Tree
<1> QED
  BY <1>2, <1>6 DEF C

-----------------------------------------------------------------------------
(* Every step preserves the invariant.                                     *)

\* The system runs: what the action holds on to does not change.
LEMMA SystemStep == IInv /\ System => IInv'
<1> SUFFICES ASSUME IInv, System PROVE IInv'
  OBVIOUS
<1>1. TableTypes /\ TableInv
  BY DEF IInv, TypeOK, TableTypes
<1>2. UNCHANGED <<pc, root, deep, targets, left, killed, handles>>
  BY DEF System, action
<1>3. /\ TableTypes' /\ TableInv' /\ Processes \subseteq Processes'
      /\ \A x \in Processes : born'[x] = born[x]
  <2>1. CASE \E maker \in 0..MaxProcesses, pid \in Pids : Spawn(maker, pid)
    BY <1>1, <2>1, SpawnStep
  <2>2. CASE \E x \in 1..MaxProcesses : Exit(x) \/ Vanish(x)
    BY <1>1, <2>2, EndStep
  <2> QED
    BY <2>1, <2>2 DEF System, Live
<1>4. TypeOK'
  BY <1>2, <1>3 DEF IInv, TypeOK, TableTypes
<1>5. Targets'
  BY <1>2, <1>3 DEF IInv, TypeOK, Targets, Chosen, Descends
<1> QED
  BY <1>2, <1>3, <1>4, <1>5 DEF IInv, Phases

\* The request and the plan choose the targets.
LEMMA PlanningStep ==
  ASSUME IInv, \/ \E x \in Processes, d \in BOOLEAN : Request(x, d)
               \/ Plan
  PROVE  IInv'
<1>1. Processes \subseteq Nat
  BY DEF Processes
<1>2. CASE \E x \in Processes, d \in BOOLEAN : Request(x, d)
  <2>1. PICK x \in Processes, d \in BOOLEAN : Request(x, d)
    BY <1>2
  <2>2. /\ UNCHANGED <<born, state, parent, handles, killed>>
        /\ pc = "idle" /\ left = {} /\ killed = {}
    BY <2>1 DEF Request, table, IInv, Phases
  <2>3. TableInv'
    BY <2>2 DEF IInv, TableInv, Lineage, UniquePids, Ages, Present, Processes
  <2>4. CASE d
    <3>1. root' = x /\ deep' = TRUE /\ targets' = <<>> /\ left' = {} /\ pc' = "snapshot"
      BY <2>1, <2>4 DEF Request
    <3> QED
      BY <1>1, <2>2, <2>3, <3>1 DEF IInv, TypeOK, PCs, Targets, Phases, Processes
  <2>5. CASE ~ d
    <3>1. /\ root' = x /\ deep' = FALSE /\ targets' = [y \in {x} |-> 0]
          /\ left' = {x} /\ pc' = "open"
      BY <2>1, <2>5 DEF Request
    <3> QED
      BY <1>1, <2>2, <2>3, <3>1 DEF IInv, TypeOK, PCs, Targets, Chosen, Phases, Processes
  <2> QED
    BY <2>4, <2>5
<1>3. CASE Plan
  <2>1. /\ UNCHANGED <<born, state, parent, root, deep, handles, killed>>
        /\ pc = "snapshot" /\ deep /\ killed = {} /\ pc' = "open"
        /\ DOMAIN targets' = Tree(Captured(Present), root)
        /\ left' = Tree(Captured(Present), root)
    BY <1>3 DEF Plan, table, IInv, Phases
  <2>2. \A x \in left' : x \in Processes /\ Descends(x, root)
    BY <1>3, <2>1, PlanIsDescent DEF Plan, IInv
  <2>3. TableInv'
    BY <2>1 DEF IInv, TableInv, Lineage, UniquePids, Ages, Present, Processes
  <2>4. TypeOK'
    BY <2>1, <2>2 DEF IInv, TypeOK, PCs, Processes
  <2> QED
    BY <2>1, <2>2, <2>3, <2>4 DEF IInv, Targets, Chosen, Descends, Phases
<1> QED
  BY <1>2, <1>3

\* Opening and returning change neither the table nor the targets.
LEMMA OpeningStep ==
  ASSUME IInv, \/ \E x \in Processes : OpenVerified(x) \/ TerminateFails(x)
               \/ RefusePlan \/ OpenFails \/ AllOpen \/ Succeed
  PROVE  IInv'
<1>1. /\ UNCHANGED <<born, state, parent, root, deep, targets, left, killed>>
      /\ pc' \in PCs \ {"idle", "snapshot"}
      /\ handles' \subseteq Processes
      /\ pc' \in {"failed", "succeeded"} => handles' = {}
  BY DEF OpenVerified, TerminateFails, RefusePlan, OpenFails, AllOpen, Succeed, Return,
         NextTarget, action, table, PCs, IInv, TypeOK
<1>2. TableInv'
  BY <1>1 DEF IInv, TableInv, Lineage, UniquePids, Ages, Present, Processes
<1> QED
  BY <1>1, <1>2 DEF IInv, TypeOK, Targets, Chosen, Descends, Phases, Processes

\* A target is terminated.
LEMMA TerminateStep ==
  ASSUME IInv, NEW x \in Processes, Terminate(x)
  PROVE  IInv'
<1>1. /\ UNCHANGED <<pc, root, deep, targets, handles>>
      /\ pc = "kill" /\ x \in left /\ Exit(x)
      /\ killed' = killed \cup {x} /\ left' = left \ {x}
  BY DEF Terminate, NextTarget
<1>2. TableTypes' /\ TableInv' /\ Processes' = Processes /\ born' = born
  BY <1>1, EndStep DEF IInv, TypeOK, TableTypes
<1>3. TypeOK'
  BY <1>1, <1>2 DEF IInv, TypeOK, TableTypes
<1> QED
  BY <1>1, <1>2, <1>3 DEF IInv, Targets, Chosen, Descends, Phases

LEMMA StepIInv == IInv /\ [Next]_vars => IInv'
<1> SUFFICES ASSUME IInv, [Next]_vars PROVE IInv'
  OBVIOUS
<1>1. CASE UNCHANGED vars
  <2>1. UNCHANGED <<born, state, parent, pc, root, deep, targets, left, killed, handles>>
    BY <1>1 DEF vars, table, action
  <2>2. TableInv'
    BY <2>1 DEF IInv, TableInv, Lineage, UniquePids, Ages, Present, Processes
  <2> QED
    BY <2>1, <2>2 DEF IInv, TypeOK, Targets, Chosen, Descends, Phases, Processes
<1>2. CASE Next
  BY <1>2, SystemStep, PlanningStep, OpeningStep, TerminateStep DEF Next
<1> QED
  BY <1>1, <1>2

-----------------------------------------------------------------------------
\* The inductive invariant holds in every reachable state.
THEOREM Invariance == Spec => []IInv
<1> QED
  BY InitIInv, StepIInv, PTL DEF Spec

\* The variables keep their types, and an action that has returned holds no
\* handle.
THEOREM TypeCorrect == Spec => []TypeOK
<1>1. IInv => TypeOK
  BY DEF IInv
<1> QED
  BY <1>1, Invariance, PTL

\* For any PIDs and any number of processes, created and ended at any moment,
\* the termination of a process or a tree ends no process outside of it.
THEOREM OnlyTheTreeEnds == Spec => []OnlyDescendants
<1>1. IInv => OnlyDescendants
  BY DEF IInv, Targets, Chosen, OnlyDescendants
<1> QED
  BY <1>1, Invariance, PTL

-----------------------------------------------------------------------------
(* WindowsRecords.  While the size is agreed on nothing has been read; from   *)
(* then on the walk is inside of what was written, which is inside of what    *)
(* was allocated.                                                             *)

Formats == Probed \cup {"process", "times", "none"}

Sizes ==
  /\ needed \in Nat /\ length \in Nat /\ live \in Nat /\ items \in Nat /\ offset \in Nat
  /\ format \in Formats
  /\ step \in {"probe", "fill", "walk", "done", "failed"}

InBounds ==
  /\ live <= length
  /\ touched \subseteq 0..(live - 1)

Untouched == step \in {"probe", "fill"} => live = 0 /\ touched = {} /\ offset = 0

WalkInside ==
  /\ step = "walk" /\ format = "array" => items * Item <= live
  /\ step = "walk" /\ format \in Relationships => offset <= live

RecordInv == Sizes /\ InBounds /\ Untouched /\ WalkInside

\* What one step of the walk may do.
WalkMoves ==
  /\ step = "walk" /\ step' = "walk" => offset' > offset
  /\ step = "walk" /\ step' = "done" /\ format \in Relationships => offset = live

\* Giving up, or finishing, reads nothing more.
LEMMA EndsKeeps ==
  ASSUME RecordInv, NEW outcome \in {"done", "failed"}, Ends(outcome)
  PROVE  RecordInv'
<1>1. /\ step' = outcome
      /\ UNCHANGED <<format, needed, length, live, items, offset, touched, labelled>>
  BY DEF Ends
<1> QED
  BY <1>1 DEF RecordInv, Sizes, InBounds, Untouched, WalkInside

LEMMA MaxOfTwo ==
  ASSUME NEW a \in Nat, NEW b \in Nat
  PROVE  Max({a, b}) \in Nat /\ Max({a, b}) >= a /\ Max({a, b}) >= b
<1>1. \E x \in {a, b} : \A y \in {a, b} : x >= y
  <2>1. CASE a >= b
    BY <2>1
  <2>2. CASE b >= a
    BY <2>2
  <2> QED
    BY <2>1, <2>2
<1>2. Max({a, b}) \in {a, b} /\ \A y \in {a, b} : Max({a, b}) >= y
  BY <1>1 DEF Max
<1> QED
  BY <1>2

LEMMA QueryKeeps ==
  ASSUME RecordInv, SystemChanges \/ (\E f \in Probed \cup {"process", "times"} : BeginQuery(f))
  PROVE  RecordInv' /\ WalkMoves
<1>1. CASE SystemChanges
  BY <1>1, RecordAssumption
  DEF SystemChanges, RecordInv, Sizes, InBounds, Untouched, WalkInside, WalkMoves
<1>2. ASSUME NEW f \in Probed \cup {"process", "times"}, BeginQuery(f)
      PROVE  RecordInv' /\ WalkMoves
  <2>1. /\ step \in {"done", "failed"} /\ format' = f /\ needed' = needed
        /\ live' = 0 /\ items' = 0 /\ offset' = 0 /\ touched' = {}
        /\ step' \in {"probe", "fill"}
        /\ length' \in Nat
    BY <1>2, RecordAssumption DEF BeginQuery
  <2> QED
    BY <2>1 DEF RecordInv, Sizes, Formats, InBounds, Untouched, WalkInside, WalkMoves
<1> QED
  BY <1>1, <1>2

\* The agreement on the size.
LEMMA SizeKeeps ==
  ASSUME RecordInv, ProbeSize \/ Fill \/ FillAgain
  PROVE  RecordInv' /\ WalkMoves
<1> USE DEF RecordInv, Sizes
<1>1. CASE ProbeSize
  <2>1. CASE Ends("failed") \/ Ends("done")
    BY <1>1, <2>1, EndsKeeps DEF ProbeSize, WalkMoves
  <2>2. CASE length' = needed /\ step' = "fill"
             /\ UNCHANGED <<format, needed, live, items, offset, touched, labelled>>
    BY <1>1, <2>2 DEF ProbeSize, InBounds, Untouched, WalkInside, WalkMoves
  <2> QED
    BY <1>1, <2>1, <2>2 DEF ProbeSize
<1>2. CASE Fill
  <2>1. step = "fill" /\ live = 0 /\ touched = {} /\ offset = 0
    BY <1>2 DEF Fill, Untouched
  <2>2. CASE Ends("failed")
    BY <2>1, <2>2, EndsKeeps DEF WalkMoves
  <2>3. ASSUME NEW words \in Nat, NEW count \in Nat, words <= length,
               format = "array" => count * Item <= words,
               live' = words, items' = (IF format = "array" THEN count ELSE 0), step' = "walk",
               UNCHANGED <<format, needed, length, offset, touched, labelled>>
        PROVE  RecordInv' /\ WalkMoves
    BY <2>1, <2>3 DEF InBounds, Untouched, WalkInside, WalkMoves
  <2>4. PICK said \in {needed, 0, length + 1}, count \in 0..MaxNeeded :
          LET words == IF said = 0 /\ format = "process" THEN length ELSE said
          IN IF words > length \/ (words = 0 /\ format # "array")
                \/ (format = "array" /\ count * Item > words)
             THEN Ends("failed")
             ELSE /\ live' = words
                  /\ items' = IF format = "array" THEN count ELSE 0
                  /\ step' = "walk"
                  /\ UNCHANGED <<format, needed, length, offset, touched, labelled>>
    BY <1>2 DEF Fill
  <2> DEFINE words == IF said = 0 /\ format = "process" THEN length ELSE said
  <2>5. words \in Nat /\ count \in Nat /\ count * Item \in Nat
    BY RecordAssumption DEF Item
  <2>6. CASE words > length \/ (words = 0 /\ format # "array")
             \/ (format = "array" /\ count * Item > words)
    BY <2>2, <2>4, <2>6
  <2>7. CASE ~ (words > length \/ (words = 0 /\ format # "array")
                \/ (format = "array" /\ count * Item > words))
    <3>1. /\ live' = words
          /\ items' = IF format = "array" THEN count ELSE 0
          /\ step' = "walk"
          /\ UNCHANGED <<format, needed, length, offset, touched, labelled>>
      BY <2>4, <2>7
    <3>2. words <= length /\ (format = "array" => count * Item <= words)
      BY <2>5, <2>7
    <3> HIDE DEF words
    <3> QED
      BY <2>3, <2>5, <3>1, <3>2
  <2> QED
    BY <2>6, <2>7
<1>3. CASE FillAgain
  <2>1. CASE Ends("failed")
    BY <1>3, <2>1, EndsKeeps DEF FillAgain, WalkMoves
  <2>2. ASSUME NEW larger \in Nat, length' = larger,
               UNCHANGED <<format, step, needed, live, items, offset, touched, labelled>>
        PROVE  RecordInv' /\ WalkMoves
    BY <1>3, <2>2 DEF FillAgain, InBounds, Untouched, WalkInside, WalkMoves
  <2>3. 2 * length \in Nat /\ Max({needed, 2 * length}) \in Nat
    BY MaxOfTwo
  <2> QED
    BY <1>3, <2>1, <2>2, <2>3 DEF FillAgain
<1> QED
  BY <1>1, <1>2, <1>3

LEMMA TimesKeeps ==
  ASSUME RecordInv, FillTimes
  PROVE  RecordInv' /\ WalkMoves
<1> USE DEF RecordInv, Sizes
<1>1. PICK said \in {needed, 0, length + 1} :
       IF needed <= length
       THEN IF said > length THEN Ends("failed")
            ELSE /\ live' = IF said = 0 THEN length ELSE said
                 /\ touched' = 0..(live' - 1)
                 /\ step' = IF live' = 0 THEN "failed" ELSE "done"
                 /\ UNCHANGED <<format, needed, length, items, offset, labelled>>
       ELSE IF said <= length THEN Ends("failed")
            ELSE /\ length' = said
                 /\ UNCHANGED <<format, step, needed, live, items, offset, touched, labelled>>
  BY DEF FillTimes
<1>2. said \in Nat /\ step = "fill" /\ live = 0 /\ touched = {}
  BY DEF FillTimes, Untouched
<1>3. CASE Ends("failed")
  BY <1>2, <1>3, EndsKeeps DEF WalkMoves
<1>4. CASE /\ live' = (IF said = 0 THEN length ELSE said) /\ said <= length
           /\ touched' = 0..(live' - 1)
           /\ step' = (IF live' = 0 THEN "failed" ELSE "done")
           /\ UNCHANGED <<format, needed, length, items, offset, labelled>>
  BY <1>2, <1>4 DEF InBounds, Untouched, WalkInside, WalkMoves
<1>5. CASE /\ length' = said
           /\ UNCHANGED <<format, step, needed, live, items, offset, touched, labelled>>
  BY <1>2, <1>5 DEF InBounds, Untouched, WalkInside, WalkMoves
<1>6. ~ (said > length) => said <= length
  BY <1>2
<1> QED
  BY <1>1, <1>3, <1>4, <1>5, <1>6

\* What is read of a record lies inside of it.
LEMMA PayloadInside ==
  ASSUME NEW r \in Records, r.size >= Header, Accepted(r), format \in Relationships
  PROVE  Payload(r) \in Nat /\ Header + Payload(r) <= r.size /\ r.size \in Nat
<1>1. r.size \in Nat /\ r.groups \in Nat
  BY RecordAssumption DEF Records
<1>2. CASE r.kind = "core" /\ format # "caches"
  <2>1. MasksFit(r)
    BY <1>2 DEF Accepted, LabelsAccept, TopologyAccepts, Relationships
  <2>2. Payload(r) = 1 + r.groups
    BY <1>2 DEF Payload
  <2> QED
    BY <1>1, <2>1, <2>2 DEF MasksFit, Header
<1>3. CASE r.kind = "group" /\ format = "topology"
  <2>1. r.size >= Header + GroupCounts
    BY <1>3 DEF Accepted, TopologyAccepts
  <2>2. Payload(r) = GroupCounts
    BY <1>3 DEF Payload
  <2> QED
    BY <1>1, <2>1, <2>2 DEF Header, GroupCounts
<1>4. CASE r.kind = "cache" /\ format = "caches"
  <2>1. r.size >= Header + Cache
    BY <1>4 DEF Accepted, CachesAccept
  <2>2. Payload(r) = Cache
    BY <1>4 DEF Payload
  <2> QED
    BY <1>1, <2>1, <2>2 DEF Header, Cache
<1>5. CASE /\ ~ (r.kind = "core" /\ format # "caches")
           /\ ~ (r.kind = "group" /\ format = "topology")
           /\ ~ (r.kind = "cache" /\ format = "caches")
  <2>1. Payload(r) = 0
    BY <1>5 DEF Payload
  <2> QED
    BY <1>1, <2>1 DEF Header
<1> QED
  BY <1>2, <1>3, <1>4, <1>5

LEMMA RelationshipKeeps ==
  ASSUME RecordInv, ReadRelationship \/ EndRelationships
  PROVE  RecordInv' /\ WalkMoves
<1> USE DEF RecordInv, Sizes
<1>1. step = "walk" /\ format \in Relationships /\ offset <= live
  BY DEF ReadRelationship, EndRelationships, WalkInside
<1>2. CASE ReadRelationship
  <2>1. PICK r \in Records :
         IF ~Framed(r) \/ ~Accepted(r) THEN Ends("failed")
         ELSE /\ offset' = offset + r.size
              /\ touched' = offset..(offset + Header + Payload(r) - 1)
              /\ labelled' = IF format = "labels" /\ r.kind = "core" THEN labelled \cup r.siblings
                            ELSE labelled
              /\ UNCHANGED <<format, step, needed, length, live, items>>
    BY <1>2 DEF ReadRelationship
  <2>2. CASE Ends("failed")
    BY <2>2, EndsKeeps DEF Ends, WalkMoves
  <2>3. CASE Framed(r) /\ Accepted(r)
    <3>1. /\ offset' = offset + r.size
          /\ touched' = offset..(offset + Header + Payload(r) - 1)
          /\ UNCHANGED <<format, step, needed, length, live, items>>
      BY <2>1, <2>3
    <3>2. r.size >= Header /\ offset + r.size <= live
      BY <2>3 DEF Framed
    <3>3. Payload(r) \in Nat /\ Header + Payload(r) <= r.size /\ r.size \in Nat
      BY <1>1, <2>3, <3>2, PayloadInside
    <3>4. offset' \in Nat /\ offset' > offset /\ offset' <= live
      BY <3>1, <3>2, <3>3 DEF Header
    <3>5. touched' \subseteq 0..(live - 1)
      BY <3>1, <3>2, <3>3 DEF Header
    <3> QED
      BY <1>1, <3>1, <3>4, <3>5 DEF InBounds, Untouched, WalkInside, WalkMoves, Relationships
  <2> QED
    BY <2>1, <2>2, <2>3
<1>3. CASE EndRelationships
  <2>1. offset >= live /\ (Ends("failed") \/ Ends("done"))
    BY <1>3 DEF EndRelationships
  <2>2. offset = live
    BY <1>1, <2>1
  <2> QED
    BY <2>1, <2>2, EndsKeeps DEF Ends, WalkMoves
<1> QED
  BY <1>2, <1>3

LEMMA ProcessKeeps ==
  ASSUME RecordInv, ReadProcess
  PROVE  RecordInv' /\ WalkMoves
<1> USE DEF RecordInv, Sizes
<1>1. step = "walk" /\ format = "process"
  BY DEF ReadProcess
<1>2. PICK next \in 0..MaxNeeded, name \in -1..MaxNeeded, units \in 0..2 :
       IF offset + Fixed > live \/ (units > 0 /\ (name < 0 \/ name + units > live))
       THEN Ends("failed")
       ELSE /\ touched' = offset..(offset + Fixed - 1) \cup name..(name + units - 1)
            /\ \/ next = 0 /\ step' = "done" /\ UNCHANGED offset
               \/ next > 0 /\ next < Fixed /\ step' = "failed" /\ UNCHANGED offset
               \/ next >= Fixed /\ offset' = offset + next
                  /\ step' = IF offset + next >= live THEN "failed" ELSE "walk"
            /\ UNCHANGED <<format, needed, length, live, items, labelled>>
  BY DEF ReadProcess
<1>3. next \in Nat /\ name \in Int /\ units \in Nat
  BY RecordAssumption
<1>4. CASE Ends("failed")
  BY <1>4, EndsKeeps DEF Ends, WalkMoves
<1>5. CASE ~ (offset + Fixed > live \/ (units > 0 /\ (name < 0 \/ name + units > live)))
  <2>1. /\ touched' = offset..(offset + Fixed - 1) \cup name..(name + units - 1)
        /\ \/ step' \in {"done", "failed"} /\ offset' = offset
           \/ next >= Fixed /\ offset' = offset + next /\ step' \in {"failed", "walk"}
        /\ UNCHANGED <<format, needed, length, live, items, labelled>>
    BY <1>2, <1>5
  <2>2. touched' \subseteq 0..(live - 1)
    <3>1. offset..(offset + Fixed - 1) \subseteq 0..(live - 1)
      BY <1>5 DEF Fixed
    <3>2. name..(name + units - 1) \subseteq 0..(live - 1)
      <4>1. CASE units = 0
        BY <1>3, <4>1
      <4>2. CASE units > 0
        BY <1>3, <1>5, <4>2 DEF Fixed
      <4> QED
        BY <1>3, <4>1, <4>2
    <3> QED
      BY <2>1, <3>1, <3>2
  <2>3. offset' \in Nat /\ (step' = "walk" => offset' > offset)
    BY <1>3, <2>1 DEF Fixed
  <2> QED
    BY <1>1, <2>1, <2>2, <2>3
    DEF InBounds, Untouched, WalkInside, WalkMoves, Relationships
<1> QED
  BY <1>2, <1>4, <1>5

LEMMA ItemKeeps ==
  ASSUME RecordInv, ReadItem \/ EndItems
  PROVE  RecordInv' /\ WalkMoves
<1> USE DEF RecordInv, Sizes
<1>1. step = "walk" /\ format = "array" /\ items * Item <= live
  BY DEF ReadItem, EndItems, WalkInside
<1>2. CASE Ends("failed") \/ Ends("done")
  BY <1>1, <1>2, EndsKeeps DEF Ends, WalkMoves, Relationships
<1>3. CASE ReadItem
  <2>1. PICK name \in -1..MaxNeeded, end \in 0..MaxNeeded, valid \in BOOLEAN, skip \in BOOLEAN :
         LET named == name >= 0 /\ name < live
             ended == named /\ end \in name..(live - 1)
         IN IF ~(ended /\ valid) /\ ~skip THEN Ends("failed")
            ELSE /\ offset' = offset + 1
                 /\ touched' = (offset * Item)..((offset + 1) * Item - 1)
                                 \cup IF named THEN name..(IF ended THEN end ELSE live - 1) ELSE {}
                 /\ UNCHANGED <<format, step, needed, length, live, items, labelled>>
    BY <1>3 DEF ReadItem
  <2> DEFINE named == name >= 0 /\ name < live
             ended == named /\ end \in name..(live - 1)
             text == IF named THEN name..(IF ended THEN end ELSE live - 1) ELSE {}
  <2>2. name \in Int /\ end \in Nat /\ offset < items
    BY <1>3, RecordAssumption DEF ReadItem
  <2>3. text \subseteq 0..(live - 1)
    <3>1. CASE ~ named
      BY <3>1
    <3>2. CASE named /\ ended
      <4>1. text = name..end /\ end <= live - 1 /\ name >= 0
        BY <2>2, <3>2
      <4> QED
        BY <2>2, <4>1
    <3>3. CASE named /\ ~ ended
      <4>1. text = name..(live - 1) /\ name >= 0
        BY <3>3
      <4> QED
        BY <2>2, <4>1
    <3> QED
      BY <3>1, <3>2, <3>3
  <2>4. (offset * Item)..((offset + 1) * Item - 1) \subseteq 0..(live - 1)
    BY <1>1, <2>2 DEF Item
  <2>5. CASE Ends("failed")
    BY <1>2, <2>5
  <2>6. CASE /\ offset' = offset + 1
             /\ touched' = (offset * Item)..((offset + 1) * Item - 1) \cup text
             /\ UNCHANGED <<format, step, needed, length, live, items, labelled>>
    <3>1. touched' \subseteq 0..(live - 1)
      BY <2>3, <2>4, <2>6
    <3> HIDE DEF text
    <3>2. offset' \in Nat /\ offset' > offset
      BY <2>6
    <3> QED
      BY <1>1, <2>6, <3>1, <3>2 DEF InBounds, Untouched, WalkInside, WalkMoves, Relationships
  <2> QED
    BY <2>1, <2>5, <2>6
<1> QED
  BY <1>2, <1>3 DEF EndItems

LEMMA RecordStep == RecordInv /\ [RecordNext]_recordVars => RecordInv'
<1> SUFFICES ASSUME RecordInv, [RecordNext]_recordVars PROVE RecordInv'
  OBVIOUS
<1>1. CASE UNCHANGED recordVars
  BY <1>1 DEF recordVars, RecordInv, Sizes, InBounds, Untouched, WalkInside
<1> QED
  BY <1>1, QueryKeeps, SizeKeeps, TimesKeeps, RelationshipKeeps, ProcessKeeps, ItemKeeps
  DEF RecordNext

LEMMA RecordMoves ==
  RecordInv /\ RecordInv' /\ [RecordNext]_recordVars =>
    [/\ touched' \subseteq 0..(live' - 1)
     /\ live' <= length'
     /\ step = "walk" /\ step' = "walk" => offset' > offset
     /\ step = "walk" /\ step' = "done" /\ format \in Relationships => offset = live
    ]_recordVars
<1> SUFFICES ASSUME RecordInv, RecordInv', RecordNext
             PROVE  /\ touched' \subseteq 0..(live' - 1)
                    /\ live' <= length'
                    /\ step = "walk" /\ step' = "walk" => offset' > offset
                    /\ step = "walk" /\ step' = "done" /\ format \in Relationships => offset = live
  OBVIOUS
<1>1. WalkMoves
  BY QueryKeeps, SizeKeeps, TimesKeeps, RelationshipKeeps, ProcessKeeps, ItemKeeps DEF RecordNext
<1> QED
  BY <1>1 DEF RecordInv, InBounds, WalkMoves

\* For buffers of any size and any content, with a system that changes between
\* any two calls: nothing is read beyond the words that were written, which lie
\* in the allocation, each step moves on, and records taken for whole tile them.
THEOREM RecordsAreReadInBounds == RecordSpec => ReadsStayInBounds
<1>1. RecordInit => RecordInv
  BY RecordAssumption
  DEF RecordInit, RecordInv, Sizes, Formats, InBounds, Untouched, WalkInside
<1>2. RecordSpec => []RecordInv
  BY <1>1, RecordStep, PTL DEF RecordSpec
<1> QED
  BY <1>2, RecordMoves, PTL DEF RecordSpec, ReadsStayInBounds

-----------------------------------------------------------------------------
(* WindowsAccounts.  The services read so far with a PID are the one with the *)
(* account noted for it, unless two of them differ: then no account is noted  *)
(* any more, in whatever order they come.                                     *)

NamesOK ==
  /\ IsFiniteSet(DOMAIN names) /\ Cardinality(DOMAIN names) <= MaxNames
  /\ \A s \in DOMAIN names : names[s] \in Nat

OneAccount ==
  /\ \A s \in readable : s[1] \in DOMAIN accounts
  /\ \A p \in DOMAIN accounts :
       accounts[p] = Unnamed \/ {s \in readable : s[1] = p} = {<<p, accounts[p]>>}

AccountInv == NamesOK /\ OneAccount

\* Which names may leave the cache.
NamesKept ==
  \A s \in DOMAIN names \ DOMAIN names' :
    names[s] > 0 \/ \A t \in DOMAIN names' : names'[t] = 0

Agreed ==
  known' # known =>
    \A p \in DOMAIN known' : {s \in readable : s[1] = p} = {<<p, known'[p]>>}

LEMMA NamesAge ==
  ASSUME AccountInv, BeginRefresh
  PROVE  AccountInv' /\ NamesKept /\ Agreed
<1>1. /\ names' = [s \in DOMAIN names |-> Min({names[s] + 1, MaxUnused})]
      /\ UNCHANGED <<accounts, readable, known>>
  BY DEF BeginRefresh
<1>2. ASSUME NEW a \in Nat, NEW b \in Nat PROVE Min({a, b}) \in Nat
  <2>1. \E x \in {a, b} : \A y \in {a, b} : x =< y
    <3>1. CASE a =< b
      BY <3>1
    <3>2. CASE b =< a
      BY <3>2
    <3> QED
      BY <3>1, <3>2
  <2> QED
    BY <2>1 DEF Min
<1>3. \A s \in DOMAIN names : Min({names[s] + 1, MaxUnused}) \in Nat
  BY <1>2, AccountAssumption DEF AccountInv, NamesOK
<1>4. DOMAIN names' = DOMAIN names /\ \A s \in DOMAIN names : names'[s] \in Nat
  BY <1>1, <1>3
<1>5. NamesOK'
  BY <1>4 DEF AccountInv, NamesOK
<1> QED
  BY <1>1, <1>4, <1>5 DEF AccountInv, OneAccount, NamesKept, Agreed

LEMMA NameCached ==
  ASSUME AccountInv, NEW sid \in Sids, AccountName(sid)
  PROVE  AccountInv' /\ NamesKept /\ Agreed
<1>1. UNCHANGED <<accounts, readable, known>>
  BY DEF AccountName
<1>2. PICK gone \in Removed(sid) :
        names' = [s \in (DOMAIN names \ gone) \cup {sid} |-> IF s = sid THEN 0 ELSE names[s]]
  BY DEF AccountName
<1> DEFINE D == DOMAIN names
<1>3. /\ IsFiniteSet(D) /\ Cardinality(D) \in Nat /\ Cardinality(D) <= MaxNames
      /\ MaxNames \in Nat
      /\ \A s \in D : names[s] \in Nat
  BY FS_CardinalityType, AccountAssumption DEF AccountInv, NamesOK
<1>4. DOMAIN names' = (D \ gone) \cup {sid}
  BY <1>2
<1>5. \A s \in DOMAIN names' : names'[s] = IF s = sid THEN 0 ELSE names[s]
  BY <1>2
<1>6. \A s \in DOMAIN names' : names'[s] \in Nat
  BY <1>3, <1>4, <1>5
<1>7. CASE sid \in D
  <2>1. gone = {} /\ DOMAIN names' = D
    BY <1>2, <1>4, <1>7 DEF Removed
  <2> QED
    BY <1>1, <1>3, <1>6, <2>1 DEF AccountInv, NamesOK, OneAccount, NamesKept, Agreed
<1>8. CASE sid \notin D /\ Cardinality(D) < MaxNames
  <2>1. gone = {} /\ DOMAIN names' = D \cup {sid}
    BY <1>2, <1>4, <1>8 DEF Removed
  <2>2. IsFiniteSet(D \cup {sid}) /\ Cardinality(D \cup {sid}) = Cardinality(D) + 1
    BY <1>3, <1>8, FS_AddElement
  <2>3. NamesOK'
    <3>1. Cardinality(DOMAIN names') <= MaxNames
      BY <1>3, <1>8, <2>1, <2>2
    <3> QED
      BY <1>6, <2>1, <2>2, <3>1 DEF NamesOK
  <2> QED
    BY <1>1, <2>1, <2>3 DEF AccountInv, OneAccount, NamesKept, Agreed
<1>9. CASE sid \notin D /\ ~ (Cardinality(D) < MaxNames)
  <2>1. PICK oldest \in D : gone = {oldest} /\ \A t \in D : names[t] <= names[oldest]
    BY <1>2, <1>9 DEF Removed
  <2>2. /\ IsFiniteSet(D \ {oldest}) /\ Cardinality(D \ {oldest}) = Cardinality(D) - 1
    BY <1>3, <2>1, FS_RemoveElement
  <2>3. /\ IsFiniteSet((D \ {oldest}) \cup {sid})
        /\ Cardinality((D \ {oldest}) \cup {sid}) = Cardinality(D \ {oldest}) + 1
    BY <1>9, <2>2, FS_AddElement
  <2>4. DOMAIN names' = (D \ {oldest}) \cup {sid}
    BY <1>4, <2>1
  <2>5. NamesOK'
    <3>1. Cardinality(DOMAIN names') <= MaxNames
      BY <1>3, <2>2, <2>3, <2>4
    <3> QED
      BY <1>6, <2>3, <2>4, <3>1 DEF NamesOK
  <2>6. NamesKept
    <3> SUFFICES ASSUME NEW s \in D \ DOMAIN names', ~ (names[s] > 0),
                        NEW t \in DOMAIN names'
                 PROVE  names'[t] = 0
      BY DEF NamesKept
    <3>1. s = oldest /\ names[oldest] = 0
      BY <1>3, <2>4
    <3>2. CASE t = sid
      BY <1>5, <3>2
    <3>3. CASE t # sid
      <4>1. t \in D /\ names'[t] = names[t]
        BY <1>5, <2>4, <3>3
      <4> QED
        BY <1>3, <2>1, <3>1, <4>1
    <3> QED
      BY <3>2, <3>3
  <2> QED
    BY <1>1, <2>5, <2>6 DEF AccountInv, OneAccount, Agreed
<1> QED
  BY <1>7, <1>8, <1>9

LEMMA ServiceRead ==
  ASSUME AccountInv, NEW service \in Services, ReadService(service)
  PROVE  AccountInv' /\ NamesKept /\ Agreed
<1>1. UNCHANGED <<names, known>>
  BY DEF ReadService
<1>2. NamesKept /\ Agreed /\ NamesOK'
  BY <1>1 DEF NamesKept, Agreed, NamesOK, AccountInv
<1> DEFINE pid == service[1]
           account == IF pid \in DOMAIN accounts /\ accounts[pid] # service[2]
                      THEN Unnamed ELSE service[2]
<1>3. CASE UNCHANGED <<accounts, readable>>
  BY <1>3, <1>2 DEF AccountInv, OneAccount
<1>4. CASE /\ accounts' = [p \in DOMAIN accounts \cup {pid} |->
                             IF p = pid THEN account ELSE accounts[p]]
           /\ readable' = readable \cup {service}
  <2>1. service = <<pid, service[2]>>
    BY AccountAssumption
  <2>2. \A s \in readable' : s[1] \in DOMAIN accounts'
    BY <1>4 DEF AccountInv, OneAccount
  <2>3. ASSUME NEW p \in DOMAIN accounts', accounts'[p] # Unnamed
        PROVE  {s \in readable' : s[1] = p} = {<<p, accounts'[p]>>}
    <3>1. CASE p # pid
      <4>1. p \in DOMAIN accounts /\ accounts'[p] = accounts[p]
        BY <1>4, <3>1
      <4>2. {s \in readable' : s[1] = p} = {s \in readable : s[1] = p}
        BY <1>4, <3>1
      <4> QED
        BY <2>3, <4>1, <4>2 DEF AccountInv, OneAccount
    <3>2. CASE p = pid
      <4>1. accounts'[p] = account /\ account = service[2]
        BY <1>4, <2>3, <3>2
      <4>2. {s \in readable' : s[1] = p} = {s \in readable : s[1] = p} \cup {<<p, service[2]>>}
        BY <1>4, <2>1, <3>2
      <4>3. CASE pid \notin DOMAIN accounts
        <5>1. {s \in readable : s[1] = p} = {}
          BY <3>2, <4>3 DEF AccountInv, OneAccount
        <5> QED
          BY <4>1, <4>2, <5>1
      <4>4. CASE pid \in DOMAIN accounts
        <5>1. accounts[p] = service[2]
          BY <2>3, <3>2, <4>1, <4>4
        <5>2. {s \in readable : s[1] = p} = {<<p, service[2]>>}
          BY <2>3, <3>2, <4>1, <4>4, <5>1 DEF AccountInv, OneAccount
        <5> QED
          BY <4>1, <4>2, <5>2
      <4> QED
        BY <4>3, <4>4
    <3> QED
      BY <3>1, <3>2
  <2> QED
    BY <1>2, <2>2, <2>3 DEF AccountInv, OneAccount
<1> QED
  BY <1>3, <1>4 DEF ReadService

LEMMA ServicesEnd ==
  ASSUME AccountInv, EndServices
  PROVE  AccountInv' /\ NamesKept /\ Agreed
<1>1. names' = names /\ accounts' = NoAccounts /\ readable' = {}
  BY DEF EndServices
<1>2. AccountInv' /\ NamesKept
  BY <1>1 DEF AccountInv, NamesOK, OneAccount, NoAccounts, NamesKept
<1>3. CASE known' = known
  BY <1>2, <1>3 DEF Agreed
<1>4. CASE known' = Restrict(accounts, {p \in DOMAIN accounts : accounts[p] # Unnamed})
  <2>1. \A p \in DOMAIN known' :
          p \in DOMAIN accounts /\ accounts[p] # Unnamed /\ known'[p] = accounts[p]
    BY <1>4 DEF Restrict
  <2> QED
    BY <1>2, <2>1 DEF Agreed, AccountInv, OneAccount
<1> QED
  BY <1>3, <1>4 DEF EndServices

LEMMA AccountStep ==
  ASSUME AccountInv, AccountNext
  PROVE  AccountInv' /\ NamesKept /\ Agreed
<1>1. ASSUME NEW service \in Services, StartOrStopService(service)
      PROVE  AccountInv' /\ NamesKept /\ Agreed
  BY <1>1 DEF StartOrStopService, AccountInv, NamesOK, OneAccount, NamesKept, Agreed
<1> QED
  BY <1>1, NamesAge, NameCached, ServiceRead, ServicesEnd DEF AccountNext

\* For any services, any cache and any interval: the names kept are no more than
\* the cache holds, the name that goes was not used since the refresh began as
\* long as there is such a one, and an account is shown for a PID only if all
\* services of that PID that could be read run under it.
THEOREM AccountsAgree == AccountSpec => AccountsSound
<1>1. AccountInit => AccountInv
  BY FS_EmptySet, AccountAssumption
  DEF AccountInit, AccountInv, NamesOK, OneAccount, NoAccounts
<1>2. AccountInv /\ UNCHANGED accountVars => AccountInv'
  BY DEF accountVars, AccountInv, NamesOK, OneAccount
<1>3. AccountSpec => []AccountInv
  BY <1>1, <1>2, AccountStep, PTL DEF AccountSpec
<1>4. AccountInv /\ [AccountNext]_accountVars =>
        [/\ Cardinality(DOMAIN names') <= MaxNames
         /\ \A s \in DOMAIN names \ DOMAIN names' :
              names[s] > 0 \/ \A t \in DOMAIN names' : names'[t] = 0
         /\ known' # known =>
              \A p \in DOMAIN known' : {s \in readable : s[1] = p} = {<<p, known'[p]>>}
        ]_accountVars
  <2> SUFFICES ASSUME AccountInv, AccountNext
               PROVE  /\ Cardinality(DOMAIN names') <= MaxNames
                      /\ \A s \in DOMAIN names \ DOMAIN names' :
                           names[s] > 0 \/ \A t \in DOMAIN names' : names'[t] = 0
                      /\ known' # known =>
                           \A p \in DOMAIN known' : {s \in readable : s[1] = p} = {<<p, known'[p]>>}
    OBVIOUS
  <2>1. AccountInv' /\ NamesKept /\ Agreed
    BY AccountStep
  <2> QED
    BY <2>1 DEF AccountInv, NamesOK, NamesKept, Agreed
<1> QED
  BY <1>3, <1>4, PTL DEF AccountSpec, AccountsSound

-----------------------------------------------------------------------------
(* WindowsTargets.  Numbers of the system grow: whatever has a name that did  *)
(* not have it when a sample or a request began carries a later number.  What *)
(* was read of a name is therefore still true of it, unless the name is free, *)
(* or belongs to something later.                                             *)

\* A window belongs to a process that is alive and was there before it.
WindowOwned(h) ==
  /\ window[h].number \in 0..made
  /\ \E p \in TargetPids :
       alive[p] # Nobody /\ window[h].owner = <<p, alive[p]>> /\ window[h].number > alive[p]

SystemOK ==
  /\ made \in Nat
  /\ everyone \subseteq TargetPids \X Nat
  /\ DOMAIN alive = TargetPids /\ DOMAIN logon = SessionIds /\ DOMAIN window = Handles
  /\ \A p \in TargetPids : alive[p] = Nobody \/ alive[p] \in 0..made
  /\ \A s \in SessionIds : logon[s] = Nobody \/ logon[s] \in 0..made
  /\ \A h \in Handles : window[h] # Nobody => WindowOwned(h)

\* What a step of the system does to the names.
Later(n) == n \in Nat /\ n > made

Moves ==
  /\ made' \in Nat /\ made <= made'
  /\ \A p \in TargetPids : alive'[p] \in {alive[p], Nobody} \/ Later(alive'[p])
  /\ \A s \in SessionIds : logon'[s] \in {logon[s], Nobody} \/ Later(logon'[s])
  /\ \A h \in Handles : window'[h] \in {window[h], Nobody} \/ Later(window'[h].number)

\* The process of a PID is the one named, gone, or created since the sample began.
StillNames(p, n) == alive[p] \in {n, Nobody} \/ alive[p] > began

IdentitiesOK ==
  /\ DOMAIN identities \subseteq TargetPids
  /\ \A p \in DOMAIN identities :
       identities[p] = Nobody \/ \E n \in Nat : identities[p] = <<p, n>> /\ StillNames(p, n)

\* A window being read: what it said of its owner, and what the PID says.
WindowVisited ==
  \E p \in TargetPids, n \in Nat :
    /\ visited.seen.owner = <<p, n>> /\ StillNames(p, n)
    /\ visited.seen.number \in Nat /\ visited.seen.number > n
    /\ IF "process" \in DOMAIN visited
       THEN \/ visited.process = <<p, n>> \/ visited.seen.number > began
            \/ visited.process[2] > began
       ELSE p \in DOMAIN identities =>
              identities[p] \in {<<p, n>>, Nobody} \/ visited.seen.number > began

SessionVisited ==
  /\ visited.session \in SessionIds
  /\ logon[visited.session] \in {visited.user, Nobody} \/ logon[visited.session] > began

SamplingOK ==
  /\ began \in Nat /\ began <= made
  /\ IdentitiesOK
  /\ page = "applications" /\ visited # Nobody => WindowVisited
  /\ page = "users" /\ visited # Nobody => SessionVisited
  /\ \A x \in DOMAIN bitness : bitness[x] = x
  /\ \A r \in rows : RowSound(r)
  /\ page = Nobody => rows = {} /\ identities = NoneFound /\ visited = Nobody

\* What was verified of a target holds of whatever has its name.
Verified(t) ==
  /\ t.kind = "window" =>
       /\ t.name \in Handles
       /\ \/ window[t.name] = Nobody \/ window[t.name].owner = t.identity
          \/ window[t.name].number > request.since
  /\ t.kind = "session" =>
       /\ t.name \in SessionIds
       /\ logon[t.name] \in {t.identity, Nobody} \/ logon[t.name] > request.since

HalfVerified(t) ==
  /\ t.kind = "window" /\ t.name \in Handles
  /\ \/ window[t.name] = Nobody \/ window[t.name].owner[1] = t.identity[1]
     \/ window[t.name].number > request.since

HitOK ==
  hit # Nobody /\ hit.on # Nobody =>
    hit.on.owner = hit.target.identity \/ hit.on.number > request.since

ActingOK ==
  /\ request # Nobody =>
       /\ request = [waits |-> request.waits, targets |-> request.targets, since |-> request.since]
       /\ request.since \in Nat /\ request.since <= made
  /\ request = Nobody \/ request.waits => checked = {} /\ reading = Nobody /\ hit = Nobody
  /\ \A t \in checked : Verified(t)
  /\ reading # Nobody => HalfVerified(reading)
  /\ HitOK

TargetInv == SystemOK /\ SamplingOK /\ ActingOK

\* A step disturbs neither the rows of a sample under way nor the action of a hit.
Apart == (rows' # {} => began' = began) /\ (hit' # Nobody => request' = request)

\* The system.
LEMMA SystemMoves ==
  ASSUME SystemOK,
         \/ \E p \in TargetPids : BeginProcess(p) \/ FinishProcess(p)
         \/ \E h \in Handles : DestroyWindow(h)
         \/ \E h \in Handles, p \in TargetPids : CreateWindow(h, p)
         \/ \E s \in SessionIds : LogOn(s) \/ LogOff(s)
  PROVE  SystemOK' /\ Moves /\ UNCHANGED <<sampling, acting>>
<1>0. made \in Nat /\ made + 1 \in Nat /\ made + 1 > made
  BY DEF SystemOK
<1>1. ASSUME NEW p \in TargetPids, BeginProcess(p)
      PROVE  SystemOK' /\ Moves /\ UNCHANGED <<sampling, acting>>
  <2>1. /\ alive[p] = Nobody /\ made' = made + 1 /\ alive' = [alive EXCEPT ![p] = made + 1]
        /\ everyone' = everyone \cup {<<p, made + 1>>}
        /\ UNCHANGED <<window, logon, sampling, acting>>
    BY <1>1 DEF BeginProcess, Created
  <2>2. /\ DOMAIN alive' = TargetPids /\ alive'[p] = made + 1
        /\ \A q \in TargetPids : q # p => alive'[q] = alive[q]
    BY <2>1 DEF SystemOK
  <2>3. \A h \in Handles : window'[h] # Nobody => WindowOwned(h)'
    <3> SUFFICES ASSUME NEW h \in Handles, window[h] # Nobody
                 PROVE  WindowOwned(h)'
      BY <2>1
    <3>1. PICK q \in TargetPids :
            alive[q] # Nobody /\ window[h].owner = <<q, alive[q]>> /\ window[h].number > alive[q]
      BY DEF SystemOK, WindowOwned
    <3>2. q # p /\ alive'[q] = alive[q]
      BY <2>1, <2>2, <3>1
    <3>3. window[h].number \in 0..made'
      BY <1>0, <2>1 DEF SystemOK, WindowOwned
    <3> QED
      BY <2>1, <3>1, <3>2, <3>3 DEF WindowOwned
  <2>4. \A q \in TargetPids : alive'[q] = Nobody \/ alive'[q] \in 0..made'
    BY <1>0, <2>1, <2>2 DEF SystemOK
  <2>5. \A s \in SessionIds : logon'[s] = Nobody \/ logon'[s] \in 0..made'
    BY <1>0, <2>1 DEF SystemOK
  <2>6. SystemOK'
    BY <1>0, <2>1, <2>2, <2>3, <2>4, <2>5 DEF SystemOK
  <2> QED
    BY <1>0, <2>1, <2>2, <2>6 DEF Moves, Later
<1>2. ASSUME NEW p \in TargetPids, FinishProcess(p)
      PROVE  SystemOK' /\ Moves /\ UNCHANGED <<sampling, acting>>
  <2>1. /\ alive[p] # Nobody /\ alive' = [alive EXCEPT ![p] = Nobody]
        /\ window' = [h \in Handles |->
                       IF window[h] # Nobody /\ window[h].owner = Owner(p) THEN Nobody ELSE window[h]]
        /\ UNCHANGED <<made, everyone, logon, sampling, acting>>
    BY <1>2 DEF FinishProcess
  <2>2. /\ DOMAIN alive' = TargetPids /\ alive'[p] = Nobody
        /\ \A q \in TargetPids : q # p => alive'[q] = alive[q]
    BY <2>1 DEF SystemOK
  <2>3. ASSUME NEW h \in Handles, window'[h] # Nobody
        PROVE  WindowOwned(h)' /\ window'[h] = window[h]
    <3>1. window'[h] = window[h] /\ window[h] # Nobody /\ window[h].owner # Owner(p)
      BY <2>1, <2>3
    <3>2. PICK q \in TargetPids :
            alive[q] # Nobody /\ window[h].owner = <<q, alive[q]>> /\ window[h].number > alive[q]
      BY <3>1 DEF SystemOK, WindowOwned
    <3>3. q # p
      BY <2>1, <3>1, <3>2 DEF Owner
    <3>4. window[h].number \in 0..made
      BY <3>1 DEF SystemOK, WindowOwned
    <3> QED
      BY <2>1, <2>2, <3>1, <3>2, <3>3, <3>4 DEF WindowOwned
  <2>4. DOMAIN window' = Handles
    BY <2>1
  <2>5. \A h \in Handles : window'[h] \in {window[h], Nobody}
    BY <2>3
  <2>6. SystemOK'
    BY <2>1, <2>2, <2>3, <2>4 DEF SystemOK
  <2> QED
    BY <1>0, <2>1, <2>2, <2>5, <2>6 DEF Moves
<1>3. ASSUME NEW h \in Handles, DestroyWindow(h)
      PROVE  SystemOK' /\ Moves /\ UNCHANGED <<sampling, acting>>
  <2>1. /\ window' = [window EXCEPT ![h] = Nobody]
        /\ UNCHANGED <<made, everyone, alive, logon, sampling, acting>>
    BY <1>3 DEF DestroyWindow
  <2>2. DOMAIN window' = Handles /\ \A g \in Handles : window'[g] \in {window[g], Nobody}
    BY <2>1 DEF SystemOK
  <2>3. SystemOK'
    BY <2>1, <2>2 DEF SystemOK, WindowOwned
  <2> QED
    BY <1>0, <2>1, <2>2, <2>3 DEF Moves
<1>4. ASSUME NEW h \in Handles, NEW p \in TargetPids, CreateWindow(h, p)
      PROVE  SystemOK' /\ Moves /\ UNCHANGED <<sampling, acting>>
  <2>1. /\ alive[p] # Nobody /\ made' = made + 1
        /\ window' = [window EXCEPT ![h] = [number |-> made + 1, owner |-> <<p, alive[p]>>]]
        /\ UNCHANGED <<everyone, alive, logon, sampling, acting>>
    BY <1>4 DEF CreateWindow, Created, Owner
  <2>2. /\ DOMAIN window' = Handles
        /\ window'[h] = [number |-> made + 1, owner |-> <<p, alive[p]>>]
        /\ \A g \in Handles : g # h => window'[g] = window[g]
    BY <2>1 DEF SystemOK
  <2>3. ASSUME NEW g \in Handles, window'[g] # Nobody
        PROVE  WindowOwned(g)'
    <3>1. CASE g = h
      <4>1. alive[p] \in 0..made
        BY <2>1 DEF SystemOK
      <4>2. made + 1 > alive[p] /\ made + 1 \in 0..made'
        BY <1>0, <2>1, <4>1
      <4> QED
        BY <2>1, <2>2, <3>1, <4>2 DEF WindowOwned
    <3>2. CASE g # h
      <4>1. window'[g] = window[g] /\ WindowOwned(g)
        BY <2>2, <2>3, <3>2 DEF SystemOK
      <4>2. window[g].number \in 0..made'
        BY <1>0, <2>1, <4>1 DEF WindowOwned
      <4> QED
        BY <2>1, <4>1, <4>2 DEF WindowOwned
    <3> QED
      BY <3>1, <3>2
  <2>4. \A q \in TargetPids : alive'[q] = Nobody \/ alive'[q] \in 0..made'
    BY <1>0, <2>1 DEF SystemOK
  <2>5. \A s \in SessionIds : logon'[s] = Nobody \/ logon'[s] \in 0..made'
    BY <1>0, <2>1 DEF SystemOK
  <2>6. SystemOK'
    BY <1>0, <2>1, <2>2, <2>3, <2>4, <2>5 DEF SystemOK
  <2>7. window'[h].number = made + 1
    BY <2>2
  <2> QED
    BY <1>0, <2>1, <2>2, <2>6, <2>7 DEF Moves, Later
<1>5. ASSUME NEW s \in SessionIds, LogOn(s) \/ LogOff(s)
      PROVE  SystemOK' /\ Moves /\ UNCHANGED <<sampling, acting>>
  <2>1. /\ UNCHANGED <<everyone, alive, window, sampling, acting>>
        /\ \/ made' = made + 1 /\ logon' = [logon EXCEPT ![s] = made + 1]
           \/ made' = made /\ logon' = [logon EXCEPT ![s] = Nobody]
    BY <1>5 DEF LogOn, LogOff, Created
  <2>2. /\ DOMAIN logon' = SessionIds /\ logon'[s] \in {made', Nobody}
        /\ \A z \in SessionIds : z # s => logon'[z] = logon[z]
        /\ logon'[s] = Nobody \/ (logon'[s] = made + 1 /\ made' = made + 1)
        /\ made' \in {made, made + 1}
    BY <2>1 DEF SystemOK
  <2>3. \A z \in SessionIds : logon'[z] = Nobody \/ logon'[z] \in 0..made'
    BY <1>0, <2>2 DEF SystemOK
  <2>4. \A q \in TargetPids : alive'[q] = Nobody \/ alive'[q] \in 0..made'
    BY <1>0, <2>1, <2>2 DEF SystemOK
  <2>5. ASSUME NEW h \in Handles, window[h] # Nobody PROVE WindowOwned(h)'
    <3>1. WindowOwned(h)
      BY <2>5 DEF SystemOK
    <3>2. window[h].number \in 0..made'
      BY <1>0, <2>2, <3>1 DEF WindowOwned
    <3> QED
      BY <2>1, <3>1, <3>2 DEF WindowOwned
  <2>6. SystemOK'
    BY <1>0, <2>1, <2>2, <2>3, <2>4, <2>5 DEF SystemOK
  <2> QED
    BY <1>0, <2>1, <2>2, <2>6 DEF Moves, Later
<1> QED
  BY <1>1, <1>2, <1>3, <1>4, <1>5

LEMMA NamesStand ==
  ASSUME Moves, made \in Nat, began' = began, began \in Nat, began <= made,
         NEW p \in TargetPids, NEW n \in Nat, StillNames(p, n)
  PROVE  StillNames(p, n)'
<1>1. alive'[p] \in {alive[p], Nobody} \/ Later(alive'[p])
  BY DEF Moves
<1>2. CASE alive'[p] \in {alive[p], Nobody}
  BY <1>2 DEF StillNames
<1>3. CASE Later(alive'[p])
  BY <1>3 DEF StillNames, Later
<1> QED
  BY <1>1, <1>2, <1>3

\* What a sample and an action know survives it.
LEMMA SamplingStands ==
  ASSUME TargetInv, Moves, UNCHANGED sampling
  PROVE  SamplingOK'
<1>1. /\ UNCHANGED <<page, began, enumerating, visited, identities, bitness, rows>>
      /\ made \in Nat /\ made' \in Nat /\ made <= made' /\ began \in Nat /\ began <= made
  BY DEF sampling, TargetInv, SystemOK, SamplingOK, Moves
<1>2. IdentitiesOK'
  BY <1>1, NamesStand DEF IdentitiesOK, TargetInv, SamplingOK
<1>3. WindowVisited => WindowVisited'
  BY <1>1, NamesStand DEF WindowVisited
<1>4. SessionVisited => SessionVisited'
  <2> SUFFICES ASSUME SessionVisited PROVE SessionVisited'
    OBVIOUS
  <2> DEFINE s == visited.session
  <2>1. s \in SessionIds /\ (logon[s] \in {visited.user, Nobody} \/ logon[s] > began)
    BY DEF SessionVisited
  <2>2. logon'[s] \in {logon[s], Nobody} \/ Later(logon'[s])
    BY <2>1 DEF Moves
  <2>3. logon'[s] \in {visited.user, Nobody} \/ logon'[s] > began
    BY <1>1, <2>1, <2>2 DEF Later
  <2> QED
    BY <1>1, <2>1, <2>3 DEF SessionVisited
<1>5. \A r \in rows' : RowSound(r)'
  BY <1>1 DEF RowSound, TargetInv, SamplingOK
<1>6. began' \in Nat /\ began' <= made'
  BY <1>1
<1> QED
  BY <1>1, <1>2, <1>3, <1>4, <1>5, <1>6 DEF TargetInv, SamplingOK

LEMMA ActingStands ==
  ASSUME TargetInv, Moves, UNCHANGED acting
  PROVE  ActingOK'
<1>1. UNCHANGED <<request, checked, reading, hit>> /\ made \in Nat /\ made' \in Nat /\ made <= made'
  BY DEF acting, TargetInv, SystemOK, Moves
<1>2. CASE request = Nobody
  BY <1>1, <1>2 DEF TargetInv, ActingOK, HitOK
<1>3. CASE request # Nobody
  <2>1. request.since \in Nat /\ request.since <= made /\ request.since <= made'
    BY <1>1, <1>3 DEF TargetInv, ActingOK
  <2>2. \A n : Later(n) => n > request.since
    BY <1>1, <2>1 DEF Later
  <2>3. ASSUME NEW t, Verified(t) PROVE Verified(t)'
    <3>1. t.kind = "window" =>
            window'[t.name] \in {window[t.name], Nobody} \/ window'[t.name].number > request.since
      BY <2>2, <2>3 DEF Moves, Verified
    <3>2. t.kind = "session" =>
            logon'[t.name] \in {logon[t.name], Nobody} \/ logon'[t.name] > request.since
      BY <2>2, <2>3 DEF Moves, Verified
    <3> QED
      BY <1>1, <2>3, <3>1, <3>2 DEF Verified
  <2>4. ASSUME NEW t, HalfVerified(t) PROVE HalfVerified(t)'
    <3>1. window'[t.name] \in {window[t.name], Nobody} \/ window'[t.name].number > request.since
      BY <2>2, <2>4 DEF Moves, HalfVerified
    <3> QED
      BY <1>1, <2>4, <3>1 DEF HalfVerified
  <2> QED
    BY <1>1, <2>1, <2>3, <2>4 DEF TargetInv, ActingOK, HitOK
<1> QED
  BY <1>2, <1>3

\* Sampling leaves the system alone.
LEMMA SampleBegins ==
  ASSUME TargetInv, NEW which \in {"applications", "users"}, BeginSample(which)
  PROVE  TargetInv' /\ Apart
<1>1. /\ page = Nobody /\ began' = made /\ page' = which
      /\ UNCHANGED <<system, visited, identities, bitness, rows, acting>>
  BY DEF BeginSample, Idle
<1>2. rows = {} /\ identities = NoneFound /\ visited = Nobody
  BY <1>1 DEF TargetInv, SamplingOK
<1>3. made \in Nat /\ made' = made
  BY <1>1 DEF TargetInv, SystemOK, system
<1>4. IdentitiesOK'
  BY <1>1, <1>2 DEF IdentitiesOK, NoneFound
<1>5. page' # Nobody \/ (rows' = {} /\ identities' = NoneFound /\ visited' = Nobody)
  BY <1>1, <1>2
<1>6. SamplingOK'
  BY <1>1, <1>2, <1>3, <1>4, <1>5 DEF SamplingOK, TargetInv
<1>7. SystemOK'
  BY <1>1 DEF system, SystemOK, WindowOwned, TargetInv
<1>8. ActingOK'
  BY <1>1 DEF acting, system, ActingOK, Verified, HalfVerified, HitOK, TargetInv
<1> QED
  BY <1>1, <1>2, <1>6, <1>7, <1>8 DEF TargetInv, Apart, acting

\* Steps within a sample.
Within ==
  /\ page # Nobody
  /\ UNCHANGED <<system, acting, page, began>>

LEMMA WithinKeeps ==
  ASSUME TargetInv, Within
  PROVE  /\ SystemOK' /\ ActingOK' /\ Apart
         /\ began \in Nat /\ began' = began /\ began <= made /\ made' = made
         /\ \A p, n : StillNames(p, n)' <=> StillNames(p, n)
         /\ \A r : RowSound(r)' <=> RowSound(r)
<1> USE DEF Within
<1>1. SystemOK'
  BY DEF system, SystemOK, WindowOwned, TargetInv
<1>2. ActingOK'
  BY DEF acting, system, ActingOK, Verified, HalfVerified, HitOK, TargetInv
<1>3. Apart
  BY DEF Apart, acting
<1>4. began \in Nat /\ began' = began /\ began <= made /\ made' = made
  BY DEF TargetInv, SamplingOK, system
<1>5. \A p, n : StillNames(p, n)' <=> StillNames(p, n)
  BY DEF StillNames, system
<1>6. \A r : RowSound(r)' <=> RowSound(r)
  BY DEF RowSound
<1> QED
  BY <1>1, <1>2, <1>3, <1>4, <1>5, <1>6

\* A window's owner is alive when the window is visited, and whoever had its PID
\* earlier in the sample is that process, or else the window is of this sample.
LEMMA WindowIsVisited ==
  ASSUME TargetInv, NEW h \in Handles, VisitWindow(h)
  PROVE  TargetInv' /\ Apart
<1>1. /\ Within /\ page = "applications"
      /\ visited' = IF window[h] = Nobody THEN Nobody ELSE [hwnd |-> h, seen |-> window[h]]
      /\ UNCHANGED <<identities, bitness, rows>>
  BY TargetAssumption DEF VisitWindow, Visit, Within
<1>2. ASSUME window[h] # Nobody PROVE WindowVisited'
  <2>1. PICK p \in TargetPids :
          alive[p] # Nobody /\ window[h].owner = <<p, alive[p]>> /\ window[h].number > alive[p]
    BY <1>2 DEF TargetInv, SystemOK, WindowOwned
  <2>2. alive[p] \in Nat /\ window[h].number \in Nat
    BY <1>2, <2>1 DEF TargetInv, SystemOK, WindowOwned
  <2>3. visited' = [hwnd |-> h, seen |-> window[h]] /\ visited'.seen = window[h]
        /\ "process" \notin DOMAIN visited'
    BY <1>1, <1>2
  <2> PICK n \in Nat : n = alive[p]
    BY <2>2
  <2>4. StillNames(p, n)'
    BY <1>1, <2>1, WithinKeeps DEF StillNames
  <2>5. p \in DOMAIN identities =>
          identities[p] \in {<<p, alive[p]>>, Nobody} \/ window[h].number > began
    <3> SUFFICES ASSUME p \in DOMAIN identities, identities[p] # Nobody,
                        identities[p] # <<p, alive[p]>>
                 PROVE  window[h].number > began
      OBVIOUS
    <3>1. PICK m \in Nat : identities[p] = <<p, m>> /\ StillNames(p, m)
      BY DEF TargetInv, SamplingOK, IdentitiesOK
    <3>2. alive[p] > began
      BY <2>1, <3>1 DEF StillNames
    <3>3. began \in Nat
      BY DEF TargetInv, SamplingOK
    <3> QED
      BY <2>1, <2>2, <3>2, <3>3
  <2>6. identities' = identities /\ began' = began
    BY <1>1 DEF Within
  <2> QED
    BY <2>1, <2>2, <2>3, <2>4, <2>5, <2>6 DEF WindowVisited
<1>3. SamplingOK'
  <2>1. visited' # Nobody => WindowVisited'
    BY <1>1, <1>2
  <2>2. IdentitiesOK'
    BY <1>1, WithinKeeps DEF TargetInv, SamplingOK, IdentitiesOK
  <2>3. page' = "applications" /\ page' # Nobody
    BY <1>1 DEF Within
  <2> QED
    BY <1>1, <2>1, <2>2, <2>3, WithinKeeps DEF TargetInv, SamplingOK
<1> QED
  BY <1>1, <1>3, WithinKeeps DEF TargetInv

LEMMA OwnerIsPair ==
  ASSUME SystemOK, NEW p \in TargetPids, Owner(p) # Nobody
  PROVE  alive[p] \in Nat /\ Owner(p) = <<p, alive[p]>>
BY DEF Owner, SystemOK

LEMMA WindowIsIdentified ==
  ASSUME TargetInv, Identify
  PROVE  TargetInv' /\ Apart
<1>1. /\ Within /\ page = "applications" /\ visited # Nobody /\ "process" \notin DOMAIN visited
      /\ UNCHANGED <<bitness, rows>>
  BY DEF Identify, Within, TargetInv, SamplingOK
<1>2. PICK p \in TargetPids, n \in Nat :
        /\ visited.seen.owner = <<p, n>> /\ StillNames(p, n)
        /\ visited.seen.number \in Nat /\ visited.seen.number > n
        /\ p \in DOMAIN identities =>
             identities[p] \in {<<p, n>>, Nobody} \/ visited.seen.number > began
  BY <1>1 DEF TargetInv, SamplingOK, WindowVisited
<1>3. PICK found \in IF p \in DOMAIN identities THEN {identities[p]} ELSE {Owner(p), Nobody} :
        /\ identities' = [q \in DOMAIN identities \cup {p} |->
                            IF q = p THEN found ELSE identities[q]]
        /\ visited' = IF found = Nobody THEN Nobody
                      ELSE [hwnd |-> visited.hwnd, seen |-> visited.seen, process |-> found]
  BY <1>2 DEF Identify
<1>4. found = Nobody \/ \E m \in Nat : found = <<p, m>> /\ StillNames(p, m)
  <2>1. CASE p \in DOMAIN identities
    BY <1>3, <2>1 DEF TargetInv, SamplingOK, IdentitiesOK
  <2>2. CASE p \notin DOMAIN identities
    BY <1>3, <2>2, OwnerIsPair DEF TargetInv, StillNames
  <2> QED
    BY <2>1, <2>2
<1>5. found # Nobody =>
        found = <<p, n>> \/ visited.seen.number > began \/ found[2] > began
  <2>1. CASE p \in DOMAIN identities
    BY <1>2, <1>3, <2>1
  <2>2. CASE p \notin DOMAIN identities
    <3> SUFFICES ASSUME found # Nobody PROVE found = <<p, n>> \/ found[2] > began
      OBVIOUS
    <3>1. found = <<p, alive[p]>> /\ alive[p] # Nobody
      BY <1>3, <2>2, OwnerIsPair DEF TargetInv, Owner
    <3> QED
      BY <1>2, <3>1 DEF StillNames
  <2> QED
    BY <2>1, <2>2
<1>6. IdentitiesOK'
  <2>1. DOMAIN identities' = DOMAIN identities \cup {p}
    BY <1>3
  <2>2. ASSUME NEW q \in DOMAIN identities'
        PROVE  identities'[q] = Nobody \/ \E m \in Nat : identities'[q] = <<q, m>> /\ StillNames(q, m)
    <3>1. CASE q = p
      BY <1>3, <1>4, <3>1
    <3>2. CASE q # p
      <4>1. q \in DOMAIN identities /\ identities'[q] = identities[q]
        BY <1>3, <3>2
      <4> QED
        BY <4>1 DEF TargetInv, SamplingOK, IdentitiesOK
    <3> QED
      BY <3>1, <3>2
  <2>3. \A q, m : StillNames(q, m)' <=> StillNames(q, m)
    BY <1>1, WithinKeeps
  <2> QED
    BY <2>1, <2>2, <2>3 DEF TargetInv, SamplingOK, IdentitiesOK
<1>7. visited' # Nobody => WindowVisited'
  <2> SUFFICES ASSUME visited' # Nobody PROVE WindowVisited'
    OBVIOUS
  <2>1. /\ found # Nobody
        /\ visited' = [hwnd |-> visited.hwnd, seen |-> visited.seen, process |-> found]
    BY <1>3
  <2>2. visited'.seen = visited.seen /\ visited'.process = found /\ "process" \in DOMAIN visited'
    BY <2>1
  <2>3. StillNames(p, n)' /\ began' = began
    BY <1>1, <1>2, WithinKeeps
  <2> QED
    BY <1>2, <1>5, <2>1, <2>2, <2>3 DEF WindowVisited
<1>8. SamplingOK'
  <2>1. page' = "applications" /\ page' # Nobody
    BY <1>1 DEF Within
  <2> QED
    BY <1>1, <1>6, <1>7, <2>1, WithinKeeps DEF TargetInv, SamplingOK
<1> QED
  BY <1>1, <1>8, WithinKeeps DEF TargetInv

LEMMA TypeIsRead ==
  ASSUME TargetInv, ReadType
  PROVE  TargetInv' /\ Apart
<1> DEFINE process == visited.process
           row(type) == [seen |-> visited.seen, process |-> process, type |-> type]
<1>1. /\ Within /\ page = "applications" /\ visited # Nobody /\ "process" \in DOMAIN visited
      /\ visited' = Nobody /\ identities' = identities
  BY DEF ReadType, Within, TargetInv, SamplingOK
<1>2. PICK type \in IF process \in DOMAIN bitness THEN {bitness[process]}
                    ELSE IF Owner(process[1]) = process THEN {process, Nobody} ELSE {Nobody} :
        /\ rows' = rows \cup {row(type)}
        /\ bitness' = IF type = Nobody THEN bitness
                      ELSE [x \in DOMAIN bitness \cup {process} |->
                              IF x = process THEN type ELSE bitness[x]]
  BY DEF ReadType
<1>3. type \in {process, Nobody}
  BY <1>2 DEF TargetInv, SamplingOK
<1>4. \A x \in DOMAIN bitness' : bitness'[x] = x
  <2>1. CASE type = Nobody
    BY <1>2, <2>1 DEF TargetInv, SamplingOK
  <2>2. CASE type # Nobody
    BY <1>2, <1>3, <2>2 DEF TargetInv, SamplingOK
  <2> QED
    BY <2>1, <2>2
<1>5. RowSound(row(type))
  <2>1. \/ process = visited.seen.owner \/ visited.seen.number > began \/ process[2] > began
    BY <1>1 DEF TargetInv, SamplingOK, WindowVisited
  <2>2. "session" \notin DOMAIN row(type)
    OBVIOUS
  <2>3. /\ row(type).seen = visited.seen /\ row(type).process = process
        /\ row(type).type = type
    OBVIOUS
  <2> HIDE DEF row, process
  <2> QED
    BY <1>3, <2>1, <2>2, <2>3 DEF RowSound
<1>6. \A r \in rows' : RowSound(r)
  BY <1>2, <1>5 DEF TargetInv, SamplingOK
<1>7. IdentitiesOK'
  BY <1>1, WithinKeeps DEF TargetInv, SamplingOK, IdentitiesOK
<1>8. SamplingOK'
  <2>1. page' = "applications" /\ page' # Nobody
    BY <1>1 DEF Within
  <2> QED
    BY <1>1, <1>4, <1>6, <1>7, <2>1, WithinKeeps DEF TargetInv, SamplingOK
<1> QED
  BY <1>1, <1>8, WithinKeeps DEF TargetInv

LEMMA SessionIsVisited ==
  ASSUME TargetInv, NEW s \in SessionIds, VisitSession(s)
  PROVE  TargetInv' /\ Apart
<1>1. /\ Within /\ page = "users" /\ UNCHANGED <<identities, bitness, rows>>
  BY TargetAssumption DEF VisitSession, Visit, Within
<1>2. PICK user \in {logon[s], Nobody} :
        visited' = IF user = Nobody THEN Nobody ELSE [session |-> s, user |-> user]
  BY DEF VisitSession, Visit
<1>3. visited' # Nobody => SessionVisited'
  <2> SUFFICES ASSUME visited' # Nobody PROVE SessionVisited'
    OBVIOUS
  <2>1. visited' = [session |-> s, user |-> logon[s]]
    BY <1>2
  <2>2. visited'.session = s /\ visited'.user = logon[s] /\ logon' = logon
    BY <1>1, <2>1 DEF Within, system
  <2> QED
    BY <2>2 DEF SessionVisited
<1>4. IdentitiesOK'
  BY <1>1, WithinKeeps DEF TargetInv, SamplingOK, IdentitiesOK
<1>5. SamplingOK'
  <2>1. page' = "users" /\ page' # Nobody
    BY <1>1 DEF Within
  <2> QED
    BY <1>1, <1>3, <1>4, <2>1, WithinKeeps DEF TargetInv, SamplingOK
<1> QED
  BY <1>1, <1>5, WithinKeeps DEF TargetInv

LEMMA SessionIsRead ==
  ASSUME TargetInv, ReadSession
  PROVE  TargetInv' /\ Apart
<1>1. /\ Within /\ page = "users" /\ visited # Nobody /\ visited' = Nobody
      /\ UNCHANGED <<identities, bitness>>
  BY DEF ReadSession, Within, TargetInv, SamplingOK
<1>2. PICK login \in {logon[visited.session], Nobody} :
        rows' = rows \cup {[session |-> visited.session, user |-> visited.user, login |-> login]}
  BY DEF ReadSession
<1> DEFINE row == [session |-> visited.session, user |-> visited.user, login |-> login]
<1>3. RowSound(row)
  <2>1. login \in {visited.user, Nobody} \/ login > began
    BY <1>1, <1>2 DEF TargetInv, SamplingOK, SessionVisited
  <2>2. "session" \in DOMAIN row /\ row.login = login /\ row.user = visited.user
    OBVIOUS
  <2> HIDE DEF row
  <2> QED
    BY <2>1, <2>2 DEF RowSound
<1>4. \A r \in rows' : RowSound(r)
  BY <1>2, <1>3 DEF TargetInv, SamplingOK
<1>5. IdentitiesOK'
  BY <1>1, WithinKeeps DEF TargetInv, SamplingOK, IdentitiesOK
<1>6. SamplingOK'
  <2>1. page' = "users" /\ page' # Nobody
    BY <1>1 DEF Within
  <2> QED
    BY <1>1, <1>4, <1>5, <2>1, WithinKeeps DEF TargetInv, SamplingOK
<1> QED
  BY <1>1, <1>6, WithinKeeps DEF TargetInv

LEMMA SampleEnds ==
  ASSUME TargetInv, EndSample
  PROVE  TargetInv' /\ Apart
<1>1. /\ page' = Nobody /\ began' = 0 /\ identities' = NoneFound /\ rows' = {}
      /\ visited = Nobody /\ UNCHANGED <<system, visited, acting>>
      /\ bitness' = bitness
         \/ bitness' = Restrict(bitness, DOMAIN bitness \cap {r.process : r \in rows})
  BY DEF EndSample
<1>2. \A x \in DOMAIN bitness' : bitness'[x] = x
  BY <1>1 DEF TargetInv, SamplingOK, Restrict
<1>3. IdentitiesOK'
  BY <1>1 DEF IdentitiesOK, NoneFound
<1>4. began' \in Nat /\ began' <= made'
  BY <1>1 DEF system, TargetInv, SystemOK
<1>5. SamplingOK'
  BY <1>1, <1>2, <1>3, <1>4 DEF SamplingOK
<1>6. SystemOK'
  BY <1>1 DEF system, SystemOK, WindowOwned, TargetInv
<1>7. ActingOK'
  BY <1>1 DEF acting, system, ActingOK, Verified, HalfVerified, HitOK, TargetInv
<1> QED
  BY <1>1, <1>5, <1>6, <1>7 DEF TargetInv, Apart, acting

\* Actions leave the system and the sample alone.
LEMMA Beside ==
  ASSUME TargetInv, UNCHANGED <<system, sampling>>
  PROVE  /\ SystemOK' /\ SamplingOK' /\ (rows' # {} => began' = began)
         /\ made' = made /\ made \in Nat
<1>1. SystemOK' /\ made' = made /\ made \in Nat
  BY DEF system, SystemOK, WindowOwned, TargetInv
<1>2. SamplingOK' /\ began' = began
  BY DEF system, sampling, SamplingOK, IdentitiesOK, WindowVisited, SessionVisited, StillNames,
         RowSound, TargetInv
<1> QED
  BY <1>1, <1>2

LEMMA RequestKeeps ==
  ASSUME TargetInv, (\E ts : Choose(ts)) \/ Execute \/ ReturnResult
  PROVE  TargetInv' /\ Apart
<1>1. UNCHANGED <<system, sampling>>
  BY DEF Choose, Execute, ReturnResult
<1>2. /\ SystemOK' /\ SamplingOK' /\ (rows' # {} => began' = began)
      /\ made' = made /\ made \in Nat
  BY <1>1, Beside
<1>3. /\ request = Nobody \/ request.waits => checked = {} /\ reading = Nobody /\ hit = Nobody
      /\ request # Nobody =>
           /\ request = [waits |-> request.waits, targets |-> request.targets, since |-> request.since]
           /\ request.since \in Nat /\ request.since <= made
  BY DEF TargetInv, ActingOK
<1>4. checked' = {} /\ reading' = Nobody /\ hit' = Nobody
  BY <1>3 DEF Choose, Execute, ReturnResult, Idle
<1>5. request' # Nobody =>
        /\ request' = [waits |-> request'.waits, targets |-> request'.targets,
                       since |-> request'.since]
        /\ request'.since \in Nat /\ request'.since <= made'
  <2>1. ASSUME NEW ts, Choose(ts)
        PROVE  /\ request' = [waits |-> request'.waits, targets |-> request'.targets,
                              since |-> request'.since]
               /\ request'.since = made
    BY <2>1 DEF Choose
  <2>2. CASE Execute
    <3>1. /\ request # Nobody /\ request' = [request EXCEPT !.waits = FALSE]
      BY <2>2 DEF Execute
    <3>2. /\ request' = [waits |-> FALSE, targets |-> request.targets, since |-> request.since]
      BY <1>3, <3>1
    <3> QED
      BY <1>2, <1>3, <3>1, <3>2
  <2>3. CASE ReturnResult
    BY <2>3 DEF ReturnResult
  <2> QED
    BY <1>2, <2>1, <2>2, <2>3
<1>6. ActingOK'
  BY <1>4, <1>5 DEF ActingOK, HitOK
<1> QED
  BY <1>2, <1>4, <1>6 DEF TargetInv, Apart

\* Under way: the request stays.
LEMMA UnderWay ==
  ASSUME TargetInv, UNCHANGED <<system, sampling, request>>, request # Nobody, ~ request.waits,
         \A t \in checked' : Verified(t), reading' # Nobody => HalfVerified(reading'),
         hit' # Nobody /\ hit'.on # Nobody =>
           hit'.on.owner = hit'.target.identity \/ hit'.on.number > request.since
  PROVE  TargetInv' /\ Apart
<1>1. /\ SystemOK' /\ SamplingOK' /\ (rows' # {} => began' = began) /\ made' = made
      /\ UNCHANGED <<window, logon, request>>
  BY Beside DEF system
<1>2. \A t : Verified(t) <=> Verified(t)'
  BY <1>1 DEF Verified
<1>3. ActingOK'
  BY <1>1, <1>2 DEF ActingOK, HalfVerified, HitOK, TargetInv
<1> QED
  BY <1>1, <1>3 DEF TargetInv, Apart

LEMMA ActionFacts ==
  ASSUME TargetInv
  PROVE  /\ \A u \in checked : Verified(u)
         /\ reading # Nobody => HalfVerified(reading)
         /\ hit # Nobody /\ hit.on # Nobody =>
              hit.on.owner = hit.target.identity \/ hit.on.number > request.since
         /\ request = Nobody \/ request.waits => checked = {} /\ reading = Nobody /\ hit = Nobody
BY DEF TargetInv, ActingOK, HitOK

LEMMA WindowIsRead ==
  ASSUME TargetInv, NEW t \in WindowTargets, ReadWindow(t)
  PROVE  TargetInv' /\ Apart
<1>1. /\ request # Nobody /\ ~ request.waits /\ reading' = t
      /\ window[t.name].owner[1] = t.identity[1]
      /\ UNCHANGED <<system, sampling, request, checked, hit>>
  BY DEF ReadWindow, Checking
<1>2. HalfVerified(t)
  BY <1>1 DEF HalfVerified, WindowTargets
<1> QED
  BY <1>1, <1>2, UnderWay, ActionFacts

\* The owner of a window is who has its PID.
LEMMA OwnerIsVerified ==
  ASSUME TargetInv, NEW t \in WindowTargets, VerifyOwner(t)
  PROVE  TargetInv' /\ Apart
<1>1. /\ reading = t /\ Owner(t.identity[1]) = t.identity
      /\ checked' = checked \cup {t} /\ reading' = Nobody
      /\ UNCHANGED <<system, sampling, request, hit>>
  BY DEF VerifyOwner
<1>2. t \in [kind : {"window"}, name : Handles, identity : TargetPids \X Nat]
  BY DEF WindowTargets, TargetInv, SystemOK
<1>3. reading # Nobody /\ HalfVerified(t)
  BY <1>1, <1>2, TargetAssumption, ActionFacts
<1>4. request # Nobody /\ ~ request.waits
  BY <1>3, ActionFacts
<1>5. ASSUME window[t.name] # Nobody, window[t.name].owner[1] = t.identity[1]
      PROVE  window[t.name].owner = t.identity
  <2>1. PICK p \in TargetPids : alive[p] # Nobody /\ window[t.name].owner = <<p, alive[p]>>
    BY <1>2, <1>5 DEF TargetInv, SystemOK, WindowOwned
  <2> QED
    BY <1>1, <1>5, <2>1 DEF Owner
<1>6. Verified(t)
  BY <1>2, <1>3, <1>5 DEF Verified, HalfVerified
<1>7. \A u \in checked' : Verified(u)
  BY <1>1, <1>6, ActionFacts
<1>8. reading' # Nobody => HalfVerified(reading')
  BY <1>1
<1>9. hit' # Nobody /\ hit'.on # Nobody =>
        hit'.on.owner = hit'.target.identity \/ hit'.on.number > request.since
  BY <1>1, ActionFacts
<1> QED
  BY <1>1, <1>4, <1>7, <1>8, <1>9, UnderWay

LEMMA NameIsVerified ==
  ASSUME TargetInv, NEW t \in SessionTargets \cup ProcessTargets, Verify(t)
  PROVE  TargetInv' /\ Apart
<1>1. /\ request # Nobody /\ ~ request.waits /\ checked' = checked \cup {t}
      /\ \/ t.kind = "session" /\ logon[t.name] = t.identity
         \/ t.kind = "process" /\ Owner(t.name) = t.identity
      /\ UNCHANGED <<system, sampling, request, reading, hit>>
  BY DEF Verify, Checking
<1>2. Verified(t)
  BY <1>1 DEF Verified, SessionTargets, ProcessTargets
<1>3. \A u \in checked' : Verified(u)
  BY <1>1, <1>2, ActionFacts
<1>4. /\ reading' # Nobody => HalfVerified(reading')
      /\ hit' # Nobody /\ hit'.on # Nobody =>
           hit'.on.owner = hit'.target.identity \/ hit'.on.number > request.since
  BY <1>1, ActionFacts
<1> QED
  BY <1>1, <1>3, <1>4, UnderWay

LEMMA CallActs ==
  ASSUME TargetInv, NEW t \in WindowTargets \cup SessionTargets \cup ProcessTargets, Act(t)
  PROVE  TargetInv' /\ Apart
<1>1. /\ request # Nobody /\ t \in checked
      /\ hit' = [target |-> t, on |-> Meant(t)]
      /\ UNCHANGED <<system, sampling, request, checked, reading>>
  BY DEF Act
<1>2. Verified(t) /\ ~ request.waits
  BY <1>1, ActionFacts
<1>3. Meant(t) # Nobody =>
        Meant(t).owner = t.identity \/ Meant(t).number > request.since
  <2>1. CASE t.kind = "window"
    <3>1. Meant(t) = window[t.name]
      BY <2>1 DEF Meant
    <3> QED
      BY <1>2, <2>1, <3>1 DEF Verified
  <2>2. CASE t.kind = "session"
    <3>1. Meant(t) = IF logon[t.name] = Nobody THEN Nobody
                     ELSE [number |-> logon[t.name], owner |-> logon[t.name]]
      BY <2>2 DEF Meant
    <3> QED
      BY <1>2, <2>2, <3>1 DEF Verified
  <2>3. CASE t.kind = "process"
    <3>1. Meant(t) = [number |-> t.identity[2], owner |-> t.identity]
      BY <2>3 DEF Meant
    <3> QED
      BY <3>1
  <2> QED
    BY <2>1, <2>2, <2>3 DEF WindowTargets, SessionTargets, ProcessTargets
<1>4. hit' # Nobody /\ hit'.on # Nobody =>
        hit'.on.owner = hit'.target.identity \/ hit'.on.number > request.since
  BY <1>1, <1>3
<1>5. (\A u \in checked' : Verified(u)) /\ (reading' # Nobody => HalfVerified(reading'))
  BY <1>1, ActionFacts
<1> QED
  BY <1>1, <1>2, <1>4, <1>5, UnderWay

LEMMA TargetStep ==
  ASSUME TargetInv, TargetNext
  PROVE  TargetInv' /\ Apart
<1>1. ASSUME \/ \E p \in TargetPids : BeginProcess(p) \/ FinishProcess(p)
             \/ \E h \in Handles : DestroyWindow(h)
             \/ \E h \in Handles, p \in TargetPids : CreateWindow(h, p)
             \/ \E s \in SessionIds : LogOn(s) \/ LogOff(s)
      PROVE  TargetInv' /\ Apart
  <2>1. SystemOK' /\ Moves /\ UNCHANGED <<sampling, acting>>
    BY <1>1, SystemMoves DEF TargetInv
  <2>2. SamplingOK' /\ ActingOK'
    BY <2>1, SamplingStands, ActingStands
  <2>3. Apart
    BY <2>1 DEF Apart, sampling, acting
  <2> QED
    BY <2>1, <2>2, <2>3 DEF TargetInv
<1>2. ASSUME NEW h \in Handles, VisitWindow(h) PROVE TargetInv' /\ Apart
  BY <1>2, WindowIsVisited
<1>3. ASSUME NEW s \in SessionIds, VisitSession(s) PROVE TargetInv' /\ Apart
  BY <1>3, SessionIsVisited
<1>4. ASSUME NEW which \in {"applications", "users"}, BeginSample(which)
      PROVE  TargetInv' /\ Apart
  BY <1>4, SampleBegins
<1>5. ASSUME NEW ts, Choose(ts) PROVE TargetInv' /\ Apart
  BY <1>5, RequestKeeps
<1>6. ASSUME NEW t \in WindowTargets, ReadWindow(t) \/ VerifyOwner(t) \/ Act(t)
      PROVE  TargetInv' /\ Apart
  BY <1>6, WindowIsRead, OwnerIsVerified, CallActs
<1>7. ASSUME NEW t \in SessionTargets \cup ProcessTargets, Verify(t) \/ Act(t)
      PROVE  TargetInv' /\ Apart
  BY <1>7, NameIsVerified, CallActs
<1>8. CASE Identify \/ ReadType \/ ReadSession \/ EndSample
  BY <1>8, WindowIsIdentified, TypeIsRead, SessionIsRead, SampleEnds
<1>9. CASE Execute \/ ReturnResult
  BY <1>9, RequestKeeps
<1> QED
  BY <1>1, <1>2, <1>3, <1>4, <1>5, <1>6, <1>7, <1>8, <1>9 DEF TargetNext

\* For any processes, windows and sessions that come and go at any moment, and
\* whose numbers are used again: what an action touches is what the user chose,
\* unless it was created since, and a row mixes two only if one of them was
\* created while the page was sampled.
THEOREM NamesAreVerified == TargetSpec => StaleNamesRefused
<1>1. TargetInit => TargetInv
  BY DEF TargetInit, TargetInv, SystemOK, SamplingOK, IdentitiesOK, NoneFound, ActingOK, HitOK
<1>2. TargetInv /\ UNCHANGED targetVars => TargetInv'
  BY Beside
  DEF targetVars, TargetInv, acting, system, ActingOK, Verified, HalfVerified, HitOK
<1>3. TargetSpec => []TargetInv
  BY <1>1, <1>2, TargetStep, PTL DEF TargetSpec
<1>4. TargetInv /\ [TargetNext]_targetVars =>
        [/\ hit' # Nobody /\ hit'.on # Nobody =>
              hit'.on.owner = hit'.target.identity \/ hit'.on.number > request.since
         /\ \A r \in rows' : RowSound(r)
        ]_targetVars
  <2> SUFFICES ASSUME TargetInv, TargetNext
               PROVE  /\ hit' # Nobody /\ hit'.on # Nobody =>
                           hit'.on.owner = hit'.target.identity \/ hit'.on.number > request.since
                      /\ \A r \in rows' : RowSound(r)
    OBVIOUS
  <2>1. TargetInv' /\ Apart
    BY TargetStep
  <2>2. hit' # Nobody /\ hit'.on # Nobody =>
          hit'.on.owner = hit'.target.identity \/ hit'.on.number > request.since
    BY <2>1 DEF TargetInv, ActingOK, HitOK, Apart
  <2>3. \A r \in rows' : RowSound(r)
    <3> SUFFICES ASSUME NEW r \in rows' PROVE RowSound(r)
      OBVIOUS
    <3>1. RowSound(r)' /\ began' = began
      BY <2>1 DEF TargetInv, SamplingOK, Apart
    <3> QED
      BY <3>1 DEF RowSound
  <2> QED
    BY <2>2, <2>3
<1> QED
  BY <1>3, <1>4, PTL DEF TargetSpec, StaleNamesRefused

=============================================================================
