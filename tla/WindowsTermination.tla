-------------------------- MODULE WindowsTermination --------------------------
(***************************************************************************)
(* `terminate` of taskmgr-windows/src/processes.rs: end a process, or the  *)
(* tree below it, in a system whose processes come and go meanwhile.       *)
(*                                                                         *)
(* Windows never changes the parent PID of a process, so that it may name  *)
(* a process created long after the parent has gone.  The ancestry is      *)
(* captured by one system call.  An open handle keeps its process, and     *)
(* with it the PID, from vanishing; OpenProcess and the query of the       *)
(* identity through the handle are therefore one step.                     *)
(***************************************************************************)
EXTENDS ProcessTable

ASSUME ParentsStay == Reparents = FALSE
ASSUME AncestryKnown == Ancestry = TRUE

VARIABLES
  pc,       \* where terminate is
  root,     \* the identity the user chose, 0 before the request
  deep,     \* include_descendants
  targets,  \* the plan: each target, with the parent PID in the snapshot
  handles,  \* the processes with an open handle
  left,     \* the targets not terminated yet
  killed    \* the processes this action has terminated

action == <<root, deep, targets, left, killed>>
vars == <<table, pc, action, handles>>

Init ==
  /\ TableInit
  /\ pc = "idle"
  /\ root = 0
  /\ deep = FALSE
  /\ targets = <<>>
  /\ handles = {}
  /\ left = {}
  /\ killed = {}

-----------------------------------------------------------------------------
\* The user acts on a row that may be older than the process it shows.
Request(x, include_descendants) ==
  /\ pc = "idle"
  /\ root' = x
  /\ deep' = include_descendants
  /\ targets' = IF include_descendants THEN <<>> ELSE [y \in {x} |-> 0]
  /\ left' = IF include_descendants THEN {} ELSE {x}
  /\ pc' = IF include_descendants THEN "snapshot" ELSE "open"
  /\ UNCHANGED <<table, handles, killed>>

\* terminate returns; its handles are closed.
Return(outcome) ==
  /\ pc' = outcome
  /\ handles' = {}

\* The snapshot holds a child older than the parent it names, or a cycle.
ForgedAncestry(captured) ==
  \E x \in Tree(captured, root) : \E c \in Children(captured, x) : c < x \/ c = root

\* Mutant: parent PIDs are believed whatever the ages.
PlanTrusting ==
  LET captured == Captured(Present)
  IN  /\ pc = "snapshot"
      /\ root \in Present
      /\ targets' = [x \in Tree(captured, root) |-> captured[x]]
      /\ left' = Tree(captured, root)
      /\ pc' = "open"
      /\ UNCHANGED <<table, root, deep, handles, killed>>

\* One call captures the whole table; the plan is computed from it.
Plan ==
  LET captured == Captured(Present)
  IN  /\ pc = "snapshot"
      /\ root \in Present
      /\ ~ ForgedAncestry(captured)
      /\ targets' = [x \in Tree(captured, root) |-> captured[x]]
      /\ left' = Tree(captured, root)
      /\ pc' = "open"
      /\ UNCHANGED <<table, root, deep, handles, killed>>

RefusePlan ==
  /\ pc = "snapshot"
  /\ root \in Present => ForgedAncestry(Captured(Present))
  /\ Return("failed")
  /\ UNCHANGED <<table, action>>

\* open_verified succeeds: the PID still means the expected process.
OpenVerified(x) ==
  /\ pc = "open"
  /\ x \in left \ handles
  /\ At(Pid(x)) = {x}
  /\ handles' = handles \cup {x}
  /\ pc' = pc
  /\ UNCHANGED <<table, action>>

\* It fails for a process that is gone or another one, and may be denied.
OpenFails ==
  /\ pc = "open"
  /\ left # handles
  /\ Return("failed")
  /\ UNCHANGED <<table, action>>

AllOpen ==
  /\ pc = "open"
  /\ left = handles
  /\ pc' = "kill"
  /\ UNCHANGED <<table, action, handles>>

\* The deepest targets come first; here: no target before its children.
NextTarget(x) ==
  /\ pc = "kill"
  /\ x \in left
  /\ \A c \in left : c = x \/ targets[c] # Pid(x)

Terminate(x) ==
  /\ NextTarget(x)
  /\ Exit(x)
  /\ killed' = killed \cup {x}
  /\ left' = left \ {x}
  /\ UNCHANGED <<pc, root, deep, targets, handles>>

\* A process that has exited already refuses, and the loop ends there.
TerminateFails(x) ==
  /\ NextTarget(x)
  /\ state[x] = "exited"
  /\ Return("failed")
  /\ UNCHANGED <<table, action>>

Succeed ==
  /\ pc = "kill"
  /\ left = {}
  /\ Return("succeeded")
  /\ UNCHANGED <<table, action>>

-----------------------------------------------------------------------------
\* The rest of the system, until the action has returned.
System ==
  /\ pc \notin {"failed", "succeeded"}
  /\ Live \/ \E x \in 1..MaxProcesses : x \notin handles /\ Vanish(x)
  /\ UNCHANGED <<pc, action, handles>>

Next ==
  \/ System
  \/ \E x \in Processes, d \in BOOLEAN : Request(x, d)
  \/ Plan
  \/ RefusePlan
  \/ \E x \in Processes : OpenVerified(x) \/ Terminate(x) \/ TerminateFails(x)
  \/ OpenFails
  \/ AllOpen
  \/ Succeed

Spec == Init /\ [][Next]_vars

-----------------------------------------------------------------------------
PCs == {"idle", "snapshot", "open", "kill", "failed", "succeeded"}

\* The variables have the types of the code's values, and an action that has
\* returned holds no handle: it would keep a dead process and its PID.
TypeOK ==
  /\ born \in Seq([pid : Pids, line : SUBSET Nat])
  /\ state \in Seq({"running", "exited", "gone"})
  /\ parent \in Seq(Nat)
  /\ Len(state) = Len(born) /\ Len(parent) = Len(born)
  /\ pc \in PCs
  /\ root \in Nat
  /\ deep \in BOOLEAN
  /\ DOMAIN targets \subseteq Processes
  /\ left \subseteq Processes
  /\ handles \subseteq Processes
  /\ killed \subseteq Processes
  /\ pc \in {"failed", "succeeded"} => handles = {}

\* Ending a process ends that process, and ending a tree ends only processes
\* that the chosen one, or one of its descendants, created: a PID that has
\* been used again, in a row, in the ancestry or between the snapshot and
\* OpenProcess, never brings in a stranger.
OnlyDescendants ==
  \A x \in killed : IF deep THEN Descends(x, root) ELSE x = root
=============================================================================
