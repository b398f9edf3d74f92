--------------------------- MODULE LinuxTermination ---------------------------
(***************************************************************************)
(* `terminate`, descendant_identities and open_pidfd of                    *)
(* taskmgr-linux/src/procfs.rs: end a process, or the tree below it, in a  *)
(* system whose processes come and go between any two file accesses.       *)
(*                                                                         *)
(* /proc is listed once and then read file by file, so that the captured   *)
(* table mixes moments.  Linux gives the children of a process that exits  *)
(* to init at once.  A pidfd does not keep its PID from being used again,  *)
(* but never refers to any other process.                                  *)
(***************************************************************************)
EXTENDS ProcessTable

ASSUME ChildrenMove == Reparents = TRUE

VARIABLES
  pc,       \* where terminate is
  root,     \* the identity the user chose, 0 before the request
  deep,     \* include_descendants
  unread,   \* the PIDs of /proc that are still to be read
  stats,    \* what was read: each process, with the parent PID it reported
  opening,  \* the identity open_pidfd is working on, 0 for none
  pidfds,   \* each target that is open, with the process its pidfd refers to
  left,     \* targets not yet opened, then targets not yet signalled
  killed,   \* the processes that were sent SIGKILL
  stable    \* auxiliary: what has been in the tree ever since /proc was listed

action == <<root, deep, unread, stats, opening, pidfds, left, killed, stable>>
vars == <<table, pc, action>>

Init ==
  /\ TableInit
  /\ pc = "idle"
  /\ root = 0
  /\ deep = FALSE
  /\ unread = {}
  /\ stats = <<>>
  /\ opening = 0
  /\ pidfds = <<>>
  /\ left = {}
  /\ killed = {}
  /\ stable = {}

-----------------------------------------------------------------------------
(* Reads of /proc.  validate_identity succeeds for an identity that a fresh *)
(* read of /proc/<pid>/stat confirms.                                       *)

Valid(x) == At(Pid(x)) = {x}

CurrentTree == Tree(Captured(Present), root)

\* The user acts on a row that may be older than the process it shows.
Request(x, include_descendants) ==
  /\ pc = "idle"
  /\ root' = x
  /\ deep' = include_descendants
  /\ pc' = "check"
  /\ UNCHANGED <<table, unread, stats, opening, pidfds, left, killed, stable>>

CheckRoot ==
  /\ pc = "check"
  /\ Valid(root)
  /\ pc' = IF deep THEN "list" ELSE "open"
  /\ left' = IF deep THEN {} ELSE {root}
  /\ UNCHANGED <<table, root, deep, unread, stats, opening, pidfds, killed, stable>>

List ==
  /\ pc = "list"
  /\ unread' = {born[x].pid : x \in Present}
  /\ stable' = CurrentTree
  /\ pc' = "read"
  /\ UNCHANGED <<table, root, deep, stats, opening, pidfds, left, killed>>

\* Mutant: a file may be read again.
ReadAgain(pid) ==
  /\ pc = "read"
  /\ pid \in unread
  /\ unread' \in {unread, unread \ {pid}}
  /\ stats' = [x \in DOMAIN stats \cup At(pid) |->
                 IF x \in DOMAIN stats THEN stats[x] ELSE Pid(parent[x])]
  /\ UNCHANGED <<table, pc, root, deep, opening, pidfds, left, killed, stable>>

\* One file is read; a process that is gone meanwhile is passed over.  The
\* kernel lists /proc by ascending PID.
Read(pid) ==
  /\ pc = "read"
  /\ pid \in unread
  /\ \A later \in unread : pid <= later
  /\ unread' = unread \ {pid}
  /\ stats' = [x \in DOMAIN stats \cup At(pid) |->
                 IF x \in DOMAIN stats THEN stats[x] ELSE Pid(parent[x])]
  /\ UNCHANGED <<table, pc, root, deep, opening, pidfds, left, killed, stable>>

\* Mutant: the worklist loop does not descend below the children.
PlanShallow ==
  /\ pc = "read"
  /\ unread = {}
  /\ root \in DOMAIN stats
  /\ left' = {root} \cup Children(stats, root)
  /\ pc' = "open"
  /\ UNCHANGED <<table, root, deep, unread, stats, opening, pidfds, killed, stable>>

\* The tree is linked by the parent PIDs alone, whatever the ages.
Plan ==
  /\ pc = "read"
  /\ unread = {}
  /\ root \in DOMAIN stats
  /\ left' = Tree(stats, root)
  /\ pc' = "open"
  /\ UNCHANGED <<table, root, deep, unread, stats, opening, pidfds, killed, stable>>

-----------------------------------------------------------------------------
(* open_pidfd: confirm the identity, open the PID, confirm it again.  The  *)
(* root is the first target; a HashMap orders the others.                  *)

Confirm(x) ==
  /\ pc = "open"
  /\ opening = 0
  /\ x \in left \ DOMAIN pidfds
  /\ root \in DOMAIN pidfds \/ x = root
  /\ Valid(x)
  /\ opening' = x
  /\ UNCHANGED <<table, pc, root, deep, unread, stats, pidfds, left, killed, stable>>

OpenPidfd ==
  /\ pc = "open"
  /\ opening # 0
  /\ \E y \in At(Pid(opening)) :
       pidfds' = [x \in DOMAIN pidfds \cup {opening} |-> IF x = opening THEN y ELSE pidfds[x]]
  /\ pc' = "confirm"
  /\ UNCHANGED <<table, root, deep, unread, stats, opening, left, killed, stable>>

\* Mutant: the identity is not read again once the pidfd is open.
ConfirmAgainSkipped ==
  /\ pc = "confirm"
  /\ opening' = 0
  /\ pc' = "open"
  /\ UNCHANGED <<table, root, deep, unread, stats, pidfds, left, killed, stable>>

ConfirmAgain ==
  /\ pc = "confirm"
  /\ Valid(opening)
  /\ opening' = 0
  /\ pc' = "open"
  /\ UNCHANGED <<table, root, deep, unread, stats, pidfds, left, killed, stable>>

AllOpen ==
  /\ pc = "open"
  /\ opening = 0
  /\ left = DOMAIN pidfds
  /\ pc' = "kill"
  /\ UNCHANGED <<table, action>>

\* terminate returns `outcome`; its pidfds are closed.
Return(outcome) ==
  /\ pc' = outcome
  /\ pidfds' = <<>>
  /\ opening' = 0
  /\ UNCHANGED <<root, deep, unread, stats, left, killed, stable>>

\* The chosen process is not the one of the row, or it left the tree, or a
\* target is gone or another one; opening may also be denied.
Refuse ==
  /\ \/ pc = "check" /\ ~ Valid(root)
     \/ pc = "read" /\ unread = {} /\ root \notin DOMAIN stats
     \/ pc = "open" /\ (opening # 0 \/ left # DOMAIN pidfds)
     \/ pc = "confirm" /\ ~ Valid(opening)
  /\ Return("failed")
  /\ UNCHANGED table

-----------------------------------------------------------------------------
(* The targets are signalled in the reverse of the order they were found   *)
(* in, which is some order with each target after its children.            *)

NextTarget(x) ==
  /\ pc = "kill"
  /\ x \in left
  /\ deep => \A c \in left : c = x \/ stats[c] # Pid(x)

Kill(x) ==
  /\ NextTarget(x)
  /\ LET y == pidfds[x]
     IN  /\ state[y] # "gone"
         /\ IF state[y] = "running" THEN Exit(y) ELSE UNCHANGED table
         /\ killed' = killed \cup {y}
  /\ left' = left \ {x}
  /\ UNCHANGED <<pc, root, deep, unread, stats, opening, pidfds, stable>>

\* A process that has been waited for cannot be signalled: the loop ends.
KillFails(x) ==
  /\ NextTarget(x)
  /\ state[pidfds[x]] = "gone"
  /\ Return("failed")
  /\ UNCHANGED table

Succeed ==
  /\ pc = "kill"
  /\ left = {}
  /\ Return("succeeded")
  /\ UNCHANGED table

-----------------------------------------------------------------------------
\* The rest of the system, until the action has returned.
System ==
  /\ pc \notin {"failed", "succeeded"}
  /\ Live \/ \E x \in 1..MaxProcesses : Vanish(x)
  /\ UNCHANGED <<pc, root, deep, unread, stats, opening, pidfds, left, killed>>
  /\ stable' = IF pc = "read" THEN stable \cap CurrentTree' ELSE stable

Next ==
  \/ System
  \/ \E x \in Processes, d \in BOOLEAN : Request(x, d)
  \/ CheckRoot
  \/ List
  \/ \E pid \in Pids : Read(pid)
  \/ Plan
  \/ \E x \in Processes : Confirm(x) \/ Kill(x) \/ KillFails(x)
  \/ OpenPidfd
  \/ ConfirmAgain
  \/ AllOpen
  \/ Refuse
  \/ Succeed

Spec == Init /\ [][Next]_vars

-----------------------------------------------------------------------------
PCs == {"idle", "check", "list", "read", "open", "confirm", "kill", "failed", "succeeded"}

\* The variables have the types of the code's values, and one process is read
\* for each PID of /proc.
TypeOK ==
  /\ born \in Seq([pid : Pids, line : SUBSET Nat])
  /\ state \in Seq({"running", "exited", "gone"})
  /\ parent \in Seq(Nat)
  /\ Len(state) = Len(born) /\ Len(parent) = Len(born)
  /\ pc \in PCs
  /\ root \in 0..Len(born) /\ opening \in 0..Len(born)
  /\ deep \in BOOLEAN
  /\ unread \subseteq Pids
  /\ DOMAIN stats \subseteq Processes
  /\ DOMAIN pidfds \subseteq Processes /\ \A x \in DOMAIN pidfds : pidfds[x] \in Processes
  /\ left \subseteq Processes /\ killed \subseteq Processes /\ stable \subseteq Processes
  /\ \A x, y \in DOMAIN stats : born[x].pid = born[y].pid => x = y

\* Only a process whose identity was captured is ever signalled: one that
\* took over a PID after the capture, even between the check of the PID and
\* pidfd_open, is never killed in its place.
NoAdoptedPid == \A x \in killed : IF deep THEN x \in DOMAIN stats ELSE x = root

\* A tree that was reported as ended has ended: every process that was in it
\* from the listing of /proc to the last read was killed, although each file
\* was read at another time.
WholeStableTree == pc = "succeeded" /\ deep => stable \subseteq killed

\* Ending a tree ends only processes that the chosen one, or one of its
\* descendants, created.  The links of the captured table are PIDs of different
\* moments, so that a PID used again during the reads can link a stranger.
OnlyDescendants ==
  \A x \in killed : IF deep THEN Descends(x, root) ELSE x = root
=============================================================================
