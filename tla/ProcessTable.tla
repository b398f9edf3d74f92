----------------------------- MODULE ProcessTable -----------------------------
(***************************************************************************)
(* The processes of the operating system, as far as the process actions of *)
(* taskmgr-linux/src/procfs.rs and taskmgr-windows/src/processes.rs can    *)
(* tell them apart.  A process is named by the moment it was created: its  *)
(* index in `born`, which is also what the code reads as its start time.   *)
(* A PID is free again once its last holder is gone, so that at different  *)
(* times one PID may mean different processes, but no two of them were     *)
(* created at the same start time.                                         *)
(***************************************************************************)
EXTENDS Integers, Sequences

CONSTANTS
  Pids,          \* the process identifiers, a set of positive numbers
  MaxProcesses,  \* bound: processes created
  Reparents,     \* whether children are given to init when their parent exits
  Ancestry       \* whether `line`, which only properties read, is recorded

ASSUME ProcessAssumption ==
  /\ Pids \subseteq Nat \ {0}
  /\ MaxProcesses \in Nat
  /\ Reparents \in BOOLEAN
  /\ Ancestry \in BOOLEAN

VARIABLES
  born,    \* the processes created: PID, and the set `line` of its forebears and itself
  state,   \* "running", "exited" while its PID is still taken, then "gone"
  parent   \* the process reported as its parent; 0 is a process of the system

table == <<born, state, parent>>

Processes == 1..Len(born)
Present == {x \in Processes : state[x] # "gone"}
Pid(x) == IF x = 0 THEN 0 ELSE born[x].pid

\* What a query of PID `pid` finds: no process or one.
At(pid) == {x \in Present : born[x].pid = pid}

\* x was created by a process that was created by ... by r.
Descends(x, r) == r \in born[x].line

TableInit ==
  /\ born = <<>>
  /\ state = <<>>
  /\ parent = <<>>

Line(x, maker) ==
  IF ~ Ancestry THEN {}
  ELSE IF maker = 0 THEN {x}
  ELSE {x} \cup born[maker].line

\* A running process, or the system, creates a process with a free PID.
Spawn(maker, pid) ==
  LET x == Len(born) + 1
  IN  /\ Len(born) < MaxProcesses
      /\ maker = 0 \/ (maker \in Processes /\ state[maker] = "running")
      /\ At(pid) = {}
      /\ born' = Append(born, [pid |-> pid, line |-> Line(x, maker)])
      /\ state' = Append(state, "running")
      /\ parent' = Append(parent, maker)

\* A process ends, by itself or because it was killed.
Exit(x) ==
  /\ x \in Processes
  /\ state[x] = "running"
  /\ state' = [state EXCEPT ![x] = "exited"]
  /\ parent' = IF Reparents
                 THEN [y \in DOMAIN parent |-> IF parent[y] = x THEN 0 ELSE parent[y]]
                 ELSE parent
  /\ UNCHANGED born

\* Its PID becomes free: its parent has waited for it, its last handle is closed.
Vanish(x) ==
  /\ x \in Processes
  /\ state[x] = "exited"
  /\ state' = [state EXCEPT ![x] = "gone"]
  /\ UNCHANGED <<born, parent>>

-----------------------------------------------------------------------------
(* A captured table maps each process to the PID it reported as its parent. *)

Captured(S) == [x \in S |-> Pid(parent[x])]

Children(captured, x) == {c \in DOMAIN captured : captured[c] = Pid(x)}

Closed(captured, S) == \A x \in S : Children(captured, x) \subseteq S

\* What the worklist loops of both platforms collect, starting from the root.
Tree(captured, root) ==
  {x \in DOMAIN captured :
     /\ root \in DOMAIN captured
     /\ \A S \in SUBSET DOMAIN captured : root \in S /\ Closed(captured, S) => x \in S}

-----------------------------------------------------------------------------
Live ==
  \/ \E maker \in 0..MaxProcesses, pid \in Pids : Spawn(maker, pid)
  \/ \E x \in 1..MaxProcesses : Exit(x)
=============================================================================
