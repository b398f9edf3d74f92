---------------------------- MODULE WindowsTargets ----------------------------
(* The Applications and Users pages on Windows, and the actions on a window,  *)
(* a session or a process.  Windows names all three with numbers that it gives *)
(* out again: a window handle is pinned down by the process that owns it, a    *)
(* process by its start time, a session by its logon time.  Between the calls  *)
(* of a sample or of an action, and while a request waits, anything may end    *)
(* and its number be used again.                                               *)
(*                                                                             *)
(* Creations of any kind are numbered in their order: a start or logon time    *)
(* is that number.  Titles and icons are left out.                             *)
EXTENDS Integers, FiniteSets, Functions

CONSTANTS
  TargetPids,   \* process identifiers
  Handles,      \* window handles
  SessionIds,   \* WTS sessions
  MaxMade,      \* bound: processes, windows and logons created
  Nobody        \* None of Option

ASSUME TargetAssumption ==
  /\ Nobody \notin {"applications", "users"} \cup Nat
  /\ Nobody \notin TargetPids \X Nat
  /\ Nobody \notin [kind : {"window"}, name : Handles, identity : TargetPids \X Nat]

VARIABLES
  made,      \* creations so far
  everyone,  \* history: the processes there have been
  alive,     \* the start time of the process of each PID, or Nobody
  window,    \* the window of each handle, or Nobody
  logon      \* the logon time of each session, or Nobody

VARIABLES
  page,         \* the page being sampled, or Nobody
  began,        \* history: creations when that sample began
  enumerating,  \* the handles, or sessions, it has yet to visit
  visited,      \* what it has read of the one it is at, or Nobody
  identities,   \* the identities it has found for PIDs
  bitness,      \* bitness_by_process: the process each type was read from
  rows          \* its rows so far

VARIABLES
  request,   \* the action that waits or is under way, or Nobody
  checked,   \* its targets whose identity was verified
  reading,   \* the target whose window has the right PID, or Nobody
  hit        \* what the last call of the action acted on, or Nobody

system == <<made, everyone, alive, window, logon>>
sampling == <<page, began, enumerating, visited, identities, bitness, rows>>
acting == <<request, checked, reading, hit>>
targetVars == <<system, sampling, acting>>

NoneFound == [p \in {} |-> Nobody]

TargetInit ==
  /\ made = 0 /\ everyone = {}
  /\ alive = [p \in TargetPids |-> Nobody]
  /\ window = [h \in Handles |-> Nobody]
  /\ logon = [s \in SessionIds |-> Nobody]
  /\ page = Nobody /\ began = 0 /\ enumerating = {} /\ visited = Nobody
  /\ identities = NoneFound /\ bitness = NoneFound /\ rows = {}
  /\ request = Nobody /\ checked = {} /\ reading = Nobody /\ hit = Nobody

(***************************************************************************)
(* The system (external)                                                   *)
(***************************************************************************)
Created == made < MaxMade /\ made' = made + 1

\* The identity of the process that has a PID.
Owner(p) == IF alive[p] = Nobody THEN Nobody ELSE <<p, alive[p]>>

BeginProcess(p) ==
  /\ alive[p] = Nobody
  /\ Created
  /\ alive' = [alive EXCEPT ![p] = made + 1]
  /\ everyone' = everyone \cup {<<p, made + 1>>}
  /\ UNCHANGED <<window, logon, sampling, acting>>

\* Its windows go with it.
FinishProcess(p) ==
  /\ alive[p] # Nobody
  /\ alive' = [alive EXCEPT ![p] = Nobody]
  /\ window' = [h \in Handles |->
                 IF window[h] # Nobody /\ window[h].owner = Owner(p) THEN Nobody ELSE window[h]]
  /\ UNCHANGED <<made, everyone, logon, sampling, acting>>

CreateWindow(h, p) ==
  /\ window[h] = Nobody /\ alive[p] # Nobody
  /\ Created
  /\ window' = [window EXCEPT ![h] = [number |-> made + 1, owner |-> Owner(p)]]
  /\ UNCHANGED <<everyone, alive, logon, sampling, acting>>

DestroyWindow(h) ==
  /\ window[h] # Nobody
  /\ window' = [window EXCEPT ![h] = Nobody]
  /\ UNCHANGED <<made, everyone, alive, logon, sampling, acting>>

LogOn(s) ==
  /\ logon[s] = Nobody
  /\ Created
  /\ logon' = [logon EXCEPT ![s] = made + 1]
  /\ UNCHANGED <<everyone, alive, window, sampling, acting>>

LogOff(s) ==
  /\ logon[s] # Nobody
  /\ logon' = [logon EXCEPT ![s] = Nobody]
  /\ UNCHANGED <<made, everyone, alive, window, sampling, acting>>

(***************************************************************************)
(* ApplicationsSampler::sample and users::sample                           *)
(***************************************************************************)
\* One worker samples and executes actions.
Idle == page = Nobody /\ (request # Nobody => request.waits)

BeginSample(which) ==
  /\ Idle
  /\ page' = which
  /\ began' = made
  /\ enumerating' = IF which = "users" THEN {s \in SessionIds : logon[s] # Nobody}
                    ELSE {h \in Handles : window[h] # Nobody}
  /\ UNCHANGED <<system, visited, identities, bitness, rows, acting>>

Visit(n, what) ==
  /\ enumerating' = enumerating \ {n}
  /\ visited' = what
  /\ UNCHANGED <<system, page, began, identities, bitness, rows, acting>>

\* A window that has gone, like an invisible or unnamed one, is passed over.
VisitWindow(h) ==
  /\ page = "applications" /\ visited = Nobody /\ h \in enumerating
  /\ Visit(h, IF window[h] = Nobody THEN Nobody ELSE [hwnd |-> h, seen |-> window[h]])

\* The identity of a PID is asked for once in a sample, and may be denied.
Identify ==
  /\ page = "applications" /\ visited # Nobody /\ "process" \notin DOMAIN visited
  /\ LET p == visited.seen.owner[1]
     IN \E found \in IF p \in DOMAIN identities THEN {identities[p]} ELSE {Owner(p), Nobody} :
          /\ identities' = [q \in DOMAIN identities \cup {p} |->
                              IF q = p THEN found ELSE identities[q]]
          /\ visited' = IF found = Nobody THEN Nobody
                        ELSE [hwnd |-> visited.hwnd, seen |-> visited.seen, process |-> found]
  /\ UNCHANGED <<system, page, began, enumerating, bitness, rows, acting>>

\* The type is read through a handle whose identity is compared; without it the
\* row carries an error.
ReadType ==
  /\ page = "applications" /\ visited # Nobody /\ "process" \in DOMAIN visited
  /\ LET process == visited.process
         read == IF Owner(process[1]) = process THEN {process, Nobody} ELSE {Nobody}
     IN \E type \in IF process \in DOMAIN bitness THEN {bitness[process]} ELSE read :
          /\ rows' = rows \cup {[seen |-> visited.seen, process |-> process, type |-> type]}
          /\ bitness' = IF type = Nobody THEN bitness
                        ELSE [x \in DOMAIN bitness \cup {process} |->
                                IF x = process THEN type ELSE bitness[x]]
  /\ visited' = Nobody
  /\ UNCHANGED <<system, page, began, enumerating, identities, acting>>

\* A session without a user is passed over.
VisitSession(s) ==
  /\ page = "users" /\ visited = Nobody /\ s \in enumerating
  /\ \E user \in {logon[s], Nobody} :
       Visit(s, IF user = Nobody THEN Nobody ELSE [session |-> s, user |-> user])

\* Without a logon time the row has no identity and no actions.
ReadSession ==
  /\ page = "users" /\ visited # Nobody
  /\ \E login \in {logon[visited.session], Nobody} :
       rows' = rows \cup {[session |-> visited.session, user |-> visited.user, login |-> login]}
  /\ visited' = Nobody
  /\ UNCHANGED <<system, page, began, enumerating, identities, bitness, acting>>

\* Types are kept of the processes this sample has seen, even if it fails.
EndSample ==
  /\ page # Nobody /\ enumerating = {} /\ visited = Nobody
  /\ bitness' = IF page = "users" THEN bitness
                ELSE Restrict(bitness, DOMAIN bitness \cap {r.process : r \in rows})
  /\ page' = Nobody /\ began' = 0 /\ identities' = NoneFound /\ rows' = {}
  /\ UNCHANGED <<system, enumerating, visited, acting>>

(***************************************************************************)
(* Actions                                                                 *)
(***************************************************************************)
WindowTargets == [kind : {"window"}, name : Handles, identity : everyone]
SessionTargets == [kind : {"session"}, name : SessionIds, identity : 1..made]
ProcessTargets == [kind : {"process"}, name : TargetPids, identity : everyone]

\* The user acts on one row, or arranges several windows.  A row may be of any
\* age, so that it may name anything that ever was.
Choose(targets) ==
  /\ request = Nobody
  /\ request' = [waits |-> TRUE, targets |-> targets, since |-> made]
  /\ UNCHANGED <<system, sampling, checked, reading, hit>>

Execute ==
  /\ Idle /\ request # Nobody
  /\ request' = [request EXCEPT !.waits = FALSE]
  /\ UNCHANGED <<system, sampling, checked, reading, hit>>

Checking(t) == request # Nobody /\ ~request.waits /\ t \in request.targets \ checked

\* The action returns, because it is done or because of an error.
ReturnResult ==
  /\ request # Nobody /\ ~request.waits
  /\ request' = Nobody /\ checked' = {} /\ reading' = Nobody /\ hit' = Nobody
  /\ UNCHANGED <<system, sampling>>

\* validate_window_identity: the window has the expected PID...
ReadWindow(t) ==
  /\ t.kind = "window" /\ Checking(t) /\ reading = Nobody
  /\ window[t.name] # Nobody /\ window[t.name].owner[1] = t.identity[1]
  /\ reading' = t
  /\ UNCHANGED <<system, sampling, request, checked, hit>>

\* Mutant: ... and that is enough.
VerifyOwnerByPid(t) ==
  /\ reading = t
  /\ checked' = checked \cup {t} /\ reading' = Nobody
  /\ UNCHANGED <<system, sampling, request, hit>>

\* ... and the PID is that of the expected process.
VerifyOwner(t) ==
  /\ reading = t
  /\ Owner(t.identity[1]) = t.identity
  /\ checked' = checked \cup {t} /\ reading' = Nobody
  /\ UNCHANGED <<system, sampling, request, hit>>

\* execute_verified for a session, open_verified for a process.
Verify(t) ==
  /\ Checking(t)
  /\ \/ t.kind = "session" /\ logon[t.name] = t.identity
     \/ t.kind = "process" /\ Owner(t.name) = t.identity
  /\ checked' = checked \cup {t}
  /\ UNCHANGED <<system, sampling, request, reading, hit>>

\* What a call acts on: the window or session that has the name now, or the
\* process of the open handle.
Meant(t) ==
  CASE t.kind = "window" -> window[t.name]
    [] t.kind = "session" -> IF logon[t.name] = Nobody THEN Nobody
                             ELSE [number |-> logon[t.name], owner |-> logon[t.name]]
    [] t.kind = "process" -> [number |-> t.identity[2], owner |-> t.identity]

\* One of the calls of the action; they begin once all targets are verified.
Act(t) ==
  /\ request # Nobody /\ checked = request.targets /\ t \in checked
  /\ hit' = [target |-> t, on |-> Meant(t)]
  /\ UNCHANGED <<system, sampling, request, checked, reading>>

TargetNext ==
  \/ \E p \in TargetPids : BeginProcess(p) \/ FinishProcess(p)
  \/ \E h \in Handles : DestroyWindow(h) \/ VisitWindow(h)
  \/ \E h \in Handles, p \in TargetPids : CreateWindow(h, p)
  \/ \E s \in SessionIds : LogOn(s) \/ LogOff(s) \/ VisitSession(s)
  \/ \E which \in {"applications", "users"} : BeginSample(which)
  \/ Identify \/ ReadType \/ ReadSession \/ EndSample
  \/ \E t \in WindowTargets \cup SessionTargets \cup ProcessTargets : Choose({t})
  \/ \E t, u \in WindowTargets : Choose({t, u})
  \/ Execute \/ ReturnResult
  \/ \E t \in WindowTargets : ReadWindow(t) \/ VerifyOwner(t) \/ Act(t)
  \/ \E t \in SessionTargets \cup ProcessTargets : Verify(t) \/ Act(t)

TargetSpec == TargetInit /\ [][TargetNext]_targetVars

-----------------------------------------------------------------------------
(* Properties *)

\* A row of the Applications page gives a window its owner, and the type of that
\* owner; one of the Users page gives a user his own logon time.
RowSound(r) ==
  IF "session" \in DOMAIN r
  THEN r.login \in {r.user, Nobody} \/ r.login > began
  ELSE /\ r.process = r.seen.owner \/ r.seen.number > began \/ r.process[2] > began
       /\ r.type \in {r.process, Nobody}

\* Numbers that are given out again confuse nothing that was there already: what
\* an action touches is what the user chose, unless it was created after that,
\* and a row mixes two processes or two logons only if one of them was created
\* during the sample.
StaleNamesRefused ==
  [][/\ hit' # Nobody /\ hit'.on # Nobody =>
          hit'.on.owner = hit'.target.identity \/ hit'.on.number > request.since
     /\ \A r \in rows' : RowSound(r)
    ]_targetVars

=============================================================================
