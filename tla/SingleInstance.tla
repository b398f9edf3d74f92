---------------------------- MODULE SingleInstance ----------------------------
(* The start of the program on Windows: a process takes the start-up mutex of  *)
(* its user and session, looks for the window of another instance, and asks    *)
(* that instance to show itself instead of starting a second one.  Processes   *)
(* start, close and crash at any time; their PIDs and window handles are given *)
(* to others.                                                                  *)
(*                                                                             *)
(* All processes belong to one user and session, so that identities differ in   *)
(* the elevation.  A window of another program with the same class is like one *)
(* of another identity that never answers.                                     *)
EXTENDS Integers, FiniteSets

CONSTANTS
  Starts,      \* processes
  Elevated,    \* those that run elevated, at a high integrity level
  StartPids,   \* process identifiers
  Hwnds,       \* window handles
  NoOne        \* no process, PID or window

ASSUME StartAssumption == NoOne \notin Starts \cup StartPids \cup Hwnds

VARIABLES
  progress,        \* how far each process is in wWinMain
  pidOf,          \* its PID while it lives, or NoOne
  hwnd,         \* its window, or NoOne
  mutexHolders, \* processes with a handle to the mutex, which exists if there is one
  mutexOwner,   \* the one that owns it
  mutexHigh,    \* whether an elevated process created it
  candidate,    \* the window a process is looking at: handle, PID, and the process it opened
  tried,        \* the windows it has looked at
  answeredBy,   \* the process that answered its message, or NoOne
  excused       \* history: starts without mutex, full search or an answer of the peer

mutex == <<mutexHolders, mutexOwner, mutexHigh>>
search == <<candidate, tried, answeredBy>>
startVars == <<progress, pidOf, hwnd, mutex, search, excused>>

Nowhere == [window |-> NoOne, id |-> NoOne, process |-> NoOne]

StartInit ==
  /\ progress = [p \in Starts |-> "new"]
  /\ pidOf = [p \in Starts |-> NoOne] /\ hwnd = [p \in Starts |-> NoOne]
  /\ mutexHolders = {} /\ mutexOwner = NoOne /\ mutexHigh = FALSE
  /\ candidate = [p \in Starts |-> Nowhere] /\ tried = [p \in Starts |-> {}]
  /\ answeredBy = [p \in Starts |-> NoOne]
  /\ excused = {}

SameIdentity(p, q) == p \in Elevated <=> q \in Elevated

OwnerOf(h) == IF \E p \in Starts : hwnd[p] = h THEN CHOOSE p \in Starts : hwnd[p] = h ELSE NoOne

\* Steps of wWinMain.
Reaches(p, to) == progress' = [progress EXCEPT ![p] = to]
Stands(p, where) == progress[p] = where

(***************************************************************************)
(* Processes of the system (external)                                      *)
(***************************************************************************)
\* A PID is free again when no handle to its process is open.
FreePids ==
  {i \in StartPids : \A p \in Starts :
     pidOf[p] # i /\ (candidate[p].process # NoOne => candidate[p].id # i)}

BeginStart(p) ==
  /\ Stands(p, "new")
  /\ \E i \in FreePids : pidOf' = [pidOf EXCEPT ![p] = i]
  /\ Reaches(p, "acquire")
  /\ UNCHANGED <<hwnd, mutex, search, excused>>

\* Without its process go its window and handles; the mutex it owned is abandoned.
Dies(p) ==
  /\ Reaches(p, "ended")
  /\ pidOf' = [pidOf EXCEPT ![p] = NoOne] /\ hwnd' = [hwnd EXCEPT ![p] = NoOne]
  /\ candidate' = [candidate EXCEPT ![p] = Nowhere] /\ tried' = [tried EXCEPT ![p] = {}]
  /\ answeredBy' = [answeredBy EXCEPT ![p] = NoOne]
  /\ mutexHolders' = mutexHolders \ {p}
  /\ mutexOwner' = IF mutexOwner = p THEN NoOne ELSE mutexOwner
  /\ mutexHigh' = (mutexHigh /\ mutexHolders' # {})
  /\ UNCHANGED excused

\* The user closes its window, or it crashes.
CloseOrCrash(p) == progress[p] \notin {"new", "ended"} /\ Dies(p)

(***************************************************************************)
(* StartupMutex                                                            *)
(***************************************************************************)
Unlocked(p) == Reaches(p, "search") /\ excused' = excused \cup {p}

\* A process that is not elevated has no access to a mutex of one that is.
Acquire(p) ==
  /\ Stands(p, "acquire")
  /\ \/ Unlocked(p) /\ UNCHANGED mutex
     \/ /\ mutexHolders = {}
        /\ mutexHolders' = {p} /\ mutexOwner' = p /\ mutexHigh' = (p \in Elevated)
        /\ Reaches(p, "search") /\ UNCHANGED excused
     \/ /\ mutexHolders # {} /\ (mutexHigh => p \in Elevated)
        /\ mutexHolders' = mutexHolders \cup {p}
        /\ Reaches(p, "wait") /\ UNCHANGED <<mutexOwner, mutexHigh, excused>>
  /\ UNCHANGED <<pidOf, hwnd, search>>

\* The wait ends because the mutex was released or abandoned...
WaitSucceeds(p) ==
  /\ Stands(p, "wait") /\ mutexOwner = NoOne
  /\ mutexOwner' = p
  /\ Reaches(p, "search")
  /\ UNCHANGED <<pidOf, hwnd, mutexHolders, mutexHigh, search, excused>>

\* ... or because time is up: the start goes on without it.
WaitTimesOut(p) ==
  /\ Stands(p, "wait")
  /\ mutexHolders' = mutexHolders \ {p}
  /\ Unlocked(p)
  /\ UNCHANGED <<pidOf, hwnd, mutexOwner, mutexHigh, search>>

Release(p) ==
  /\ mutexHolders' = mutexHolders \ {p}
  /\ mutexOwner' = IF mutexOwner = p THEN NoOne ELSE mutexOwner
  /\ mutexHigh' = (mutexHigh /\ mutexHolders' # {})

(***************************************************************************)
(* ActivateAuthenticatedInstance                                           *)
(***************************************************************************)
\* FindWindowExW and GetWindowThreadProcessId: the next window, in any order.
FindWindow(p, h) ==
  /\ Stands(p, "search") /\ h \notin tried[p] /\ OwnerOf(h) # NoOne
  /\ tried' = [tried EXCEPT ![p] = @ \cup {h}]
  /\ candidate' = [candidate EXCEPT ![p] = [window |-> h, id |-> pidOf[OwnerOf(h)], process |-> NoOne]]
  /\ Reaches(p, "open")
  /\ UNCHANGED <<pidOf, hwnd, mutex, answeredBy, excused>>

\* The order of windows may change, and the one reached may go, before the search
\* has seen all of them: then it ends early.
EndSearch(p) ==
  /\ Stands(p, "search")
  /\ excused' = IF {hwnd[q] : q \in Starts} \subseteq tried[p] \cup {NoOne}
                THEN excused ELSE excused \cup {p}
  /\ Reaches(p, "create")
  /\ UNCHANGED <<pidOf, hwnd, mutex, search>>

Continue(p) ==
  /\ candidate' = [candidate EXCEPT ![p] = Nowhere]
  /\ answeredBy' = [answeredBy EXCEPT ![p] = NoOne]
  /\ Reaches(p, "search")

\* Who has the PID now is opened.
OpenPeer(p) ==
  /\ Stands(p, "open")
  /\ \/ \E q \in Starts \ {p} :
          /\ pidOf[q] = candidate[p].id
          /\ candidate' = [candidate EXCEPT ![p].process = q]
          /\ Reaches(p, "authenticate") /\ UNCHANGED <<excused, answeredBy>>
     \/ Continue(p) /\ excused' = excused \cup {p}
  /\ UNCHANGED <<pidOf, hwnd, mutex, tried>>

\* IsWindowStillBound
StillBound(p) ==
  /\ OwnerOf(candidate[p].window) = candidate[p].process
  /\ pidOf[candidate[p].process] = candidate[p].id

\* A token that cannot be queried authenticates nobody.
Authenticate(p) ==
  /\ Stands(p, "authenticate")
  /\ \/ /\ SameIdentity(p, candidate[p].process) /\ StillBound(p)
        /\ Reaches(p, "send") /\ UNCHANGED <<candidate, answeredBy, excused>>
     \/ /\ ~(SameIdentity(p, candidate[p].process) /\ StillBound(p))
        /\ Continue(p) /\ UNCHANGED excused
     \/ Continue(p) /\ excused' = excused \cup {p}
  /\ UNCHANGED <<pidOf, hwnd, mutex, tried>>

\* SendMessageTimeoutW: whoever has the handle now may answer, if it is an
\* instance that reads its messages and may be sent one.
SendMessage(p) ==
  /\ Stands(p, "send")
  /\ LET q == OwnerOf(candidate[p].window)
     IN \/ /\ q # NoOne /\ progress[q] = "running"
           /\ q \in Elevated => p \in Elevated
           /\ answeredBy' = [answeredBy EXCEPT ![p] = q]
           /\ Reaches(p, "confirm") /\ UNCHANGED <<candidate, excused>>
        \/ /\ Continue(p)
           /\ excused' = IF q = candidate[p].process THEN excused \cup {p} ELSE excused
  /\ UNCHANGED <<pidOf, hwnd, mutex, tried>>

\* Mutant: an answer is enough.
ConfirmUnbound(p) ==
  /\ Stands(p, "confirm")
  /\ Reaches(p, "activated") /\ UNCHANGED <<candidate, answeredBy>>
  /\ UNCHANGED <<pidOf, hwnd, mutex, tried, excused>>

\* An answer counts if the window still belongs to the same process.
Confirm(p) ==
  /\ Stands(p, "confirm")
  /\ IF StillBound(p) THEN Reaches(p, "activated") /\ UNCHANGED <<candidate, answeredBy>>
     ELSE Continue(p)
  /\ UNCHANGED <<pidOf, hwnd, mutex, tried, excused>>

(***************************************************************************)
(* wWinMain                                                                *)
(***************************************************************************)
\* Another instance has shown itself: the process exits.
GiveUp(p) == Stands(p, "activated") /\ Dies(p)

\* Win32Window::Create; a failure ends the process (CloseOrCrash).
Create(p) ==
  /\ Stands(p, "create")
  /\ \E h \in Hwnds : OwnerOf(h) = NoOne /\ hwnd' = [hwnd EXCEPT ![p] = h]
  /\ Reaches(p, "created")
  /\ UNCHANGED <<pidOf, mutex, search, excused>>

\* startup_mutex.Release(), and the message loop begins.
Run(p) ==
  /\ Stands(p, "created")
  /\ Release(p)
  /\ Reaches(p, "running")
  /\ UNCHANGED <<pidOf, hwnd, search, excused>>

StartNext ==
  \E p \in Starts :
    \/ BeginStart(p) \/ CloseOrCrash(p)
    \/ Acquire(p) \/ WaitSucceeds(p) \/ WaitTimesOut(p)
    \/ \E h \in Hwnds : FindWindow(p, h)
    \/ EndSearch(p) \/ OpenPeer(p) \/ Authenticate(p) \/ SendMessage(p) \/ Confirm(p)
    \/ GiveUp(p) \/ Create(p) \/ Run(p)

StartSpec == StartInit /\ [][StartNext]_startVars

-----------------------------------------------------------------------------
(* Properties *)

\* Two windows of one identity appear only if a start went on although it could
\* not take the mutex, see every window or get an answer, as the code allows; and
\* a start that gives up was answered by an instance of its own identity.
OneInstance ==
  /\ \A p, q \in Starts \ excused :
       hwnd[p] # NoOne /\ hwnd[q] # NoOne /\ SameIdentity(p, q) => p = q
  /\ \A p \in Starts : progress[p] = "activated" => SameIdentity(p, answeredBy[p])

=============================================================================
