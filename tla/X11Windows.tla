----------------------------- MODULE X11Windows -----------------------------
(* The Applications page on X11: the client list and then, window by window,  *)
(* title, PID, process, icons and class, each one a request of its own, while *)
(* windows close, clients end, and property sizes are whatever the clients    *)
(* set.  A budget bounds what one snapshot reads and keeps.  The actions on a *)
(* window check its process and leave a message for the window manager.       *)
(*                                                                           *)
(* Sizes are counted in units of four bytes, the unit of a property request.  *)
(* A client is a process with its connection; the server gives its window ids *)
(* to another one only when it has gone.                                      *)
EXTENDS IconImages, FiniteSets, Sequences, FiniteSetsExt

CONSTANTS
  XWindows,    \* window ids
  XPids,       \* process identifiers
  MaxClients,  \* bound: clients ever started
  WindowLimit, \* MAX_APPLICATION_WINDOWS
  Budget,      \* MAX_SNAPSHOT_METADATA_BYTES
  TextLimit,   \* MAX_TITLE_PROPERTY_BYTES
  IconLimit,   \* MAX_ICON_PROPERTY_BYTES
  MaxProperty, \* bound: size of a text
  IconProperties, \* bound: what _NET_WM_ICON may hold, as sequences of words
  WordLimit,   \* 2^32
  Encoded      \* size of an icon after it was encoded

ASSUME XAssumption ==
  /\ IsFiniteSet(XWindows)
  /\ {MaxClients, WindowLimit, Budget, TextLimit, IconLimit, MaxProperty, WordLimit, Encoded} \subseteq Nat
  /\ WindowLimit <= Budget
  /\ IconProperties \subseteq Seq(Nat)
  /\ {SmallEdge, LargeEdge} \subseteq Positive /\ SmallEdge # LargeEdge

VARIABLES
  xclient,     \* the client with a PID, 0 if none
  xclients,    \* how many have been started
  xwindow,     \* the client that has made the window of an id, 0 if none
  xrange,      \* the client that an id belongs to
  xstep,       \* where sample is
  todo,        \* the windows listed and not finished
  xrow,        \* the row being built
  remaining,   \* SnapshotBudget::remaining_bytes
  listed,      \* history: the windows of the client list
  xrows,       \* rows of the sample
  xaction      \* the action on a row, and what the window manager did for it

xserver == <<xclient, xclients, xwindow, xrange>>
xsample == <<xstep, todo, xrow, remaining, listed, xrows>>
xVars == <<xserver, xsample, xaction>>

\* maker: history, the client the window belonged to when its PID was read;
\* icons: at how many sizes it has an icon of its own.
NoXRow == [window |-> 0, title |-> "none", pid |-> 0, process |-> 0, maker |-> 0, icon |-> "none",
          icons |-> 0, kept |-> 0, cut |-> FALSE, failed |-> FALSE]
NoXAction == [step |-> "none", window |-> 0, pid |-> 0, process |-> 0, maker |-> 0, since |-> 0, on |-> 0]

xlive == {w \in XWindows : xwindow[w] # 0}

XInit ==
  /\ \E p \in XPids : xclient = [q \in XPids |-> IF q = p THEN 1 ELSE 0]
  /\ xclients = 1
  /\ \E open \in SUBSET XWindows : xwindow = [w \in XWindows |-> IF w \in open THEN 1 ELSE 0]
  /\ xrange = [w \in XWindows |-> 1]
  /\ xaction = NoXAction
  /\ xstep = "idle"
  /\ todo = {}
  /\ xrow = NoXRow
  /\ remaining = Budget
  /\ listed = {}
  /\ xrows = {}

(***************************************************************************)
(* The server and its clients (external)                                   *)
(***************************************************************************)
\* A client that connects is given ids that no connected one has.
StartClient(p) ==
  /\ xclient[p] = 0
  /\ xclients < MaxClients
  /\ xclients' = xclients + 1
  /\ xclient' = [xclient EXCEPT ![p] = xclients + 1]
  /\ \E ids \in SUBSET {w \in XWindows : \A q \in XPids : xclient[q] # xrange[w]} :
       xrange' = [w \in XWindows |-> IF w \in ids THEN xclients + 1 ELSE xrange[w]]
  /\ UNCHANGED <<xwindow, xsample, xaction>>

\* Its windows go with it.
EndClient(p) ==
  /\ xclient[p] # 0
  /\ xclient' = [xclient EXCEPT ![p] = 0]
  /\ xwindow' = [w \in XWindows |-> IF xwindow[w] = xclient[p] THEN 0 ELSE xwindow[w]]
  /\ UNCHANGED <<xclients, xrange, xsample, xaction>>

OpenXWindow(w, p) ==
  /\ xwindow[w] = 0 /\ xclient[p] # 0
  /\ xrange[w] = xclient[p]
  /\ xwindow' = [xwindow EXCEPT ![w] = xclient[p]]
  /\ UNCHANGED <<xclient, xclients, xrange, xsample, xaction>>

CloseXWindow(w) ==
  /\ w \in xlive
  /\ xwindow' = [xwindow EXCEPT ![w] = 0]
  /\ UNCHANGED <<xclient, xclients, xrange, xsample, xaction>>

(***************************************************************************)
(* SnapshotBudget and bounded_property                                     *)
(***************************************************************************)
\* How much may be asked for.
PropertyLength(limit) == Min({limit, remaining})

\* Mutant: a property that was cut off is taken for a whole one.
OutcomeCutOff(window, size, limit) ==
  LET length == PropertyLength(limit)
  IN IF length = 0 \/ window \notin xlive
     THEN [read |-> 0, charged |-> 0, error |-> TRUE]
     ELSE [read |-> Min({size, length}), charged |-> Min({size, length}), error |-> FALSE]

\* What a request for a property of that size answers: how much of it was read
\* and charged, and whether that is an error.  No request is sent when nothing
\* is left; a property that was cut off is charged and then refused.
Outcome(window, size, limit) ==
  LET length == PropertyLength(limit)
  IN IF length = 0 \/ window \notin xlive
     THEN [read |-> 0, charged |-> 0, error |-> TRUE]
     ELSE [read |-> Min({size, length}), charged |-> Min({size, length}), error |-> size > length]

\* Charging n more after the answer fails if that much is not left, and then
\* nothing more is charged.
Charges(answer, n) == remaining - answer.charged >= n

(***************************************************************************)
(* sample                                                                  *)
(***************************************************************************)
\* A new budget for every sample; the list may contain windows that close soon.
\* An error, too many windows or a duplicate fail the whole sample, and no
\* window makes an empty one.
ListWindows ==
  /\ xstep = "idle"
  /\ \E duplicated \in BOOLEAN :
       IF duplicated \/ xlive = {} \/ Cardinality(xlive) > WindowLimit
       THEN UNCHANGED <<xstep, todo, remaining, listed>>
       ELSE /\ xstep' = "next"
            /\ todo' = xlive
            /\ listed' = xlive
            /\ remaining' = Budget - Cardinality(xlive)
  /\ xrows' = {}
  /\ xrow' = NoXRow
  /\ UNCHANGED <<xserver, xaction>>

NextWindow(w) ==
  /\ xstep = "next" /\ w \in todo
  /\ xrow' = [NoXRow EXCEPT !.window = w]
  /\ xstep' = "title"
  /\ UNCHANGED <<xserver, todo, remaining, listed, xrows, xaction>>

\* _NET_WM_NAME, then WM_NAME if that is empty; the string is charged again.
\* Without a title the row shows the window id.
ReadTitle(property) ==
  /\ \E size \in 0..MaxProperty :
       LET answer == Outcome(xrow.window, size, TextLimit)
           kept == ~answer.error /\ Charges(answer, answer.read)
       IN /\ remaining' = remaining - answer.charged - (IF kept THEN answer.read ELSE 0)
          /\ xstep' = IF ~answer.error /\ answer.read = 0 /\ property = "title" THEN "legacy" ELSE "pid"
          /\ xrow' = [xrow EXCEPT !.title = IF kept /\ answer.read > 0 THEN "text" ELSE "id",
                                  !.kept = @ + (IF kept THEN answer.read ELSE 0),
                                  !.cut = @ \/ (kept /\ answer.read < size),
                                  !.failed = @ \/ answer.error \/ ~kept]
  /\ UNCHANGED <<xserver, todo, listed, xrows, xaction>>

Title == xstep = "title" /\ ReadTitle("title")
LegacyTitle == xstep = "legacy" /\ ReadTitle("legacy")

\* _NET_WM_PID, which not every client sets.
WindowPid ==
  /\ xstep = "pid"
  /\ \E pid \in {0} \cup {p \in XPids : xrow.window \in xlive /\ xclient[p] = xwindow[xrow.window]} :
       xrow' = [xrow EXCEPT !.pid = pid, !.maker = IF pid = 0 THEN 0 ELSE xwindow[xrow.window]]
  /\ xstep' = "process"
  /\ UNCHANGED <<xserver, todo, remaining, listed, xrows, xaction>>

\* process_identity: the process that has the PID by now, if any.
IdentityOf(pid) == IF pid = 0 THEN 0 ELSE xclient[pid]

FindProcess ==
  /\ xstep = "process"
  /\ xrow' = [xrow EXCEPT !.process = IdentityOf(xrow.pid)]
  /\ xstep' = "icon"
  /\ UNCHANGED <<xserver, todo, remaining, listed, xrows, xaction>>

\* The images of an icon property: width, height and pixels of each.  An image
\* is reached if those before it are whole; the first that is not ends the
\* search, and one whose area overflows voids it.
Width(words, at) == words[at + 1]
Height(words, at) == words[at + 2]
Area(words, at) == Width(words, at) * Height(words, at)
Whole(words, at) ==
  /\ 0 < Area(words, at) /\ Area(words, at) < WordLimit
  /\ at + 2 + Area(words, at) <= Len(words)

Reached(words) ==
  LET reached[at \in 0..Len(words)] ==
        \/ at = 0
        \/ \E p \in 0..(at - 1) :
             reached[p] /\ p + 2 <= Len(words) /\ Whole(words, p) /\ at = p + 2 + Area(words, p)
  IN {at \in 0..Len(words) : reached[at] /\ at + 2 <= Len(words)}

\* Images that need not be enlarged first, then the nearest in size, then the
\* smallest, then the first.
Score(words, at, edge) ==
  LET width == Width(words, at)
      height == Height(words, at)
      longer == Max({width, height})
  IN <<IF width < edge \/ height < edge THEN 1 ELSE 0,
       IF longer < edge THEN edge - longer ELSE longer - edge, width * height, at>>

Precedes(s, t) ==
  \E i \in 1..4 : s[i] < t[i] /\ \A j \in 1..(i - 1) : s[j] = t[j]

\* The best image, as a set of at most one.
SelectIcon(words, edge) ==
  LET reached == Reached(words)
      whole == {at \in reached : Whole(words, at)}
  IN IF \E at \in reached : Area(words, at) >= WordLimit THEN {}
     ELSE {at \in whole : \A other \in whole \ {at} :
             Precedes(Score(words, at, edge), Score(words, other, edge))}

\* encode_selected_icon.
EncodesIcon(words, edge) ==
  \E at \in SelectIcon(words, edge) :
    Drawn(Width(words, at), Height(words, at), Area(words, at), edge)

\* The property, a copy of it, and the encoded icons are charged one after the
\* other; a failing one leaves the row without icons.
ReadIcon ==
  /\ xstep = "icon"
  /\ \E words \in IconProperties :
       LET answer == Outcome(xrow.window, Len(words), IconLimit)
           copied == ~answer.error /\ Charges(answer, answer.read)
           icons == Cardinality({edge \in {SmallEdge, LargeEdge} :
                                   EncodesIcon(SubSeq(words, 1, answer.read), edge)})
           encoded == Encoded * icons
           kept == copied /\ Charges(answer, answer.read + encoded)
       IN /\ remaining' = remaining - answer.charged - (IF copied THEN answer.read ELSE 0)
                                    - (IF kept THEN encoded ELSE 0)
          /\ xrow' = [xrow EXCEPT !.icon = IF kept /\ icons > 0 THEN "own" ELSE @,
                                  !.icons = IF kept THEN icons ELSE 0,
                                  !.kept = @ + (IF kept THEN encoded ELSE 0),
                                  !.cut = @ \/ (kept /\ answer.read < Len(words)),
                                  !.failed = @ \/ answer.error \/ ~kept]
          /\ xstep' = IF kept /\ icons > 0 THEN "push" ELSE "class"
  /\ UNCHANGED <<xserver, todo, listed, xrows, xaction>>

\* WM_CLASS leads to the icon of a desktop entry, which is not charged.
ReadClass ==
  /\ xstep = "class"
  /\ \E size \in 0..MaxProperty, found \in BOOLEAN :
       LET answer == Outcome(xrow.window, size, TextLimit)
       IN /\ remaining' = remaining - answer.charged
          /\ xrow' = [xrow EXCEPT !.icon = IF ~answer.error /\ answer.read > 0 /\ found THEN "entry" ELSE @,
                                  !.cut = @ \/ (~answer.error /\ answer.read < size),
                                  !.failed = @ \/ answer.error]
  /\ xstep' = "push"
  /\ UNCHANGED <<xserver, todo, listed, xrows, xaction>>

PushRow ==
  /\ xstep = "push"
  /\ todo' = todo \ {xrow.window}
  /\ xrows' = xrows \cup {xrow}
  /\ xstep' = IF todo' = {} THEN "idle" ELSE "next"
  /\ xrow' = NoXRow
  /\ remaining' = IF todo' = {} THEN Budget ELSE remaining
  /\ UNCHANGED <<xserver, listed, xaction>>

(***************************************************************************)
(* execute                                                                 *)
(***************************************************************************)
\* The user acts on a row of the page.  Bound: one action at a time.
ChooseXRow(r) ==
  /\ xaction.step = "none" /\ xstep = "idle" /\ r \in xrows
  /\ xaction' = [NoXAction EXCEPT !.step = "asked", !.window = r.window, !.pid = r.pid,
                                  !.process = r.process, !.maker = r.maker]
  /\ UNCHANGED <<xserver, xsample>>

\* The process of the row must still be there; a row without one is not checked.
\* Samples and actions take turns.
CheckIdentity ==
  /\ xstep = "idle" /\ xaction.step = "asked"
  /\ xaction' = IF xaction.process # 0 /\ IdentityOf(xaction.pid) # xaction.process THEN NoXAction
                ELSE [xaction EXCEPT !.step = "checked", !.since = xclients]
  /\ UNCHANGED <<xserver, xsample>>

\* execute_window_action sends a message with the window id to the root window.
SendClientMessage ==
  /\ xstep = "idle" /\ xaction.step = "checked"
  /\ xaction' \in {NoXAction, [xaction EXCEPT !.step = "sent"]}
  /\ UNCHANGED <<xserver, xsample>>

\* The window manager acts on the window that has the id by then (external).
ManageWindow ==
  /\ xaction.step = "sent"
  /\ xaction' = [xaction EXCEPT !.step = "done", !.on = xwindow[xaction.window]]
  /\ UNCHANGED <<xserver, xsample>>

Forget ==
  /\ xaction.step = "done"
  /\ xaction' = NoXAction
  /\ UNCHANGED <<xserver, xsample>>

XNext ==
  \/ \E p \in XPids : StartClient(p) \/ EndClient(p)
  \/ \E w \in XWindows, p \in XPids : OpenXWindow(w, p)
  \/ \E w \in XWindows : CloseXWindow(w) \/ NextWindow(w)
  \/ ListWindows \/ Title \/ LegacyTitle \/ WindowPid \/ FindProcess
  \/ ReadIcon \/ ReadClass \/ PushRow
  \/ \E r \in xrows : ChooseXRow(r)
  \/ CheckIdentity \/ SendClientMessage \/ ManageWindow \/ Forget

XSpec == XInit /\ [][XNext]_xVars

-----------------------------------------------------------------------------
(* Properties *)

\* Whatever closes while it is being read and however large the properties are,
\* a sample has a row for every window of the client list and keeps no more
\* than the budget; a row that reports no error shows nothing that was cut off,
\* and its own icon at both sizes or at none.
RowsHonest ==
  /\ xstep = "idle" /\ listed # {} => {r.window : r \in xrows} \in {listed, {}}
  /\ SumFunction([r \in xrows |-> r.kept]) + xrow.kept <= Budget
  /\ \A r \in xrows : (~r.failed => ~r.cut) /\ r.icons \in {0, 2}

\* If the process of a row was the one its window belonged to, an action on the
\* row reaches a window of that process, or none, or one of a client that was
\* started after the action had been checked, although only the process is
\* checked and the window id may be another client's by then.
ActionReachesProcess ==
  xaction.step = "done" /\ xaction.process # 0 /\ xaction.process = xaction.maker =>
    xaction.on \in {0, xaction.process} \/ xaction.on > xaction.since

\* What a snapshot says of a window is true of it, also for actions.
SnapshotHonest == RowsHonest /\ ActionReachesProcess

=============================================================================
