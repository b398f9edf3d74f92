----------------------------- MODULE Toplevels -----------------------------
(* The Applications page on Wayland: a registry of toplevel handles that is   *)
(* filled by events of the compositor during round trips, for the three       *)
(* protocols (ext and wlr share a shape; KDE announces a UUID and the client  *)
(* asks for the handle), and window actions on handles of earlier snapshots.  *)
(*                                                                           *)
(* The compositor (external) works through requests in order and queues       *)
(* events in order.  Windows are numbered in the order they open; handles of  *)
(* ext and wlr have object ids, which are used again once destroyed, those of *)
(* KDE the hash of a UUID, here the window's number.                          *)
EXTENDS Naturals, FiniteSets, Sequences, Functions

CONSTANTS
  ObjectIds,   \* wl_proxy ids
  MaxWindows,  \* bound: windows ever opened
  MaxRequests, \* bound: requests under way when an action is requested
  NoWindow

ASSUME ToplevelAssumption == MaxWindows \in Nat /\ NoWindow \notin {"ext", "wlr", "kde"}

VARIABLES
  protocol,   \* WaylandBackend: ext, wlr or kde, NoWindow before connect
  opened,     \* how many windows have been opened
  live,       \* the windows that are open
  skipping,   \* those the compositor keeps out of task bars (KDE)
  resources,  \* handles the compositor has: key -> window
  events,     \* on their way to the client: <<kind, key, window>>
  requests,   \* on their way to the compositor: <<kind, key, window>>
  registry,   \* ExtState, WlrState, KdeState: key -> [window, ready, skip]
  busy,       \* TRUE during a round trip
  answered,   \* TRUE once the answer of the round trip has been dispatched
  batch,      \* how many events behind the answer were read together with it
  windowRows, \* the last snapshot: <<native_id, window>>
  selected,   \* the row the user has selected
  synced,     \* history: the windows open when the compositor answered
  absent,     \* history: those closed, or kept out of task bars, by then
  known,      \* history: the windows registered when the last sample ended
  misdirected \* history: an action reached another window while the chosen one was open

toplevelVars == <<protocol, opened, live, skipping, resources, events, requests, registry,
                  busy, answered, batch, windowRows, selected, synced, absent, known, misdirected>>

None == [k \in {} |-> 0]
Without(f, key) == Restrict(f, DOMAIN f \ {key})
With(f, key, value) == [k \in DOMAIN f \cup {key} |-> IF k = key THEN value ELSE f[k]]

ToplevelInit ==
  /\ protocol = NoWindow
  /\ opened = 0 /\ live = {} /\ skipping = {} /\ resources = None
  /\ events = <<>> /\ requests = <<>>
  /\ registry = None
  /\ busy = FALSE /\ answered = FALSE /\ batch = 0
  /\ windowRows = {} /\ selected = NoWindow
  /\ synced = {} /\ absent = {} /\ known = {} /\ misdirected = FALSE

tripVars == <<busy, answered, batch>>
clientVars == <<protocol, registry, tripVars, windowRows, selected, known>>

(***************************************************************************)
(* The compositor (external)                                               *)
(***************************************************************************)
Announce(window, key) ==
  IF protocol = "kde"
  THEN /\ events' = Append(events, <<"uuid", window, window>>)
       /\ UNCHANGED resources
  ELSE /\ events' = events \o <<<<"toplevel", key, window>>, <<"done", key, window>>>>
       /\ resources' = With(resources, key, window)

OpenWindow(key) ==
  /\ protocol # NoWindow
  /\ opened < MaxWindows
  /\ key \in ObjectIds \ DOMAIN resources
  /\ opened' = opened + 1
  /\ live' = live \cup {opened + 1}
  /\ Announce(opened + 1, key)
  /\ UNCHANGED <<skipping, requests, synced, absent, misdirected, clientVars>>

CloseWindow(window) ==
  /\ window \in live
  /\ live' = live \ {window}
  /\ skipping' = skipping \ {window}
  /\ LET keys == {k \in DOMAIN resources : resources[k] = window}
     IN events' = IF keys = {} THEN events
                  ELSE Append(events, <<"closed", CHOOSE k \in keys : TRUE, window>>)
  /\ UNCHANGED <<opened, resources, requests, synced, absent, misdirected, clientVars>>

\* Bound: one window at a time.
SkipTaskbar(window) ==
  /\ protocol = "kde" /\ window \in live /\ skipping = {}
  /\ skipping' = skipping \cup {window}
  /\ events' = IF window \in DOMAIN resources THEN Append(events, <<"skip", window, window>>)
               ELSE events
  /\ UNCHANGED <<opened, live, resources, requests, synced, absent, misdirected, clientVars>>

\* What is sent first for a KDE handle: the state, and that it is complete.
InitialState(key) ==
  IF key \notin live THEN <<<<"closed", key, key>>>>
  ELSE (IF key \in skipping THEN <<<<"skip", key, key>>>> ELSE <<>>) \o <<<<"done", key, key>>>>

\* A handle for a KDE window that has gone is closed at once.  Requests on the
\* handle of a closed window do nothing.
HandleRequest ==
  /\ requests # <<>>
  /\ requests' = Tail(requests)
  /\ LET kind == Head(requests)[1]
         key == Head(requests)[2]
         chosen == Head(requests)[3]
     IN \/ /\ kind = "sync"
           /\ events' = Append(events, <<"synced", NoWindow, NoWindow>>)
           /\ synced' = live \ skipping
           /\ absent' = (1..opened) \ synced'
           /\ UNCHANGED <<resources, misdirected>>
        \/ /\ kind = "get"
           /\ resources' = With(resources, key, key)
           /\ events' = events \o InitialState(key)
           /\ UNCHANGED <<synced, absent, misdirected>>
        \/ /\ kind = "destroy"
           /\ resources' = Without(resources, key)
           /\ UNCHANGED <<events, synced, absent, misdirected>>
        \/ /\ kind = "act"
           /\ misdirected' = (misdirected \/ (chosen \in live /\ resources[key] # chosen))
           /\ UNCHANGED <<resources, events, synced, absent>>
  /\ UNCHANGED <<opened, live, skipping, clientVars>>

(***************************************************************************)
(* connect, and the events dispatched by a round trip                      *)
(***************************************************************************)
\* protocol_candidates in order, the first that can be connected; every one of
\* them ends with a round trip.
Connect ==
  /\ protocol = NoWindow
  /\ \E advertised \in SUBSET {"ext", "wlr", "kde"}, failing \in SUBSET {"ext", "wlr", "kde"} :
       LET usable == advertised \ failing
       IN /\ usable # {}
          /\ protocol' = IF "ext" \in usable THEN "ext" ELSE IF "wlr" \in usable THEN "wlr" ELSE "kde"
  /\ requests' = <<<<"sync", NoWindow, NoWindow>>>>
  /\ busy' = TRUE
  /\ UNCHANGED <<opened, live, skipping, resources, events, registry, answered, batch, windowRows,
                 selected, synced, absent, known, misdirected>>

DispatchToplevel ==
  /\ Head(events)[1] = "toplevel"
  /\ registry' = With(registry, Head(events)[2], [window |-> Head(events)[3], ready |-> FALSE, skip |-> FALSE])
  /\ UNCHANGED requests

DispatchWindowWithUuid ==
  /\ Head(events)[1] = "uuid"
  /\ registry' = With(registry, Head(events)[2], [window |-> Head(events)[3], ready |-> FALSE, skip |-> FALSE])
  /\ requests' = Append(requests, <<"get", Head(events)[2], Head(events)[3]>>)

\* Done of ext and wlr; ignored if the handle is not registered.
DispatchDone ==
  /\ Head(events)[1] = "done" /\ protocol # "kde"
  /\ registry' = IF Head(events)[2] \in DOMAIN registry
                 THEN [registry EXCEPT ![Head(events)[2]].ready = TRUE] ELSE registry
  /\ UNCHANGED requests

\* StateChanged and InitialState of KDE, for a handle that is registered.
DispatchKdeWindow ==
  /\ Head(events)[1] \in {"skip", "done"} /\ protocol = "kde"
  /\ LET key == Head(events)[2]
     IN registry' = IF key \notin DOMAIN registry THEN registry
                    ELSE IF Head(events)[1] = "skip" THEN [registry EXCEPT ![key].skip = TRUE]
                    ELSE [registry EXCEPT ![key].ready = TRUE]
  /\ UNCHANGED requests

\* Mutant: the entry goes, the handle is not destroyed.
DispatchClosedLeaks ==
  /\ Head(events)[1] = "closed"
  /\ registry' = Without(registry, Head(events)[2])
  /\ UNCHANGED requests

\* release_terminal_entry: the entry is removed once, and its handle destroyed.
DispatchClosed ==
  /\ Head(events)[1] = "closed"
  /\ IF Head(events)[2] \in DOMAIN registry
     THEN /\ registry' = Without(registry, Head(events)[2])
          /\ requests' = Append(requests, <<"destroy", Head(events)[2], Head(events)[3]>>)
     ELSE UNCHANGED <<registry, requests>>

\* Before the answer, and what was read together with it.
Dispatch ==
  /\ busy
  /\ events # <<>> /\ Head(events)[1] # "synced"
  /\ IF answered THEN batch > 0 /\ batch' = batch - 1 ELSE UNCHANGED batch
  /\ events' = Tail(events)
  /\ DispatchToplevel \/ DispatchWindowWithUuid \/ DispatchDone \/ DispatchKdeWindow
     \/ DispatchClosed
  /\ UNCHANGED <<protocol, opened, live, skipping, resources, busy, answered, windowRows, selected,
                 synced, absent, known, misdirected>>

\* EventQueue::roundtrip (external) reads and dispatches until the answer has come,
\* and dispatches all that one read has brought: any number of the events that
\* follow the answer.
DispatchAnswer ==
  /\ busy
  /\ events # <<>> /\ Head(events)[1] = "synced"
  /\ events' = Tail(events)
  /\ answered' = TRUE
  /\ batch' \in 0..Len(events')
  /\ UNCHANGED <<protocol, opened, live, skipping, resources, requests, registry, busy, windowRows,
                 selected, synced, absent, known, misdirected>>

(***************************************************************************)
(* sample and execute                                                      *)
(***************************************************************************)
StartSample ==
  /\ protocol # NoWindow /\ ~busy
  /\ busy' = TRUE
  /\ requests' = Append(requests, <<"sync", NoWindow, NoWindow>>)
  /\ UNCHANGED <<protocol, opened, live, skipping, resources, events, registry, answered, batch,
                 windowRows, selected, synced, absent, known, misdirected>>

\* The entries a snapshot shows; a window of the program itself is not counted as
\* one.
ReadyKeys == {k \in DOMAIN registry : registry[k].ready}
\* Mutant: windows kept out of task bars are listed.
KdeKeysUnfiltered == {k \in DOMAIN registry : registry[k].ready}

KdeKeys == {k \in DOMAIN registry : registry[k].ready /\ ~registry[k].skip}
ShownKeys == IF protocol = "kde" THEN KdeKeys ELSE ReadyKeys

\* The round trip has ended.  (That of connect publishes nothing, which makes no
\* difference.)
EndSample ==
  /\ busy /\ answered /\ batch = 0
  /\ busy' = FALSE /\ answered' = FALSE
  /\ windowRows' = {<<k, registry[k].window>> : k \in ShownKeys}
  /\ known' = {registry[k].window : k \in DOMAIN registry}
  /\ synced' = {} /\ absent' = {}
  /\ UNCHANGED <<protocol, opened, live, skipping, resources, events, requests, registry, batch,
                 selected, misdirected>>

\* The user turns to a row to act on it; those of ext offer no actions.
Select(row) ==
  /\ protocol # "ext" /\ row \in windowRows
  /\ selected' = row
  /\ UNCHANGED <<protocol, opened, live, skipping, resources, events, requests, registry, tripVars,
                 windowRows, synced, absent, known, misdirected>>

\* Mutant: the handle at the place the row had in the list.
ActsByPosition ==
  LET place == Cardinality({r \in windowRows : r[1] < selected[1]})
  IN requests' = IF \E k \in DOMAIN registry : Cardinality({l \in DOMAIN registry : l < k}) = place
                 THEN Append(requests, <<"act", CHOOSE k \in DOMAIN registry :
                               Cardinality({l \in DOMAIN registry : l < k}) = place, selected[2]>>)
                 ELSE requests

\* The handle is looked up by native_id, on the sampling worker and between two
\* samples.
Acts ==
  requests' = IF selected[1] \in DOMAIN registry
              THEN Append(requests, <<"act", selected[1], selected[2]>>)
              ELSE requests

\* KDE's process of the row is compared with the one that has the window's PID
\* now, and its flags must allow the action.
ExecuteKde == Acts \/ UNCHANGED requests

\* Activation needs a seat.
ExecuteWlr == Acts \/ UNCHANGED requests

Execute ==
  /\ ~busy /\ selected # NoWindow
  /\ selected' = NoWindow
  /\ Len(requests) < MaxRequests
  /\ \/ protocol = "kde" /\ ExecuteKde
     \/ protocol = "wlr" /\ ExecuteWlr
  /\ UNCHANGED <<protocol, opened, live, skipping, resources, events, registry, tripVars, windowRows,
                 synced, absent, known, misdirected>>

ToplevelNext ==
  \/ Connect
  \/ \E key \in ObjectIds : OpenWindow(key)
  \/ \E window \in 1..MaxWindows : CloseWindow(window) \/ SkipTaskbar(window)
  \/ HandleRequest
  \/ Dispatch \/ DispatchAnswer
  \/ StartSample \/ EndSample
  \/ \E row \in windowRows : Select(row)
  \/ Execute

ToplevelSpec == ToplevelInit /\ [][ToplevelNext]_toplevelVars

-----------------------------------------------------------------------------
(* Properties *)

InFlight(kind, key) ==
  \/ \E i \in 1..Len(events) : events[i][1] = kind /\ events[i][2] = key
  \/ \E i \in 1..Len(requests) : requests[i][1] = kind /\ requests[i][2] = key

\* Every handle of a closed window is on its way out: an event or a request that
\* leads to its destruction is under way; and a handle that the client no longer
\* knows has been destroyed by it.
HandlesReleased ==
  \A k \in DOMAIN resources :
    /\ resources[k] \notin live => InFlight("closed", k) \/ InFlight("destroy", k)
    /\ k \notin DOMAIN registry => InFlight("destroy", k) \/ InFlight("toplevel", k)

\* Whatever is announced, completed, closed and replaced in whatever order: no
\* handle leaks.  A snapshot shows no window that had closed, or been kept out of
\* the task bar, when the compositor answered the round trip, although events that
\* came after the answer are dispatched too; and every window that was open then
\* and still is (on KDE, where handles have to be requested, if it was known before).
\* An action reaches no other window while the one that was chosen is open.  (Once
\* that has closed, another may have its object id: wlr offers no other identity.)
WindowsAreTracked ==
  [][/\ HandlesReleased'
     /\ ~misdirected'
     /\ EndSample => LET shown == {r[2] : r \in windowRows'}
                         due == synced \cap (live \ skipping)
                     IN /\ shown \cap absent = {}
                        /\ due \cap (IF protocol = "kde" THEN known ELSE due) \subseteq shown
    ]_toplevelVars

=============================================================================
