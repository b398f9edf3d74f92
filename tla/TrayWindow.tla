------------------------------ MODULE TrayWindow ------------------------------
(* The main window and its icon in the notification area on Windows.          *)
(* DesktopAppWindowController answers the user with calls to the window and    *)
(* tray plugins.  Calls, and their replies and events, travel in two queues;   *)
(* while a call is under way, events and other calls are handled.              *)
(*                                                                             *)
(* The window's geometry, the level of the icon, the exit command and focus    *)
(* are left out.                                                               *)
EXTENDS Integers, Sequences, FiniteSets

CONSTANT MaxInputs   \* bound: what the user, and the samples, do

VARIABLES
  disposed, listener, registered, hideWhenMinimized, windowVisible, alwaysOnTop,
  started,     \* initializeTray has been called
  canHide,     \* tray availability is "supported"
  settings     \* UiSettings: always on top, hide when minimized

VARIABLES
  calls,       \* to the plugins: what to do, with what, and how Dart goes on
  messages     \* to Dart: replies and events

VARIABLES
  frame,      \* the native frame: minimized, hidden, topmost
  icon,        \* whether the notification area has the icon
  menu,        \* its menu: whether "restore" is there, whether "on top" is checked
  inputs       \* inputs so far

controller == <<disposed, listener, registered, hideWhenMinimized, windowVisible,
                alwaysOnTop, started, canHide, settings>>
native == <<frame, icon, menu>>
trayVars == <<controller, calls, messages, native, inputs>>

TrayInit ==
  /\ disposed = FALSE /\ listener = FALSE /\ registered = FALSE
  /\ hideWhenMinimized = FALSE /\ windowVisible = TRUE /\ alwaysOnTop = FALSE
  /\ started = FALSE /\ canHide = FALSE
  /\ settings \in [top : {FALSE}, hide : BOOLEAN]
  /\ calls = <<>> /\ messages = <<>>
  /\ frame = [minimized |-> FALSE, hidden |-> FALSE, topmost |-> FALSE]
  /\ icon = FALSE /\ menu = [restore |-> FALSE, checked |-> FALSE]
  /\ inputs = 0

(***************************************************************************)
(* The plugins and the user (external)                                     *)
(***************************************************************************)
Call(op, arg, then) == [op |-> op, arg |-> arg, then |-> then]
Event(name) == [then |-> name, ok |-> TRUE, arg |-> FALSE]
Announced(name) == messages' = Append(messages, Event(name))

\* The first call is carried out and answered.  The notification area may refuse
\* the icon and the menu.
Perform ==
  /\ calls # <<>>
  /\ calls' = Tail(calls)
  /\ LET c == Head(calls)
         answered(ok, value) == Append(messages, [then |-> c.then, ok |-> ok, arg |-> value])
     IN \/ /\ c.op \in {"setIcon", "setContextMenu", "hide"}
           /\ messages' = answered(FALSE, c.arg)
           /\ UNCHANGED native
        \/ /\ c.op = "setIcon"
           /\ icon' = TRUE /\ messages' = answered(TRUE, c.arg)
           /\ UNCHANGED <<frame, menu>>
        \/ /\ c.op = "setContextMenu"
           /\ menu' = c.arg /\ messages' = answered(TRUE, c.arg)
           /\ UNCHANGED <<frame, icon>>
        \/ /\ c.op = "destroy"
           /\ icon' = FALSE /\ messages' = answered(TRUE, c.arg)
           /\ UNCHANGED <<frame, menu>>
        \/ /\ c.op = "isMinimized"
           /\ messages' = answered(TRUE, frame.minimized)
           /\ UNCHANGED native
        \/ /\ c.op \in {"hide", "show", "setAlwaysOnTop"}
           /\ frame' = CASE c.op = "hide" -> [frame EXCEPT !.hidden = TRUE]
                          [] c.op = "show" -> [frame EXCEPT !.hidden = FALSE]
                          [] c.op = "setAlwaysOnTop" -> [frame EXCEPT !.topmost = c.arg]
           /\ messages' = answered(TRUE, c.arg)
           /\ UNCHANGED <<icon, menu>>
        \/ /\ c.op = "restore"
           /\ frame' = [frame EXCEPT !.minimized = FALSE]
           /\ messages' = (IF frame.minimized THEN Append(messages, Event("restored"))
                           ELSE messages) \o <<[then |-> c.then, ok |-> TRUE, arg |-> FALSE]>>
           /\ UNCHANGED <<icon, menu>>
  /\ UNCHANGED <<controller, inputs>>

Input == inputs < MaxInputs /\ inputs' = inputs + 1

\* The user uses the task bar, the menu of the icon, or the icon itself.
Minimize ==
  /\ ~frame.minimized /\ ~frame.hidden
  /\ Input
  /\ frame' = [frame EXCEPT !.minimized = TRUE]
  /\ Announced("minimized")
  /\ UNCHANGED <<controller, calls, icon, menu>>

RestoreFromTaskBar ==
  /\ frame.minimized /\ ~frame.hidden
  /\ Input
  /\ frame' = [frame EXCEPT !.minimized = FALSE]
  /\ Announced("restored")
  /\ UNCHANGED <<controller, calls, icon, menu>>

UseIcon(item) ==
  /\ icon /\ (item = "restoreItem" => menu.restore)
  /\ Input
  /\ Announced(item)
  /\ UNCHANGED <<controller, calls, native>>

(***************************************************************************)
(* DesktopAppWindowController, and the application that calls it           *)
(***************************************************************************)
\* _setTrayMenu
TrayMenu(visible, top, then) ==
  IF registered /\ ~disposed
  THEN <<Call("setContextMenu", [restore |-> ~visible, checked |-> top], then)>> ELSE <<>>

Sent(s) == calls' = calls \o s

\* _destroyTray
DestroyTray(then) ==
  /\ listener' = FALSE
  /\ Sent(IF registered THEN <<Call("destroy", FALSE, then)>> ELSE <<>>)

\* The application gives up hiding.
NeverHide == settings' = IF disposed THEN settings ELSE [settings EXCEPT !.hide = FALSE]

InitializeTray ==
  /\ ~started /\ started' = TRUE
  /\ IF disposed THEN UNCHANGED <<listener, alwaysOnTop, calls>>
     ELSE /\ alwaysOnTop' = settings.top
          /\ listener' = TRUE
          /\ Sent(<<Call("setIcon", FALSE, "iconSet")>>)
  /\ UNCHANGED <<disposed, registered, hideWhenMinimized, windowVisible, canHide, settings,
                 messages, native, inputs>>

\* updateTray, after a sample
UpdateTray ==
  /\ canHide /\ registered /\ ~disposed
  /\ Input
  /\ Sent(<<Call("setIcon", FALSE, "updated")>>)
  /\ UNCHANGED <<controller, messages, native>>

\* The user changes an option.
SetAlwaysOnTop(enabled) ==
  /\ ~disposed
  /\ Input
  /\ Sent(<<Call("setAlwaysOnTop", enabled, "topSet")>>)
  /\ UNCHANGED <<controller, messages, native>>

SetHideWhenMinimized(enabled) ==
  /\ enabled => canHide /\ registered
  /\ Input
  /\ hideWhenMinimized' = enabled
  /\ settings' = [settings EXCEPT !.hide = enabled]
  /\ UNCHANGED <<disposed, listener, registered, windowVisible, alwaysOnTop, started, canHide,
                 calls, messages, native>>

Dispose ==
  /\ ~disposed /\ disposed' = TRUE
  /\ DestroyTray("destroyed")
  /\ UNCHANGED <<registered, hideWhenMinimized, windowVisible, alwaysOnTop, started, canHide,
                 settings, messages, native, inputs>>

\* A message that continues or begins something.
Receives(name) ==
  /\ messages # <<>> /\ Head(messages).then = name
  /\ messages' = Tail(messages)
  /\ UNCHANGED <<native, inputs>>
Ok == Head(messages).ok
Answer == Head(messages).arg

NewMenu == Call("setContextMenu", [restore |-> ~windowVisible, checked |-> alwaysOnTop], "menuSet")

\* Mutant: dispose is expected to have removed the icon.
IconSetReturns ==
  /\ Receives("iconSet")
  /\ registered' = Ok
  /\ IF Ok /\ ~disposed THEN Sent(<<NewMenu>>) /\ UNCHANGED <<listener, settings>>
     ELSE listener' = FALSE /\ NeverHide /\ UNCHANGED calls
  /\ UNCHANGED <<disposed, hideWhenMinimized, windowVisible, alwaysOnTop, started, canHide>>

\* initializeTray goes on: there is an icon, and it must go if dispose came first.
IconSet ==
  /\ Receives("iconSet")
  /\ registered' = Ok
  /\ CASE ~Ok -> listener' = FALSE /\ NeverHide /\ UNCHANGED calls
       [] Ok /\ disposed ->
            /\ listener' = FALSE /\ Sent(<<Call("destroy", FALSE, "destroyed")>>)
            /\ UNCHANGED settings
       [] Ok /\ ~disposed -> Sent(<<NewMenu>>) /\ UNCHANGED <<listener, settings>>
  /\ UNCHANGED <<disposed, hideWhenMinimized, windowVisible, alwaysOnTop, started, canHide>>

\* ... and there is a menu: hiding is possible.
MenuSet ==
  /\ Receives("menuSet")
  /\ IF Ok /\ ~disposed
     THEN /\ canHide' = TRUE /\ hideWhenMinimized' = settings.hide
          /\ UNCHANGED <<listener, calls>>
     ELSE DestroyTray("initFailed") /\ UNCHANGED <<canHide, hideWhenMinimized>>
  /\ UNCHANGED <<disposed, registered, windowVisible, alwaysOnTop, started, settings>>

Destroyed ==
  /\ \/ Receives("destroyed") /\ UNCHANGED settings
     \/ Receives("initFailed") /\ NeverHide
  /\ registered' = FALSE
  /\ UNCHANGED <<disposed, listener, hideWhenMinimized, windowVisible, alwaysOnTop, started,
                 canHide, calls>>

\* An icon that cannot be updated is no longer relied on.
Updated ==
  /\ Receives("updated")
  /\ IF Ok \/ disposed THEN UNCHANGED <<hideWhenMinimized, settings, canHide>>
     ELSE /\ hideWhenMinimized' = FALSE /\ canHide' = FALSE
          /\ settings' = [settings EXCEPT !.hide = FALSE]
  /\ UNCHANGED <<disposed, listener, registered, windowVisible, alwaysOnTop, started, calls>>

\* setAlwaysOnTop goes on; the setting is saved when the menu has been refreshed.
TopSet ==
  /\ Receives("topSet")
  /\ alwaysOnTop' = Answer
  /\ LET refresh == TrayMenu(windowVisible, Answer, "topRefreshed")
     IN /\ Sent(refresh)
        /\ settings' = IF refresh = <<>> THEN [settings EXCEPT !.top = Answer] ELSE settings
  /\ UNCHANGED <<disposed, listener, registered, hideWhenMinimized, windowVisible, started, canHide>>

TopRefreshed ==
  /\ Receives("topRefreshed")
  /\ settings' = [settings EXCEPT !.top = Answer.checked]
  /\ UNCHANGED <<disposed, listener, registered, hideWhenMinimized, windowVisible, alwaysOnTop,
                 started, canHide, calls>>

\* onWindowMinimize and _hideMinimizedWindow
OnWindowMinimize ==
  /\ Receives("minimized")
  /\ IF hideWhenMinimized /\ ~disposed /\ registered
     THEN windowVisible' = FALSE /\ Sent(TrayMenu(FALSE, alwaysOnTop, "hide"))
     ELSE UNCHANGED <<windowVisible, calls>>
  /\ UNCHANGED <<disposed, listener, registered, hideWhenMinimized, alwaysOnTop, started, canHide, settings>>

\* ... goes on, only with a menu that offers to restore the window.
Hide ==
  /\ Receives("hide")
  /\ IF Ok
     THEN Sent(<<Call("hide", FALSE, "hidden")>>) /\ UNCHANGED <<windowVisible, hideWhenMinimized>>
     ELSE /\ windowVisible' = TRUE /\ hideWhenMinimized' = FALSE
          /\ Sent(TrayMenu(TRUE, alwaysOnTop, "ignored"))
  /\ UNCHANGED <<disposed, listener, registered, alwaysOnTop, started, canHide, settings>>

Hidden ==
  /\ Receives("hidden")
  /\ IF Ok THEN UNCHANGED <<windowVisible, hideWhenMinimized, calls>>
     ELSE /\ windowVisible' = TRUE /\ hideWhenMinimized' = FALSE
          /\ Sent(TrayMenu(TRUE, alwaysOnTop, "ignored"))
  /\ UNCHANGED <<disposed, listener, registered, alwaysOnTop, started, canHide, settings>>

\* onWindowRestore; dispose removes the listener.
OnWindowRestore ==
  /\ Receives("restored")
  /\ IF disposed THEN UNCHANGED <<windowVisible, calls>>
     ELSE windowVisible' = TRUE /\ Sent(TrayMenu(TRUE, alwaysOnTop, "ignored"))
  /\ UNCHANGED <<disposed, listener, registered, hideWhenMinimized, alwaysOnTop, started, canHide, settings>>

\* The double click and the menu item: _restoreFromTray, call by call.
RestoreFromTray ==
  /\ \E name \in {"doubleClick", "restoreItem"} : Receives(name)
  /\ Sent(IF listener /\ ~disposed THEN <<Call("show", FALSE, "shown")>> ELSE <<>>)
  /\ UNCHANGED controller

Shown ==
  /\ Receives("shown")
  /\ Sent(<<Call("isMinimized", FALSE, "knowsMinimized")>>)
  /\ UNCHANGED controller

KnowsMinimized ==
  /\ Receives("knowsMinimized")
  /\ IF Answer
     THEN Sent(<<Call("restore", FALSE, "visible")>>) /\ UNCHANGED windowVisible
     ELSE windowVisible' = TRUE /\ Sent(TrayMenu(TRUE, alwaysOnTop, "ignored"))
  /\ UNCHANGED <<disposed, listener, registered, hideWhenMinimized, alwaysOnTop, started, canHide, settings>>

Visible ==
  /\ Receives("visible")
  /\ windowVisible' = TRUE
  /\ Sent(TrayMenu(TRUE, alwaysOnTop, "ignored"))
  /\ UNCHANGED <<disposed, listener, registered, hideWhenMinimized, alwaysOnTop, started, canHide, settings>>

ToggleAlwaysOnTop ==
  /\ Receives("topItem")
  /\ Sent(IF listener /\ ~disposed THEN <<Call("setAlwaysOnTop", ~alwaysOnTop, "topSet")>> ELSE <<>>)
  /\ UNCHANGED controller

\* _refreshTrayMenu: nothing depends on the answer.
Refreshed == Receives("ignored") /\ UNCHANGED <<controller, calls>>

TrayNext ==
  \/ Perform
  \/ Minimize \/ RestoreFromTaskBar
  \/ \E item \in {"restoreItem", "topItem", "doubleClick"} : UseIcon(item)
  \/ InitializeTray \/ UpdateTray \/ Dispose
  \/ \E enabled \in BOOLEAN : SetAlwaysOnTop(enabled) \/ SetHideWhenMinimized(enabled)
  \/ IconSet \/ MenuSet \/ Destroyed \/ Updated \/ TopSet \/ TopRefreshed
  \/ OnWindowMinimize \/ Hide \/ Hidden \/ OnWindowRestore
  \/ RestoreFromTray \/ Shown \/ KnowsMinimized \/ Visible \/ ToggleAlwaysOnTop \/ Refreshed

TraySpec == TrayInit /\ [][TrayNext]_trayVars

-----------------------------------------------------------------------------
(* Properties *)

\* Nothing is under way.
AtRest == calls = <<>> /\ messages = <<>>

\* While the program runs, a hidden window has an icon that brings it back; when
\* dispose has come, in the middle of whatever else, no icon stays behind; and
\* the window is on top exactly if the controller and the settings say so.  (An
\* icon that is given up between two toggles can leave the older one in the
\* settings: its save waits for the menu, the later one does not.)
TrayConsistent ==
  /\ frame.hidden /\ ~disposed => icon
  /\ AtRest =>
       /\ disposed => ~icon /\ ~listener
       /\ started /\ ~disposed => frame.topmost = alwaysOnTop
       /\ registered => frame.topmost = settings.top

\* "Publish the recovery command before removing the taskbar entry" (line 402):
\* a hidden window can be restored from the menu.
RecoveryPublished ==
  frame.hidden /\ ~disposed /\ AtRest => menu.restore

=============================================================================
