---------------------------- MODULE ActionRouting ----------------------------
(* Which actions a platform offers, on its pages and on the rows it lists, and  *)
(* which requests its provider and the helper carry out.  The interface enables *)
(* a command when the page or the row offers its ActionKind; a request for      *)
(* which there is no handler is answered as unsupported.                        *)

PageIds == {"Applications", "Processes", "Performance", "Cpu", "Gpu", "Network", "Users"}

WindowKinds  == {"SwitchTo", "BringToFront", "Minimize", "Maximize", "EndTask"}
ArrangeKinds == {"TileHorizontally", "TileVertically", "Cascade"}
ProcessKinds == {"EndProcess", "EndProcessTree", "SetPriority", "SetNice", "SetAffinity",
                 "OpenFileLocation"}
SessionKinds == {"DisconnectSession", "LogoffSession", "SendMessage"}

ActionKinds == {"Refresh", "RunTask"} \cup WindowKinds \cup ArrangeKinds
                 \cup ProcessKinds \cup SessionKinds

ActionRequests ==
  {"ShowAboutDialog", "ShowRunDialog", "ConfigureDiagnostics", "OpenDiagnosticFolder",
   "SaveDiagnosticBundle", "RestartWithDetailedDiagnostics", "RecordUiError", "RunTask",
   "EndProcess", "SetPriority", "SetNice", "SetAffinity", "OpenFileLocation", "Window",
   "ArrangeWindows", "UserSession"}

(***************************************************************************)
(* Platforms, and what a row is about                                      *)
(***************************************************************************)
\* The window backend and whether the compositor has a seat concern Linux only.
Platforms ==
  [platform : {"windows", "linux"},
   backend : {"ext", "wlr", "kde", "gnome", "x11", "unavailable"}, seat : BOOLEAN]

\* What a KDE window lets be done with it, and whether the time a session began
\* is known.
Targets ==
  [flags : SUBSET {"minimizable", "maximizable", "closeable"}, login_known : BOOLEAN]

OnWindows(p) == p.platform = "windows"

(***************************************************************************)
(* What is offered                                                         *)
(***************************************************************************)
WlrActions(p) ==
  {"Minimize", "Maximize", "EndTask"} \cup (IF p.seat THEN {"SwitchTo", "BringToFront"} ELSE {})

\* ApplicationsProvider::capability
ApplicationActions(p) ==
  CASE p.backend \in {"kde", "x11"} -> WindowKinds
    [] p.backend = "wlr" -> WlrActions(p)
    [] p.backend \in {"ext", "gnome", "unavailable"} -> {}

WindowsPageActions(page) ==
  CASE page = "Applications" -> {"RunTask"} \cup WindowKinds \cup ArrangeKinds
    [] page = "Processes" -> ProcessKinds \ {"SetNice"}
    [] page \in {"Performance", "Cpu", "Gpu", "Network"} -> {"Refresh"}
    [] page = "Users" -> SessionKinds

LinuxPageActions(p, page) ==
  CASE page = "Applications" -> ApplicationActions(p) \cup {"RunTask"}
    [] page = "Processes" -> {"EndProcess", "EndProcessTree", "OpenFileLocation"}
    [] page \in {"Performance", "Cpu", "Gpu", "Network"} -> {"Refresh"}
    [] page = "Users" -> {}

\* PlatformProvider::capabilities
PageActions(p, page) ==
  IF OnWindows(p) THEN WindowsPageActions(page) ELSE LinuxPageActions(p, page)

ActionsForFlags(flags) ==
  {"SwitchTo", "BringToFront"}
    \cup (IF "minimizable" \in flags THEN {"Minimize"} ELSE {})
    \cup (IF "maximizable" \in flags THEN {"Maximize"} ELSE {})
    \cup (IF "closeable" \in flags THEN {"EndTask"} ELSE {})

\* ApplicationRow.allowed_actions
WindowActions(p, target) ==
  IF OnWindows(p) THEN WindowKinds
  ELSE IF p.backend = "kde" THEN ActionsForFlags(target.flags)
  ELSE ApplicationActions(p)

\* UserSession.allowed_actions
SessionActions(p, target) ==
  IF OnWindows(p) /\ target.login_known THEN SessionKinds ELSE {}

(***************************************************************************)
(* What is carried out                                                     *)
(***************************************************************************)
\* The request the interface makes for a command.
RequestFor(kind) ==
  CASE kind \in WindowKinds  -> "Window"
    [] kind \in ArrangeKinds -> "ArrangeWindows"
    [] kind \in SessionKinds -> "UserSession"
    [] kind \in {"EndProcess", "EndProcessTree"} -> "EndProcess"
    [] kind \in {"RunTask", "SetPriority", "SetNice", "SetAffinity", "OpenFileLocation"} -> kind

\* ApplicationsProvider::execute, for a window that is there: what it does with
\* the operation that belongs to the kind.
WindowRequestHandled(p, kind, target) ==
  \/ p.backend = "x11"
  \/ p.backend = "wlr" /\ (kind \in {"SwitchTo", "BringToFront"} => p.seat)
  \/ p.backend = "kde" /\ kind \in ActionsForFlags(target.flags)

LaunchRequests == {"OpenDiagnosticFolder", "RestartWithDetailedDiagnostics", "RunTask"}

HandledOnLinux(p, request, kind, target) ==
  \/ request \in LaunchRequests
  \/ request = "Window" /\ WindowRequestHandled(p, kind, target)
  \/ request \in {"EndProcess", "OpenFileLocation"}

\* A session whose beginning is not known receives no actions.
HandledOnWindows(request, target) ==
  \/ request \in LaunchRequests \cup {"ShowAboutDialog", "ShowRunDialog", "SaveDiagnosticBundle"}
  \/ request \in {"Window", "ArrangeWindows"}
  \/ request \in {"EndProcess", "SetPriority", "SetAffinity", "OpenFileLocation"}
  \/ request = "UserSession" /\ target.login_known

\* PlatformProvider::execute_action
HandledByProvider(p, request, kind, target) ==
  IF OnWindows(p) THEN HandledOnWindows(request, target)
  ELSE HandledOnLinux(p, request, kind, target)

\* The requests the worker carries out itself, which the providers refuse.
HandledByRuntime == {"ConfigureDiagnostics", "RecordUiError"}

\* A command the user gives, as far as it depends on what is offered.
CarriedOut(p, kind, target) == HandledByProvider(p, RequestFor(kind), kind, target)

\* is_whitelisted of the helper, which hands the request to a provider of its own.
Whitelisted(p) ==
  {"EndProcess", "SetPriority", "UserSession"} \cup (IF OnWindows(p) THEN {"SetAffinity"} ELSE {})

HelperCarriesOut(p, kind, target) ==
  RequestFor(kind) \in Whitelisted(p) /\ CarriedOut(p, kind, target)

(***************************************************************************)
(* What the offers promise                                                 *)
(***************************************************************************)
\* The pages offer what their commands do, no less and no more: a command that is
\* enabled is never refused as unsupported, and one that would work is enabled.
PagesOfferWhatWorks(p, target) ==
  /\ \A kind \in ProcessKinds : kind \in PageActions(p, "Processes") <=> CarriedOut(p, kind, target)
  /\ \A kind \in ArrangeKinds \cup {"RunTask"} :
       kind \in PageActions(p, "Applications") <=> CarriedOut(p, kind, target)

\* So do the rows, and never more than their page.
RowsOfferWhatWorks(p, target) ==
  /\ \A kind \in WindowKinds : kind \in WindowActions(p, target) <=> CarriedOut(p, kind, target)
  /\ \A kind \in SessionKinds : kind \in SessionActions(p, target) <=> CarriedOut(p, kind, target)
  /\ WindowActions(p, target) \subseteq PageActions(p, "Applications")
  /\ SessionActions(p, target) \subseteq PageActions(p, "Users")

\* With elevated rights nothing is done but what a page offers without them.
HelperStaysWithinOffers(p, target) ==
  \A kind \in ActionKinds \ {"Refresh"} :
    HelperCarriesOut(p, kind, target) =>
      kind \in PageActions(p, "Processes") \cup SessionActions(p, target)

=============================================================================
