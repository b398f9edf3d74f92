------------------------------ MODULE MCWindows ------------------------------
(* The program on Windows for TLC: its provider, its start, its window, and    *)
(* the files it keeps as on every platform.  The components share no state, and *)
(* those of the provider are called one at a time by the sampling worker, so   *)
(* each behaviour is one of a single component while the others stay as they    *)
(* begin: the sum of the state graphs instead of their product.  Counters of   *)
(* different sources, and targets of different kinds, are components of their  *)
(* own.                                                                        *)
EXTENDS WindowsTermination, WindowsProcesses, WindowsRecords, WindowsCounters,
        WindowsTargets, WindowsAccounts, SingleInstance, TrayWindow,
        SettingsStore, DiagnosticStore, BundleArchive, UiSettings, WindowIcons

Routing == INSTANCE ActionRouting

VARIABLE component

Readout(i, k, u, d, n) == [idle |-> i, kernel |-> k, user |-> u, dpc |-> d, interrupt |-> n]

MCReadouts ==
  {Readout(0, 0, 0, 0, 0), Readout(1, 2, 1, 1, 0), Readout(2, 1, 0, 0, 0), Readout(0, 2, 1, 0, 1)}

\* Two physical adapters of one LUID.
MCAdapters == {<<1, 0>>, <<1, 1>>}

\* Two services of one process with different accounts, and one of another.
MCServices == {<<1, 1>>, <<1, 2>>, <<2, 1>>}

WindowsInit ==
  /\ Init /\ WindowsProcessInit /\ RecordInit /\ CounterInit /\ TargetInit /\ AccountInit
  /\ StartInit /\ TrayInit /\ SettingsInit /\ StoreInit /\ ArchiveInit
  /\ component \in {"termination", "processes", "records", "processors", "adapters", "lan",
                    "windows", "sessions", "accounts", "start", "tray",
                    "settings", "store", "archive"}
  /\ component # "tray" => ~settings.hide
  /\ component # "records" => needed = 1
  /\ component # "processors" => pdhReady = Nothing

Only(which) ==
  /\ component \in which
  /\ UNCHANGED component
  /\ "termination" \notin which => UNCHANGED vars
  /\ "processes" \notin which => UNCHANGED windowsProcessVars
  /\ "records" \notin which => UNCHANGED recordVars
  /\ "processors" \notin which => UNCHANGED counterVars
  /\ "windows" \notin which => UNCHANGED targetVars
  /\ "accounts" \notin which => UNCHANGED accountVars
  /\ "start" \notin which => UNCHANGED startVars
  /\ "tray" \notin which => UNCHANGED trayVars
  /\ "settings" \notin which => UNCHANGED settingsVars
  /\ "store" \notin which => UNCHANGED storeVars
  /\ "archive" \notin which => UNCHANGED archiveVars

\* The pages whose counters do not take part stay as they are.
OneSource ==
  /\ component # "processors" => UNCHANGED processorPages
  /\ component # "adapters" => UNCHANGED gpuPage
  /\ component # "lan" => UNCHANGED networkPage

Kind == IF component = "windows" THEN {"window"} ELSE {"session", "process"}

OneKind ==
  /\ component = "windows" => UNCHANGED logon /\ page' # "users"
  /\ component = "sessions" => UNCHANGED window /\ page' # "applications"
  /\ request' # Nobody => \A t \in request'.targets : t.kind \in Kind

WindowsNext ==
  \/ Only({"termination"}) /\ Next
  \/ Only({"processes"}) /\ WindowsProcessNext
  \/ Only({"records"}) /\ RecordNext
  \/ Only({"processors", "adapters", "lan"}) /\ CounterNext /\ OneSource
  \/ Only({"windows", "sessions"}) /\ TargetNext /\ OneKind
  \/ Only({"accounts"}) /\ AccountNext
  \/ Only({"start"}) /\ StartNext
  \/ Only({"tray"}) /\ TrayNext
  \/ Only({"settings"}) /\ SettingsNext
  \/ Only({"store"}) /\ StoreNext
  \/ Only({"archive"}) /\ ArchiveNext

WindowsSpec ==
  WindowsInit /\ [][WindowsNext]_<<component, vars, windowsProcessVars, recordVars, counterVars,
                                   targetVars, accountVars, startVars, trayVars, settingsVars,
                                   storeVars, archiveVars>>

-----------------------------------------------------------------------------
(* The pure parts, which have no behaviour of their own: what is proved of them *)
(* for every input, evaluated for a few.                                       *)
MCLayouts == {Layout(c, w) : c \in {"ImageName", "Pid"}, w \in {24, 1001, NoNumber}}
MCFiles == UNION {[1..n -> MCLayouts] : n \in 0..2} \cup {PreV4Columns}
MCSettings ==
  [schema_version : {2, 3, 4}, one_graph_per_cpu : BOOLEAN, x : {Unset, NoNumber}, y : {Unset, 7},
   width : {NoNumber, 600}, height : {400, 430}, process_columns : MCFiles]

\* Settings are usable, keep what the user chose, and are not changed again.
ASSUME SettingsExamples ==
  \A s \in MCSettings :
    /\ Usable(Normalize(s))
    /\ KeepsChoices(MigratedColumns(s), Normalize(s).process_columns)
    /\ Normalize(Normalize(s)) = Normalize(s)

\* Offers, handlers and the helper agree on every platform.
ASSUME RoutingExamples ==
  \A p \in Routing!Platforms, target \in Routing!Targets :
    /\ Routing!PagesOfferWhatWorks(p, target)
    /\ Routing!RowsOfferWhatWorks(p, target)
    /\ Routing!HelperStaysWithinOffers(p, target)

\* Both icons are found wherever one is offered, and a pixel of any opacity is
\* recovered so that it is drawn as it was.
ASSUME IconExamples ==
  /\ \A offer \in Offers({1, 2}) :
       LET got == Queried(offer, FALSE)
       IN /\ SmallSource(got) = NoIcon <=> \A name \in DOMAIN offer : offer[name] = NoIcon
          /\ LargeSource(got) = NoIcon <=> SmallSource(got) = NoIcon
  /\ \A alpha \in Byte :
       LET pixel == [blue |-> alpha \div 3, green |-> alpha \div 2, red |-> alpha, alpha |-> alpha]
           recovered == RecoveredPixel(Over(pixel, 0), Over(pixel, 255))
       IN /\ recovered.alpha = alpha
          /\ alpha # 0 => /\ Blended(recovered.blue, alpha) = pixel.blue
                          /\ Blended(recovered.green, alpha) = pixel.green

=============================================================================
