# A formal model of taskmgr-rs-desktop

taskmgr-rs-desktop is a task manager: a Flutter user interface over a Rust
backend, for Windows and Linux, with the pages Applications, Processes,
Performance, CPU, GPU, Network and Users.  This directory holds TLA+ modules
for the parts of it in which several threads, processes or messages meet, the
TLC configurations that check them on small instances, and theorems about them
that TLAPS proves for every instance.  Paths below are relative to `src/`.

1. [The system](#1-the-system)
2. [Plan](#2-plan)
3. [Modules and code](#3-modules-and-code)
4. [Runs: what is checked, and the bounds](#4-runs-what-is-checked-and-the-bounds)
5. [Fairness](#5-fairness)
6. [Theorems](#6-theorems)
7. [Findings](#7-findings)
8. [Assumptions and limits](#8-assumptions-and-limits)
9. [How to run](#9-how-to-run)

## 1. The system

```
 OS  <-- PlatformProvider -- sampling worker --event channel--> forwarding thread
 (proc, Win32,               (BackendRuntime)     (16)          (watch_backend)
  X11, Wayland, PDH...)        ^        ^                            |
                        wake(1)|        |operation(1)                | Dart port
                               |        |                            v
                         native call pool (flutter_rust_bridge) <- BackendController
                                        |                            |
                     settings file <----+                      ValueNotifier -> pages
                     diagnostic log <- any thread              window, tray, runner
```

One worker thread owns the platform provider.  Callers reach it through a
record behind a mutex and two channels of capacity one; it answers through a
bounded event channel that drops the oldest event when nobody reads.  The Dart
controller reduces the events to one value the pages show, and calls back with
options, refreshes, operations and settings.

### Components

| Component | State it keeps | Operations | What is hard | What makes it correct |
|---|---|---|---|---|
| **Backend runtime** `crates/taskmgr-core/src/runtime.rs` | `PendingRefresh` (pages, options, shutdown), wake token, one queued operation, `scheduled` and `prewarm` queues, its own options, thread handle | `request_refresh`, `update_options`, `execute`, `shutdown`; the worker loop | record and token are written without a common lock; coalescing; shutdown and panic while callers wait; page switch during prewarm | no wake-up and no newest options lost; one true reply per request; the visible page first; every call returns, except one that the ending worker leaves in its channel; periodic sampling goes on |
| **Snapshot publication** same file | generation, trusted data and logged error of each page; event channel | `sample_pages`, `publish_error`, `publish_latest`, `subscribe` | the channel is found full and emptied in two calls with a reader between them; failed samples | the newest event survives; a page never goes back; stale snapshots carry the newest trusted data |
| **Bridge session and Dart controller** `crates/taskmgr-bridge/src/api.rs`, `flutter_app/lib/app/backend_controller.dart` | value shown, coalesced state and timer, chains of native calls, port, closing | `watch_backend`, `_acceptEvent`, `_flushPendingEvents`, `selectPage`, `setUpdateSpeed`, preferences, `_saveSettings`, `close` | code between awaits; calls that overtake each other in the native pool; tear-down while events are in flight | choices are never reverted by late events; nothing is stranded; last options and settings win; close returns and is quiet |
| **Diagnostic log** `crates/taskmgr-core/src/diagnostics/mod.rs` | two bounded queues, control queue, drop counters, level and privacy flags, the log file | emit, `configure`, `flush`, `export_bundle`, `shutdown`; the writer thread | full queues, counters swapped while they are incremented, calls that time out, a failing file, late emitters | every record is written or counted and reported; errors are durable; bundles are complete and do not understate their privacy; shutdown returns |
| **Process termination** `crates/taskmgr-linux/src/procfs.rs`, `crates/taskmgr-windows/src/processes.rs` | identities, pidfds or handles of the targets | end a process, end a tree | PIDs are used again between any two system calls; the tree changes while it is read | nothing outside the chosen tree is killed, and no process that took over a PID; a tree reported as ended has ended |
| **Diagnostic store** `diagnostics/mod.rs`, `archive.rs` | sessions and parts on disk; the archive being written | rotation, retention, export into a ZIP | several instances without a lock; parts that grow or vanish while they are copied; 32-bit sizes | old sessions go, foreign files stay; a bundle can be read or does not exist |
| **Settings store** `settings.rs` | settings file, temporary files, files put aside | load, save, put aside | crash between write, sync and rename; overlapping saves; two instances | old or new settings after any crash, never a mixture, and none lost |
| **Window and tray** `app_window_controller.dart` | window shown, tray icon and menu, always on top | hide, restore, tray initialisation, toggles, dispose | each awaits several platform calls that overlap | a hidden window can be restored; no icon stays behind; settings, controller and window agree |
| **Single instance** `windows/runner/single_instance.cpp`, `main.cpp` | start-up mutex, window of the first instance | acquire, find, activate | timeouts, a first instance that is closing, PIDs and handles used again | one window for an identity; only a peer of one's own identity is believed |
| **Linux samplers** `procfs.rs`, `network.rs`, `gpu.rs`, `nvml.rs`, `vulkan.rs` | baselines of cumulative counters, graphs | `sample` of Processes, Performance, CPU, GPU, Network | counters that cannot be read, roll back, appear and vanish; PIDs, cards and interfaces replaced | no rate or graph from two different sources; figures add up |
| **Linux application lists** `wayland.rs`, `wayland_kde.rs`, `x11.rs`, `desktop_icons.rs` | window handles, budget, icon cache | list, activate, close | handles closed during round trips; properties of any size; caches at their limits | each handle released once; a row says when something is missing; the cache keeps to its limits |
| **GNOME extension** `packaging/linux/gnome-shell-extension`, `gnome.rs`, `applications.rs` | provider, calls being authorized | answer a version or the windows; choose a backend | the caller ends, or the extension is disabled, while a call is authorized | one reply for each call, to the trusted program only |
| **Windows process sampling** `processes.rs` | baselines by identity, names of accounts, accounts of services | `sample` | snapshot, list and handles are taken one after another; records with lengths of their own | a row is about one process; nothing is read beyond the buffer |
| **Windows counters** `cpu.rs`, `gpu.rs`, `pdh.rs`, `network.rs`, `system.rs` | times, PDH queries, graphs | `sample` | counters that go back, processors and adapters that come and go | each rate spans two good readings |
| **Windows applications and users** `applications.rs`, `users.rs` | | list; act on a window, a session, a process | numbers given out again between check and action | an action reaches what was chosen, or nothing older than the choice |
| **Offers, settings, icons** `lib.rs` of both platforms, `crates/taskmgr-helper/src/main.rs`, `model.rs`, `applications.rs` | none between calls | `capabilities`, `execute_action`, `is_whitelisted`; `normalize`; recover an icon | tables in several files that must agree; files of any age and content; rounding | what is offered works and the helper adds nothing; settings are usable and stay as chosen; icons look as they were |
| Launch, users on Linux, tray detection | none between calls | one request, one reply | little | unit tests cover them |
| Flutter pages, generated bridge code, packaging | selection, widgets | | little of its own | |

`PROJECT.json` lists every component with its files, what is modelled of it and
why the rest is not, and the hazards of the code with the property that
watches each.

### Interactions

* The controller calls `update_options`, `request_refresh`, `execute` and
  `shutdown_backend` through the native pool; the runtime turns them into
  `PendingRefresh` and tokens (`BackendSession` over `Runtime`).
* The worker publishes into the event channel; the forwarding thread reads it
  and posts to the Dart port (`BackendSession` over `LossyFeed`, which
  `SnapshotFeed` implements).
* `configure` and `export_bundle` of the log run as operations of the worker,
  `shutdown` of the log after the worker has been joined: the log sees one
  sequential backend thread next to any number of emitters.
* Process termination runs as an operation of the worker, against the
  processes of the system (`ProcessTable`, external).
* The provider of a platform is called by the worker alone, one call at a time:
  its samplers and actions share no state with each other, and what they meet
  is the system that changes meanwhile.  So they are composed as a sum
  (`MCLinux`, `MCWindows`) and not as a product.
* The settings store is called from the native pool, where saves overlap; the
  log's store by the writer thread, next to the stores of other instances.
* The tray calls plugins through the queue of the platform thread and hears
  their answers and the window's events through the queue of Dart.

## 2. Plan

The order is that of importance: first what every feature depends on.

| | Modules | Composition | Abstract specification, theorems |
|---|---|---|---|
| 1 | `Runtime`, `MCRuntime`, `RuntimeProofs` | | eight theorems, all safety properties of the run |
| 2 | `LossyFeed`, `SnapshotFeed`, `SnapshotFeedProofs` | | `SnapshotFeed` implements `LossyFeed`, proved |
| 3 | `BackendSession`, `MCSession`, `SessionProofs` | uses `LossyFeed` in place of runtime and channel | safety properties proved |
| 4 | `Diagnostics`, `DiagnosticsProofs` | | safety properties proved |
| 5 | `ProcessTable`, `LinuxTermination`, `WindowsTermination`, `...Proofs` | both over `ProcessTable` | `NoAdoptedPid`, `WholeStableTree`, `OnlyDescendants`, proved |
| 6 | `SettingsStore`, `DiagnosticStore`, `BundleArchive`; proofs in `DesktopProofs` | below `BackendSession` and `Diagnostics`; in `MCWindows` | `SettingsDurable`, `RetentionSafe`, `ExportSound`, proved |
| 7 | `SampleHistory`, `NetworkSampler`, `ProcessorSampler`, `ProcessSampler`, `LinuxGpu`; proofs in `ProviderProofs` | `MCLinux` | `SharesOfOneProcess`, `GraphsStartAnew`, `NoPhantomTraffic`, `ProcessorPagesAddUp`, proved |
| 8 | `Toplevels` (`LinuxTerminationProofs`), `X11Windows`, `IconImages`, `IconCache`, `WindowProvider` (`ProviderProofs`) | `MCLinux` | `WindowsAreTracked`, `SnapshotHonest`, `CacheSound`, `AnswersAreAuthorized`, `EveryImageIsDrawn`, proved |
| 9 | `WindowsProcesses`, `WindowsCounters` (proofs in `ProviderProofs`), `WindowsRecords`, `WindowsAccounts`, `WindowsTargets` (`WindowsTerminationProofs`) | `MCWindows` | all properties proved |
| 10 | `SingleInstance`, `TrayWindow`; proofs in `DesktopProofs` | `MCWindows` | `OneInstance`, `TrayConsistent` proved |
| 11 | `WindowIcons`, `ActionRouting` (proofs in `ProviderProofs`), `UiSettings` (`DesktopProofs`) | pure; evaluated in `MCWindows` | seven theorems |

All of it is built, and every safety property and action property a passing run
checks is stated by a theorem.  What is left to the runs alone is liveness
(section 6).  Worth modelling next: the geometry of the window, whose capture awaits three
calls in a row, and the level of the tray icon.

## 3. Modules and code

A step of a module is what the code does between two points at which another
thread, process or callback can be heard: one channel call, one critical
section, one access to an atomic or a file, one piece of Dart code between two
awaits.  `PROJECT.json` maps each definition to its lines.  Definitions marked
`Mutant:` are not used by a specification: each replaces the definition below
it by what a plausible bug would do, and makes one property fail.

**`Runtime`** (`runtime.rs`).  `pending`, `wake`, `operation` are the shared
record and the two channels; `worker` is the place in `worker_loop`
(`poll_operation`, `operate`, `poll_wake`, `apply`, `sample`, `select`,
`exiting`, `exited`); `scheduled`, `prewarm` and `options` are its locals;
`client`, `reply`, `outcome` describe each calling thread.  Callers:
`RequestRefresh`, `UpdateOptions`, then `NotifyWorker`; `SubmitOperation`, then
`ReceiveReply`; `BeginShutdown`, `SignalShutdown`, `JoinWorker`; `RefuseStopped`
when the worker has gone.  Worker: `TakeOperation`/`NoOperation`,
`FinishOperation`, `TakeWake`/`NoWake`, `ApplyPendingRequests`,
`SampleScheduled`/`SamplePrewarm`, `FinishSample`, `BlockInSelect`,
`PeriodElapses`, `ProviderPanics`, `WorkerExits`.  `latest`, `unshown`,
`overtaken` and `runs` only record history.  A sample is the page it is taken
for; an operation is its caller.  `prewarm_pages` is kept as a set, because it
is filled once in the order of `PageId` and only loses entries afterwards.
`WorkerExits` leaves open what becomes of an operation that was queued after the last
poll: it goes with the receiver and releases its caller, or it stays in the channel
as long as `BackendRuntime` holds the sender.  That is up to crossbeam-channel
0.5.16, whose source is not part of the repository (section 8).

**`SnapshotFeed`** (`sample_pages`, `publish_error`, `publish_latest`,
`subscribe`).  `log` is everything published; an event is its index.
`TrySend` and `DiscardOldest` are the two channel calls of the loop in
`publish_latest`.  The data of a snapshot are the generation of the sample they
come from (`source`).

**`LossyFeed`** is what the event channel promises: a window of events that ends
with the newest one, from which the oldest may be lost to make room.

**`BackendSession`** composes `LossyFeed` with the forwarding thread (`Forwarder…`),
the Dart port, the coalescing timer (`AcceptEvent`, `FlushTimer`), the chains of
native calls that a change by the user starts (`Change`, `RunCall`,
`ResumeAfter…`, `ChainThrows`), and `close` with its awaits (`Close`,
`RaiseShutdown`, `ShutdownReturns`, `AwaitStream`, `CancelSubscription`).  All
choices of the user are one value, the number of the change they come from.
`Overlap` says whether native calls may take effect in another order than they
were made, and is `TRUE` in every run.  `overtaking` records the calls that took
effect while an older one of the same kind was still waiting.

**`Diagnostics`** has three kinds of thread.  An emitter is inside `event_with`
(`Check`, `Send`, `CountTotal`); the writer inside `writer_loop` (`Take…`,
`Tick`, `Drain…`, `Swap…`, `ReportAndFlush`, `Reply`); the backend thread inside
`configure` (`StoreLevel`, `StoreSensitive`, `StoreEver`), `export_bundle`
(`Export`, `SendFlush`, `FlushReturns`, `Sizes`, `Manifest`) or `shutdown`
(`Stop`, `StopSwap`, `SendStop`, `StopReturns`, `Join`).  Each atomic is a
variable of its own, stored and swapped in the order of the code.  The backend is at
`unasked` when it joins the writer although its `Shutdown` command was refused.

**`ProcessTable`** is external: processes are created, exit, and give up their
PIDs.  A process is named by the moment it was created, which is its start
time; `line` records who created it, for the properties only (`Ancestry` turns
it off where no property reads it).

**`LinuxTermination`** follows `terminate`, `descendant_identities` and
`open_pidfd`: check the identity, list `/proc`, read it file by file, collect the tree,
open each target with a check before and after `pidfd_open`, signal in reverse
order.  **`WindowsTermination`** follows `terminate`, `build_process_tree_plan`
and `open_verified`: one snapshot, the age check, verified handles, terminate.
The two share the table; `Reparents` says what the system does with the children of a
process that exits.

**`SettingsStore`** (`settings.rs`).  `Load` and `PutAside`, and the steps of a
save: `Begin`, `CreateTemporary`, `WriteTemporary`, `SyncTemporary`, `Replace`,
`SyncDirectory`, `SaveFails`.  The file system is external: a rename is atomic, data
and names reach the disk when they are synced, and `images` holds every
directory a power failure may leave (`PowerFails`); `InstanceDies` kills a process.

**`DiagnosticStore`** (`diagnostics/mod.rs`, from line 900).  Each instance creates a
session, opens and rotates parts, and before that runs retention: `Scan` lists,
`Examine` decides oldest first, `RemoveFiles`, `RemoveDirectory` or
`RemoveDirectoryTree` delete.  `PlaceFile` is somebody else's file.
**`BundleArchive`** (`archive.rs` and the export around it) writes the blocks of a ZIP32 file from
front to back while parts grow and vanish.

**`SampleHistory`** is the ring buffer of every graph, an operator.
**`NetworkSampler`**, **`ProcessorSampler`**, **`ProcessSampler`** and
**`LinuxGpu`** have one action for each `sample`, or one for each file where
the system changes between two of them, next to external actions for traffic,
plugged interfaces, processors that are switched, processes and cards.
`Topology`, `CacheRows` and `Shares` are the algorithms of the CPU page.  A reading
of `/proc/stat` sums up the fields of a line; stolen time is counted in the total only,
and its fall is not noticed, as in the code.

**`Toplevels`** (`wayland.rs`, `wayland_kde.rs`): two queues between client and
compositor; `Connect`, the `Dispatch…` handlers, `StartSample`/`EndSample` around a
round trip, and `Execute`.  A round trip dispatches events up to its answer
(`DispatchAnswer`), and then as many of those behind it as were read together
with it (`batch`); the rows are made after that.  `synced` and `absent` record
which windows were open, or were not, when the compositor answered.  **`X11Windows`** (`x11.rs`) is one request for each
property, charged to a budget, with the choice among the images of an icon; an
action checks the process of a row and sends a message to its window id, while
clients end and start and PIDs and window ids pass to others.  **`IconCache`**
(`desktop_icons.rs`) is the bounded cache with its clock of accesses, and what is
accepted as an icon file.  **`IconImages`** is the drawing of an image into a
square, which `x11.rs` and `desktop_icons.rs` each have a copy of.  **`WindowProvider`** (`extension.js`,
`authorization.js`, `gnome.rs`, `applications.rs`) follows each call through the
look-ups of its caller, and the choice among the backends.

**`WindowsProcesses`** (`processes.rs`) puts rows together from a snapshot, a
list and handles.  **`WindowsRecords`** is the walk over buffers the system
wrote (`cpu.rs`, `processes.rs`, `pdh.rs`, `gpu.rs`): what a word holds is picked
when it is read.  **`WindowsAccounts`** holds the caches of names.
**`WindowsCounters`** has the four pages of counters with their baselines, those that PDH
keeps included.  **`WindowsTargets`** lists windows and sessions in several calls, and
checks and acts in several more, on numbers that are given out again.

**`SingleInstance`** (`single_instance.cpp`, `main.cpp`): `Acquire`,
`FindWindow`, `OpenPeer`, `Authenticate`, `SendMessage`, `Confirm`, and then
`GiveUp` or `Create`.  `excused` records starts that the code lets go on without
the mutex, a whole search, or an answer.

**`TrayWindow`** (`app_window_controller.dart`, `task_manager_app.dart`): every
call to a plugin names the piece of code that goes on after it (`then`); `Perform`
is the plugin, external, which may refuse.  Platform and Dart each handle
one message at a time, in order.

Three modules are pure: operators without state, for code that computes and
keeps nothing.  **`WindowIcons`** (`crates/taskmgr-windows/src/applications.rs`)
chooses among the icons of a window and its class and recovers an image with
transparency from its drawings over black and over white.  **`ActionRouting`**
(`capabilities` and `execute_action` of both platforms, `is_whitelisted` of the
helper) relates what pages and rows offer to what is carried out.
**`UiSettings`** (`UiSettings::normalize` in `model.rs`) migrates and repairs the
settings of a file, after `SettingsStore` has read it.  The list of columns is a
function from positions, so that columns that are dropped leave a gap and none
has to be counted again; widths are whole numbers.

**`MCLinux`** and **`MCWindows`** are sums: a behaviour is one of a single
component, chosen by `component`, while the others stay as they begin.  The
components share no state, so the product would show nothing the sum does not.

## 4. Runs: what is checked, and the bounds

| Run | Configuration | States | Shows |
|---|---|---|---|
| `runtime` | `MCRuntime.cfg`: 3 pages, two callers, fair | 172 k | `NoLostWakeup`, `LatestOptionsWin`, `ReplyMatchesExecution`, `InterruptedAtPageBoundary`, `ActivePageFirst`; `CallsReturn`, `PagesAreSampled` |
| `feed` | `SnapshotFeed.cfg`: 2 pages, capacity 2, 6 events, fair | 607 k | `PageNeverRegresses`, `StaleIsNewestTrusted`, refinement `FeedSpec`, `FeedDrains` |
| `session` | `BackendSession.cfg`: 2 pages, capacity 1, 2 events, 2 changes, a panic, calls overlap; module `MCSession` | 2.0 M | `CoalescingIsSafe`, `ChoicesTakeEffect` |
| `session_close` | `BackendSessionClose.cfg`: 3 events, 1 change, a panic, calls overlap, fair | 55 k | `NoStrayPostAfterStop`, `SessionProgresses` |
| `session_stray` | `BackendSessionStray.cfg`: as above, 2 events | | finding 1: `NoStrayPost` fails |
| `session_overlap` | `BackendSessionOverlap.cfg`: 1 event, 2 changes, calls overlap | | finding 2: `SettingsAreSaved` fails |
| `diag` | `Diagnostics.cfg`: one emitter, queues of 2 and 1, a control channel of 1, 2 records and those of the backend, one call and shutdown, fair | 327 k | `NoSilentLoss`, `AcceptedIsDurable`, `ShutdownReturns` |
| `diag_export` | `DiagnosticsExport.cfg`: queues of 1, 1 record, 2 calls, privacy switched, the file may fail | 4.3 M | `BundleSound` |
| `linux` | `MCLinux.cfg` | 1.7 M | `NoAdoptedPid`, `WholeStableTree`, `SharesOfOneProcess`, `ProcessorPagesAddUp`, `NoPhantomTraffic`, `GraphsStartAnew`, `WindowsAreTracked`, `SnapshotHonest`, `CacheSound`, `AnswersAreAuthorized` |
| `linux_end_reuse` | `LinuxTerminationReuse.cfg` (module `MCLinux`): termination with ancestry recorded, the rest as small as it gets | | finding 3: `OnlyDescendants` fails |
| `windows` | `MCWindows.cfg` | 1.5 M | `OnlyDescendants`, `WindowsRowsOfOneProcess`, `ReadsStayInBounds`, `CountersHaveBaselines`, `StaleNamesRefused`, `AccountsSound`, `TrayConsistent`, `OneInstance`, `SettingsDurable`, `RetentionSafe`, `ExportSound` |
| `tray_hidden` | `TrayWindowHidden.cfg`: three inputs | | finding 4: `RecoveryPublished` fails |

The properties are stated, each with the behaviour of the code it is about,
above their definitions.  In the two sums the costly ones are action
properties, which TLC evaluates on the steps of their component only.
`MCWindows` also evaluates, as assumptions, what is proved of the pure modules:
settings files of up to two columns, every platform with every backend, every
opacity of a pixel.

Why these bounds are enough to be worth something:

* `Runtime`: three pages are the visible one, the status bar's one and one that
  is neither, so that activation, request and prewarm order can all differ.
  Two callers make every pair of calls overlap (a second operation meets
  `Busy`, a shutdown meets a refresh).  The theorems remove the bounds.
* `SnapshotFeed`: six events are four beyond the two notices of the start, so
  that a channel of two overflows more than once, also between `try_send` and
  `try_recv`, and a page sees good, failed and good samples.
* `BackendSession`: capacity one with two events already loses one; two changes
  are what is needed for one to overtake the other, or for an event to meet
  both.  `session_close` trades the second change for a third event.  `MCSession`
  has the symmetry of the pages, which nothing in the session tells apart.
* `Diagnostics`: queues of one and two with two emitted records and those of
  the backend (`configure`, shutdown and drop reports) overflow; two calls let
  the reply of a flush that timed out come during the next one (`diag_export`).  A control
  channel of one place is full after one flush that timed out, so that the command
  of `shutdown` is refused (`diag`).
* Termination: on Linux four processes over three PIDs are the smallest table in which a
  PID is used again while root, child and stranger exist (finding 3 needs all
  four); at most one has gone (`MaxGone`), which is the one whose PID is used again.  On Windows three show the reuse of the root's and of a child's PID;
  the theorem covers any number.
* Samplers: two processes over two PIDs have the same PID in turn, or one each at
  once; one tick tells a share that is right from one of another process.  Five readings of `/proc/stat` hold each kind of counter
  going back while the total grows, stolen time included.  Three processors form two cores of two
  dies, with caches that are private, shared, without a size, and without
  sharers.  Graphs of one or two values are full at once.
* Windows and handles: three windows over two object ids use an id again while
  another window is open; two requests let an action follow the destruction of
  its handle.  Any number of the events behind an answer is read with it.  X11: three windows against a limit of two, and a budget that three
  of the largest properties exceed; actions are looked at apart, with two clients
  over two PIDs and one window id (`MaxActedOn`) that passes from one to the other.
  Icons hold up to two images, whole, empty, cut off or with an area that overflows.
* GNOME: a trusted process and another over two PIDs, two calls against a limit of one, two
  providers: a caller is replaced between any two look-ups, and the
  extension is disabled and enabled during a call.
* Windows rows, targets, starts: three or four creations over two or one
  numbers, so that any number is used again at least once between two calls.  Buffers
  of up to five words hold two records and a rest that is too short.
* Stores: two instances and two saves (one instance may make both, overlapping), a
  power failure at any point, and what is on the disk before.  Two writers, a
  limit of one session of one part: every start and every rotation has
  something to remove that the other may be using.  Archives of three entries with an offset
  limit that the last one exceeds.
* Tray: three inputs of the user are a minimisation, a restoration and a toggle,
  in any order and at any time.

`CHECK_DEADLOCK` is off where the system may stop: after shutdown, when the
bounded callers have made their calls, when an action has returned, when
everything the bounds allow has happened.

## 5. Fairness

Fairness is weak, stated for code that the scheduler keeps running and never
for what a user or a failure may do.

* `Runtime`: the worker's steps (a thread that is not blocked runs; a provider
  call returns), the period timer, and a caller that is inside a call.  Nobody
  has to make a call.  Operations are polled before the wake channel, so callers
  that always have another operation ready starve refreshes and shutdown; the
  bound on calls excludes that, and the liveness properties say nothing about it.
* `SnapshotFeed`: the loop of `publish_latest`, and a reader that stays.  Nothing
  makes the reader start, so publishing finishes also for one that hangs (the
  first part of `FeedDrains`).
* `BackendSession`: forwarding thread, event loop, timer and native pool, and that a
  worker that was asked to stop does: in `Runtime` a shutdown always returns, and has
  then joined it (`CallsReturn`).
* `Diagnostics`: the writer (its `select_biased!` always has a ready branch after
  a tick), the ticker, and threads inside a call.  A call that waits may time
  out at any moment, and need not.

The other modules state no fairness: their code is called, works off what it
finds, and returns, and their properties are about what may never happen.

## 6. Theorems

TLAPS checks every theorem to the last leaf.  The constants are those of the
modules with their named assumptions: any finite set of pages, any callers with any
bounds, any capacity, any PIDs and any number of processes.

**`RuntimeProofs`.**  `TypeCorrect` is inductive by itself.  Each other invariant is
strengthened only by what it needs:

* `WakeupsSurvive` (`NoLostWakeup`) and `OptionsSurvive` (`LatestOptionsWin`) are
  inductive with the types.
* `RepliesAreTrue` (`ReplyMatchesExecution`) and `RepliesAreUnique` rest on
  `OperationInv`: a request is in the channel, running, or answered, and in one
  of these only, so no answer can be given twice or to a request that never ran.
* `PrewarmInterrupted` (`InterruptedAtPageBoundary`) rests on `BoundaryInv`: what
  has been overtaken once is still waiting, and the worker is on its way to look.
* `QueuesBounded` and `ActivationFirst` (`ActivePageFirst`) rest on `QueueInv`: no
  page is queued twice over both queues, and an activated page that was not
  sampled yet is at the front.  This is where the order of promotions in
  `apply_pending_requests` matters.

**`SnapshotFeedProofs`.**  `IInv == TypeOK /\ ChannelInv /\ LogInv`.  `ChannelInv`:
the channel is an unbroken run ending with the last event sent, what was received precedes it,
and one event at most is lost for each send (`RoomIsMadeOnce`, the reason why
`try_recv` after a stale "full" is harmless).  `LogInv`: events of a page only move
forward, and `last_good` is the newest trusted sample.  From it follow
`NewestIsKept`, `LossIsBounded`, `PagesMoveForward`, `TrustedDataRetained`, and
`ImplementsLossyFeed`: initial states map to initial states, and `TrySend` and
the like to steps of `LossyFeed` or to stuttering, where the event in hand counts
as part of the window.

**`WindowsTerminationProofs`.**  `OnlyTheTreeEnds` (`OnlyDescendants`) rests on
`Ages`: who holds the PID of a process's parent and is not younger than the
process is that parent.  A snapshot that passes the age check therefore links
only true parents, and the least set closed under links stays inside the
descendants of the root.  Open handles keep the identities until the end.
Three more theorems are about the other Windows code that meets a system which changes
between two calls:

* `RecordsAreReadInBounds` (`ReadsStayInBounds`), over `RecordInv`: nothing is read
  before the last size was agreed on (`Untouched`), and then the walk is inside of what
  was written, which is inside of the allocation (`WalkInside`, `InBounds`).  What
  a word says, a length or an offset, is arbitrary.
* `AccountsAgree` (`AccountsSound`), over `AccountInv`: the services read so far with a PID
  have the account noted for it, or none is noted any more (`OneAccount`), in
  whatever order they come.
* `NamesAreVerified` (`StaleNamesRefused`), over `TargetInv`: numbers of the system only grow,
  so that what was read of a name is still true, or the name is free or belongs to something
  later than the sample or request (`SamplingOK`, `ActingOK`).

**`LinuxTerminationProofs`.**  `NoneAdopted` (`NoAdoptedPid`) rests on `Opened`: a
pidfd refers to its target, except for the one being confirmed, whose target is
then gone, so that the second check refuses it.  `TreesEndWhole`
(`WholeStableTree`) rests on `StableInv`: between the listing and the last read
of `/proc`, a process of the tree that stays has been captured below its parent or
is still to be read, with that parent above it (`Followed`).  It uses of the
kernel only that a process whose parent changes becomes a child of init
(`ChildrenMove`), which does not happen in a tree that stays.

`WindowsTracked` (`WindowsAreTracked`, an action property of `Toplevels`) is about two
queues in opposite directions.  Its invariant, `ToplevelInv`, has a case for the
time before the connection and one for each shape of the protocol:

* `ExtInv` (ext, wlr): a handle is announced, completed, closed and destroyed in this
  order.  Its messages still on their way say how far it has come (`ExtEvents`,
  `ExtRequests`): what the client lacks is coming, and what it gave up is being
  destroyed (`ExtRegistry`).  Hence no handle leaks.  A row's object id names its window
  as long as that is open (`ExtActions`).
* `KdeInv` (KDE): a UUID comes once, the handle is requested once, and no request of it
  stands behind the round trip of a sample that knows the window (`KdeRequests`);
  a row is about a window whose handle has been given out (`KdeRows`), so that an
  action, which queues behind everything asked before, reaches that window.
* Both have one round trip at most (`OneRoundTrip`), and while its answer is on its
  way, what the client will have made of the events before the answer is what the
  compositor had when it answered (`ExtSynced`, `KdeSynced`).  When the answer has been
  dispatched, a later event of the same round trip may only take a closed window away or
  add one that opened since, so the rows made in the end show neither a window that
  was not there at the answer nor less than those that still are.

What a queue says is read through three relations, is a message in it, is it before the
answer, does it precede another, and `Sent` and `Taken` say how they change when
a message is added or removed; no lemma of a step looks at the sequence itself.

**`SessionProofs`.**  `SessionInv` says what is in the window, in the port and on the
screen at each place of the controller.  With it `EventsReachTheScreen`
(`CoalescingIsSafe`) holds: what a coalesced event replaces is older than itself,
and its timer is running.  `PortOutlivesForwarder` (`NoStrayPostAfterStop`) needs that the
port closes after an answer that only an ended worker gives.  `ChoicesReachTheBackend`
(`ChoicesTakeEffect`) adds `EffectInv`, for calls in any order: a call that waits carries
a change no older than the one in effect, or has been overtaken by that one
(`WaitingOK`); and the change of each call made is in effect, superseded, still
waiting, or overtaken (`PushedOK`, `SavedOK`).  So only a call that was overtaken can
put an older choice back; that this happens is finding 2.

**`DiagnosticsProofs`.**  `DiagnosticsInv` follows the records in the hands of the
threads, the queues and the file; `MarkOK` what an export must contain from the
moment it is called.  From it follow `AcceptedOutlivesTheProcess`
(`AcceptedIsDurable`) and `BundlesAreSound` (`BundleSound`).  `NothingIsLostSilently`
(`NoSilentLoss`) is an equation between counts, and is proved over `LossInv`,
which counts threads by phase: each step moves one record from one term to the next.  It assumes
finitely many emitters, which a process has.

**`DesktopProofs`.**
* `SettingsAreWhole` and `SettingsAreDurable` (`SettingsDurable`), over `SettingsInv`: every
  directory a power failure may leave holds synced files only (`ImagesAreWhole`), and
  one that is not superseded by what was done later (`EveryImageKeeps`).  The
  second has the hypothesis `SyncsDirectory`, true on Unix; without it a completed save
  may be lost by design.
* `RetentionIsSafe` (`RetentionSafe`), over `StoreInv`: a cleanup believes that more
  sessions are left than are (`CleanupOK`) and saw all sessions up to one
  (`Horizon`).  So when it ends, at most the limit is left of those, and the sessions
  after the newest horizon of all cleanups that ended belong to instances that
  have not come to the end of their own (`Settled`).  The sessions themselves are
  not counted anywhere, and no lock orders the cleanups; the order of their listings does.
* `OneInstanceOfEach` (`OneInstance`), over `StartInv`: who finished a search
  under the mutex has seen every window of its identity that is not excused, and
  a peer that answered is the owner of the window it was asked through
  (`PeerAnswers`), since a handle's owner cannot have ended and a handle is confirmed after its
  answer.
* `ExportsAreSound` (`ExportSound`), over `ArchiveInv`: each entry noted is whole at its
  offset and followed by another block, except the one being copied, which is
  the end of the file (`EntriesOK`, `CopyOK`).
* `TheIconStays` (`TrayConsistent`), over `TrayInv`: a call or answer under way is a token; each
  handler has one at most (`Once`), the newest token of a kind carries the current
  value (`Latest`), and a window is hidden only by a call that comes after the
  icon's (`HidingOK`, `DisposedOK`, `TopOK`).
* `SettingsAreUsable` and `NormalizingTwiceIsOnce`, about `UiSettings`: among the positions
  of the columns of one kind there is a first one, since the positions are natural
  numbers (`FirstPosition`, by well-founded minimality), and it is kept.  They
  assume that a length that is not finite is no number and `None` no length.

**`ProviderProofs`.**
* `SharesAreOfOneProcess` (`SharesOfOneProcess`), over `SamplerInv`: the baseline of a PID and
  start time is what that process was last seen with (`SeenAtBaseline`), and no
  other process has this pair.  `WindowsRowsAreOfOneProcess`
  (`WindowsRowsOfOneProcess`), over `WindowsRowsInv`: figures, paths and baselines kept
  under an identity are of the process created then, or the identity is gone.
* `GraphsAreNew` (`GraphsStartAnew`): a graph is not longer than its card and engine have
  lived without a gap.
* `TrafficIsReal` (`NoPhantomTraffic`), over `TrafficInv`: a counter exceeds its
  baseline by no more than what passed since it was last read, unless that
  baseline is the guess of an unreadable file (`TrafficCounted`).
* `OnlyTheTrustedAreAnswered` (`AnswersAreAuthorized`), over `ProviderInv`: a call
  under way holds one of the slots of the provider it came to, and what was
  looked up of its caller is true until the caller ends (`CallerKnown`).
* `EveryImageIsDrawn`: whatever the sides of an image and the edge, each index
  computed lies in the image and in the icon; it rests on bounds of a scaled
  side, of a margin and of the row a row shows, each a fact about integer
  division.  So `resize` never gives up for the shape of an image.
* `IconsAreDrawnAsTheyWere`: an image recovered from its two drawings has the opacity it had,
  and every channel is drawn with the value it had (`NearestQuotient`: the rounding
  up and down cancel out).  That drawing is premultiplied, as `DrawIconEx` does
  it, is the assumption.  `OfferedIconsAreFound`: the sources that are not asked are not needed.
* `ProcessorPagesAgree` (`ProcessorPagesAddUp`): the types are inductive, and the rest are
  facts about the operators.  Shares lie between none and the whole
  whatever a counter does, and user and kernel time exceed the busy time by no more than the
  stolen time that went back (`SharesAddUp`); classes, threads and caches are counted over the
  same processors, and the counts of disjoint classes add up to at most the whole
  (`TopologyHolds`, `CachesHold`).
* `RatesSpanTwoReadings` (`CountersHaveBaselines`), over `CounterInv`: a source that
  is primed has been collected that often since its query was opened
  (`PrimedByCollections`), and the two graphs of each processor are as long as those of
  every other (`PlotsAgree`).
* `SnapshotCorrect` (`SnapshotHonest`), over `XInv`.  Of the sample (`SampleUnderWay`): the
  rows are those of the windows done, and what all rows and the row in hand keep
  fits into the budget together with what the code believes is left.  Of actions:
  while the client that had made a window is connected, the window's id stays one of its own
  (`MakersKeepIds`), so an id that belongs to somebody else after the check belongs
  to a client that came later (`CheckedInTime`).
* `CacheCorrect` (`CacheSound`), over `IconInv`: removal and insertion change the counter by what
  they change the sum, eviction keeps a set whose bytes and entries fit
  (`Fits`), and a denial expires before the clock of accesses can move on by an expiry
  (`DenialsExpire`), also across the wrap of the clock, which clears the cache.
* Sums over finite sets are folds.  What these need of them (a sum does not
  depend on the order, grows with its set, changes by one term with one member) is
  proved from the definition of `SumFunctionOnSet`: a property of all finite sets is stated
  as membership in the family of the sets that have it, and a family that has a set
  whenever it has its proper subsets has every finite set (`SubsetsFirst`, by
  well-founded minimality).  This takes the place of induction over data.
* `PagesOfferTheirHandlers`, `RowsOfferTheirHandlers`, `HelperAddsNothing`: offers, handlers
  and whitelist, which live in several files, agree for every platform and backend.

Assumed of the constants, in each case what the code or the system guarantees:
`NoneAssumptions`, `GraphAssumption`, `StartAssumption`, `ProviderAssumption`, `ToplevelAssumption`
and the like say that bounds are numbers and that marks for "nothing" differ from values;
emitters and instances are finitely many (`IsFiniteSet`); `ChildrenMove` as above.
`IconAssumption`: finitely many names, and encoded icons and limits are sizes.
`XAssumption`: finitely many windows; the limit of windows is below that of bytes (4096 and 64 MiB,
`x11.rs:33`); the two icon edges are positive and differ.
`CounterAssumption` and `ProcessorAssumption`: readings are natural numbers, not of any width;
processors and caches are finitely many; a processor number names one processor; and two caches of
one level and kind share no processor, as hardware is built.

Only model-checked, and why: the liveness properties `CallsReturn`, `PagesAreSampled`,
`FeedDrains`, `SessionProgresses` and `ShutdownReturns`.  TLAPS does not reason about
fairness and `ENABLED` here.

## 7. Findings

1. **A panic lets the forwarding thread post to a canceled port** (`session_stray`,
   `backend_controller.dart:359`).  The comment at line 355 promises that the
   port stays open until the close marker arrives.  After a panic
   `shutdownBackend` throws, the wait is skipped, and the `finally` block cancels
   the subscription while the channel is still being drained.  Without a panic
   the promise holds (`NoStrayPostAfterStop`).
2. **Overlapping saves may keep the older settings** (`session_overlap`,
   `backend_controller.dart:308`).  Each change starts a native call in a thread
   pool and does not wait for the one before.  Nothing else can keep an older choice:
   at rest the newest one holds unless its own call has overtaken an older one
   (`ChoicesTakeEffect`, run `session`).
3. **Ending a tree on Linux can kill a process outside it** (`linux_end_reuse`,
   `procfs.rs:1295`).  Parent PIDs are read file by file.  If a parent exits after
   its child was read, and its PID is used again by a child of the chosen process
   before that PID is read, the first child is linked below it.  Its own identity is then
   confirmed, and it is killed.  Windows has the age check that excludes this
   (`crates/taskmgr-windows/src/processes.rs:1394`), and `docs/flutter-migration-plan.md:95` demands that
   dangerous operations never rely on a PID alone.  Processes that take over a PID
   after the capture are safe (`NoneAdopted`).
4. **A window restored while it is being hidden stays hidden, without its tray
   command** (`tray_hidden`, `app_window_controller.dart:405`).  The comment at line
   402 publishes the recovery command before the taskbar entry goes.  The hide
   comes after an await of the menu and does not look again: if the user restores
   the window meanwhile, `onWindowRestore` sets the menu of a visible window, and the
   pending call then hides it.  The icon itself still brings it back
   (`TrayConsistent`).

## 8. Assumptions and limits

* `Runtime`: an operation that a caller submits between the worker's last poll and its end
  stays in the channel, unless crossbeam-channel discards what is queued when the
  receiver goes.  If it stays, so does its sender of results, and `recv`
  (`runtime.rs:146` and `172`) waits until `BackendRuntime` is dropped; the text of the error it
  gives otherwise expects the sender to be dropped.  The source of the channel is not in
  the repository, so the module allows both, and `CallsReturn` claims no return
  of that one caller (`Stranded`).
* `BackendSession` sees the runtime as a feed and a worker that stops or panics.
  Failures of `create`, `refresh` and `execute`, which are passed on, are left out.
* `Diagnostics` writes one file; parts, rotation and retention are
  `DiagnosticStore` (rotation only makes more durable).  The level and the privacy flag an emitter reads when it builds a record are one step.
  With eight timed-out flushes in the control channel and a writer that is stuck for the
  five seconds of `send_timeout`, `shutdown` joins a thread that was never told to
  stop, and waits for ever.  No text of the repository promises otherwise;
  `ShutdownReturns` says that it takes a full channel of timed-out flushes, and the run
  `diag` reaches that state with a channel of one place.  The number of records is
  bounded, so a sustained load that starves the ticker cannot be expressed.
* `ProcessTable`: start times order processes as they were created, and a PID is
  not used again within the resolution of the start time.  Setting the wall
  clock, which Windows creation times follow, is outside.  So is creation time 0,
  which the code refuses first.
* `LinuxTermination`: the listing of `/proc` is one step, and files are read in
  ascending order of PID.  The order in which targets are opened and signalled is
  any order the code could produce, and some more.  A file that exists but cannot
  be read (`hidepid`) is not modelled: such a process could not be ended either.
* `DiagnosticStore`: the limit that rotation compares is computed over the files of the root
  itself, which holds none (`RootSize`), so that rotation never removes for
  its sake; retention at start does.
* `SettingsStore`: the directory is synced as on Unix.  Windows replaces files with
  its own call, whose durability is the system's.
* `NetworkSampler`: the first baseline of an unreadable counter is 0, and its
  first rate is all traffic it ever counted; `NoPhantomTraffic` leaves that case out.
  Interfaces that exist at the start have counted before, in the theorem; the run begins with none.
* `ProcessorSampler`: the lines of the processors read like the aggregate.  When the
  kernel takes stolen time back, the total grows by less than its parts, which
  `percentages` does not check (`procfs.rs:747`): what is shown as user and kernel time
  may then exceed the busy time, by that much.  `AddsUp` says so.
  Sysfs does not change while one page is read; a processor that is switched meanwhile
  can make a shared cache count twice in that sample.
* `ProcessSampler`: figures other than processor time (memory, files, paths) are
  read by PID after the stat file, and may be another process's; the module
  records it (`memoryOf`) and no property forbids it.
* `Toplevels`: on wlr a handle is named by an object id that may be used
  again between snapshot and action.  What is claimed is that an action reaches no
  other window while the chosen one is open; once that has closed, another may have
  its id.  Hashes of different UUIDs are taken to differ.  How many of the events
  behind an answer one read brings is left open.
* `X11Windows`: the window manager acts on the window that has the id when it
  reads the message.  What is claimed of an action is about rows whose PID still
  belonged to the window's client when `/proc` was read; a row mixed from two
  processes, and one without a process, may reach another client's window.
* `IconCache`: the index of desktop entries is built once and is left out.
* `WindowsTargets`: what was created after the user chose may be hit, which no
  check before a call can exclude; older things may not.
* `SingleInstance`: all processes belong to one user and session.  A start whose wait for
  the mutex times out, or that misses a window or an answer, goes on by design
  (`excused`), and `OneInstance` is about the others.
* `TrayWindow`: geometry, the level of the icon, focus and the exit command are left out.
* Data (names, usage figures, icons, texts) appear only where a property tells
  them apart.

Not modelled, and why: model types other than the settings carry no behaviour; generated code,
runners, packaging and the widgets hold no state that several actors change; the
requests of the helper and the system queries of launch, users on Linux, devices and firmware
(`wmi.rs`, `gpu_metadata.rs`) are one request and one reply; PDH, DXGI, NVML, the
compositor, the bus and the plugins are external, and appear as what they may answer.

Hazards known and not watched by a property, beyond those `PROJECT.json` lists:
refreshes faster than the period postpone the periodic sample; a second
`shutdown` returns while the first still joins; a failed `update_options` skips the
save of the new page; `close` does not wait for saves in flight; after the sink
failed, records are no longer counted; the Linux kill loop stops at the first
target that was already reaped; callers that always have another operation ready starve refreshes; a source of
windows is chosen once for a session; a failed icon lookup is cached also when
only the budget was spent; the details of a graphics adapter are kept until
its memory size changes, failed queries too; the user shown for a PID on
Windows is that of the refresh before; a title cut inside a surrogate pair makes the
whole GNOME snapshot unreadable; bounds captured while the window is being minimized
replace the last good geometry; the modal save dialog stops sampling while it is
open.

## 9. How to run

```
tlc -workers 2 -config MCRuntime.cfg MCRuntime          # module and cfg of a run in PROJECT.json
tlapm RuntimeProofs.tla                                  # likewise the other *Proofs modules
```

The runs take from half a minute to about three minutes each on two cores; the
proofs take up to half an hour together.
