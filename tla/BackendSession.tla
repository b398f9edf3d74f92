--------------------------- MODULE BackendSession ---------------------------
(***************************************************************************)
(* One session of the desktop application from the sampling worker to the  *)
(* screen: the event channel (module LossyFeed, which SnapshotFeed is      *)
(* shown to implement), the forwarding thread of taskmgr-bridge            *)
(* (watch_backend), the Dart port, and BackendController in                *)
(* flutter_app/lib/app/backend_controller.dart with its coalescing timer,  *)
(* its calls back into Rust and its close.                                 *)
(*                                                                         *)
(* Dart code runs on one isolate: a step is the code between two awaits.   *)
(* A native call goes to a thread pool, so that two calls may overlap.     *)
(* Everything the user can change (active page, update speed, preferences) *)
(* is one record that each change replaces; it is named by the number of   *)
(* changes made so far.                                                    *)
(***************************************************************************)
EXTENDS Integers, Sequences

CONSTANTS
  Pages,       \* PageId::ALL
  Capacity,    \* events the channel holds
  MaxEvents,   \* bound: events the worker publishes
  MaxChanges,  \* bound: the changes the user makes
  Overlap,     \* two native calls may take effect in either order
  MayPanic,    \* the platform provider may panic
  None         \* nothing coalesced

ASSUME SessionAssumption ==
  /\ Capacity \in Nat \ {0}
  /\ MaxEvents \in Nat
  /\ MaxChanges \in Nat
  /\ Overlap \in BOOLEAN
  /\ MayPanic \in BOOLEAN

ASSUME NoneAssumption == None \notin [shown : [Pages -> Nat], change : Nat]

VARIABLES
  offered, window, received, closed,  \* the event channel, see LossyFeed
  page,        \* the page of each published event
  stopping,    \* shutdown was asked for: pending.shutdown
  ending,      \* how the worker ended: "none", "stopped" or "panicked"
  backend,     \* the change the worker's options come from
  disk,        \* the change the saved settings come from
  unsaved      \* a save has failed: the user was told

VARIABLES
  forwarder,   \* "receiving", "posting" or "ended"
  port,        \* what was posted to the Dart port and not yet handled
  listening,   \* the Dart port is open: the subscription was not canceled
  stray        \* events posted after that

VARIABLES
  value,       \* ValueNotifier.value: the newest event shown of each page, and
               \* the change the user's choices come from
  coalesced,   \* _pendingEventState, or None
  timer,       \* _eventFlushTimer is running: "on" or "off"
  streamDone,  \* _eventStreamDone is completed
  closing,     \* "no", or where _close is: "shutdown", "drain", "closed"
  shutdown,    \* the native shutdown call: "none", "running", "ok", "error"
  flow,        \* where the call chain of each change is
  sent,        \* the change its native call carries
  pool,        \* the changes whose native call waits in the pool, in order
  overtaking   \* history: the calls that took effect before an older one

channel == <<offered, window, received, closed, page>>
rust == <<stopping, ending, backend, disk, unsaved>>
bridge == <<forwarder, port, listening, stray>>
dart == <<value, coalesced, timer, streamDone, closing, shutdown>>
chains == <<flow, sent, pool, overtaking>>
vars == <<channel, rust, bridge, dart, chains>>

Feed == INSTANCE LossyFeed

\* The changes are numbered; each starts a chain of native calls, its flow.
Flows == 1 .. MaxChanges

Done == 0   \* the close marker of the stream; events are numbered from 1

Init ==
  /\ Feed!Init
  /\ page = <<>>
  /\ stopping = FALSE
  /\ ending = "none"
  /\ backend = 0
  /\ disk = 0
  /\ unsaved = FALSE
  /\ forwarder = "receiving"
  /\ port = <<>>
  /\ listening = TRUE
  /\ stray = 0
  /\ value = [shown |-> [p \in Pages |-> 0], change |-> 0]
  /\ coalesced = None
  /\ timer = "off"
  /\ streamDone = FALSE
  /\ closing = "no"
  /\ shutdown = "none"
  /\ flow = [i \in Flows |-> [kind |-> "none", call |-> "none", answer |-> "none"]]
  /\ sent = [i \in Flows |-> 0]
  /\ pool = <<>>
  /\ overtaking = {}

-----------------------------------------------------------------------------
(* The worker, as seen from here.                                          *)

Publish(p) ==
  /\ offered < MaxEvents
  /\ Feed!Offer
  /\ page' = Append(page, p)
  /\ UNCHANGED <<rust, bridge, dart, chains>>

LoseOldest ==
  /\ Feed!Lose
  /\ UNCHANGED <<page, rust, bridge, dart, chains>>

WorkerEnds(how) ==
  /\ \/ how = "stopped" /\ stopping
     \/ how = "panicked" /\ MayPanic
  /\ Feed!Close
  /\ ending' = how
  /\ UNCHANGED <<page, stopping, backend, disk, unsaved, bridge, dart, chains>>

-----------------------------------------------------------------------------
(* The forwarding thread.                                                  *)

ForwarderReceives ==
  /\ forwarder = "receiving"
  /\ Feed!Receive
  /\ forwarder' = "posting"
  /\ UNCHANGED <<page, rust, port, listening, stray, dart, chains>>

\* sink.add: an event posted to a canceled port fails, which ends the thread.
ForwarderPosts ==
  /\ forwarder = "posting"
  /\ IF listening
       THEN /\ port' = Append(port, received[Len(received)])
            /\ forwarder' = "receiving"
            /\ UNCHANGED stray
       ELSE /\ stray' = stray + 1
            /\ forwarder' = "ended"
            /\ UNCHANGED port
  /\ UNCHANGED <<channel, rust, listening, dart, chains>>

\* Mutant: the sink is leaked.
ForwarderEndsSilently ==
  /\ forwarder = "receiving"
  /\ closed
  /\ window = <<>>
  /\ forwarder' = "ended"
  /\ UNCHANGED <<channel, rust, port, listening, stray, dart, chains>>

\* The channel is closed and empty: the sink is dropped, which closes the
\* stream.
ForwarderEnds ==
  /\ forwarder = "receiving"
  /\ closed
  /\ window = <<>>
  /\ forwarder' = "ended"
  /\ port' = IF listening THEN Append(port, Done) ELSE port
  /\ UNCHANGED <<channel, rust, listening, stray, dart, chains>>

-----------------------------------------------------------------------------
(* Dart: events.                                                           *)

\* _reduceEvent: the event replaces the data of its page.
Reduce(state, n) == [state EXCEPT !.shown[page[n]] = n]

\* Mutant: the timer is left alone.
AcceptEventUnarmed ==
  /\ port # <<>>
  /\ Head(port) # Done
  /\ port' = Tail(port)
  /\ IF closing # "no"
       THEN UNCHANGED coalesced
       ELSE coalesced' = Reduce(IF coalesced = None THEN value ELSE coalesced, Head(port))
  /\ UNCHANGED <<channel, rust, forwarder, listening, stray, value, timer, streamDone,
                 closing, shutdown, chains>>

\* _acceptEvent.
AcceptEvent ==
  /\ port # <<>>
  /\ Head(port) # Done
  /\ port' = Tail(port)
  /\ IF closing # "no"
       THEN UNCHANGED <<coalesced, timer>>
       ELSE /\ coalesced' = Reduce(IF coalesced = None THEN value ELSE coalesced, Head(port))
            /\ timer' = "on"
  /\ UNCHANGED <<channel, rust, forwarder, listening, stray, value, streamDone,
                 closing, shutdown, chains>>

\* The value after _flushPendingEvents.
Flushed == IF coalesced # None /\ closing = "no" THEN coalesced ELSE value

\* _flushPendingEvents, called by the timer.
FlushTimer ==
  /\ timer = "on"
  /\ value' = Flushed
  /\ coalesced' = None
  /\ timer' = "off"
  /\ UNCHANGED <<channel, rust, bridge, streamDone, closing, shutdown, chains>>

\* onDone of the subscription.
AcceptDone ==
  /\ port # <<>>
  /\ Head(port) = Done
  /\ port' = Tail(port)
  /\ streamDone' = TRUE
  /\ value' = Flushed
  /\ IF closing = "no"
       THEN coalesced' = None /\ timer' = "off"
       ELSE UNCHANGED <<coalesced, timer>>
  /\ UNCHANGED <<channel, rust, forwarder, listening, stray, closing, shutdown, chains>>

-----------------------------------------------------------------------------
(* Dart: the user's changes.  selectPage pushes the options, saves the     *)
(* settings and asks for a refresh; setUpdateSpeed does the first two and  *)
(* setUiPreferences the second.  Each reads `value` when it makes the call.*)

Kinds == {"page", "speed", "preference"}

\* The native call a chain is waiting for.
Calls == {"options", "save", "refresh"}

\* _handle is not null: the backend may be called.
Attached == closing = "no"

\* A chain of kind k makes its first call after the change.
FirstCall(k) == IF k = "preference" \/ ~ Attached THEN "save" ELSE "options"

ChainIs(i, k, call, answer) ==
  flow[i] = [kind |-> k, call |-> call, answer |-> answer]

Started(i) == flow[i].kind # "none"

\* Mutant: the pending event state is left to its timer.
ChangeUnflushed(i, k) ==
  /\ ~ Started(i)
  /\ \A j \in Flows : j < i => Started(j)
  /\ value' = [value EXCEPT !.change = @ + 1]
  /\ flow' = [flow EXCEPT ![i] = [kind |-> k, call |-> FirstCall(k), answer |-> "waiting"]]
  /\ sent' = [sent EXCEPT ![i] = value'.change]
  /\ pool' = Append(pool, i)
  /\ UNCHANGED <<channel, rust, bridge, coalesced, timer, streamDone, closing, shutdown, overtaking>>

\* selectPage, setUpdateSpeed or setUiPreferences up to the first await.
Change(i, k) ==
  /\ ~ Started(i)
  /\ \A j \in Flows : j < i => Started(j)
  /\ value' = [Flushed EXCEPT !.change = @ + 1]
  /\ coalesced' = None
  /\ timer' = "off"
  /\ flow' = [flow EXCEPT ![i] = [kind |-> k, call |-> FirstCall(k), answer |-> "waiting"]]
  /\ sent' = [sent EXCEPT ![i] = value'.change]
  /\ pool' = Append(pool, i)
  /\ UNCHANGED <<channel, rust, bridge, streamDone, closing, shutdown, overtaking>>

\* The calls the pool may run next: with overlapping calls any of them.
Runnable == IF Overlap THEN DOMAIN pool ELSE DOMAIN pool \cap {1}

\* A call takes effect: history remembers whether it leaves a call of the same
\* kind behind that carries an older change.
TakesEffect(i, call) ==
  overtaking' =
    IF \E j \in Flows : /\ flow[j].call = call
                       /\ flow[j].answer = "waiting"
                       /\ sent[j] < sent[i]
      THEN overtaking \cup {[call |-> call, change |-> sent[i]]}
      ELSE overtaking

\* A pool thread runs the call of the change at place x: update_options and
\* request_refresh fail once the backend was stopped, save_settings may fail
\* for reasons of its own.
RunCall(x, k, call) ==
  LET i == pool[x]
      stopped == stopping \/ closed
      Answer(result) == flow' = [flow EXCEPT ![i].answer = result]
  IN  /\ ChainIs(i, k, call, "waiting")
      /\ pool' = SubSeq(pool, 1, x - 1) \o SubSeq(pool, x + 1, Len(pool))
      /\ \/ /\ call = "save"
            /\ disk' = sent[i]
            /\ TakesEffect(i, call)
            /\ Answer("ok")
            /\ UNCHANGED <<backend, unsaved>>
         \/ /\ call = "save"
            /\ unsaved' = TRUE
            /\ Answer("error")
            /\ UNCHANGED <<backend, disk, overtaking>>
         \/ /\ call = "options"
            /\ ~ stopped
            /\ backend' = sent[i]
            /\ TakesEffect(i, call)
            /\ Answer("ok")
            /\ UNCHANGED <<disk, unsaved>>
         \/ /\ call = "refresh"
            /\ ~ stopped
            /\ Answer("ok")
            /\ UNCHANGED <<backend, disk, unsaved, overtaking>>
         \/ /\ call # "save"
            /\ stopped
            /\ Answer("error")
            /\ UNCHANGED <<backend, disk, unsaved, overtaking>>
      /\ UNCHANGED <<channel, stopping, ending, bridge, dart, sent>>

\* The chain goes on to its next call, with the change shown now.
CallNext(i, k, call) ==
  /\ flow' = [flow EXCEPT ![i] = [kind |-> k, call |-> call, answer |-> "waiting"]]
  /\ sent' = [sent EXCEPT ![i] = value.change]
  /\ pool' = Append(pool, i)
  /\ UNCHANGED overtaking

Finish(i, result) ==
  /\ flow' = [flow EXCEPT ![i].call = "ended", ![i].answer = result]
  /\ UNCHANGED <<sent, pool, overtaking>>

\* Mutant: the settings are saved as they were when the change was made.
ResumeAfterOptionsSavesOld(i, k) ==
  /\ ChainIs(i, k, "options", "ok")
  /\ flow' = [flow EXCEPT ![i] = [kind |-> k, call |-> "save", answer |-> "waiting"]]
  /\ pool' = Append(pool, i)
  /\ UNCHANGED <<channel, rust, bridge, dart, sent, overtaking>>

\* After update_options: _saveSettings.
ResumeAfterOptions(i, k) ==
  /\ ChainIs(i, k, "options", "ok")
  /\ CallNext(i, k, "save")
  /\ UNCHANGED <<channel, rust, bridge, dart>>

\* A call other than the save failed: the exception ends the chain.
ChainThrows(i, k) ==
  /\ \E call \in {"options", "refresh"} : ChainIs(i, k, call, "error")
  /\ Finish(i, "error")
  /\ UNCHANGED <<channel, rust, bridge, dart>>

\* After the save, whose failure is reported by reportUiError: that flushes
\* the pending events.  selectPage then asks for a refresh.
ResumeAfterSave(i, k) ==
  /\ \/ ChainIs(i, k, "save", "ok") /\ UNCHANGED <<value, coalesced, timer>>
     \/ /\ ChainIs(i, k, "save", "error")
        /\ value' = Flushed
        /\ coalesced' = None
        /\ timer' = "off"
  /\ IF k = "page" /\ Attached
       THEN CallNext(i, k, "refresh")
       ELSE Finish(i, flow[i].answer)
  /\ UNCHANGED <<channel, rust, bridge, streamDone, closing, shutdown>>

ResumeAfterRefresh(i) ==
  /\ ChainIs(i, "page", "refresh", "ok")
  /\ Finish(i, "ok")
  /\ UNCHANGED <<channel, rust, bridge, dart>>

-----------------------------------------------------------------------------
(* Dart: close.                                                            *)

\* _close up to its first await, and the start of shutdown_backend on a thread
\* of its own: BackendRuntime::shutdown raises its flag first.
Close ==
  /\ closing = "no"
  /\ closing' = "shutdown"
  /\ shutdown' = "running"
  /\ coalesced' = None
  /\ timer' = "off"
  /\ UNCHANGED <<channel, rust, bridge, value, streamDone, chains>>

\* The pool thread reaches BackendRuntime::shutdown.
RaiseShutdown ==
  /\ shutdown = "running"
  /\ ~ stopping
  /\ stopping' = TRUE
  /\ UNCHANGED <<channel, ending, backend, disk, unsaved, bridge, dart, chains>>

\* shutdown_backend returns once the worker thread was joined.
ShutdownReturns ==
  /\ shutdown = "running"
  /\ stopping
  /\ closed
  /\ shutdown' = IF ending = "panicked" THEN "error" ELSE "ok"
  /\ UNCHANGED <<channel, rust, bridge, value, coalesced, timer, streamDone, closing, chains>>

\* Mutant: the subscription is canceled without waiting for the stream.
AwaitStreamSkipped ==
  /\ closing = "shutdown"
  /\ shutdown \in {"ok", "error"}
  /\ closing' = "closed"
  /\ listening' = FALSE
  /\ port' = <<>>
  /\ UNCHANGED <<channel, rust, forwarder, stray, value, coalesced, timer, streamDone,
                 shutdown, chains>>

\* _close after shutdownBackend: it waits for the stream to end, but an error
\* skips the wait and runs the finally block.
AwaitStream ==
  /\ closing = "shutdown"
  /\ \/ shutdown = "ok" /\ closing' = "drain" /\ UNCHANGED <<listening, port>>
     \/ shutdown = "error" /\ closing' = "closed" /\ listening' = FALSE /\ port' = <<>>
  /\ UNCHANGED <<channel, rust, forwarder, stray, value, coalesced, timer, streamDone,
                 shutdown, chains>>

\* The stream has ended: the finally block cancels the subscription.
CancelSubscription ==
  /\ closing = "drain"
  /\ streamDone
  /\ closing' = "closed"
  /\ listening' = FALSE
  /\ port' = <<>>
  /\ UNCHANGED <<channel, rust, forwarder, stray, value, coalesced, timer, streamDone,
                 shutdown, chains>>

-----------------------------------------------------------------------------
Worker == (\E p \in Pages : Publish(p)) \/ LoseOldest
WorkerStops == WorkerEnds("stopped")
Forwarder == ForwarderReceives \/ ForwarderPosts \/ ForwarderEnds
DartEvents == AcceptEvent \/ AcceptDone
PoolCalls == \E x \in Runnable, k \in Kinds, call \in Calls : RunCall(x, k, call)
Resume ==
  \E i \in Flows :
    \/ \E k \in Kinds : ResumeAfterOptions(i, k) \/ ChainThrows(i, k) \/ ResumeAfterSave(i, k)
    \/ ResumeAfterRefresh(i)
Closing == RaiseShutdown \/ ShutdownReturns \/ AwaitStream \/ CancelSubscription

Next ==
  \/ Worker
  \/ WorkerStops
  \/ WorkerEnds("panicked")
  \/ Forwarder
  \/ DartEvents
  \/ FlushTimer
  \/ \E i \in Flows, k \in Kinds : Change(i, k)
  \/ PoolCalls
  \/ Resume
  \/ Close
  \/ Closing

Spec == Init /\ [][Next]_vars

\* Threads, the event loop, its timer and the pool are scheduled.  That a
\* worker asked to stop does so is what module Runtime shows (CallsReturn).
\* Nothing makes the user act or the worker publish.
FairSpec ==
  /\ Spec
  /\ WF_vars(WorkerStops)
  /\ WF_vars(Forwarder)
  /\ WF_vars(DartEvents)
  /\ WF_vars(FlushTimer)
  /\ WF_vars(PoolCalls)
  /\ WF_vars(Resume)
  /\ WF_vars(Closing)

-----------------------------------------------------------------------------
(* Properties.                                                             *)

States == [shown : [Pages -> Nat], change : Nat]

\* The variables keep their types.
TypeOK ==
  /\ stopping \in BOOLEAN
  /\ ending \in {"none", "stopped", "panicked"}
  /\ ending = "none" <=> ~ closed
  /\ backend \in Nat /\ disk \in Nat /\ unsaved \in BOOLEAN
  /\ forwarder \in {"receiving", "posting", "ended"}
  /\ listening \in BOOLEAN
  /\ listening <=> closing # "closed"
  /\ port \in Seq(Nat)
  /\ stray \in Nat
  /\ value \in States
  /\ coalesced \in States \cup {None}
  /\ timer \in {"on", "off"}
  /\ streamDone \in BOOLEAN
  /\ closing \in {"no", "shutdown", "drain", "closed"}
  /\ shutdown \in {"none", "running", "ok", "error"}
  /\ flow \in [Flows -> [kind : Kinds \cup {"none"},
                         call : Calls \cup {"none", "ended"},
                         answer : {"none", "waiting", "ok", "error"}]]
  /\ sent \in [Flows -> Nat]
  /\ pool \in Seq(Flows)
  /\ overtaking \subseteq [call : {"options", "save"}, change : Nat]

Changes == {i \in Flows : Started(i)}

\* No event overwrites a choice of the user: although events are reduced onto
\* a copy of the whole state and published later, the state shown, and the one
\* about to be shown, always carry the last change the user made.
ChoicesNeverReverted ==
  /\ \A i \in Changes : i <= value.change
  /\ \A i \in Flows \ Changes : value.change < i
  /\ coalesced # None => coalesced.change = value.change

\* Coalescing loses no event and strands none: of each page the newest event
\* handled is shown, or it is in the coalesced state and the timer runs.
NothingStranded ==
  /\ timer = "on" <=> coalesced # None
  /\ closing = "no" =>
       LET current == IF coalesced = None THEN value ELSE coalesced
       IN  \A p \in Pages, i \in DOMAIN received :
             page[received[i]] = p =>
               \/ current.shown[p] >= received[i]
               \/ forwarder = "posting" /\ i = Len(received)
               \/ \E x \in DOMAIN port : port[x] = received[i]

\* Coalescing neither undoes what the user did nor loses what the worker said.
CoalescingIsSafe == ChoicesNeverReverted /\ NothingStranded

\* "Keep Dart's receive port alive until that close marker arrives so the
\* forwarding thread never posts into a canceled port during process teardown"
\* (backend_controller.dart line 355).
NoStrayPost == stray = 0

\* So it is unless the worker has panicked, in which case shutdown fails and
\* the wait for the close marker is skipped.
NoStrayPostAfterStop == ending # "panicked" => NoStrayPost

\* Every chain has ended, none with an error.
AtRest == \A i \in Changes : flow[i].call = "ended" /\ flow[i].answer = "ok"

\* Change i, or a later one, took effect before an older call of the same kind,
\* which can only have put the older choice back.
Overtook(call, i) == \E o \in overtaking : o.call = call /\ o.change >= i

\* When the calls of all changes have returned, the worker has the options of
\* the last change that pushed any, or of a later one, unless that call has
\* itself overtaken an older one in the pool.
OptionsAreCurrent ==
  AtRest /\ closing = "no" =>
    \A i \in Changes :
      flow[i].kind # "preference" => backend >= i \/ Overtook("options", i)

\* When the calls of all changes have returned and none of them failed, the
\* settings file holds the last change (flutter-migration-plan.md line 166).
SettingsAreSaved == AtRest /\ ~ unsaved => disk = value.change

\* Once its calls have returned, the last choice has reached both the worker and
\* the file.  Only one thing can undo it there: the pool ran its call before an
\* older one of the same kind (backend_controller.dart lines 289 and 308).
ChoicesTakeEffect ==
  /\ OptionsAreCurrent
  /\ SettingsAreSaved \/ Overtook("save", value.change)

\* close returns, whatever else is going on and also after a panic, and an event
\* that stays the newest one is shown unless the user closes first.
SessionProgresses ==
  /\ closing # "no" ~> closing = "closed"
  /\ \A n \in 1 .. MaxEvents :
       offered = n ~> (closing # "no" \/ \E p \in Pages : value.shown[p] >= n)

=============================================================================
