----------------------------- MODULE Diagnostics -----------------------------
(***************************************************************************)
(* The diagnostic log of crates/taskmgr-core/src/diagnostics/mod.rs: any   *)
(* thread emits records into two bounded queues, one writer thread writes  *)
(* them, and the backend thread configures the session, exports it as a    *)
(* bundle and at last shuts it down.                                       *)
(*                                                                         *)
(* Each access to an atomic, a channel or the file is one step, so that    *)
(* the three kinds of thread interleave between them.  The log is the      *)
(* sequence of its records; parts, rotation and retention are left out     *)
(* (rotation can only make more records durable than are counted here).    *)
(* The sequence number of a record is its place in `file`.                 *)
(*                                                                         *)
(* configure and export_bundle run on the sampling worker, shutdown after  *)
(* BackendRuntime::shutdown has joined it: in program order, one Backend.  *)
(***************************************************************************)
EXTENDS Integers, Sequences, FiniteSets

CONSTANTS
  Emitters,         \* threads that emit records: workers, callers, panic hooks
  Backend,          \* the thread that configures, exports and shuts down
  RegularCapacity,  \* REGULAR_QUEUE_CAPACITY
  PriorityCapacity, \* PRIORITY_QUEUE_CAPACITY
  ControlCapacity,  \* CONTROL_QUEUE_CAPACITY
  MaxEvents,        \* bound: records the emitters emit
  MaxCalls,         \* bound: calls of configure and export_bundle
  Modes,            \* settings used: plain, detailed, or detailed and sensitive
  MayFail,          \* whether the file system may fail
  None

ASSUME DiagnosticsAssumption ==
  /\ Backend \notin Emitters /\ IsFiniteSet(Emitters)
  /\ {RegularCapacity, PriorityCapacity, ControlCapacity} \subseteq Nat \ {0}
  /\ {MaxEvents, MaxCalls} \subseteq Nat
  /\ Modes \subseteq {"plain", "detailed", "sensitive"} /\ Modes # {}
  /\ MayFail \in BOOLEAN

VARIABLES
  level, sensitive, sensitive_ever_enabled,  \* SharedState
  dropped_regular, dropped_priority, dropped_total,
  shutdown,
  regular, priority, control,  \* the three channels
  sink,     \* "open", or "none" once disabled
  file,     \* the records written
  durable,  \* how many of them flush_sync has put on disk
  writer,   \* writer_loop: where it is, the command it serves, drops it swapped
  phase,    \* where a thread is in event_with
  hand,     \* the record a thread is emitting
  issued,   \* number of records built
  emitted,  \* number of them the emitters built
  backend,  \* where the backend thread is, with the arguments of configure
  calls,    \* calls of configure and export_bundle so far
  answer,   \* the reply of the writer to the call that waits, or None
  mark,     \* records that had been accepted when flush or shutdown was called
  bundle    \* the bundle exported last: its records and the manifest's privacy

settings == <<level, sensitive, sensitive_ever_enabled>>
drops == <<dropped_regular, dropped_priority, dropped_total>>
queues == <<regular, priority>>
store == <<sink, file, durable>>
emission == <<phase, hand, issued, emitted>>
calling == <<backend, calls, answer, mark, bundle>>
vars == <<settings, drops, shutdown, queues, control, store, writer, emission,
          calling>>

Threads == Emitters \cup {Backend}
Levels == {"error", "info", "trace"}  \* warn goes with error, debug with trace
Queue(lvl) == IF lvl = "error" THEN "priority" ELSE "regular"

\* drops is the number of lost records a record reports, 0 for all others.
Record(id, thread, queue, private, lost) ==
  [id |-> id, thread |-> thread, queue |-> queue, sensitive |-> private, drops |-> lost]

Records ==
  [id : Nat, thread : Threads \cup {None}, queue : {"priority", "regular"},
   sensitive : BOOLEAN, drops : Nat]

ASSUME NoneAssumption == None \notin {"open", "none", "redacted"} \cup Threads \cup Records

Ids(s) == {s[i].id : i \in 1..Len(s)}
Accepted == Ids(regular) \cup Ids(priority) \cup Ids(file)
OnDisk == SubSeq(file, 1, durable)

Level(mode) == IF mode = "plain" THEN "info" ELSE "trace"

Init ==
  /\ \E mode \in Modes : level = Level(mode) /\ sensitive = (mode = "sensitive")
  /\ sensitive_ever_enabled = sensitive
  /\ dropped_regular = 0 /\ dropped_priority = 0 /\ dropped_total = 0
  /\ shutdown = FALSE
  /\ regular = <<>> /\ priority = <<>> /\ control = <<>>
  /\ sink \in {"open"} \cup (IF MayFail THEN {"none"} ELSE {}) /\ file = <<>> /\ durable = 0
  /\ writer = [pc |-> "select", command |-> None, swapped |-> 0]
  /\ phase = [t \in Threads |-> "idle"]
  /\ hand = [t \in Threads |-> None]
  /\ issued = 0
  /\ emitted = 0
  /\ backend = [pc |-> "idle", sensitive |-> FALSE]
  /\ calls = 0
  /\ answer = None
  /\ mark = {}
  /\ bundle = None

-----------------------------------------------------------------------------
(* event_with and enqueue, on any thread.                                  *)

\* The level is loaded: a record it does not allow is not built.
Allowed(lvl) == lvl = "trace" => level = "trace"

\* event_with and build_record: one load of `sensitive` decides the fields and
\* the label.  The loads of the level and of `sensitive` are one step here.
Build(t, lvl) ==
  /\ phase[t] = "idle"
  /\ Allowed(lvl)
  /\ issued' = issued + 1
  /\ hand' = [hand EXCEPT ![t] = Record(issued', t, Queue(lvl), sensitive, 0)]
  /\ phase' = [phase EXCEPT ![t] = "check"]

Emit(t, lvl) ==
  /\ emitted < MaxEvents
  /\ emitted' = emitted + 1
  /\ Build(t, lvl)
  /\ UNCHANGED <<settings, drops, shutdown, queues, control, store, writer, calling>>

Leave(t) ==
  /\ phase' = [phase EXCEPT ![t] = "idle"]
  /\ hand' = [hand EXCEPT ![t] = None]

Check(t) ==
  /\ phase[t] = "check"
  /\ IF shutdown THEN Leave(t)
     ELSE phase' = [phase EXCEPT ![t] = "send"] /\ UNCHANGED hand
  /\ UNCHANGED <<settings, drops, shutdown, queues, control, store, writer, issued,
                 emitted, calling>>

\* The receivers go when the writer ends.
HasRoom(queue, capacity) == writer.pc # "ended" /\ Len(queue) < capacity

\* try_send, or the first of the two counters when there is no room.
Send(t) ==
  /\ phase[t] = "send"
  /\ \/ /\ hand[t].queue = "priority" /\ HasRoom(priority, PriorityCapacity)
        /\ priority' = Append(priority, hand[t])
        /\ Leave(t)
        /\ UNCHANGED <<regular, drops>>
     \/ /\ hand[t].queue = "regular" /\ HasRoom(regular, RegularCapacity)
        /\ regular' = Append(regular, hand[t])
        /\ Leave(t)
        /\ UNCHANGED <<priority, drops>>
     \/ /\ hand[t].queue = "priority" /\ ~HasRoom(priority, PriorityCapacity)
        /\ dropped_priority' = dropped_priority + 1
        /\ phase' = [phase EXCEPT ![t] = "total"]
        /\ UNCHANGED <<queues, dropped_regular, dropped_total, hand>>
     \/ /\ hand[t].queue = "regular" /\ ~HasRoom(regular, RegularCapacity)
        /\ dropped_regular' = dropped_regular + 1
        /\ phase' = [phase EXCEPT ![t] = "total"]
        /\ UNCHANGED <<queues, dropped_priority, dropped_total, hand>>
  /\ UNCHANGED <<settings, shutdown, control, store, writer, issued, emitted, calling>>

CountTotal(t) ==
  /\ phase[t] = "total"
  /\ dropped_total' = dropped_total + 1
  /\ Leave(t)
  /\ UNCHANGED <<settings, dropped_regular, dropped_priority, shutdown, queues,
                 control, store, writer, issued, emitted, calling>>

Emitting(t) == Check(t) \/ Send(t) \/ CountTotal(t)

-----------------------------------------------------------------------------
(* The file.                                                               *)

\* disable_sink; or the sink has been disabled before.
Disabled ==
  /\ sink = "none" \/ MayFail
  /\ sink' = "none"
  /\ UNCHANGED <<file, durable>>

\* write_record: without a sink the record is lost; an error takes the sink.
Write(record) ==
  \/ /\ sink = "open"
     /\ file' = Append(file, record)
     /\ UNCHANGED <<sink, durable>>
  \/ Disabled

\* flush_sink.
Flush ==
  \/ sink = "open" /\ durable' = Len(file) /\ UNCHANGED <<sink, file>>
  \/ Disabled

\* A record of the priority queue is written and flushed at once.
WriteThrough(record) ==
  \/ /\ sink = "open"
     /\ file' = Append(file, record)
     /\ \/ durable' = Len(file') /\ UNCHANGED sink
        \/ MayFail /\ sink' = "none" /\ UNCHANGED durable
  \/ Disabled

-----------------------------------------------------------------------------
(* writer_loop, with select_biased over control, priority, regular, ticker.*)

At(pc) == writer.pc = pc
Goto(pc) == writer' = [writer EXCEPT !.pc = pc]

TakeCommand ==
  /\ At("select")
  /\ control # <<>>
  /\ control' = Tail(control)
  /\ writer' = [writer EXCEPT !.pc = "drain_priority", !.command = Head(control)]
  /\ UNCHANGED <<settings, drops, shutdown, queues, store, emission, calling>>

TakePriority ==
  /\ At("select")
  /\ control = <<>> /\ priority # <<>>
  /\ priority' = Tail(priority)
  /\ WriteThrough(Head(priority))
  /\ UNCHANGED <<settings, drops, shutdown, regular, control, writer, emission, calling>>

TakeRegular ==
  /\ At("select")
  /\ control = <<>> /\ priority = <<>> /\ regular # <<>>
  /\ regular' = Tail(regular)
  /\ Write(Head(regular))
  /\ UNCHANGED <<settings, drops, shutdown, priority, control, writer, emission, calling>>

Tick ==
  /\ At("select")
  /\ control = <<>> /\ priority = <<>> /\ regular = <<>>
  /\ Goto("swap_regular")
  /\ UNCHANGED <<settings, drops, shutdown, queues, control, store, emission, calling>>

\* Mutant: a command drains the priority queue alone.
DrainPriorityOnly ==
  /\ At("drain_priority")
  /\ \/ priority # <<>> /\ priority' = Tail(priority) /\ Write(Head(priority))
        /\ UNCHANGED writer
     \/ priority = <<>> /\ Goto("swap_regular") /\ UNCHANGED <<priority, store>>
  /\ UNCHANGED <<settings, drops, shutdown, regular, control, emission, calling>>

\* drain_records: the priority queue until it is empty, then the regular one.
DrainPriority ==
  /\ At("drain_priority")
  /\ \/ /\ priority # <<>>
        /\ priority' = Tail(priority)
        /\ Write(Head(priority))
        /\ UNCHANGED writer
     \/ /\ priority = <<>>
        /\ Goto("drain_regular")
        /\ UNCHANGED <<priority, store>>
  /\ UNCHANGED <<settings, drops, shutdown, regular, control, emission, calling>>

DrainRegular ==
  /\ At("drain_regular")
  /\ \/ /\ regular # <<>>
        /\ regular' = Tail(regular)
        /\ Write(Head(regular))
        /\ UNCHANGED writer
     \/ /\ regular = <<>>
        /\ Goto("swap_regular")
        /\ UNCHANGED <<regular, store>>
  /\ UNCHANGED <<settings, drops, shutdown, priority, control, emission, calling>>

\* Mutant: both counters are cleared before the second one is read.
SwapRegularClearsBoth ==
  /\ At("swap_regular")
  /\ writer' = [writer EXCEPT !.pc = "swap_priority", !.swapped = dropped_regular]
  /\ dropped_regular' = 0 /\ dropped_priority' = 0
  /\ UNCHANGED <<settings, dropped_total, shutdown, queues, control, store, emission,
                 calling>>

\* report_dropped_events swaps the two counters one after the other.
SwapRegular ==
  /\ At("swap_regular")
  /\ writer' = [writer EXCEPT !.pc = "swap_priority", !.swapped = dropped_regular]
  /\ dropped_regular' = 0
  /\ UNCHANGED <<settings, dropped_priority, dropped_total, shutdown, queues, control,
                 store, emission, calling>>

SwapPriority ==
  /\ At("swap_priority")
  /\ writer' = [writer EXCEPT !.pc = "report", !.swapped = @ + dropped_priority]
  /\ dropped_priority' = 0
  /\ UNCHANGED <<settings, dropped_regular, dropped_total, shutdown, queues, control,
                 store, emission, calling>>

\* The report and the flush that ends a tick or a command.
ReportAndFlush ==
  /\ At("report")
  /\ IF writer.swapped = 0 THEN Flush
     ELSE WriteThrough(Record(0, None, "priority", sensitive, writer.swapped))
  /\ writer' = [writer EXCEPT !.pc = IF writer.command = None THEN "select" ELSE "reply",
                              !.swapped = 0]
  /\ UNCHANGED <<settings, drops, shutdown, queues, control, emission, calling>>

\* Mutant: the loop does not end after Shutdown.
ReplyGoesOn ==
  /\ At("reply")
  /\ writer' = [pc |-> "select", command |-> None, swapped |-> 0]
  /\ answer' = IF backend.pc = "flush_wait" THEN sink ELSE answer
  /\ UNCHANGED <<settings, drops, shutdown, queues, control, store, emission, backend,
                 calls, mark, bundle>>

\* The reply to a command, which a call that has timed out no longer waits for.
Reply ==
  /\ At("reply")
  /\ writer' = [pc |-> IF writer.command.kind = "shutdown" THEN "ended" ELSE "select",
                command |-> None, swapped |-> 0]
  /\ answer' = IF backend.pc = "flush_wait" /\ writer.command.call = calls
               THEN sink ELSE answer
  /\ UNCHANGED <<settings, drops, shutdown, queues, control, store, emission, backend,
                 calls, mark, bundle>>

WriterStep ==
  \/ TakeCommand \/ TakePriority \/ TakeRegular \/ DrainPriority \/ DrainRegular
  \/ SwapRegular \/ SwapPriority \/ ReportAndFlush \/ Reply

-----------------------------------------------------------------------------
(* The backend thread.                                                     *)

Ready == phase[Backend] = "idle"
MoveTo(pc) == backend' = [pc |-> pc, sensitive |-> FALSE]

\* configure: the level first, then `sensitive`, then the flag that stays set.
StoreLevel(mode) ==
  /\ backend.pc = "idle" /\ Ready
  /\ calls < MaxCalls
  /\ calls' = calls + 1
  /\ level' = Level(mode)
  /\ backend' = [pc |-> "store_sensitive", sensitive |-> (mode = "sensitive")]
  /\ UNCHANGED <<sensitive, sensitive_ever_enabled, drops, shutdown, queues, control,
                 store, writer, emission, answer, mark, bundle>>

\* Mutant: the flag follows the setting, also when it is switched off.
StoreSensitiveClearsEver ==
  /\ backend.pc = "store_sensitive"
  /\ sensitive' = backend.sensitive
  /\ sensitive_ever_enabled' = backend.sensitive
  /\ MoveTo("event")
  /\ UNCHANGED <<level, drops, shutdown, queues, control, store, writer, emission,
                 calls, answer, mark, bundle>>

StoreSensitive ==
  /\ backend.pc = "store_sensitive"
  /\ sensitive' = backend.sensitive
  /\ MoveTo(IF backend.sensitive THEN "store_ever" ELSE "event")
  /\ UNCHANGED <<level, sensitive_ever_enabled, drops, shutdown, queues, control,
                 store, writer, emission, calls, answer, mark, bundle>>

StoreEver ==
  /\ backend.pc = "store_ever"
  /\ sensitive_ever_enabled' = TRUE
  /\ MoveTo("event")
  /\ UNCHANGED <<level, sensitive, drops, shutdown, queues, control, store, writer,
                 emission, calls, answer, mark, bundle>>

\* The record that ends configure and export_bundle, and that starts shutdown.
BackendEvent ==
  /\ backend.pc \in {"event", "stop_event"}
  /\ Build(Backend, "info")
  /\ mark' = {} /\ bundle' = None
  /\ MoveTo(IF backend.pc = "event" THEN "idle" ELSE "stop_swap")
  /\ UNCHANGED <<settings, drops, shutdown, queues, control, store, writer, emitted,
                 calls, answer>>

\* export_bundle: flush first.
Export ==
  /\ backend.pc = "idle" /\ Ready
  /\ calls < MaxCalls
  /\ calls' = calls + 1
  /\ mark' = Accepted
  /\ answer' = None
  /\ bundle' = None
  /\ MoveTo("flush_send")
  /\ UNCHANGED <<settings, drops, shutdown, queues, control, store, writer, emission>>

\* send_timeout of a command, for flush and for shutdown; it times out only
\* while the control channel is full.
SendCommand(from, kind, sent, failed) ==
  /\ backend.pc = from
  /\ \/ /\ Len(control) < ControlCapacity
        /\ control' = Append(control, [kind |-> kind, call |-> calls])
        /\ MoveTo(sent)
     \/ /\ Len(control) = ControlCapacity
        /\ MoveTo(failed)
        /\ UNCHANGED control
  /\ UNCHANGED <<settings, drops, shutdown, queues, store, writer, emission, calls,
                 answer, mark, bundle>>

SendFlush == SendCommand("flush_send", "flush", "flush_wait", "idle")

\* An error or a timeout of flush ends the export.
FlushReturns ==
  /\ backend.pc = "flush_wait"
  /\ MoveTo(IF answer = "open" THEN "sizes" ELSE "idle")
  /\ UNCHANGED <<settings, drops, shutdown, queues, control, store, writer, emission,
                 calls, answer, mark, bundle>>

\* log_parts: the sizes of the parts, at least what is durable, limit the copy.
Sizes ==
  /\ backend.pc = "sizes"
  /\ \E size \in durable..Len(file) :
       bundle' = [records |-> SubSeq(file, 1, size), privacy |-> None]
  /\ MoveTo("manifest")
  /\ UNCHANGED <<settings, drops, shutdown, queues, control, store, writer, emission,
                 calls, answer, mark>>

\* The manifest and the parts are written, or the unfinished bundle is removed.
Manifest ==
  /\ backend.pc = "manifest"
  /\ \/ /\ bundle' = [bundle EXCEPT !.privacy =
                        IF sensitive_ever_enabled THEN "sensitive" ELSE "redacted"]
        /\ MoveTo("event")
     \/ bundle' = None /\ MoveTo("idle")
  /\ UNCHANGED <<settings, drops, shutdown, queues, control, store, writer, emission,
                 calls, answer, mark>>

Stop ==
  /\ backend.pc = "idle" /\ Ready
  /\ MoveTo("stop_event")
  /\ UNCHANGED <<settings, drops, shutdown, queues, control, store, writer, emission,
                 calls, answer, mark, bundle>>

StopSwap ==
  /\ backend.pc = "stop_swap" /\ Ready
  /\ shutdown' = TRUE
  /\ mark' = Accepted
  /\ calls' = calls + 1
  /\ answer' = None
  /\ MoveTo("stop_send")
  /\ UNCHANGED <<settings, drops, queues, control, store, writer, emission, bundle>>

\* "unasked" is the join of a writer that was not told to end.
SendStop == SendCommand("stop_send", "shutdown", "stop_wait", "unasked")

\* The reply or its timeout; then the writer is joined.
StopReturns ==
  /\ backend.pc = "stop_wait"
  /\ MoveTo("join")
  /\ UNCHANGED <<settings, drops, shutdown, queues, control, store, writer, emission,
                 calls, answer, mark, bundle>>

Join ==
  /\ backend.pc \in {"join", "unasked"}
  /\ writer.pc = "ended"
  /\ MoveTo("stopped")
  /\ UNCHANGED <<settings, drops, shutdown, queues, control, store, writer, emission,
                 calls, answer, mark, bundle>>

BackendStep ==
  \/ StoreSensitive \/ StoreEver \/ BackendEvent
  \/ SendFlush \/ FlushReturns \/ Sizes \/ Manifest
  \/ StopSwap \/ SendStop \/ StopReturns \/ Join

Next ==
  \/ \E t \in Emitters, lvl \in Levels : Emit(t, lvl)
  \/ \E t \in Threads : Check(t) \/ Send(t) \/ CountTotal(t)
  \/ WriterStep
  \/ Tick
  \/ \E mode \in Modes : StoreLevel(mode)
  \/ Export
  \/ Stop
  \/ BackendStep

Spec == Init /\ [][Next]_vars

\* The writer and a thread inside a call of this module keep running, and the
\* ticker ticks.  Nothing obliges a thread to emit, configure, export or stop.
Fairness ==
  /\ WF_vars(WriterStep)
  /\ WF_vars(Tick)
  /\ \A t \in Threads : WF_vars(Emitting(t))
  /\ WF_vars(BackendStep)

FairSpec == Spec /\ Fairness

-----------------------------------------------------------------------------
(* Properties.                                                             *)

\* The types of the variables.
TypeOK ==
  /\ level \in {"info", "trace"}
  /\ {sensitive, sensitive_ever_enabled, shutdown} \subseteq BOOLEAN
  /\ {dropped_regular, dropped_priority, dropped_total} \subseteq Nat
  /\ Len(regular) \in 0..RegularCapacity
  /\ Len(priority) \in 0..PriorityCapacity
  /\ Len(control) \in 0..ControlCapacity
  /\ sink \in {"open", "none"}
  /\ durable \in 0..Len(file)
  /\ phase \in [Threads -> {"idle", "check", "send", "total"}]
  /\ \A t \in Threads : hand[t] = None <=> phase[t] = "idle"
  /\ Accepted \subseteq 0..issued
  /\ mark \subseteq 0..issued
  /\ answer \in {None, "open", "none"}

\* The losses that the records of s report: each one by its record and a number.
Reported(s) == UNION {{i} \X (1..s[i].drops) : i \in 1..Len(s)}
Written == Cardinality({i \in 1..Len(file) : file[i].thread # None})
Between(phases) == Cardinality({t \in Threads : phase[t] \in phases})

\* No record disappears silently: while the log works, each record that was
\* built is still in the hand of its thread, in a queue, in the file, or in
\* dropped_total, the number the user interface shows.
EveryRecordAccounted ==
  sink = "open" /\ ~shutdown =>
    issued = Between({"check", "send"}) + Len(regular) + Len(priority) + Written
               + Between({"total"}) + dropped_total

\* The records lost to full queues and those the file reports as lost agree,
\* up to what the counters and the writer hold, although the writer swaps the
\* counters one by one while other threads increment them.
DropsAreReported ==
  sink = "open" =>
    dropped_total + Between({"total"})
      = Cardinality(Reported(file)) + writer.swapped + dropped_regular + dropped_priority

\* What is lost is known, to the user interface and in the file.
NoSilentLoss == EveryRecordAccounted /\ DropsAreReported

\* An exported bundle holds every record accepted before the export began, also
\* when an earlier flush timed out and its command is still in the channel.
BundleIsComplete == bundle # None => mark \subseteq Ids(bundle.records)

\* A bundle whose manifest says "redacted" holds no record with sensitive
\* fields, although other threads read the setting while configure changes it.
BundlePrivacy ==
  bundle # None /\ bundle.privacy = "redacted" =>
    \A i \in 1..Len(bundle.records) : ~bundle.records[i].sensitive

\* An exported bundle is what its reader takes it for.
BundleSound == BundleIsComplete /\ BundlePrivacy

\* When shutdown returns and the file did not fail, every record accepted before
\* the shutdown flag was set is on disk.
StoppedIsDurable ==
  backend.pc = "stopped" /\ sink = "open" => mark \subseteq Ids(OnDisk)

\* When the writer waits for work, every warning and error it took is on disk:
\* a crash of the process loses none of them.
ErrorsAreDurable ==
  At("select") /\ sink = "open" =>
    \A i \in (durable + 1)..Len(file) : file[i].queue # "priority"

\* What the log accepted outlives its process.
AcceptedIsDurable == StoppedIsDurable /\ ErrorsAreDurable

\* Once the writer has its Shutdown command, shutdown returns, whatever times out.
\* The command is refused, and the join then waits for a writer that was never told
\* to end (mod.rs line 452), only behind a channel full of flushes that have all
\* timed out: after at least ControlCapacity exports.
ShutdownReturns ==
  /\ backend.pc = "stop_event" ~> backend.pc \in {"stopped", "unasked"}
  /\ [](backend.pc = "unasked" => calls > ControlCapacity)

=============================================================================
