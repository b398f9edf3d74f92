------------------------------- MODULE Runtime -------------------------------
(***************************************************************************)
(* The control plane of crates/taskmgr-core/src/runtime.rs: the sampling   *)
(* worker, the mutex-protected PendingRefresh record, the two channels of  *)
(* capacity one (wake and operation) and the threads that call the public  *)
(* methods of BackendRuntime.  What a sample contains and how it is        *)
(* published is the subject of module SnapshotFeed; here a sample is only  *)
(* the page it is taken for.                                               *)
(*                                                                         *)
(* A step is what the code does between two points at which another thread *)
(* can be heard: one channel call, one critical section, or one call of    *)
(* the platform provider.                                                  *)
(***************************************************************************)
EXTENDS Integers, Sequences, FiniteSets

CONSTANTS
  Pages,        \* PageId::ALL
  Performance,  \* the page that is sampled for the status bar
  Rank,         \* position of a page in PageId::ALL, also its BTreeSet order
  Clients,      \* threads that call the runtime
  MaxCalls,     \* bound: public calls each thread makes
  None          \* no page, no client, no options

ASSUME RuntimeAssumption ==
  /\ IsFiniteSet(Pages)
  /\ Performance \in Pages
  /\ Rank \in [Pages -> Nat]
  /\ \A p, q \in Pages : Rank[p] = Rank[q] => p = q
  /\ MaxCalls \in [Clients -> Nat]
  /\ None \notin Pages
  /\ None \notin Clients

\* The two parts of BackendOptions the worker reads.  A paused update speed
\* is the one without an interval.
Options == [active : Pages, paused : BOOLEAN]

ASSUME NoneIsNoOption == None \notin Options

VARIABLES
  pending,    \* PendingRefresh: pages, options, shutdown
  wake,       \* the wake channel holds its one token
  operation,  \* the client whose request fills the operation channel, or None
  worker,     \* where the worker is
  options,    \* the worker's own copy of the options
  scheduled,  \* scheduled_pages
  prewarm,    \* the set of prewarm_pages
  sampling,   \* the page the provider is sampling, or None
  executing,  \* the client whose operation is running, or None
  panicked,   \* the worker thread ended by a panic
  client,     \* where each caller is
  reply,      \* what each caller's one-shot result channel holds
  outcome,    \* what each caller's last call returned
  calls       \* calls each caller may still make

\* Auxiliary variables, read by no action: they record what the properties
\* compare with.
VARIABLES
  latest,     \* the options of the last update_options that was accepted
  unshown,    \* a newly activated page has been applied but not yet sampled
  overtaken,  \* samples begun while an operation, or a wake-up, was waiting
  runs        \* how often the operation of a caller's current call was run

ghosts == <<latest, unshown, overtaken, runs>>
shared == <<pending, wake, operation>>
queues == <<options, scheduled, prewarm>>
callers == <<client, reply, outcome, calls>>
vars == <<shared, worker, queues, sampling, executing, panicked, callers, ghosts>>

-----------------------------------------------------------------------------
(* Page queues.  scheduled never holds a page twice (RuntimeProofs), so     *)
(* VecDeque::retain(|q| q != p) drops at most one entry.  prewarm_pages is  *)
(* filled once, in the order of PageId, and afterwards only loses entries:  *)
(* its contents determine it, and its front is the page of least Rank.      *)

InQueue(s, p) == \E i \in DOMAIN s : s[i] = p

Retain(s, p) ==
  IF InQueue(s, p)
    THEN LET i == CHOOSE k \in DOMAIN s : s[k] = p
         IN  SubSeq(s, 1, i - 1) \o SubSeq(s, i + 1, Len(s))
    ELSE s

Enqueue(s, p) == IF InQueue(s, p) THEN s ELSE Append(s, p)

Promote(s, p) == <<p>> \o Retain(s, p)

\* The pages of S in the order of PageId, as the only element of a set.
Ordered(S) ==
  {t \in [1 .. Cardinality(S) -> S] :
     \A i, j \in DOMAIN t : i < j => Rank[t[i]] < Rank[t[j]]}

Unqueued(s, S) == {p \in S : ~ InQueue(s, p)}

-----------------------------------------------------------------------------
Init ==
  /\ pending = [pages |-> {}, options |-> None, shutdown |-> FALSE]
  /\ wake = FALSE
  /\ operation = None
  /\ worker = "poll_operation"
  /\ options \in Options
  /\ scheduled = Enqueue(<<options.active>>, Performance)
  /\ prewarm = Unqueued(scheduled, Pages)
  /\ sampling = None
  /\ executing = None
  /\ panicked = FALSE
  /\ client = [c \in Clients |-> "idle"]
  /\ reply = [c \in Clients |-> "none"]
  /\ outcome = [c \in Clients |-> "none"]
  /\ calls = MaxCalls
  /\ latest = options
  /\ unshown = FALSE
  /\ overtaken = [operation |-> 0, wake |-> 0]
  /\ runs = [c \in Clients |-> 0]

-----------------------------------------------------------------------------
(* The callers.                                                            *)

WorkerGone == worker = "exited"

\* A caller begins a call: it moves to `next`, having already the result
\* `result` when the call returns at once.
BeginCall(c, next, result) ==
  /\ client[c] = "idle"
  /\ calls[c] > 0
  /\ calls' = [calls EXCEPT ![c] = @ - 1]
  /\ client' = [client EXCEPT ![c] = next]
  /\ outcome' = [outcome EXCEPT ![c] = result]
  /\ runs' = [runs EXCEPT ![c] = 0]
  /\ UNCHANGED <<worker, queues, sampling, executing, panicked, reply, unshown, overtaken>>

\* The call returns `result`.
EndCall(c, result) ==
  /\ client' = [client EXCEPT ![c] = "idle"]
  /\ outcome' = [outcome EXCEPT ![c] = result]
  /\ UNCHANGED <<worker, queues, sampling, executing, panicked, calls, ghosts>>

RefuseStopped(c) ==
  /\ pending.shutdown
  /\ BeginCall(c, "idle", "stopped")
  /\ UNCHANGED <<shared, latest>>

\* Mutant: the request is inserted as one element.
RequestRefreshNested(c, pages) ==
  /\ ~ pending.shutdown
  /\ pending' = [pending EXCEPT !.pages = @ \cup {pages}]
  /\ BeginCall(c, "notify", "none")
  /\ UNCHANGED <<wake, operation, latest>>

\* request_refresh(page), or of every page, up to the end of its critical
\* section.
RequestRefresh(c, pages) ==
  /\ ~ pending.shutdown
  /\ pending' = [pending EXCEPT !.pages = @ \cup pages]
  /\ BeginCall(c, "notify", "none")
  /\ UNCHANGED <<wake, operation, latest>>

\* Mutant: options that are already waiting are not replaced.
UpdateOptionsKeepsFirst(c, replacement) ==
  /\ ~ pending.shutdown
  /\ pending' = [pending EXCEPT !.options = IF @ = None THEN replacement ELSE @]
  /\ latest' = replacement
  /\ BeginCall(c, "notify", "none")
  /\ UNCHANGED <<wake, operation>>

\* update_options, up to the end of its critical section.
UpdateOptions(c, replacement) ==
  /\ ~ pending.shutdown
  /\ pending' = [pending EXCEPT !.options = replacement]
  /\ latest' = replacement
  /\ BeginCall(c, "notify", "none")
  /\ UNCHANGED <<wake, operation>>

\* Mutant: only a worker that is already blocked is woken.
NotifyWorkerIfBlocked(c) ==
  /\ client[c] = "notify"
  /\ wake' = (wake \/ worker = "select")
  /\ EndCall(c, IF WorkerGone THEN "stopped" ELSE "ok")
  /\ UNCHANGED <<pending, operation, reply>>

\* notify_worker, after the mutex was released.  A full channel is success.
NotifyWorker(c) ==
  /\ client[c] = "notify"
  /\ wake' = ~ WorkerGone
  /\ EndCall(c, IF WorkerGone THEN "stopped" ELSE "ok")
  /\ UNCHANGED <<pending, operation, reply>>

\* execute_action and open_privileged_session, up to their try_send.
SubmitOperation(c) ==
  /\ IF WorkerGone
       THEN BeginCall(c, "idle", "stopped") /\ UNCHANGED operation
     ELSE IF operation # None
       THEN BeginCall(c, "idle", "busy") /\ UNCHANGED operation
       ELSE BeginCall(c, "await", "none") /\ operation' = c
  /\ UNCHANGED <<pending, wake, latest>>

\* result_rx.recv(): the result, or an error once the sender was dropped.
ReceiveReply(c) ==
  /\ client[c] = "await"
  /\ reply[c] # "none"
  /\ EndCall(c, reply[c])
  /\ reply' = [reply EXCEPT ![c] = "none"]
  /\ UNCHANGED shared

\* shutdown: the first caller raises the flag, a later one returns at once.
BeginShutdown(c) ==
  /\ IF pending.shutdown
       THEN BeginCall(c, "idle", "ok") /\ UNCHANGED pending
       ELSE /\ BeginCall(c, "signal", "none")
            /\ pending' = [pending EXCEPT !.shutdown = TRUE]
  /\ UNCHANGED <<wake, operation, latest>>

\* Mutant: the worker is left to find the flag when it next wakes up.
SignalShutdownSilently(c) ==
  /\ client[c] = "signal"
  /\ client' = [client EXCEPT ![c] = "join"]
  /\ UNCHANGED <<shared, worker, queues, sampling, executing, panicked, reply, outcome,
                 calls, ghosts>>

\* shutdown: the wake-up, whose failure is ignored.
SignalShutdown(c) ==
  /\ client[c] = "signal"
  /\ wake' = ~ WorkerGone
  /\ client' = [client EXCEPT ![c] = "join"]
  /\ UNCHANGED <<pending, operation, worker, queues, sampling, executing,
                 panicked, reply, outcome, calls, ghosts>>

\* shutdown: JoinHandle::join.
JoinWorker(c) ==
  /\ client[c] = "join"
  /\ WorkerGone
  /\ EndCall(c, IF panicked THEN "panicked" ELSE "ok")
  /\ UNCHANGED <<shared, reply>>

ClientStep(c) ==
  \/ RefuseStopped(c)
  \/ \E p \in Pages : RequestRefresh(c, {p})
  \/ RequestRefresh(c, Pages)
  \/ \E o \in Options : UpdateOptions(c, o)
  \/ NotifyWorker(c)
  \/ SubmitOperation(c)
  \/ ReceiveReply(c)
  \/ BeginShutdown(c)
  \/ SignalShutdown(c)
  \/ JoinWorker(c)

-----------------------------------------------------------------------------
(* The worker.                                                             *)

\* Mutant: the request is read but stays in the channel.
TakeOperationPeeks ==
  /\ worker \in {"poll_operation", "select"}
  /\ operation # None
  /\ worker' = "operate"
  /\ executing' = operation
  /\ runs' = [runs EXCEPT ![operation] = @ + 1]
  /\ overtaken' = [overtaken EXCEPT !.operation = 0]
  /\ UNCHANGED <<shared, queues, sampling, panicked, callers, latest, unshown>>

\* operation_rx yields a request, at the top of the loop or in select!.
TakeOperation ==
  /\ worker \in {"poll_operation", "select"}
  /\ operation # None
  /\ worker' = "operate"
  /\ executing' = operation
  /\ operation' = None
  /\ runs' = [runs EXCEPT ![operation] = @ + 1]
  /\ overtaken' = [overtaken EXCEPT !.operation = 0]
  /\ UNCHANGED <<pending, wake, queues, sampling, panicked, callers, latest, unshown>>

NoOperation ==
  /\ worker = "poll_operation"
  /\ operation = None
  /\ worker' = "poll_wake"
  /\ UNCHANGED <<shared, queues, sampling, executing, panicked, callers, ghosts>>

\* handle_operation returns: the caller has its result.
FinishOperation ==
  /\ worker = "operate"
  /\ worker' = "poll_operation"
  /\ reply' = [reply EXCEPT ![executing] = "result"]
  /\ executing' = None
  /\ UNCHANGED <<shared, queues, sampling, panicked, client, outcome, calls, ghosts>>

\* wake_rx yields the token.
TakeWake ==
  /\ worker \in {"poll_wake", "select"}
  /\ wake
  /\ wake' = FALSE
  /\ worker' = "apply"
  /\ overtaken' = [overtaken EXCEPT !.wake = 0]
  /\ UNCHANGED <<pending, operation, queues, sampling, executing, panicked,
                 callers, latest, unshown, runs>>

NoWake ==
  /\ worker = "poll_wake"
  /\ ~ wake
  /\ worker' = "pick"
  /\ UNCHANGED <<shared, queues, sampling, executing, panicked, callers, ghosts>>

\* The queues after the options part of apply_pending_requests.
Activates(replacement) ==
  replacement # None /\ replacement.active # options.active

\* Mutant: the activated page waits behind what is already scheduled.
ActivatedScheduleAtEnd(replacement) ==
  IF Activates(replacement)
    THEN Enqueue(Enqueue(scheduled, replacement.active), Performance)
    ELSE scheduled

ActivatedSchedule(replacement) ==
  IF Activates(replacement)
    THEN Enqueue(Promote(scheduled, replacement.active), Performance)
    ELSE scheduled

ActivatedPrewarm(replacement) ==
  IF Activates(replacement)
    THEN prewarm \ {replacement.active, Performance}
    ELSE prewarm

\* enqueue_requested_pages before its loop: the active page to the front,
\* then Performance.
RequestedFirst(s, requested, active) ==
  LET promoted == IF active \in requested THEN Promote(s, active) ELSE s
  IN  IF Performance \in requested THEN Enqueue(promoted, Performance) ELSE promoted

\* apply_pending_requests: the record is emptied under the lock, also when
\* the shutdown flag then discards what it held.
ApplyPendingRequests ==
  /\ worker = "apply"
  /\ pending' = [pending EXCEPT !.pages = {}, !.options = None]
  /\ IF pending.shutdown
       THEN worker' = "exiting" /\ UNCHANGED <<queues, unshown>>
       ELSE LET now == IF pending.options = None THEN options ELSE pending.options
                first == RequestedFirst(ActivatedSchedule(pending.options),
                                        pending.pages, now.active)
            IN  /\ worker' = "poll_operation"
                /\ options' = now
                /\ \E rest \in Ordered(Unqueued(first, pending.pages)) :
                     scheduled' = first \o rest
                /\ prewarm' = ActivatedPrewarm(pending.options) \ pending.pages
                /\ unshown' = (unshown \/ Activates(pending.options))
  /\ UNCHANGED <<wake, operation, sampling, executing, panicked, callers,
                 latest, overtaken, runs>>

\* provider.sample(p) begins.
BeginSample(p) ==
  /\ worker = "pick"
  /\ worker' = "sample"
  /\ sampling' = p
  /\ unshown' = (unshown /\ p # options.active)
  /\ overtaken' = [operation |-> IF operation = None THEN 0 ELSE overtaken.operation + 1,
                   wake |-> IF wake THEN overtaken.wake + 1 ELSE 0]
  /\ UNCHANGED <<shared, options, executing, panicked, callers, latest, runs>>

SampleScheduled ==
  /\ scheduled # <<>>
  /\ BeginSample(Head(scheduled))
  /\ scheduled' = Tail(scheduled)
  /\ UNCHANGED prewarm

SamplePrewarm ==
  /\ scheduled = <<>>
  /\ \E p \in prewarm :
       /\ \A q \in prewarm : Rank[p] <= Rank[q]
       /\ BeginSample(p)
       /\ prewarm' = prewarm \ {p}
  /\ UNCHANGED scheduled

\* Mutant: the worker goes on to the next page without polling.
FinishSampleKeepsSampling ==
  /\ worker = "sample"
  /\ worker' = "pick"
  /\ sampling' = None
  /\ UNCHANGED <<shared, queues, executing, panicked, callers, ghosts>>

\* sample_pages returns.
FinishSample ==
  /\ worker = "sample"
  /\ worker' = "poll_operation"
  /\ sampling' = None
  /\ UNCHANGED <<shared, queues, executing, panicked, callers, ghosts>>

\* Both queues are empty: the worker blocks in select!.
BlockInSelect ==
  /\ worker = "pick"
  /\ scheduled = <<>>
  /\ prewarm = {}
  /\ worker' = "select"
  /\ UNCHANGED <<shared, queues, sampling, executing, panicked, callers, ghosts>>

\* Mutant: only the visible page is refreshed periodically.
PeriodElapsesActiveOnly ==
  /\ worker = "select"
  /\ ~ options.paused
  /\ worker' = "poll_operation"
  /\ scheduled' = Enqueue(scheduled, options.active)
  /\ UNCHANGED <<shared, options, prewarm, sampling, executing, panicked, callers, ghosts>>

\* The default branch of select!.  The timer may win against a message that
\* arrives at the same moment.
PeriodElapses ==
  /\ worker = "select"
  /\ ~ options.paused
  /\ worker' = "poll_operation"
  /\ scheduled' = Enqueue(Enqueue(scheduled, options.active), Performance)
  /\ UNCHANGED <<shared, options, prewarm, sampling, executing, panicked, callers, ghosts>>

\* The provider panics.  Unwinding drops the operation's result sender.
ProviderPanics ==
  /\ worker \in {"sample", "operate"}
  /\ worker' = "exiting"
  /\ panicked' = TRUE
  /\ sampling' = None
  /\ executing' = None
  /\ reply' = IF executing = None THEN reply ELSE [reply EXCEPT ![executing] = "lost"]
  /\ UNCHANGED <<shared, queues, client, outcome, calls, ghosts>>

\* The thread drops its ends of the channels.  An operation that was queued after
\* the last poll either goes with them, and with it the caller's result sender,
\* or stays in the channel for as long as BackendRuntime holds operation_tx: which
\* of the two is up to crossbeam-channel.
WorkerExits ==
  /\ worker = "exiting"
  /\ worker' = "exited"
  /\ wake' = FALSE
  /\ \/ UNCHANGED <<operation, reply>>
     \/ /\ operation # None
        /\ operation' = None
        /\ reply' = [reply EXCEPT ![operation] = "lost"]
  /\ UNCHANGED <<pending, queues, sampling, executing, panicked, client, outcome, calls, ghosts>>

\* Everything the worker does without the clock and without a panic.
WorkerStep ==
  \/ TakeOperation
  \/ NoOperation
  \/ FinishOperation
  \/ TakeWake
  \/ NoWake
  \/ ApplyPendingRequests
  \/ SampleScheduled
  \/ SamplePrewarm
  \/ FinishSample
  \/ BlockInSelect
  \/ WorkerExits

Next ==
  \/ \E c \in Clients : ClientStep(c)
  \/ WorkerStep
  \/ PeriodElapses
  \/ ProviderPanics

Spec == Init /\ [][Next]_vars

\* The worker is a thread the operating system keeps running, its timer
\* fires, and a caller that is inside a call goes on with it; nobody is
\* obliged to make another call, and no panic has to happen.
Fairness ==
  /\ WF_vars(WorkerStep)
  /\ WF_vars(PeriodElapses)
  /\ \A c \in Clients :
       WF_vars(NotifyWorker(c) \/ ReceiveReply(c) \/ SignalShutdown(c) \/ JoinWorker(c))

FairSpec == Spec /\ Fairness

-----------------------------------------------------------------------------
(* Properties.                                                             *)

WorkerStates ==
  {"poll_operation", "operate", "poll_wake", "apply", "pick", "sample", "select",
   "exiting", "exited"}

TypeOK ==
  /\ pending \in [pages : SUBSET Pages, options : Options \cup {None}, shutdown : BOOLEAN]
  /\ wake \in BOOLEAN
  /\ operation \in Clients \cup {None}
  /\ worker \in WorkerStates
  /\ options \in Options
  /\ scheduled \in Seq(Pages)
  /\ prewarm \in SUBSET Pages
  /\ sampling \in Pages \cup {None}
  /\ executing \in Clients \cup {None}
  /\ panicked \in BOOLEAN
  /\ client \in [Clients -> {"idle", "notify", "await", "signal", "join"}]
  /\ reply \in [Clients -> {"none", "result", "lost"}]
  /\ outcome \in [Clients -> {"none", "ok", "stopped", "busy", "result", "lost", "panicked"}]
  /\ calls \in [Clients -> Nat]
  /\ latest \in Options
  /\ unshown \in BOOLEAN
  /\ overtaken \in [operation : Nat, wake : Nat]
  /\ runs \in [Clients -> Nat]

HasPending == pending.pages # {} \/ pending.options # None \/ pending.shutdown

Stopping == worker \in {"exiting", "exited"}

(* Whatever the record asks for, refresh, options or shutdown, the worker  *)
(* will look at it: there is a token in the wake channel, or a caller that *)
(* is about to put one there, or the worker has just taken one.  Both the  *)
(* record and the token are written without a common lock.                 *)
NoLostWakeup ==
  HasPending => \/ wake
                \/ worker = "apply"
                \/ Stopping
                \/ \E c \in Clients : client[c] \in {"notify", "signal"}

(* Options are coalesced but the newest accepted ones are never lost: they *)
(* are still in the record or are the ones the worker runs with, whatever  *)
(* update_options calls and applications overlapped.                       *)
LatestOptionsWin ==
  ~ Stopping =>
    latest = IF pending.options = None THEN options ELSE pending.options

(* What a caller is told matches what was done: a result means the         *)
(* operation ran exactly once, and Busy or "stopped" that it never ran, so *)
(* that a retry of a destructive action after Busy cannot do it twice.     *)
ReplyMatchesExecution ==
  \A c \in Clients :
    /\ runs[c] <= 1
    /\ outcome[c] = "result" => runs[c] = 1
    /\ outcome[c] \in {"busy", "stopped"} => runs[c] = 0

(* Activation first (the comment at runtime.rs:266): from the moment a     *)
(* newly activated page is applied, no other page is sampled before it.    *)
ActivePageFirst ==
  [][sampling' # sampling /\ sampling' # None /\ unshown
       => sampling' = options.active]_vars

(* Prewarm is interrupted at every page boundary by actions and explicit   *)
(* refreshes (runtime.rs:267): at most one sample begins between the       *)
(* arrival of a request and the moment the worker takes it.                *)
InterruptedAtPageBoundary == overtaken.operation <= 1 /\ overtaken.wake <= 1

(* The request of caller c was still in the channel when the worker ended, *)
(* and is kept there.                                                      *)
Stranded(c) == WorkerGone /\ operation = c

(* No call blocks for ever: each public method returns, whether the worker *)
(* keeps running, is shut down by another thread or panics.  At most the   *)
(* one caller whose operation the worker left in the channel stays behind  *)
(* (recv at runtime.rs:146 and 172), never one whose operation was taken,  *)
(* a refresh, a change of options or the shutdown itself.                  *)
CallsReturn ==
  \A c \in Clients : client[c] # "idle" ~> (client[c] = "idle" \/ Stranded(c))

(* Every page an accepted refresh names is sampled, and unless it is       *)
(* paused the worker samples the visible page and the status bar's page    *)
(* for ever, until the worker stops.                                       *)
PagesAreSampled ==
  /\ \A p \in Pages : p \in pending.pages ~> (sampling = p \/ worker = "exited")
  /\ []<>(sampling = options.active \/ options.paused \/ worker = "exited")
  /\ []<>(sampling = Performance \/ options.paused \/ worker = "exited")

=============================================================================
