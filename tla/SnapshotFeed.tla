---------------------------- MODULE SnapshotFeed ----------------------------
(***************************************************************************)
(* The publishing side of crates/taskmgr-core/src/runtime.rs: sample_pages,*)
(* publish_error, publish_latest and the bounded event channel between the *)
(* sampling worker and the thread that forwards events to the user         *)
(* interface.  When the worker samples is the subject of module Runtime;   *)
(* here any page may be sampled next.                                      *)
(*                                                                         *)
(* publish_latest repeats try_send and, while the channel is full, removes *)
(* the oldest event with try_recv.  Each of these calls is one step, so    *)
(* that the reader can run between them.                                   *)
(***************************************************************************)
EXTENDS Integers, Sequences

CONSTANTS
  Pages,      \* PageId::ALL
  Errors,     \* the errors a sample can end with: domain, code and context
  Capacity,   \* EVENT_CAPACITY
  MaxEvents,  \* bound: events the worker publishes
  None        \* no page, no error

ASSUME FeedAssumption ==
  /\ Capacity \in Nat \ {0}
  /\ MaxEvents \in Nat
  /\ None \notin Pages
  /\ None \notin Errors

VARIABLES
  log,         \* every event published so far; an event is its index in log
  hand,        \* the event publish_latest is sending, 0 when it is not running
  call,        \* what it calls next: "try_send", or "try_recv" on a full channel
  queue,       \* the event channel
  received,    \* the events the reader took from the channel, in order
  worker,      \* "running", or "stopped" once its Sender is dropped
  consumer,    \* "absent", "open", "left", or "ended" by the closed channel
  generation,  \* generations, 0 for a page without an entry
  last_good,   \* the generation whose data last_good holds, 0 for none
  logged       \* logged_page_errors: the error last logged for a page, or None

memory == <<generation, last_good, logged>>
vars == <<log, hand, call, queue, received, worker, consumer, memory>>

-----------------------------------------------------------------------------
(* Events.  `source` is the generation of the sample an event's data come  *)
(* from; an event without data has source 0.                               *)

Notice(kind) ==
  [kind |-> kind, page |-> None, generation |-> 0, source |-> 0, error |-> None]

Snapshot(p, gen, source, error) ==
  [kind |-> IF source = 0 THEN "unavailable" ELSE "snapshot",
   page |-> p, generation |-> gen, source |-> source, error |-> error]

StartNotices == <<"capabilities", "diagnostics">>
Started == Len(log) >= Len(StartNotices)

Init ==
  /\ log = <<>>
  /\ hand = 0
  /\ call = "try_send"
  /\ queue = <<>>
  /\ received = <<>>
  /\ worker = "running"
  /\ consumer = "absent"
  /\ generation = [p \in Pages |-> 0]
  /\ last_good = [p \in Pages |-> 0]
  /\ logged = [p \in Pages |-> None]

-----------------------------------------------------------------------------
(* The worker.                                                             *)

\* The worker enters publish_latest with a new event.
Publish(event) ==
  /\ worker = "running"
  /\ hand = 0
  /\ Len(log) < MaxEvents
  /\ log' = Append(log, event)
  /\ hand' = Len(log) + 1
  /\ UNCHANGED <<call, queue, received, worker, consumer>>

\* The two events that precede the first sample.
Announce ==
  /\ ~ Started
  /\ Publish(Notice(StartNotices[Len(log) + 1]))
  /\ UNCHANGED memory

\* handle_operation tells of a change of the diagnostics or the privilege.
NotifyChange(kind) ==
  /\ Started
  /\ Publish(Notice(kind))
  /\ UNCHANGED memory

\* Mutant: only the first good sample of a page is kept.
SampleSucceedsKeepsFirst(p) ==
  LET gen == generation[p] + 1
  IN  /\ Started
      /\ Publish(Snapshot(p, gen, gen, None))
      /\ generation' = [generation EXCEPT ![p] = gen]
      /\ last_good' = [last_good EXCEPT ![p] = IF @ = 0 THEN gen ELSE @]
      /\ logged' = [logged EXCEPT ![p] = None]

\* The provider returned data of the page it was asked for.
SampleSucceeds(p) ==
  LET gen == generation[p] + 1
  IN  /\ Started
      /\ Publish(Snapshot(p, gen, gen, None))
      /\ generation' = [generation EXCEPT ![p] = gen]
      /\ last_good' = [last_good EXCEPT ![p] = gen]
      /\ logged' = [logged EXCEPT ![p] = None]

\* Mutant: a candidate of the wrong page is stored as good.
SampleFailsStores(p, error) ==
  LET gen == generation[p] + 1
  IN  /\ Started
      /\ Publish(Snapshot(p, gen, last_good[p], error))
      /\ generation' = [generation EXCEPT ![p] = gen]
      /\ last_good' = [last_good EXCEPT ![p] = gen]
      /\ logged' = [logged EXCEPT ![p] = error]

\* The provider returned an error, or data of another page, which
\* sample_pages turns into one.  An error equal to the logged one is logged
\* again after REPEATED_ERROR_LOG_INTERVAL, which leaves `logged` as it is.
SampleFails(p, error) ==
  LET gen == generation[p] + 1
  IN  /\ Started
      /\ Publish(Snapshot(p, gen, last_good[p], error))
      /\ generation' = [generation EXCEPT ![p] = gen]
      /\ logged' = [logged EXCEPT ![p] = error]
      /\ UNCHANGED last_good

\* event_tx.try_send.  The worker itself keeps a receiver, so the channel is
\* never disconnected for it.
TrySend ==
  /\ hand # 0
  /\ call = "try_send"
  /\ IF Len(queue) < Capacity
       THEN queue' = Append(queue, hand) /\ hand' = 0 /\ call' = "try_send"
       ELSE call' = "try_recv" /\ UNCHANGED <<queue, hand>>
  /\ UNCHANGED <<log, received, worker, consumer, memory>>

\* Mutant: the channel is left as it is and the send retried.
DiscardNothing ==
  /\ call = "try_recv"
  /\ call' = "try_send"
  /\ UNCHANGED <<log, hand, queue, received, worker, consumer, memory>>

\* event_drop_rx.try_recv, whose result is ignored: the reader may have
\* emptied the channel since it was found full, or part of it.
DiscardOldest ==
  /\ call = "try_recv"
  /\ queue' = IF queue = <<>> THEN queue ELSE Tail(queue)
  /\ call' = "try_send"
  /\ UNCHANGED <<log, hand, received, worker, consumer, memory>>

\* The worker thread ends, after a shutdown or by a panic of the provider,
\* and drops the sender.  Neither happens inside publish_latest.
WorkerStops ==
  /\ worker = "running"
  /\ hand = 0
  /\ worker' = "stopped"
  /\ UNCHANGED <<log, hand, call, queue, received, consumer, memory>>

-----------------------------------------------------------------------------
(* The reader: the forwarding thread of watch_backend.                     *)

StartReading ==
  /\ consumer = "absent"
  /\ consumer' = "open"
  /\ UNCHANGED <<log, hand, call, queue, received, worker, memory>>

\* Mutant: the channel is read from its newest end.
ReceiveNewest ==
  /\ consumer = "open"
  /\ queue # <<>>
  /\ received' = Append(received, queue[Len(queue)])
  /\ queue' = SubSeq(queue, 1, Len(queue) - 1)
  /\ UNCHANGED <<log, hand, call, worker, consumer, memory>>

Receive ==
  /\ consumer = "open"
  /\ queue # <<>>
  /\ received' = Append(received, Head(queue))
  /\ queue' = Tail(queue)
  /\ UNCHANGED <<log, hand, call, worker, consumer, memory>>

\* sink.add failed: the Dart side is gone.
StopReading ==
  /\ consumer = "open"
  /\ consumer' = "left"
  /\ UNCHANGED <<log, hand, call, queue, received, worker, memory>>

\* Mutant: the closed channel ends the reader before it is empty.
EndReadingEarly ==
  /\ consumer = "open"
  /\ worker = "stopped"
  /\ consumer' = "ended"
  /\ UNCHANGED <<log, hand, call, queue, received, worker, memory>>

\* recv fails once the channel is closed and empty.
EndReading ==
  /\ consumer = "open"
  /\ worker = "stopped"
  /\ queue = <<>>
  /\ consumer' = "ended"
  /\ UNCHANGED <<log, hand, call, queue, received, worker, memory>>

Sample ==
  \E p \in Pages : SampleSucceeds(p) \/ \E e \in Errors : SampleFails(p, e)

Next ==
  \/ Announce
  \/ \E kind \in {"diagnostics", "privilege"} : NotifyChange(kind)
  \/ Sample
  \/ TrySend
  \/ DiscardOldest
  \/ WorkerStops
  \/ StartReading
  \/ Receive
  \/ StopReading
  \/ EndReading

Spec == Init /\ [][Next]_vars

\* A running thread is scheduled eventually.  Nothing makes the worker sample,
\* the reader start or the worker stop.
FairSpec ==
  /\ Spec
  /\ WF_vars(TrySend \/ DiscardOldest)
  /\ WF_vars(Receive \/ EndReading)

-----------------------------------------------------------------------------
(* Properties.                                                             *)

Events == [kind : {"capabilities", "diagnostics", "privilege", "snapshot", "unavailable"},
           page : Pages \cup {None}, generation : Nat, source : Nat,
           error : Errors \cup {None}]

\* The variables keep their types; try_recv is only called inside
\* publish_latest.
TypeOK ==
  /\ log \in Seq(Events)
  /\ hand \in {0, Len(log)}
  /\ call \in {"try_send", "try_recv"}
  /\ call = "try_recv" => hand # 0
  /\ queue \in Seq(Nat)
  /\ Len(queue) <= Capacity
  /\ received \in Seq(Nat)
  /\ worker \in {"running", "stopped"}
  /\ worker = "stopped" => hand = 0
  /\ consumer \in {"absent", "open", "left", "ended"}
  /\ generation \in [Pages -> Nat]
  /\ last_good \in [Pages -> Nat]
  /\ logged \in [Pages -> Errors \cup {None}]

\* The events publish_latest is done with.
Sent == IF hand = 0 THEN Len(log) ELSE Len(log) - 1

\* The events sent that were neither received nor are still in the channel.
Lost == Sent - Len(queue) - Len(received)

\* publish_latest never loses the newest event: the channel holds an unbroken
\* run of events that ends with the last one sent, and when it is empty and
\* nothing is being sent the reader has received that one.  (While a newer
\* event is being sent the last one sent may be lost, although the channel is
\* not full any more: the reader emptied it up to that event between try_send
\* and try_recv.)
NewestSurvives ==
  /\ \A i \in 1 .. Len(queue) : queue[i] = Sent - Len(queue) + i
  /\ queue = <<>> /\ hand = 0 /\ Sent > 0 =>
       received # <<>> /\ received[Len(received)] = Sent

\* An event is lost only to make room for another one: as long as no more than
\* Capacity events were published none is lost, and afterwards at most one for
\* each further event.  In particular the capabilities, published once and
\* first, reach a reader that starts before the channel overflows.
LostToMakeRoom ==
  Lost <= IF Len(log) > Capacity THEN Len(log) - Capacity ELSE 0

\* What the reader sees of a page only moves forward, whatever was lost in
\* between: each event of a page has a higher generation than the one before,
\* and its data are not older than those shown before.
PageNeverRegresses ==
  \A i, j \in DOMAIN received :
    LET before == log[received[i]]
        after == log[received[j]]
    IN  i < j /\ before.page = after.page /\ before.page # None =>
          /\ before.generation < after.generation
          /\ before.source <= after.source

\* The generations of the good samples of page p among the first n events.
Fresh(p, n) ==
  {log[i].source : i \in {k \in 1 .. n : log[k].page = p /\ log[k].error = None}}

\* sample_pages after a failure publishes the newest trusted data of that page
\* together with the error, and PageUnavailable only if there never were any
\* (README.md line 13, flutter-migration-plan.md line 72).
StaleIsNewestTrusted ==
  \A n \in DOMAIN log :
    LET event == log[n]
        trusted == Fresh(event.page, n - 1)
    IN  event.error # None =>
          /\ event.kind = "unavailable" <=> trusted = {}
          /\ event.kind = "snapshot" =>
               event.source \in trusted /\ \A s \in trusted : s <= event.source

\* The channel keeps the promises of LossyFeed.  The event in hand counts as
\* in the window: it is sent before another one is taken.
Feed == INSTANCE LossyFeed WITH
          offered <- Len(log),
          window <- IF hand = 0 THEN queue ELSE Append(queue, hand),
          closed <- worker = "stopped"
FeedSpec == Feed!Spec

\* publish_latest returns, also when nothing is read or the reader is gone: a
\* user interface that hangs never blocks sampling.  Once the worker has
\* stopped, a reader that stays receives what is left in the channel, up to the
\* last event published, and then ends.
FeedDrains ==
  /\ hand # 0 ~> hand = 0
  /\ (worker = "stopped" /\ consumer = "open")
       ~> (\/ consumer = "left"
           \/ /\ consumer = "ended"
              /\ log # <<>> => received # <<>> /\ received[Len(received)] = Len(log))
=============================================================================
