------------------------- MODULE SnapshotFeedProofs -------------------------
(***************************************************************************)
(* Machine-checked proofs about module SnapshotFeed, for any pages, errors,*)
(* channel capacity and number of events: its type invariant, its safety   *)
(* properties, and that it implements LossyFeed.                           *)
(***************************************************************************)
EXTENDS SnapshotFeed, SequenceTheorems, TLAPS

-----------------------------------------------------------------------------
(* Sequences.                                                              *)

\* Append adds one element and leaves the others.
LEMMA AppendLemma ==
  ASSUME NEW S, NEW s \in Seq(S), NEW e \in S
  PROVE  /\ Append(s, e) \in Seq(S)
         /\ Len(Append(s, e)) = Len(s) + 1
         /\ \A i \in 1 .. Len(s) : Append(s, e)[i] = s[i]
         /\ Append(s, e)[Len(s) + 1] = e
         /\ Append(s, e) # <<>>
BY AppendProperties

\* Tail removes the first element.
LEMMA TailLemma ==
  ASSUME NEW S, NEW s \in Seq(S), s # <<>>
  PROVE  /\ Tail(s) \in Seq(S)
         /\ Len(Tail(s)) = Len(s) - 1
         /\ \A i \in 1 .. Len(s) - 1 : Tail(s)[i] = s[i + 1]
         /\ Head(s) = s[1]
         /\ s[1] \in S
         /\ Len(s) \in Nat \ {0}
<1>1. Len(s) \in Nat \ {0}
  BY EmptySeq
<1>2. Tail(s) \in Seq(S) /\ Len(Tail(s)) = Len(s) - 1 /\ Head(s) = s[1] /\ s[1] \in S
  BY <1>1, HeadTailProperties
<1>3. \A i \in 1 .. Len(s) - 1 : Tail(s)[i] = s[i + 1]
  BY <1>1, HeadTailProperties
<1> QED BY <1>1, <1>2, <1>3

-----------------------------------------------------------------------------
(* The type invariant.                                                     *)

\* The conjuncts of TypeOK about what the worker remembers of the pages.
LEMMA EventTypes ==
  ASSUME NEW p \in Pages, NEW gen \in Nat, NEW src \in Nat,
         NEW e \in Errors \cup {None}
  PROVE  Snapshot(p, gen, src, e) \in Events
BY DEF Snapshot, Events

LEMMA InitTypeOK == Init => TypeOK
<1> SUFFICES ASSUME Init PROVE TypeOK
  OBVIOUS
<1>1. log \in Seq(Events) /\ queue \in Seq(Nat) /\ received \in Seq(Nat) /\ Len(queue) = 0 /\ Len(log) = 0
  BY EmptySeq DEF Init
<1> QED
  BY <1>1, FeedAssumption DEF Init, TypeOK

\* Taking up a new event, with what sampling remembers, keeps the types.
LEMMA PublishTypeOK ==
  ASSUME TypeOK, NEW event \in Events, Publish(event),
         generation' \in [Pages -> Nat], last_good' \in [Pages -> Nat],
         logged' \in [Pages -> Errors \cup {None}]
  PROVE  TypeOK'
<1>1. log' \in Seq(Events) /\ Len(log') = Len(log) + 1 /\ Len(log) \in Nat
  BY AppendLemma DEF TypeOK, Publish
<1> QED
  BY <1>1 DEF TypeOK, Publish

\* The worker runs and begins a sample of page p with outcome e.
LEMMA SampleTypeOK ==
  ASSUME TypeOK, NEW p \in Pages,
         \/ SampleSucceeds(p)
         \/ \E e \in Errors : SampleFails(p, e)
  PROVE  TypeOK'
<1> DEFINE gen == generation[p] + 1
<1>1. generation[p] \in Nat /\ gen \in Nat /\ last_good[p] \in Nat
  BY DEF TypeOK
<1>2. CASE SampleSucceeds(p)
  <2>1. Snapshot(p, gen, gen, None) \in Events
    BY <1>1, EventTypes
  <2>2. /\ Publish(Snapshot(p, gen, gen, None))
        /\ generation' = [generation EXCEPT ![p] = gen]
        /\ last_good' = [last_good EXCEPT ![p] = gen]
        /\ logged' = [logged EXCEPT ![p] = None]
    BY <1>2 DEF SampleSucceeds
  <2> HIDE DEF gen
  <2>3. /\ generation' \in [Pages -> Nat] /\ last_good' \in [Pages -> Nat]
        /\ logged' \in [Pages -> Errors \cup {None}]
    BY <1>1, <2>2 DEF TypeOK
  <2> QED BY <2>1, <2>2, <2>3, PublishTypeOK
<1>3. ASSUME NEW e \in Errors, SampleFails(p, e)
      PROVE  TypeOK'
  <2>1. Snapshot(p, gen, last_good[p], e) \in Events
    BY <1>1, EventTypes
  <2>2. /\ Publish(Snapshot(p, gen, last_good[p], e))
        /\ generation' = [generation EXCEPT ![p] = gen]
        /\ last_good' = last_good
        /\ logged' = [logged EXCEPT ![p] = e]
    BY <1>3 DEF SampleFails
  <2> HIDE DEF gen
  <2>3. /\ generation' \in [Pages -> Nat] /\ last_good' \in [Pages -> Nat]
        /\ logged' \in [Pages -> Errors \cup {None}]
    BY <1>1, <2>2 DEF TypeOK
  <2> QED BY <2>1, <2>2, <2>3, PublishTypeOK
<1> QED BY <1>2, <1>3

\* Events that are no snapshots keep the types.
LEMMA NoticeTypeOK ==
  ASSUME TypeOK,
         Announce \/ \E kind \in {"diagnostics", "privilege"} : NotifyChange(kind)
  PROVE  TypeOK'
<1>1. CASE Announce
  <2>1. Len(log) \in Nat /\ Len(log) < 2
    BY <1>1 DEF TypeOK, Announce, Started, StartNotices
  <2>2. StartNotices[Len(log) + 1] \in {"capabilities", "diagnostics"}
    <3>1. \A n \in Nat : n < 2 => n = 0 \/ n = 1
      OBVIOUS
    <3>2. Len(log) = 0 \/ Len(log) = 1
      BY ONLY <2>1, <3>1
    <3>3. CASE Len(log) = 0
      BY <3>3 DEF StartNotices
    <3>4. CASE Len(log) = 1
      BY <3>4 DEF StartNotices
    <3> QED BY <3>2, <3>3, <3>4
  <2>3. Notice(StartNotices[Len(log) + 1]) \in Events
    BY <2>2 DEF Notice, Events
  <2> QED
    BY <1>1, <2>3, PublishTypeOK DEF Announce, memory, TypeOK
<1>2. ASSUME NEW kind \in {"diagnostics", "privilege"}, NotifyChange(kind)
      PROVE  TypeOK'
  <2>1. Notice(kind) \in Events
    BY DEF Notice, Events
  <2> QED
    BY <1>2, <2>1, PublishTypeOK DEF NotifyChange, memory, TypeOK
<1> QED BY <1>1, <1>2

LEMMA StepTypeOK == TypeOK /\ [Next]_vars => TypeOK'
<1> SUFFICES ASSUME TypeOK, [Next]_vars PROVE TypeOK'
  OBVIOUS
<1>0. Len(log) \in Nat /\ Len(queue) \in Nat /\ hand \in Nat /\ Capacity \in Nat
  BY FeedAssumption, LenProperties DEF TypeOK
<1>1. CASE Announce \/ \E kind \in {"diagnostics", "privilege"} : NotifyChange(kind)
  BY <1>1, NoticeTypeOK
<1>2. CASE Sample
  BY <1>2, SampleTypeOK DEF Sample
<1>3. CASE TrySend
  <2>1. CASE Len(queue) < Capacity
    <3>0. queue' = Append(queue, hand) /\ queue \in Seq(Nat) /\ hand \in Nat
      BY <1>0, <1>3, <2>1 DEF TypeOK, TrySend
    <3>1. queue' \in Seq(Nat) /\ Len(queue') = Len(queue) + 1
      BY <3>0, AppendLemma
    <3> QED BY <1>0, <1>3, <2>1, <3>1 DEF TypeOK, TrySend, memory
  <2>2. CASE ~ (Len(queue) < Capacity)
    BY <1>3, <2>2 DEF TypeOK, TrySend, memory
  <2> QED BY <2>1, <2>2
<1>4. CASE DiscardOldest
  <2>1. CASE queue = <<>>
    BY <1>4, <2>1 DEF TypeOK, DiscardOldest, memory
  <2>2. CASE queue # <<>>
    <3>1. queue' \in Seq(Nat) /\ Len(queue') = Len(queue) - 1
      BY <1>4, <2>2, TailLemma DEF TypeOK, DiscardOldest
    <3> QED BY <1>0, <1>4, <3>1 DEF TypeOK, DiscardOldest, memory
  <2> QED BY <2>1, <2>2
<1>5. CASE Receive
  <2>1. queue' \in Seq(Nat) /\ Len(queue') = Len(queue) - 1 /\ Head(queue) \in Nat
    BY <1>5, TailLemma DEF TypeOK, Receive
  <2>2. received' \in Seq(Nat)
    BY <1>5, <2>1, AppendLemma DEF TypeOK, Receive
  <2> QED BY <1>0, <1>5, <2>1, <2>2 DEF TypeOK, Receive, memory
<1>6. CASE WorkerStops \/ StartReading \/ StopReading \/ EndReading
  BY <1>6 DEF TypeOK, WorkerStops, StartReading, StopReading, EndReading, memory
<1>7. CASE UNCHANGED vars
  BY <1>7 DEF TypeOK, vars, memory
<1> QED
  BY <1>1, <1>2, <1>3, <1>4, <1>5, <1>6, <1>7 DEF Next

\* The variables of the feed keep their types, for any number of events.
THEOREM TypeCorrect == Spec => []TypeOK
<1>1. TypeOK /\ [Next]_vars => TypeOK'
  BY StepTypeOK
<1> QED BY <1>1, InitTypeOK, PTL DEF Spec

-----------------------------------------------------------------------------
(* The channel.                                                            *)

Beyond(n) == IF n > Capacity THEN n - Capacity ELSE 0

\* What the reader has received precedes what the channel holds.
ReceivedPrecede ==
  /\ \A i \in 1 .. Len(received) :
       received[i] >= 1 /\ received[i] <= Sent - Len(queue)
  /\ \A i, j \in 1 .. Len(received) : i < j => received[i] < received[j]
  /\ queue = <<>> /\ hand = 0 /\ Sent > 0 =>
       received # <<>> /\ received[Len(received)] = Sent

\* No event is lost before the channel was found full, and at most one event
\* is lost between two sends: the channel is not full after try_recv.
RoomIsMadeOnce ==
  /\ Len(queue) + Len(received) <= Sent
  /\ Lost <= Beyond(Sent + (IF hand = 0 THEN 0 ELSE 1))
  /\ Len(queue) = Capacity => Lost <= Beyond(Sent)
  /\ call = "try_recv" => Lost <= Beyond(Sent) /\ Sent >= Capacity

QueueIsRun == \A i \in 1 .. Len(queue) : queue[i] = Sent - Len(queue) + i

ChannelInv == QueueIsRun /\ ReceivedPrecede /\ RoomIsMadeOnce

\* The lengths and counters are natural numbers.
LEMMA Numbers ==
  ASSUME TypeOK
  PROVE  /\ Len(log) \in Nat /\ Len(queue) \in Nat /\ Len(received) \in Nat
         /\ hand \in Nat /\ Capacity \in Nat /\ Capacity > 0
         /\ Sent \in Int /\ Lost = Sent - Len(queue) - Len(received)
         /\ hand # 0 => hand = Sent + 1 /\ Len(log) = Sent + 1
         /\ hand = 0 => Len(log) = Sent
         /\ Len(queue) <= Capacity
<1>1. Len(log) \in Nat /\ Len(queue) \in Nat /\ Len(received) \in Nat
  BY LenProperties DEF TypeOK
<1>2. hand \in {0, Len(log)} /\ Len(queue) <= Capacity
  BY DEF TypeOK
<1>3. Capacity \in Nat /\ Capacity > 0
  BY FeedAssumption
<1>4. Sent = IF hand = 0 THEN Len(log) ELSE Len(log) - 1
  BY DEF Sent
<1> HIDE DEF Sent
<1>5. /\ hand \in Nat /\ Sent \in Int
      /\ hand # 0 => hand = Sent + 1 /\ Len(log) = Sent + 1
      /\ hand = 0 => Len(log) = Sent
  BY <1>1, <1>2, <1>4
<1> QED BY <1>1, <1>2, <1>3, <1>5 DEF Lost

\* The sequences of the feed.
LEMMA FeedSequences ==
  ASSUME TypeOK
  PROVE  /\ queue \in Seq(Nat) /\ received \in Seq(Nat) /\ log \in Seq(Events)
         /\ queue = <<>> <=> Len(queue) = 0
         /\ DOMAIN received = 1 .. Len(received) /\ DOMAIN log = 1 .. Len(log)
<1>1. /\ queue \in Seq(Nat) /\ received \in Seq(Nat) /\ log \in Seq(Events)
  BY DEF TypeOK
<1> QED BY <1>1, EmptySeq, LenProperties

LEMMA InitChannel == Init => ChannelInv
<1> SUFFICES ASSUME Init PROVE ChannelInv
  OBVIOUS
<1>1. Len(queue) = 0 /\ Len(received) = 0 /\ Len(log) = 0 /\ hand = 0 /\ call = "try_send"
  BY EmptySeq DEF Init
<1>2. Sent = 0 /\ Lost = 0
  BY <1>1 DEF Sent, Lost
<1> QED
  BY <1>1, <1>2, FeedAssumption
  DEF ChannelInv, QueueIsRun, ReceivedPrecede, RoomIsMadeOnce, Beyond

\* A new event in hand leaves the channel as it is.
LEMMA PublishChannel ==
  ASSUME TypeOK, ChannelInv, NEW event \in Events, Publish(event)
  PROVE  ChannelInv'
<1>1. /\ Len(log') = Len(log) + 1 /\ hand = 0 /\ hand' = Len(log) + 1
      /\ queue' = queue /\ received' = received /\ call' = call
  BY FeedSequences, AppendLemma DEF Publish
<1>2. Len(log) \in Nat
  BY Numbers
<1>3. Sent' = Sent
  BY <1>1, <1>2 DEF Sent
<1>4. Lost' = Lost
  BY <1>1, <1>3 DEF Lost
<1> QED
  BY <1>1, <1>3, <1>4, Numbers
  DEF ChannelInv, QueueIsRun, ReceivedPrecede, RoomIsMadeOnce, Beyond

LEMMA TrySendChannel ==
  ASSUME TypeOK, ChannelInv, TrySend
  PROVE  ChannelInv'
<1>0. hand # 0 /\ call = "try_send" /\ log' = log /\ received' = received
  BY DEF TrySend
<1>1. CASE Len(queue) < Capacity
  <2>1. queue' = Append(queue, hand) /\ hand' = 0 /\ call' = "try_send"
    BY <1>1 DEF TrySend
  <2>2. /\ Len(queue') = Len(queue) + 1
        /\ \A i \in 1 .. Len(queue) : queue'[i] = queue[i]
        /\ queue'[Len(queue) + 1] = hand
        /\ queue' # <<>>
    <3>1. queue \in Seq(Nat) /\ hand \in Nat
      BY Numbers, FeedSequences
    <3> QED BY <2>1, <3>1, AppendLemma
  <2>3. Sent' = Sent + 1 /\ hand = Sent + 1 /\ Lost' = Lost
    BY <1>0, <2>1, <2>2, Numbers DEF Sent, Lost
  <2>4. QueueIsRun'
    <3> SUFFICES ASSUME NEW i \in 1 .. Len(queue')
                 PROVE  queue'[i] = Sent' - Len(queue') + i
      BY DEF QueueIsRun
    <3>1. CASE i \in 1 .. Len(queue)
      BY <2>2, <2>3, <3>1, Numbers DEF ChannelInv, QueueIsRun
    <3>2. CASE i = Len(queue) + 1
      BY <2>2, <2>3, <3>2, Numbers
    <3> QED BY <2>2, <3>1, <3>2, Numbers
  <2>5. ReceivedPrecede'
    BY <1>0, <2>2, <2>3, Numbers DEF ChannelInv, ReceivedPrecede
  <2>6. RoomIsMadeOnce'
    BY <1>0, <1>1, <2>1, <2>2, <2>3, Numbers DEF ChannelInv, RoomIsMadeOnce, Beyond
  <2> QED BY <2>4, <2>5, <2>6 DEF ChannelInv
<1>2. CASE ~ (Len(queue) < Capacity)
  <2>1. queue' = queue /\ hand' = hand /\ call' = "try_recv" /\ Len(queue) = Capacity
    BY <1>2, Numbers DEF TrySend
  <2>2. Sent' = Sent /\ Lost' = Lost
    BY <1>0, <2>1 DEF Sent, Lost
  <2> QED
    BY <1>0, <2>1, <2>2, Numbers
    DEF ChannelInv, QueueIsRun, ReceivedPrecede, RoomIsMadeOnce, Beyond
<1> QED BY <1>1, <1>2

LEMMA DiscardChannel ==
  ASSUME TypeOK, ChannelInv, DiscardOldest
  PROVE  ChannelInv'
<1>0. /\ call = "try_recv" /\ call' = "try_send" /\ log' = log /\ received' = received
      /\ hand' = hand /\ hand # 0
  BY DEF DiscardOldest, TypeOK
<1>1. Sent' = Sent
  BY <1>0 DEF Sent
<1>2. CASE queue = <<>>
  <2>1. queue' = queue
    BY <1>2 DEF DiscardOldest
  <2>2. Lost' = Lost
    BY <1>0, <1>1, <2>1 DEF Lost
  <2> QED
    BY <1>0, <1>1, <2>1, <2>2, Numbers
    DEF ChannelInv, QueueIsRun, ReceivedPrecede, RoomIsMadeOnce
<1>3. CASE queue # <<>>
  <2>1. queue' = Tail(queue)
    BY <1>3 DEF DiscardOldest
  <2>2. /\ Len(queue') = Len(queue) - 1 /\ Len(queue) >= 1
        /\ \A i \in 1 .. Len(queue) - 1 : queue'[i] = queue[i + 1]
    BY <1>3, <2>1, FeedSequences, TailLemma
  <2>3. Lost' = Lost + 1
    BY <1>0, <1>1, <2>2, Numbers DEF Lost
  <2>4. QueueIsRun'
    BY <1>1, <2>2, Numbers DEF ChannelInv, QueueIsRun
  <2>5. ReceivedPrecede'
    <3>1. /\ \A i \in 1 .. Len(received) :
               received[i] >= 1 /\ received[i] <= Sent - Len(queue)
          /\ \A i, j \in 1 .. Len(received) : i < j => received[i] < received[j]
      BY DEF ChannelInv, ReceivedPrecede
    <3>2. Sent - Len(queue) <= Sent - Len(queue')
      BY <2>2, Numbers
    <3>3. \A i \in 1 .. Len(received) : received[i] \in Nat
      BY FeedSequences, ElementOfSeq
    <3>4. \A i \in 1 .. Len(received) : received[i] <= Sent - Len(queue')
      <4>1. \A r \in Nat : \A m, k \in Int : r <= m /\ m <= k => r <= k
        OBVIOUS
      <4>2. Sent - Len(queue) \in Int /\ Sent - Len(queue') \in Int
        BY <2>2, Numbers
      <4> QED BY ONLY <3>1, <3>2, <3>3, <4>1, <4>2
    <3> QED BY <1>0, <1>1, <3>1, <3>4 DEF ReceivedPrecede
  <2>6. RoomIsMadeOnce'
    <3>1. /\ Len(queue) \in Nat /\ Len(queue') = Len(queue) - 1 /\ Len(queue) <= Capacity
          /\ Len(received) \in Nat /\ Sent \in Int /\ Capacity \in Nat /\ Capacity > 0
          /\ Lost' = Lost + 1 /\ Lost = Sent - Len(queue) - Len(received)
      BY <2>2, <2>3, Numbers
    <3>2. /\ Len(queue) + Len(received) <= Sent
          /\ Lost <= Beyond(Sent) /\ Sent >= Capacity
      BY <1>0 DEF ChannelInv, RoomIsMadeOnce
    <3>3. Len(queue') + Len(received') <= Sent' /\ Len(queue') # Capacity
      BY <1>0, <1>1, <3>1, <3>2
    <3>4. Lost' <= Beyond(Sent' + 1)
      BY <1>1, <3>1, <3>2 DEF Beyond
    <3> QED BY <1>0, <3>3, <3>4 DEF RoomIsMadeOnce
  <2> QED BY <2>4, <2>5, <2>6 DEF ChannelInv
<1> QED BY <1>2, <1>3

LEMMA ReceiveChannel ==
  ASSUME TypeOK, ChannelInv, Receive
  PROVE  ChannelInv'
<1>0. /\ queue # <<>> /\ queue' = Tail(queue) /\ received' = Append(received, Head(queue))
      /\ log' = log /\ hand' = hand /\ call' = call
  BY DEF Receive
<1>1. /\ Len(queue') = Len(queue) - 1 /\ Len(queue) >= 1
      /\ \A i \in 1 .. Len(queue) - 1 : queue'[i] = queue[i + 1]
      /\ Head(queue) = queue[1] /\ queue[1] \in Nat
      /\ queue' \in Seq(Nat)
  BY <1>0, FeedSequences, TailLemma
<1>2. /\ Len(received') = Len(received) + 1
      /\ \A i \in 1 .. Len(received) : received'[i] = received[i]
      /\ received'[Len(received) + 1] = queue[1]
      /\ received' # <<>>
  <2>1. received' = Append(received, queue[1]) /\ received \in Seq(Nat) /\ queue[1] \in Nat
    BY <1>0, <1>1, FeedSequences
  <2> QED BY <2>1, AppendLemma
<1>n. Len(queue) \in Nat /\ Len(received) \in Nat /\ Sent \in Int
  BY Numbers
<1>s. Sent' = Sent
  BY <1>0 DEF Sent
<1>l. Lost' = Lost
  BY <1>1, <1>2, <1>n, <1>s DEF Lost
<1>3. Sent' = Sent /\ Lost' = Lost
  BY <1>s, <1>l
<1>4. queue[1] = Sent - Len(queue) + 1
  BY <1>1, Numbers DEF ChannelInv, QueueIsRun
<1>5. QueueIsRun'
  <2> SUFFICES ASSUME NEW i \in 1 .. Len(queue')
               PROVE  queue'[i] = Sent - Len(queue') + i
    BY <1>3 DEF QueueIsRun
  <2>1. i + 1 \in 1 .. Len(queue) /\ i \in 1 .. Len(queue) - 1 /\ i \in Nat
    BY <1>1, <1>n
  <2>2. queue'[i] = queue[i + 1] /\ queue[i + 1] = Sent - Len(queue) + (i + 1)
    BY <1>1, <2>1 DEF ChannelInv, QueueIsRun
  <2>3. Len(queue') = Len(queue) - 1
    BY <1>1
  <2> QED BY ONLY <1>n, <2>1, <2>2, <2>3
<1>6. ReceivedPrecede'
  <2>1. \A i \in 1 .. Len(received) : received'[i] >= 1 /\ received'[i] <= Sent - Len(queue)
    BY <1>2 DEF ChannelInv, ReceivedPrecede
  <2>2. \A i, j \in 1 .. Len(received) : i < j => received'[i] < received'[j]
    BY <1>2 DEF ChannelInv, ReceivedPrecede
  <2>3. received'[Len(received')] = Sent - Len(queue) + 1
    BY <1>2, <1>4
  <2>4. Len(queue) <= Sent
    BY Numbers DEF ChannelInv, RoomIsMadeOnce
  <2>5. Len(queue') = 0 <=> queue' = <<>>
    BY <1>1, EmptySeq
  <2>6. \A i \in 1 .. Len(received') :
          received'[i] >= 1 /\ received'[i] <= Sent' - Len(queue')
    <3>1. Sent' - Len(queue') = Sent - Len(queue) + 1
      BY <1>1, <1>3, <1>n
    <3>2. \A i \in 1 .. Len(received) : received'[i] \in Nat
      BY <1>2, FeedSequences, ElementOfSeq
    <3>3. \A i \in 1 .. Len(received) : received'[i] <= Sent - Len(queue) + 1
      BY <1>n, <2>1, <3>2
    <3>4. \A i \in 1 .. Len(received') : i \in 1 .. Len(received) \/ i = Len(received')
      BY <1>2, <1>n
    <3>5. Sent - Len(queue) + 1 >= 1
      BY <1>n, <2>4
    <3> SUFFICES ASSUME NEW i \in 1 .. Len(received')
                 PROVE  received'[i] >= 1 /\ received'[i] <= Sent - Len(queue) + 1
      BY <3>1
    <3>6. CASE i \in 1 .. Len(received)
      BY <2>1, <3>3, <3>6
    <3>7. CASE i = Len(received')
      <4>1. received'[i] = Sent - Len(queue) + 1
        BY <2>3, <3>7
      <4> QED BY <1>n, <3>5, <4>1
    <3> QED BY <3>4, <3>6, <3>7
  <2>7. \A i, j \in 1 .. Len(received') : i < j => received'[i] < received'[j]
    <3> SUFFICES ASSUME NEW i \in 1 .. Len(received'), NEW j \in 1 .. Len(received'), i < j
                 PROVE  received'[i] < received'[j]
      OBVIOUS
    <3>1. CASE j \in 1 .. Len(received)
      <4>1. i \in 1 .. Len(received)
        BY <1>n, <1>2, <3>1
      <4> QED BY <2>2, <3>1, <4>1
    <3>2. CASE j = Len(received')
      <4>1. i \in 1 .. Len(received)
        BY <1>2, <3>2, Numbers
      <4>2. received'[i] <= Sent - Len(queue) /\ received'[i] \in Nat
        BY <1>2, <2>1, <4>1, FeedSequences, ElementOfSeq
      <4> QED BY <2>3, <3>2, <4>2, Numbers
    <3> QED BY <1>2, <3>1, <3>2, Numbers
  <2>8. queue' = <<>> => received'[Len(received')] = Sent'
    <3>1. ASSUME queue' = <<>> PROVE Len(queue) = 1
      BY <1>1, <1>n, <2>5, <3>1
    <3>2. ASSUME Len(queue) = 1 PROVE Sent - Len(queue) + 1 = Sent
      BY <1>n, <3>2
    <3> QED BY <1>3, <2>3, <3>1, <3>2
  <2> QED BY <1>2, <2>6, <2>7, <2>8 DEF ReceivedPrecede
<1>7. RoomIsMadeOnce'
  BY <1>0, <1>1, <1>2, <1>3, Numbers DEF ChannelInv, RoomIsMadeOnce, Beyond
<1> QED BY <1>5, <1>6, <1>7 DEF ChannelInv

-----------------------------------------------------------------------------
(* The history of the pages.                                               *)

\* Events of a page are bounded by what the worker remembers of it ...
LogBounded ==
  \A p \in Pages, n \in 1 .. Len(log) :
    log[n].page = p => /\ log[n].generation <= generation[p]
                       /\ log[n].source <= last_good[p]

\* ... and only move forward.
LogForward ==
  \A p \in Pages, m, n \in 1 .. Len(log) :
    log[m].page = p /\ log[n].page = p /\ m < n =>
      /\ log[m].generation < log[n].generation
      /\ log[m].source <= log[n].source

\* last_good is the newest trusted sample.
LastGoodIsNewest ==
  \A p \in Pages :
    \/ last_good[p] = 0 /\ Fresh(p, Len(log)) = {}
    \/ /\ last_good[p] # 0
       /\ last_good[p] \in Fresh(p, Len(log))
       /\ \A s \in Fresh(p, Len(log)) : s <= last_good[p]

LastGoodIsPast == \A p \in Pages : last_good[p] <= generation[p]

LogInv ==
  /\ LogBounded
  /\ LogForward
  /\ LastGoodIsNewest
  /\ LastGoodIsPast
  /\ StaleIsNewestTrusted

\* The log after one more event, taken field by field.
Grown(event) ==
  /\ Len(log') = Len(log) + 1
  /\ \A i \in 1 .. Len(log) : log'[i] = log[i]
  /\ log'[Len(log) + 1] = event
  /\ DOMAIN log' = 1 .. Len(log) + 1

LEMMA PublishGrows ==
  ASSUME TypeOK, NEW event \in Events, Publish(event)
  PROVE  Grown(event)
<1>1. log' = Append(log, event) /\ log \in Seq(Events)
  BY FeedSequences DEF Publish
<1>2. log' \in Seq(Events)
  BY <1>1, AppendLemma
<1> QED BY <1>1, <1>2, AppendLemma, LenProperties DEF Grown

\* A new event does not change what was fresh before it.
LEMMA FreshBefore ==
  ASSUME NEW event, Grown(event), Len(log) \in Nat,
         NEW q, NEW n \in Int, n <= Len(log)
  PROVE  Fresh(q, n)' = Fresh(q, n)
<1>1. \A k \in 1 .. n : log'[k] = log[k]
  BY DEF Grown
<1>2. {k \in 1 .. n : log'[k].page = q /\ log'[k].error = None} =
      {k \in 1 .. n : log[k].page = q /\ log[k].error = None}
  BY <1>1
<1>3. \A k \in {k \in 1 .. n : log[k].page = q /\ log[k].error = None} :
        log'[k].source = log[k].source
  BY <1>1
<1> DEFINE K == {k \in 1 .. n : log[k].page = q /\ log[k].error = None}
<1>4. Fresh(q, n)' = {log'[i].source : i \in K}
  BY <1>2 DEF Fresh
<1>5. Fresh(q, n) = {log[i].source : i \in K}
  BY DEF Fresh
<1>6. \A k \in K : log'[k].source = log[k].source
  BY <1>3
<1> HIDE DEF K
<1> QED BY <1>4, <1>5, <1>6

\* It is fresh itself exactly if it is a good sample of the page.
LEMMA FreshAfter ==
  ASSUME NEW event, Grown(event), Len(log) \in Nat, NEW q
  PROVE  Fresh(q, Len(log))' =
           Fresh(q, Len(log)) \cup
             (IF event.page = q /\ event.error = None THEN {event.source} ELSE {})
<1> DEFINE N == Len(log)
           K == {k \in 1 .. N : log[k].page = q /\ log[k].error = None}
           L == {k \in 1 .. N + 1 : log'[k].page = q /\ log'[k].error = None}
<1>1. \A k \in 1 .. N : log'[k] = log[k]
  BY DEF Grown
<1>2. log'[N + 1] = event /\ Len(log') = N + 1
  BY DEF Grown
<1>3. L = K \cup (IF event.page = q /\ event.error = None THEN {N + 1} ELSE {})
  <2>1. \A k : k \in 1 .. N + 1 <=> k \in 1 .. N \/ k = N + 1
    OBVIOUS
  <2>2. \A k : k \in L <=> k \in K \/ (k = N + 1 /\ event.page = q /\ event.error = None)
    <3>1. N + 1 \notin 1 .. N
      OBVIOUS
    <3> QED BY <1>1, <1>2, <2>1, <3>1
  <2> HIDE DEF K, L
  <2> QED BY <2>2
<1>4. Fresh(q, Len(log))' = {log'[i].source : i \in L}
  BY <1>2 DEF Fresh
<1>5. Fresh(q, Len(log)) = {log[i].source : i \in K}
  BY DEF Fresh
<1>6. \A k \in K : log'[k].source = log[k].source
  BY <1>1
<1> HIDE DEF K, L, N
<1> QED BY <1>2, <1>3, <1>4, <1>5, <1>6

\* A notice belongs to no page.
LEMMA NoticeLog ==
  ASSUME TypeOK, LogInv, NEW event \in Events, Publish(event),
         event.page = None, event.error = None,
         UNCHANGED <<generation, last_good>>
  PROVE  LogInv'
<1>n. Len(log) \in Nat
  BY Numbers
<1>g. Grown(event)
  BY PublishGrows
<1>0. /\ \A i \in 1 .. Len(log') : i \in 1 .. Len(log) \/ i = Len(log) + 1
      /\ Len(log') = Len(log) + 1
  BY <1>n, <1>g DEF Grown
<1>1. \A p \in Pages : p # event.page
  BY FeedAssumption
<1>2. LogBounded' /\ LogForward'
  BY <1>n, <1>g, <1>0, <1>1 DEF Grown, LogInv, LogBounded, LogForward
<1>3. \A p \in Pages : Fresh(p, Len(log))' = Fresh(p, Len(log))
  BY <1>n, <1>g, <1>1, FreshAfter
<1>4. LastGoodIsNewest' /\ LastGoodIsPast'
  BY <1>3 DEF LogInv, LastGoodIsNewest, LastGoodIsPast
<1>5. StaleIsNewestTrusted'
  <2> SUFFICES ASSUME NEW n \in 1 .. Len(log) + 1, log'[n].error # None
               PROVE  /\ log'[n].kind = "unavailable" <=> Fresh(log[n].page, n - 1)' = {}
                      /\ log'[n].kind = "snapshot" =>
                           /\ log'[n].source \in Fresh(log[n].page, n - 1)'
                           /\ \A s \in Fresh(log[n].page, n - 1)' : s <= log'[n].source
    BY <1>g DEF Grown, StaleIsNewestTrusted
  <2>1. n \in 1 .. Len(log)
    BY <1>n, <1>g DEF Grown
  <2>2. log'[n] = log[n]
    BY <1>g, <2>1 DEF Grown
  <2>3. Fresh(log[n].page, n - 1)' = Fresh(log[n].page, n - 1)
    <3>1. \A q : Fresh(q, n - 1)' = Fresh(q, n - 1)
      BY <1>n, <1>g, <2>1, FreshBefore
    <3> QED BY <2>2, <3>1
  <2>4. DOMAIN log = 1 .. Len(log)
    BY FeedSequences
  <2> QED BY <2>1, <2>2, <2>3, <2>4 DEF LogInv, StaleIsNewestTrusted
<1> QED BY <1>2, <1>4, <1>5 DEF LogInv

\* A sample of page p, good or failed.
LEMMA SampleLog ==
  ASSUME TypeOK, LogInv, NEW p \in Pages, NEW e \in Errors \cup {None},
         NEW gen \in Nat, gen = generation[p] + 1, NEW src \in Nat,
         \/ e = None /\ src = gen
         \/ e # None /\ src = last_good[p],
         Publish(Snapshot(p, gen, src, e)),
         generation' = [generation EXCEPT ![p] = gen],
         last_good' = [last_good EXCEPT ![p] = src]
  PROVE  LogInv'
<1> DEFINE event == Snapshot(p, gen, src, e)
<1>e. /\ event \in Events /\ event.page = p /\ event.generation = gen
      /\ event.source = src /\ event.error = e
      /\ event.kind = IF src = 0 THEN "unavailable" ELSE "snapshot"
  BY EventTypes DEF Snapshot
<1>p. Publish(event)
  OBVIOUS
<1> HIDE DEF event
<1>n. Len(log) \in Nat
  BY Numbers
<1>g. Grown(event)
  BY <1>e, <1>p, PublishGrows
<1>0. /\ \A i \in 1 .. Len(log') : i \in 1 .. Len(log) \/ i = Len(log) + 1
      /\ Len(log') = Len(log) + 1
      /\ log'[Len(log) + 1] = event
      /\ \A i \in 1 .. Len(log) : log'[i] = log[i]
  BY <1>n, <1>g DEF Grown
<1>t. /\ \A q \in Pages : generation[q] \in Nat /\ last_good[q] \in Nat
      /\ generation'[p] = gen /\ last_good'[p] = src
      /\ \A q \in Pages : q # p => generation'[q] = generation[q] /\ last_good'[q] = last_good[q]
  BY DEF TypeOK
<1>o. /\ generation[p] < gen /\ last_good[p] <= src /\ src <= gen
  BY <1>t DEF LogInv, LastGoodIsPast
<1>l. \A n \in 1 .. Len(log) : log[n].generation \in Nat /\ log[n].source \in Nat
  <2>1. \A n \in 1 .. Len(log) : log[n] \in Events
    BY FeedSequences, ElementOfSeq
  <2> QED BY <2>1 DEF Events
<1>b. \A n \in 1 .. Len(log) :
        log[n].page = p => log[n].generation < gen /\ log[n].source <= src
  <2> SUFFICES ASSUME NEW n \in 1 .. Len(log), log[n].page = p
               PROVE  log[n].generation < gen /\ log[n].source <= src
    OBVIOUS
  <2>1. log[n].generation <= generation[p] /\ log[n].source <= last_good[p]
    BY DEF LogInv, LogBounded
  <2> QED BY <1>l, <1>o, <1>t, <2>1
<1>1. LogBounded'
  <2> SUFFICES ASSUME NEW q \in Pages, NEW n \in 1 .. Len(log'), log'[n].page = q
               PROVE  log'[n].generation <= generation'[q] /\ log'[n].source <= last_good'[q]
    BY DEF LogBounded
  <2>1. CASE n \in 1 .. Len(log) /\ q = p
    BY <1>0, <1>b, <1>l, <1>t, <2>1
  <2>2. CASE n \in 1 .. Len(log) /\ q # p
    BY <1>0, <1>t, <2>2 DEF LogInv, LogBounded
  <2>3. CASE n = Len(log) + 1
    BY <1>0, <1>e, <1>t, <2>3
  <2> QED BY <1>0, <2>1, <2>2, <2>3
<1>2. LogForward'
  <2> SUFFICES ASSUME NEW q \in Pages, NEW m \in 1 .. Len(log'), NEW n \in 1 .. Len(log'),
                      log'[m].page = q, log'[n].page = q, m < n
               PROVE  /\ log'[m].generation < log'[n].generation
                      /\ log'[m].source <= log'[n].source
    BY DEF LogForward
  <2>1. m \in 1 .. Len(log)
    BY <1>0, <1>n
  <2>2. CASE n \in 1 .. Len(log)
    BY <1>0, <2>1, <2>2 DEF LogInv, LogForward
  <2>3. CASE n = Len(log) + 1
    <3>1. q = p /\ log'[n] = event
      BY <1>0, <1>e, <2>3
    <3>2. log'[m] = log[m]
      BY <1>0, <2>1
    <3> QED BY <1>b, <1>e, <2>1, <3>1, <3>2
  <2> QED BY <1>0, <2>2, <2>3
<1>f. \A q \in Pages :
        Fresh(q, Len(log))' = Fresh(q, Len(log)) \cup (IF q = p /\ e = None THEN {src} ELSE {})
  BY <1>e, <1>n, <1>g, FreshAfter
<1>3. LastGoodIsNewest'
  <2> SUFFICES ASSUME NEW q \in Pages
               PROVE  \/ last_good'[q] = 0 /\ Fresh(q, Len(log))' = {}
                      \/ /\ last_good'[q] # 0
                         /\ last_good'[q] \in Fresh(q, Len(log))'
                         /\ \A s \in Fresh(q, Len(log))' : s <= last_good'[q]
    BY DEF LastGoodIsNewest
  <2>0. \/ last_good[q] = 0 /\ Fresh(q, Len(log)) = {}
        \/ /\ last_good[q] # 0
           /\ last_good[q] \in Fresh(q, Len(log))
           /\ \A s \in Fresh(q, Len(log)) : s <= last_good[q]
    BY DEF LogInv, LastGoodIsNewest
  <2>1. CASE q # p
    BY <1>f, <1>t, <2>0, <2>1
  <2>2. CASE q = p /\ e # None
    BY <1>f, <1>t, <2>0, <2>2
  <2>3. CASE q = p /\ e = None
    <3>1. Fresh(q, Len(log))' = Fresh(q, Len(log)) \cup {src} /\ last_good'[q] = src
      BY <1>f, <1>t, <2>3
    <3>2. src # 0
      BY <1>o, <1>t, <2>3
    <3>3. \A s \in Fresh(q, Len(log)) : s <= src
      <4>1. \A s \in Fresh(q, Len(log)) : s \in Nat /\ s <= last_good[q]
        BY <1>l, <2>0 DEF Fresh
      <4> QED BY <1>o, <1>t, <2>3, <4>1
    <3> QED BY <3>1, <3>2, <3>3
  <2> QED BY <2>1, <2>2, <2>3
<1>4. LastGoodIsPast'
  BY <1>o, <1>t DEF LogInv, LastGoodIsPast
<1>5. StaleIsNewestTrusted'
  <2> SUFFICES ASSUME NEW n \in 1 .. Len(log) + 1, log'[n].error # None
               PROVE  /\ log'[n].kind = "unavailable" <=> Fresh(log[n].page, n - 1)' = {}
                      /\ log'[n].kind = "snapshot" =>
                           /\ log'[n].source \in Fresh(log[n].page, n - 1)'
                           /\ \A s \in Fresh(log[n].page, n - 1)' : s <= log'[n].source
    BY <1>g DEF Grown, StaleIsNewestTrusted
  <2>0. \A q : Fresh(q, n - 1)' = Fresh(q, n - 1)
    BY <1>n, <1>g, FreshBefore
  <2>1. CASE n \in 1 .. Len(log)
    <3>1. log'[n] = log[n]
      BY <1>0, <2>1
    <3>2. Fresh(log[n].page, n - 1)' = Fresh(log[n].page, n - 1)
      BY <2>0, <3>1
    <3>3. DOMAIN log = 1 .. Len(log)
      BY FeedSequences
    <3> QED BY <2>1, <3>1, <3>2, <3>3 DEF LogInv, StaleIsNewestTrusted
  <2>2. CASE n = Len(log) + 1
    <3>1. log'[n] = event /\ n - 1 = Len(log)
      BY <1>0, <1>n, <2>2
    <3>2. Fresh(log[n].page, n - 1)' = Fresh(p, Len(log))
      <4>1. log'[n].page = p
        BY <1>e, <3>1
      <4>2. Fresh(p, n - 1)' = Fresh(p, Len(log))
        BY <2>0, <3>1
      <4> QED BY <4>1, <4>2
    <3>3. e # None /\ src = last_good[p]
      BY <1>e, <3>1
    <3>4. \/ src = 0 /\ Fresh(p, Len(log)) = {}
          \/ /\ src # 0 /\ src \in Fresh(p, Len(log))
             /\ \A s \in Fresh(p, Len(log)) : s <= src
      BY <3>3 DEF LogInv, LastGoodIsNewest
    <3> QED BY <1>e, <3>1, <3>2, <3>4
  <2> QED BY <2>1, <2>2
<1> QED BY <1>1, <1>2, <1>3, <1>4, <1>5 DEF LogInv

-----------------------------------------------------------------------------
(* The inductive invariant.                                                *)

IInv == TypeOK /\ ChannelInv /\ LogInv

LEMMA InitIInv == Init => IInv
<1> SUFFICES ASSUME Init PROVE IInv
  OBVIOUS
<1>1. Len(log) = 0 /\ DOMAIN log = {} /\ last_good = [p \in Pages |-> 0] /\ generation = [p \in Pages |-> 0]
  BY EmptySeq DEF Init
<1>2. \A p \in Pages : Fresh(p, Len(log)) = {}
  <2>1. 1 .. Len(log) = {}
    BY <1>1
  <2> QED BY <2>1 DEF Fresh
<1>3. LogInv
  BY <1>1, <1>2
  DEF LogInv, LogBounded, LogForward, LastGoodIsNewest, LastGoodIsPast, StaleIsNewestTrusted
<1> QED BY <1>3, InitTypeOK, InitChannel DEF IInv

LEMMA StepIInv == IInv /\ [Next]_vars => IInv'
<1> SUFFICES ASSUME IInv, [Next]_vars PROVE IInv'
  OBVIOUS
<1>0. TypeOK /\ ChannelInv /\ LogInv
  BY DEF IInv
<1>t. TypeOK'
  BY <1>0, StepTypeOK
\* The steps that publish nothing leave the log and the pages alone.
<1>l. ASSUME UNCHANGED <<log, memory>> PROVE LogInv'
  <2>1. log' = log /\ last_good' = last_good /\ generation' = generation
    BY <1>l DEF memory
  <2>2. \A q, n : Fresh(q, n)' = Fresh(q, n)
    BY <2>1 DEF Fresh
  <2>3. LogBounded' /\ LogForward' /\ LastGoodIsPast'
    BY <1>0, <2>1 DEF LogInv, LogBounded, LogForward, LastGoodIsPast
  <2>4. LastGoodIsNewest'
    <3>1. \A q : Fresh(q, Len(log))' = Fresh(q, Len(log))
      BY <2>1 DEF Fresh
    <3> QED BY <1>0, <2>1, <3>1 DEF LogInv, LastGoodIsNewest
  <2>5. StaleIsNewestTrusted'
    BY <1>0, <2>1, <2>2 DEF LogInv, StaleIsNewestTrusted
  <2> QED BY <2>3, <2>4, <2>5 DEF LogInv
<1>1. CASE Announce
  <2>1. StartNotices[Len(log) + 1] \in {"capabilities", "diagnostics"}
    <3>1. Len(log) \in Nat /\ Len(log) < 2
      BY <1>0, <1>1, Numbers DEF Announce, Started, StartNotices
    <3>5. \A n \in Nat : n < 2 => n = 0 \/ n = 1
      OBVIOUS
    <3>2. Len(log) = 0 \/ Len(log) = 1
      BY ONLY <3>1, <3>5
    <3>3. CASE Len(log) = 0
      BY <3>3 DEF StartNotices
    <3>4. CASE Len(log) = 1
      BY <3>4 DEF StartNotices
    <3> QED BY <3>2, <3>3, <3>4
  <2> DEFINE event == Notice(StartNotices[Len(log) + 1])
  <2>2. event \in Events /\ event.page = None /\ event.error = None
    BY <2>1 DEF Notice, Events
  <2>3. Publish(event) /\ UNCHANGED <<generation, last_good>>
    BY <1>1 DEF Announce, memory
  <2> HIDE DEF event
  <2> QED BY <1>0, <1>t, <2>2, <2>3, PublishChannel, NoticeLog DEF IInv
<1>2. ASSUME NEW kind \in {"diagnostics", "privilege"}, NotifyChange(kind)
      PROVE  IInv'
  <2> DEFINE event == Notice(kind)
  <2>2. event \in Events /\ event.page = None /\ event.error = None
    BY DEF Notice, Events
  <2>3. Publish(event) /\ UNCHANGED <<generation, last_good>>
    BY <1>2 DEF NotifyChange, memory
  <2> HIDE DEF event
  <2> QED BY <1>0, <1>t, <2>2, <2>3, PublishChannel, NoticeLog DEF IInv
<1>3. ASSUME NEW p \in Pages, NEW e \in Errors \cup {None},
             \/ SampleSucceeds(p) /\ e = None
             \/ SampleFails(p, e) /\ e \in Errors
      PROVE  IInv'
  <2> DEFINE gen == generation[p] + 1
             src == IF e = None THEN gen ELSE last_good[p]
  <2>1. gen \in Nat /\ src \in Nat
    BY <1>0 DEF TypeOK
  <2>2. /\ Publish(Snapshot(p, gen, src, e))
        /\ generation' = [generation EXCEPT ![p] = gen]
        /\ last_good' = [last_good EXCEPT ![p] = src]
    <3>1. CASE SampleSucceeds(p) /\ e = None
      BY <3>1 DEF SampleSucceeds
    <3>2. CASE SampleFails(p, e) /\ e \in Errors
      <4>1. e # None
        BY <3>2, FeedAssumption
      <4>2. last_good = [last_good EXCEPT ![p] = last_good[p]]
        BY <1>0 DEF TypeOK
      <4> QED BY <3>2, <4>1, <4>2 DEF SampleFails
    <3> QED BY <1>3, <3>1, <3>2
  <2>3. Snapshot(p, gen, src, e) \in Events
    BY <2>1, EventTypes
  <2>4. (e = None /\ src = gen) \/ (e # None /\ src = last_good[p])
    OBVIOUS
  <2>5. gen = generation[p] + 1
    OBVIOUS
  <2> HIDE DEF gen, src
  <2>6. LogInv'
    BY <1>0, <2>1, <2>2, <2>4, <2>5, SampleLog
  <2>7. ChannelInv'
    BY <1>0, <2>2, <2>3, PublishChannel
  <2> QED BY <1>t, <2>6, <2>7 DEF IInv
<1>4. CASE Sample
  BY <1>3, <1>4 DEF Sample
<1>5. CASE TrySend
  <2>1. UNCHANGED <<log, memory>>
    BY <1>5 DEF TrySend
  <2> QED BY <1>0, <1>t, <1>5, <1>l, <2>1, TrySendChannel DEF IInv
<1>6. CASE DiscardOldest
  <2>1. UNCHANGED <<log, memory>>
    BY <1>6 DEF DiscardOldest
  <2> QED BY <1>0, <1>t, <1>6, <1>l, <2>1, DiscardChannel DEF IInv
<1>7. CASE Receive
  <2>1. UNCHANGED <<log, memory>>
    BY <1>7 DEF Receive
  <2> QED BY <1>0, <1>t, <1>7, <1>l, <2>1, ReceiveChannel DEF IInv
<1>8. CASE WorkerStops \/ StartReading \/ StopReading \/ EndReading \/ UNCHANGED vars
  <2>1. UNCHANGED <<log, hand, call, queue, received, memory>>
    BY <1>8 DEF WorkerStops, StartReading, StopReading, EndReading, vars
  <2>2. ChannelInv'
    BY <1>0, <2>1
    DEF ChannelInv, QueueIsRun, ReceivedPrecede, RoomIsMadeOnce, Sent, Lost
  <2> QED BY <1>t, <1>l, <2>1, <2>2 DEF IInv
<1> QED
  BY <1>1, <1>2, <1>4, <1>5, <1>6, <1>7, <1>8 DEF Next

LEMMA Invariance == Spec => []IInv
<1>1. IInv /\ [Next]_vars => IInv'
  BY StepIInv
<1> QED BY <1>1, InitIInv, PTL DEF Spec

-----------------------------------------------------------------------------
(* What follows from it.                                                   *)

\* The newest event published is never lost, whatever the reader does between
\* try_send and try_recv.
THEOREM NewestIsKept == Spec => []NewestSurvives
<1>1. IInv => NewestSurvives
  BY DEF IInv, ChannelInv, QueueIsRun, ReceivedPrecede, NewestSurvives
<1> QED BY <1>1, Invariance, PTL

\* Nothing is lost before Capacity events, and then one event for one event.
THEOREM LossIsBounded == Spec => []LostToMakeRoom
<1>1. IInv => LostToMakeRoom
  <2> SUFFICES ASSUME IInv PROVE LostToMakeRoom
    OBVIOUS
  <2>1. TypeOK /\ RoomIsMadeOnce
    BY DEF IInv, ChannelInv
  <2>2. Len(log) = Sent + (IF hand = 0 THEN 0 ELSE 1)
    BY <2>1, Numbers
  <2>3. Lost <= Beyond(Len(log))
    BY <2>1, <2>2 DEF RoomIsMadeOnce
  <2> QED BY <2>3 DEF Beyond, LostToMakeRoom
<1> QED BY <1>1, Invariance, PTL

\* What the reader sees of a page only moves forward.
THEOREM PagesMoveForward == Spec => []PageNeverRegresses
<1>1. IInv => PageNeverRegresses
  <2> SUFFICES ASSUME IInv, NEW i \in DOMAIN received, NEW j \in DOMAIN received, i < j,
                      log[received[i]].page = log[received[j]].page,
                      log[received[i]].page # None
               PROVE  /\ log[received[i]].generation < log[received[j]].generation
                      /\ log[received[i]].source <= log[received[j]].source
    BY DEF PageNeverRegresses
  <2>1. TypeOK /\ ReceivedPrecede /\ RoomIsMadeOnce /\ LogForward
    BY DEF IInv, ChannelInv, LogInv
  <2>2. i \in 1 .. Len(received) /\ j \in 1 .. Len(received)
    BY <2>1, FeedSequences
  <2>3. /\ received[i] \in Nat /\ received[j] \in Nat
        /\ received[i] >= 1 /\ received[i] <= Sent - Len(queue)
        /\ received[j] >= 1 /\ received[j] <= Sent - Len(queue)
        /\ received[i] < received[j]
    BY <2>1, <2>2, FeedSequences, ElementOfSeq DEF ReceivedPrecede
  <2>4. Sent - Len(queue) <= Len(log) /\ Sent - Len(queue) \in Int /\ Len(log) \in Nat
    <3>1. Sent <= Len(log) /\ Len(queue) \in Nat /\ Sent \in Int /\ Len(log) \in Nat
      BY <2>1, Numbers
    <3> QED BY <3>1
  <2>5. received[i] \in 1 .. Len(log) /\ received[j] \in 1 .. Len(log)
    BY <2>3, <2>4
  <2>6. log[received[i]].page \in Pages
    <3>1. log[received[i]] \in Events
      BY <2>1, <2>5, FeedSequences, ElementOfSeq
    <3> QED BY <3>1 DEF Events
  <2> QED BY <2>1, <2>3, <2>5, <2>6 DEF LogForward
<1> QED BY <1>1, Invariance, PTL

\* A failed sample republishes the newest trusted data of its page.
THEOREM TrustedDataRetained == Spec => []StaleIsNewestTrusted
<1>1. IInv => StaleIsNewestTrusted
  BY DEF IInv, LogInv
<1> QED BY <1>1, Invariance, PTL

-----------------------------------------------------------------------------
(* The refinement of LossyFeed.                                            *)

window == IF hand = 0 THEN queue ELSE Append(queue, hand)

\* The window of the refinement mapping, and its loss, in terms of the queue.
LEMMA WindowLemma ==
  ASSUME IInv
  PROVE  /\ window \in Seq(Nat)
         /\ Len(window) = Len(queue) + (IF hand = 0 THEN 0 ELSE 1)
         /\ Len(log) - Len(window) - Len(received) = Lost
<1>1. TypeOK
  BY DEF IInv
<1>2. CASE hand = 0
  <2>1. window = queue /\ queue \in Seq(Nat)
    BY <1>1, <1>2, FeedSequences DEF window
  <2>2. Len(log) = Sent /\ Lost = Sent - Len(queue) - Len(received)
    BY <1>1, <1>2, Numbers
  <2>3. Len(queue) = Len(queue) + 0
    BY <1>1, Numbers
  <2> QED BY <1>2, <2>1, <2>2, <2>3
<1>3. CASE hand # 0
  <2>1. window = Append(queue, hand)
    BY <1>3 DEF window
  <2>2. window \in Seq(Nat) /\ Len(window) = Len(queue) + 1
    <3>1. queue \in Seq(Nat) /\ hand \in Nat
      BY <1>1, Numbers, FeedSequences
    <3> QED BY <2>1, <3>1, AppendLemma
  <2>3. Len(log) - (Len(queue) + 1) - Len(received) = Lost
    BY <1>1, <1>3, Numbers
  <2> QED BY <1>3, <2>2, <2>3
<1> QED BY <1>2, <1>3

\* The tail of a sequence with one more element.
LEMMA TailAppend ==
  ASSUME NEW s \in Seq(Nat), s # <<>>, NEW e \in Nat
  PROVE  Tail(Append(s, e)) = Append(Tail(s), e) /\ Head(Append(s, e)) = Head(s)
BY HeadTailAppend

\* The event channel keeps the promises of LossyFeed: sampling offers an
\* event, a successful try_send and a fruitless one stutter, and try_recv
\* loses the oldest event if it finds one.
THEOREM ImplementsLossyFeed == Spec => FeedSpec
<1>1. Init => Feed!Init
  BY EmptySeq DEF Init, Feed!Init
<1>2. IInv /\ [Next]_vars => [Feed!Next]_(Feed!vars)
  <2> SUFFICES ASSUME IInv, [Next]_vars
               PROVE  Feed!Next \/ UNCHANGED Feed!vars
    OBVIOUS
  <2>t. TypeOK
    BY DEF IInv
  <2>0. /\ worker \in {"running", "stopped"}
        /\ worker = "stopped" => hand = 0
        /\ call = "try_recv" => hand # 0
    BY <2>t DEF TypeOK
  <2>1. ASSUME NEW event \in Events, Publish(event)
        PROVE  Feed!Offer
    <3>1. /\ worker = "running" /\ worker' = worker /\ hand = 0
          /\ queue' = queue /\ received' = received /\ log' = Append(log, event)
          /\ hand' = Len(log) + 1
      BY <2>1 DEF Publish
    <3>2. Len(log') = Len(log) + 1 /\ Len(log) \in Nat /\ hand' # 0
      BY <2>t, <3>1, Numbers, FeedSequences, AppendLemma
    <3> QED BY <3>1, <3>2 DEF Feed!Offer
  <2>2. CASE Announce
    <3>1. Publish(Notice(StartNotices[Len(log) + 1]))
      BY <2>2 DEF Announce
    <3>2. Len(log) \in Nat /\ Len(log) < 2
      BY <2>t, <2>2, Numbers DEF Announce, Started, StartNotices
    <3>3. \A n \in Nat : n < 2 => n = 0 \/ n = 1
      OBVIOUS
    <3>4. Len(log) = 0 \/ Len(log) = 1
      BY ONLY <3>2, <3>3
    <3>5. StartNotices[Len(log) + 1] \in {"capabilities", "diagnostics"}
      <4>1. CASE Len(log) = 0
        BY <4>1 DEF StartNotices
      <4>2. CASE Len(log) = 1
        BY <4>2 DEF StartNotices
      <4> QED BY <3>4, <4>1, <4>2
    <3>6. Notice(StartNotices[Len(log) + 1]) \in Events
      BY <3>5 DEF Notice, Events
    <3> QED BY <2>1, <3>1, <3>6 DEF Feed!Next
  <2>3. ASSUME NEW kind \in {"diagnostics", "privilege"}, NotifyChange(kind)
        PROVE  Feed!Next
    <3>1. Notice(kind) \in Events
      BY DEF Notice, Events
    <3> QED BY <2>1, <2>3, <3>1 DEF NotifyChange, Feed!Next
  <2>4. CASE Sample
    <3>1. \A p \in Pages : generation[p] + 1 \in Nat /\ last_good[p] \in Nat
      BY <2>t DEF TypeOK
    <3>2. ASSUME NEW p \in Pages, SampleSucceeds(p) PROVE Feed!Next
      <4>1. Snapshot(p, generation[p] + 1, generation[p] + 1, None) \in Events
        BY <3>1, EventTypes
      <4> QED BY <2>1, <3>2, <4>1 DEF SampleSucceeds, Feed!Next
    <3>3. ASSUME NEW p \in Pages, NEW e \in Errors, SampleFails(p, e) PROVE Feed!Next
      <4>1. Snapshot(p, generation[p] + 1, last_good[p], e) \in Events
        BY <3>1, EventTypes
      <4> QED BY <2>1, <3>3, <4>1 DEF SampleFails, Feed!Next
    <3> QED BY <2>4, <3>2, <3>3 DEF Sample
  <2>5. CASE TrySend
    <3>1. CASE Len(queue) < Capacity
      BY <2>5, <3>1 DEF TrySend, Feed!vars
    <3>2. CASE ~ (Len(queue) < Capacity)
      BY <2>5, <3>2 DEF TrySend, Feed!vars
    <3> QED BY <3>1, <3>2
  <2>6. CASE DiscardOldest
    <3>0. /\ hand # 0 /\ hand' = hand /\ log' = log /\ received' = received
          /\ worker' = worker /\ worker # "stopped"
      BY <2>0, <2>6 DEF DiscardOldest
    <3>1. CASE queue = <<>>
      BY <2>6, <3>0, <3>1 DEF DiscardOldest, Feed!vars
    <3>2. CASE queue # <<>>
      <4>1. queue' = Tail(queue)
        BY <2>6, <3>2 DEF DiscardOldest
      <4>2. queue \in Seq(Nat) /\ hand \in Nat /\ Len(queue) \in Nat \ {0}
        BY <2>t, <3>2, Numbers, FeedSequences
      <4>3. Tail(Append(queue, hand)) = Append(queue', hand)
        BY <3>2, <4>1, <4>2, TailAppend
      <4>4. Len(window) > 1
        <5>1. Len(window) = Len(queue) + 1
          BY <3>0, WindowLemma
        <5> QED BY <4>2, <5>1
      <4>5. Lost + Capacity < Len(log)
        <5>1. Lost <= Beyond(Sent) /\ Sent >= Capacity
          BY <2>6 DEF DiscardOldest, IInv, ChannelInv, RoomIsMadeOnce
        <5>2. Lost <= Sent - Capacity
          <6>1. Sent \in Int /\ Capacity \in Nat
            BY <2>t, Numbers
          <6> QED BY <5>1, <6>1 DEF Beyond
        <5>3. Len(log) = Sent + 1 /\ Sent \in Int /\ Capacity \in Nat
          BY <2>t, <3>0, Numbers
        <5>4. Lost \in Int
          BY <2>t, Numbers
        <5> QED BY <5>2, <5>3, <5>4
      <4>6. Len(log) - Len(window) - Len(received) + Capacity < Len(log)
        BY <4>5, WindowLemma
      <4>7. window = Append(queue, hand)
        BY <3>0 DEF window
      <4>8. Feed!Lose
        BY <3>0, <4>3, <4>4, <4>6, <4>7 DEF Feed!Lose, Feed!Lost
      <4> QED BY <4>8 DEF Feed!Next
    <3> QED BY <3>1, <3>2
  <2>7. CASE Receive
    <3>0. /\ queue # <<>> /\ queue' = Tail(queue) /\ received' = Append(received, Head(queue))
          /\ log' = log /\ hand' = hand /\ worker' = worker
      BY <2>7 DEF Receive
    <3>1. queue \in Seq(Nat) /\ hand \in Nat
      BY <2>t, Numbers, FeedSequences
    <3>2. CASE hand = 0
      BY <3>0, <3>2 DEF Feed!Next, Feed!Receive
    <3>3. CASE hand # 0
      <4>1. /\ Tail(Append(queue, hand)) = Append(queue', hand)
            /\ Head(Append(queue, hand)) = Head(queue)
        BY <3>0, <3>1, TailAppend
      <4>2. Append(queue, hand) # <<>>
        BY <3>1, AppendLemma
      <4> QED BY <3>0, <3>3, <4>1, <4>2 DEF Feed!Next, Feed!Receive
    <3> QED BY <3>2, <3>3
  <2>8. CASE WorkerStops
    BY <2>0, <2>8 DEF WorkerStops, Feed!Next, Feed!Close
  <2>9. CASE StartReading \/ StopReading \/ EndReading \/ UNCHANGED vars
    BY <2>9 DEF StartReading, StopReading, EndReading, vars, Feed!vars
  <2> QED
    BY <2>2, <2>3, <2>4, <2>5, <2>6, <2>7, <2>8, <2>9 DEF Next
<1> QED BY <1>1, <1>2, Invariance, PTL DEF Spec, FeedSpec, Feed!Spec
=============================================================================
