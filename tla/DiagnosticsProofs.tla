--------------------------- MODULE DiagnosticsProofs ---------------------------
(***************************************************************************)
(* Machine-checked proofs about module Diagnostics, for any number of      *)
(* threads and records and any capacities.                                 *)
(***************************************************************************)
EXTENDS Diagnostics, SequenceTheorems, FiniteSetTheorems, TLAPS

-----------------------------------------------------------------------------
(* Sequences of records.                                                   *)

\* Append adds one element and leaves the others.
LEMMA AppendAdds ==
  ASSUME NEW S, NEW s \in Seq(S), NEW e \in S
  PROVE  /\ Append(s, e) \in Seq(S)
         /\ Len(Append(s, e)) = Len(s) + 1
         /\ \A x \in 1 .. Len(s) : Append(s, e)[x] = s[x]
         /\ Append(s, e)[Len(s) + 1] = e
         /\ Len(s) \in Nat
  BY AppendProperties, LenProperties

\* Tail removes the first element.
LEMMA TailRemoves ==
  ASSUME NEW S, NEW s \in Seq(S), s # <<>>
  PROVE  /\ Tail(s) \in Seq(S)
         /\ Len(Tail(s)) = Len(s) - 1
         /\ \A x \in 1 .. Len(s) - 1 : Tail(s)[x] = s[x + 1]
         /\ Head(s) = s[1] /\ s[1] \in S
         /\ Len(s) \in Nat \ {0}
  BY HeadTailProperties, EmptySeq

\* The records of a sequence that carry sensitive fields.
Private(s) == \E i \in 1..Len(s) : s[i].sensitive

LEMMA AppendRecord ==
  ASSUME NEW s \in Seq(Records), NEW r \in Records
  PROVE  /\ Ids(Append(s, r)) = Ids(s) \cup {r.id}
         /\ Private(Append(s, r)) <=> Private(s) \/ r.sensitive
<1>1. /\ Len(Append(s, r)) = Len(s) + 1 /\ Len(s) \in Nat
      /\ \A x \in 1 .. Len(s) : Append(s, r)[x] = s[x]
      /\ Append(s, r)[Len(s) + 1] = r
  BY AppendAdds
<1>2. 1 .. Len(s) + 1 = 1 .. Len(s) \cup {Len(s) + 1}
  BY <1>1
<1>3. Ids(Append(s, r)) = Ids(s) \cup {r.id}
  BY <1>1, <1>2 DEF Ids
<1>4. Private(Append(s, r)) <=> Private(s) \/ r.sensitive
  BY <1>1, <1>2 DEF Private
<1> QED
  BY <1>3, <1>4

LEMMA TailRecord ==
  ASSUME NEW s \in Seq(Records), s # <<>>
  PROVE  /\ Head(s) \in Records
         /\ Ids(s) = Ids(Tail(s)) \cup {Head(s).id}
         /\ Private(s) <=> Private(Tail(s)) \/ Head(s).sensitive
<1>1. /\ Len(Tail(s)) = Len(s) - 1 /\ Len(s) \in Nat \ {0}
      /\ \A x \in 1 .. Len(s) - 1 : Tail(s)[x] = s[x + 1]
      /\ Head(s) = s[1] /\ s[1] \in Records
  BY TailRemoves
<1>2. \A x \in 1 .. Len(s) : x = 1 \/ (x - 1 \in 1 .. Len(s) - 1 /\ Tail(s)[x - 1] = s[x])
  BY <1>1
<1>3. \A x \in 1 .. Len(s) - 1 : x + 1 \in 1 .. Len(s)
  BY <1>1
<1>4. 1 \in 1 .. Len(s)
  BY <1>1
<1>5. Ids(s) = Ids(Tail(s)) \cup {Head(s).id}
  BY <1>1, <1>2, <1>3, <1>4 DEF Ids
<1>6. Private(s) <=> Private(Tail(s)) \/ Head(s).sensitive
  BY <1>1, <1>2, <1>3, <1>4 DEF Private
<1> QED
  BY <1>1, <1>5, <1>6

\* A part of the file from its beginning.
LEMMA PartRecords ==
  ASSUME NEW s \in Seq(Records), NEW n \in 0..Len(s)
  PROVE  /\ SubSeq(s, 1, n) \in Seq(Records)
         /\ Ids(SubSeq(s, 1, n)) = {s[i].id : i \in 1..n}
         /\ Private(SubSeq(s, 1, n)) => Private(s)
<1>1. Len(s) \in Nat /\ \A i \in 1..Len(s) : s[i] \in Records
  BY LenProperties, ElementOfSeq
<1>2. \A i \in 1..n : s[i] \in Records
  BY <1>1
<1>3. /\ SubSeq(s, 1, n) \in Seq(Records) /\ Len(SubSeq(s, 1, n)) = n
      /\ \A i \in 1..n : SubSeq(s, 1, n)[i] = s[1 + i - 1]
  BY <1>1, <1>2, SubSeqProperties
<1>4. \A i \in 1..n : SubSeq(s, 1, n)[i] = s[i] /\ i \in 1..Len(s)
  BY <1>1, <1>3
<1>5. Ids(SubSeq(s, 1, n)) = {s[i].id : i \in 1..n}
  BY <1>3, <1>4 DEF Ids
<1>6. Private(SubSeq(s, 1, n)) => Private(s)
  BY <1>3, <1>4 DEF Private
<1> QED
  BY <1>3, <1>5, <1>6

-----------------------------------------------------------------------------
(* The inductive invariant.                                                *)

WriterPlaces ==
  {"select", "drain_priority", "drain_regular", "swap_regular", "swap_priority", "report",
   "reply", "ended"}
StopPlaces == {"stop_wait", "join", "unasked", "stopped"}
BackendPlaces ==
  {"idle", "store_sensitive", "store_ever", "event", "flush_send", "flush_wait", "sizes",
   "manifest", "stop_event", "stop_swap", "stop_send"} \cup StopPlaces

Commands == [kind : {"flush", "shutdown"}, call : Nat]

Typed ==
  /\ regular \in Seq(Records) /\ priority \in Seq(Records) /\ file \in Seq(Records)
  /\ durable \in 0..Len(file)
  /\ sink \in {"open", "none"}
  /\ control \in Seq(Commands)
  /\ phase \in [Threads -> {"idle", "check", "send", "total"}]
  /\ hand \in [Threads -> Records \cup {None}]
  /\ issued \in Nat /\ calls \in Nat
  /\ writer \in [pc : WriterPlaces, command : Commands \cup {None}, swapped : Nat]
  /\ backend \in [pc : BackendPlaces, sensitive : BOOLEAN]
  /\ {dropped_regular, dropped_priority} \subseteq Nat
  /\ {sensitive, sensitive_ever_enabled} \subseteq BOOLEAN

\* Each record has an id of its own, so that one still in the hand of its thread
\* is not among those accepted before.
HandsOK ==
  /\ Accepted \cup mark \subseteq 0..issued
  /\ \A t \in Threads : phase[t] # "idle" =>
       /\ hand[t] \in Records
       /\ hand[t].id \in 1..issued
       /\ hand[t].id \notin Accepted \cup mark
  /\ \A t, u \in Threads :
       t # u /\ phase[t] # "idle" /\ phase[u] # "idle" => hand[t].id # hand[u].id

\* What waits in the regular queue is no error, so that writing it leaves no
\* error off the disk.
RegularOK == \A i \in 1..Len(regular) : regular[i].queue = "regular"

\* The writer serves a command, or none at all; when it answers, it has flushed.
WriterOK ==
  /\ At("select") => writer.command = None
  /\ writer.pc \in {"drain_priority", "drain_regular", "reply"} => writer.command \in Commands
  /\ At("reply") => writer.command # None
  /\ At("reply") /\ sink = "open" => durable = Len(file)

\* A command is of this call or of one that has timed out; the shutdown command is
\* the last one, and without it the writer does not end.
IsLate(command) ==
  /\ command.call <= calls
  /\ command.kind = "shutdown" => command.call = calls /\ backend.pc \in StopPlaces

CommandsOK ==
  /\ \A i \in 1..Len(control) : IsLate(control[i])
  /\ writer.command # None => IsLate(writer.command)
  /\ At("ended") => backend.pc \in StopPlaces
  /\ backend.pc = "stopped" => At("ended")

\* Where the records are that had been accepted when the call began, as the writer
\* serves its command.
Serving == writer.command # None /\ writer.command.call = calls

MarkOK ==
  /\ sink = "open" =>
       /\ mark \subseteq Accepted
       /\ Serving /\ At("drain_regular") => mark \subseteq Ids(regular) \cup Ids(file)
       /\ Serving /\ writer.pc \in {"swap_regular", "swap_priority", "report", "reply"}
            => mark \subseteq Ids(file)
       /\ At("ended") => mark \subseteq Ids(OnDisk)
  /\ backend.pc \in {"flush_send", "flush_wait"} /\ answer = "open" => mark \subseteq Ids(OnDisk)
  /\ backend.pc = "sizes" => mark \subseteq Ids(OnDisk)

\* A record with sensitive fields was built after the setting was switched on, and
\* then the flag is set before the backend does anything else.
PrivacyOK ==
  \/ sensitive_ever_enabled
  \/ backend.pc = "store_ever"
  \/ /\ ~sensitive
     /\ ~Private(regular) /\ ~Private(priority) /\ ~Private(file)
     /\ \A t \in Threads : phase[t] # "idle" => ~hand[t].sensitive

BundleOK ==
  /\ bundle # None => backend.pc \in {"manifest", "event"}
  /\ bundle # None \/ backend.pc = "manifest" =>
       /\ mark \subseteq Ids(bundle.records)
       /\ sensitive_ever_enabled \/ ~Private(bundle.records)
  /\ bundle # None /\ bundle.privacy = "redacted" => ~Private(bundle.records)
  /\ backend.pc = "manifest" =>
       \E records \in Seq(Records) : bundle = [records |-> records, privacy |-> None]

DiagnosticsInv ==
  /\ Typed
  /\ HandsOK
  /\ RegularOK
  /\ WriterOK
  /\ CommandsOK
  /\ MarkOK
  /\ PrivacyOK
  /\ BundleOK
  /\ ErrorsAreDurable

-----------------------------------------------------------------------------
(* What a step does to the file.                                           *)

\* The file grows by record r at most, and what is on disk stays there; unless the
\* sink is lost, the record is in the file.
Adds(r) ==
  /\ sink' \in {"open", "none"} /\ (sink' = "open" => sink = "open")
  /\ file' \in Seq(Records) /\ durable' \in 0..Len(file')
  /\ Ids(file) \subseteq Ids(file)' /\ Ids(file)' \subseteq Ids(file) \cup {r.id}
  /\ Ids(OnDisk) \subseteq Ids(OnDisk)'
  /\ Private(file)' => Private(file) \/ r.sensitive
  /\ sink' = "open" => r.id \in Ids(file)'

\* What is on disk stays there when the file grows.
LEMMA DiskKeeps ==
  ASSUME Typed, NEW f \in Seq(Records), NEW d \in 0..Len(f), durable <= d, Len(file) <= Len(f),
         \A i \in 1..Len(file) : f[i] = file[i]
  PROVE  Ids(OnDisk) \subseteq Ids(SubSeq(f, 1, d))
<1>1. file \in Seq(Records) /\ durable \in 0..Len(file)
  BY DEF Typed
<1>2. Ids(OnDisk) = {file[i].id : i \in 1..durable}
  BY <1>1, PartRecords DEF OnDisk
<1>3. Ids(SubSeq(f, 1, d)) = {f[i].id : i \in 1..d}
  BY PartRecords
<1>4. \A i \in 1..durable : i \in 1..d /\ f[i] = file[i]
  <2>1. Len(file) \in Nat /\ Len(f) \in Nat
    BY <1>1, LenProperties
  <2> QED
    BY <1>1, <2>1
<1> QED
  BY <1>2, <1>3, <1>4

LEMMA DisabledAdds ==
  ASSUME Typed, NEW r \in Records, Disabled
  PROVE  Adds(r) /\ sink' = "none"
  BY DEF Disabled, Typed, Adds, OnDisk

LEMMA WriteAdds ==
  ASSUME Typed, NEW r \in Records, Write(r)
  PROVE  /\ Adds(r)
         /\ sink' = "open" => file' = Append(file, r) /\ durable' = durable
<1>1. CASE Disabled
  BY <1>1, DisabledAdds
<1>2. CASE sink = "open" /\ file' = Append(file, r) /\ UNCHANGED <<sink, durable>>
  <2>1. /\ file' \in Seq(Records) /\ Len(file') = Len(file) + 1 /\ Len(file) \in Nat
        /\ \A i \in 1..Len(file) : file'[i] = file[i]
        /\ durable \in 0..Len(file)
    BY <1>2, AppendAdds DEF Typed
  <2>2. Ids(file') = Ids(file) \cup {r.id} /\ (Private(file') <=> Private(file) \/ r.sensitive)
    BY <1>2, AppendRecord DEF Typed
  <2>3. Ids(OnDisk) \subseteq Ids(SubSeq(file', 1, durable))
    BY <2>1, DiskKeeps
  <2> QED
    BY <1>2, <2>1, <2>2, <2>3 DEF Adds, OnDisk
<1> QED
  BY <1>1, <1>2 DEF Write

LEMMA WriteThroughAdds ==
  ASSUME Typed, NEW r \in Records, WriteThrough(r)
  PROVE  Adds(r) /\ (sink' = "open" => durable' = Len(file'))
<1>1. CASE Disabled
  BY <1>1, DisabledAdds
<1>2. CASE /\ sink = "open" /\ file' = Append(file, r)
           /\ \/ durable' = Len(file') /\ UNCHANGED sink
              \/ MayFail /\ sink' = "none" /\ UNCHANGED durable
  <2>1. /\ file' \in Seq(Records) /\ Len(file') = Len(file) + 1 /\ Len(file) \in Nat
        /\ \A i \in 1..Len(file) : file'[i] = file[i]
        /\ durable \in 0..Len(file)
    BY <1>2, AppendAdds DEF Typed
  <2>2. Ids(file') = Ids(file) \cup {r.id} /\ (Private(file') <=> Private(file) \/ r.sensitive)
    BY <1>2, AppendRecord DEF Typed
  <2>3. durable' \in 0..Len(file') /\ durable <= durable'
    BY <1>2, <2>1
  <2>4. Ids(OnDisk) \subseteq Ids(SubSeq(file', 1, durable'))
    BY <2>1, <2>3, DiskKeeps
  <2> QED
    BY <1>2, <2>1, <2>2, <2>3, <2>4 DEF Adds, OnDisk
<1> QED
  BY <1>1, <1>2 DEF WriteThrough

LEMMA FlushKeepsFile ==
  ASSUME Typed, Flush
  PROVE  /\ file' = file /\ durable' \in 0..Len(file)
         /\ sink' \in {"open", "none"} /\ (sink' = "open" => sink = "open" /\ durable' = Len(file))
         /\ Ids(OnDisk) \subseteq Ids(OnDisk)'
<1>1. CASE Disabled
  BY <1>1 DEF Disabled, OnDisk, Typed
<1>2. CASE sink = "open" /\ durable' = Len(file) /\ UNCHANGED <<sink, file>>
  <2>1. Len(file) \in Nat /\ durable \in 0..Len(file) /\ durable' \in 0..Len(file)
    BY <1>2, LenProperties DEF Typed
  <2>2. Ids(OnDisk) \subseteq Ids(SubSeq(file, 1, durable'))
    BY <1>2, <2>1, DiskKeeps DEF Typed
  <2> QED
    BY <1>2, <2>1, <2>2 DEF OnDisk
<1> QED
  BY <1>1, <1>2 DEF Flush

\* When everything is on disk, so are all records of the file.
LEMMA AllOnDisk ==
  ASSUME Typed, durable = Len(file)
  PROVE  Ids(OnDisk) = Ids(file)
<1>1. file \in Seq(Records) /\ Len(file) \in 0..Len(file)
  BY LenProperties DEF Typed
<1> QED
  BY <1>1, PartRecords DEF OnDisk, Ids

LEMMA DiagnosticsInit == Init => DiagnosticsInv
<1> SUFFICES ASSUME Init PROVE DiagnosticsInv
  OBVIOUS
<1>1. 1..Len(regular) = {} /\ 1..Len(priority) = {} /\ 1..Len(file) = {} /\ 1..Len(control) = {}
  BY DEF Init
<1>2. Accepted = {}
  BY <1>1 DEF Accepted, Ids
<1>3. Typed
  <2>1. <<>> \in Seq(Records) /\ <<>> \in Seq(Commands) /\ Len(<<>>) = 0
    BY EmptySeq
  <2>2. sensitive \in BOOLEAN /\ sensitive_ever_enabled \in BOOLEAN
    BY DEF Init
  <2>3. sink \in {"open", "none"}
    BY DEF Init
  <2> QED
    BY <2>1, <2>2, <2>3 DEF Init, Typed, WriterPlaces, BackendPlaces
<1>4. HandsOK /\ RegularOK /\ CommandsOK
  BY <1>1, <1>2 DEF Init, HandsOK, RegularOK, CommandsOK, At
<1>5. WriterOK /\ MarkOK
  BY DEF Init, WriterOK, MarkOK, Serving, At
<1>6. PrivacyOK /\ BundleOK
  BY <1>1 DEF Init, PrivacyOK, BundleOK, Private
<1>7. ErrorsAreDurable
  <2>1. (durable + 1)..Len(file) = {}
    BY DEF Init
  <2> QED
    BY <2>1 DEF ErrorsAreDurable
<1> QED
  BY <1>3, <1>4, <1>5, <1>6, <1>7 DEF DiagnosticsInv

-----------------------------------------------------------------------------
(* Emitting.                                                               *)

LEMMA AcceptedTyped ==
  ASSUME Typed
  PROVE  /\ \A i \in 1..Len(regular) : regular[i] \in Records
         /\ \A i \in 1..Len(priority) : priority[i] \in Records
         /\ \A i \in 1..Len(file) : file[i] \in Records
         /\ Len(file) \in Nat /\ Len(regular) \in Nat /\ Len(priority) \in Nat
  BY LenProperties, ElementOfSeq DEF Typed

\* A new record has an id that no other has.
LEMMA BuildKeeps ==
  ASSUME DiagnosticsInv, NEW t \in Threads, NEW lvl \in Levels, Build(t, lvl),
         UNCHANGED <<settings, queues, control, store, writer, dropped_regular, dropped_priority>>,
         mark' = mark \/ mark' = {}
  PROVE  /\ HandsOK' /\ RegularOK'
         /\ issued' \in Nat
         /\ phase' \in [Threads -> {"idle", "check", "send", "total"}]
         /\ hand' \in [Threads -> Records \cup {None}]
         /\ \A u \in Threads : phase'[u] # "idle" =>
              hand'[u].sensitive = sensitive \/ (phase[u] # "idle" /\ hand'[u] = hand[u])
<1> DEFINE r == Record(issued', t, Queue(lvl), sensitive, 0)
<1>1. /\ issued' = issued + 1 /\ issued \in Nat /\ phase[t] = "idle"
      /\ hand' = [hand EXCEPT ![t] = r]
      /\ phase' = [phase EXCEPT ![t] = "check"]
  BY DEF Build, DiagnosticsInv, Typed
<1>2. r \in Records /\ r.id = issued + 1 /\ r.sensitive = sensitive
  BY <1>1 DEF Record, Records, Queue, DiagnosticsInv, Typed
<1> HIDE DEF r
<1>3. /\ phase' \in [Threads -> {"idle", "check", "send", "total"}]
      /\ hand' \in [Threads -> Records \cup {None}]
      /\ hand'[t] = r /\ phase'[t] = "check"
      /\ \A u \in Threads : u # t => hand'[u] = hand[u] /\ phase'[u] = phase[u]
  BY <1>1, <1>2 DEF DiagnosticsInv, Typed
<1>4. Accepted' = Accepted /\ RegularOK'
  BY DEF Accepted, queues, store, DiagnosticsInv, RegularOK
<1>5. Accepted \cup mark \subseteq 0..issued
  BY DEF DiagnosticsInv, HandsOK
<1>6. \A u \in Threads : u # t /\ phase[u] # "idle" =>
        /\ hand[u] \in Records /\ hand[u].id \in 1..issued
        /\ hand[u].id \notin Accepted \cup mark
  BY DEF DiagnosticsInv, HandsOK
<1>7. HandsOK'
  <2>1. Accepted' \cup mark' \subseteq 0..issued'
    BY <1>1, <1>4, <1>5
  <2>2. ASSUME NEW u \in Threads, phase'[u] # "idle"
        PROVE  hand'[u] \in Records /\ hand'[u].id \in 1..issued' /\ hand'[u].id \notin Accepted' \cup mark'
    <3>1. CASE u = t
      <4>1. issued + 1 \notin 0..issued /\ issued + 1 \in 1..issued'
        BY <1>1
      <4> QED
        BY <1>2, <1>3, <1>4, <1>5, <3>1, <4>1
    <3>2. CASE u # t
      BY <1>1, <1>3, <1>4, <1>6, <2>2, <3>2
    <3> QED
      BY <3>1, <3>2
  <2>3. ASSUME NEW u \in Threads, NEW v \in Threads, u # v, phase'[u] # "idle", phase'[v] # "idle"
        PROVE  hand'[u].id # hand'[v].id
    <3>1. issued + 1 \notin 1..issued
      BY <1>1
    <3> QED
      BY <1>2, <1>3, <1>6, <2>3, <3>1 DEF DiagnosticsInv, HandsOK
  <2> QED
    BY <2>1, <2>2, <2>3 DEF HandsOK
<1>8. \A u \in Threads : phase'[u] # "idle" =>
        hand'[u].sensitive = sensitive \/ (phase[u] # "idle" /\ hand'[u] = hand[u])
  BY <1>2, <1>3
<1> QED
  BY <1>1, <1>3, <1>4, <1>7, <1>8

\* Whatever leaves the records, the settings and the backend alone.
LEMMA RecordsFrame ==
  ASSUME DiagnosticsInv,
         UNCHANGED <<settings, queues, store, phase, hand, issued, backend, bundle>>,
         mark' = mark
  PROVE  HandsOK' /\ RegularOK' /\ PrivacyOK' /\ BundleOK'
  BY DEF DiagnosticsInv, HandsOK, RegularOK, PrivacyOK, BundleOK, Accepted, settings, queues, store

LEMMA EmitKeeps ==
  ASSUME DiagnosticsInv, NEW t \in Emitters, NEW lvl \in Levels, Emit(t, lvl)
  PROVE  DiagnosticsInv'
<1> USE DEF DiagnosticsInv
<1>1. /\ Build(t, lvl) /\ t \in Threads
      /\ UNCHANGED <<settings, drops, shutdown, queues, control, store, writer, calling>>
  BY DEF Emit, Threads
<1>2. /\ HandsOK' /\ RegularOK' /\ issued' \in Nat
      /\ phase' \in [Threads -> {"idle", "check", "send", "total"}]
      /\ hand' \in [Threads -> Records \cup {None}]
      /\ \A u \in Threads : phase'[u] # "idle" =>
           hand'[u].sensitive = sensitive \/ (phase[u] # "idle" /\ hand'[u] = hand[u])
  BY <1>1, BuildKeeps DEF calling, drops
<1>3. Typed'
  BY <1>1, <1>2 DEF Typed, settings, drops, queues, store, calling
<1>4. PrivacyOK'
  BY <1>1, <1>2 DEF PrivacyOK, settings, queues, store, calling
<1>5. /\ WriterOK' /\ CommandsOK' /\ BundleOK' /\ ErrorsAreDurable'
  BY <1>1 DEF WriterOK, CommandsOK, IsLate, BundleOK, ErrorsAreDurable, At, store, calling, settings
<1>6. MarkOK'
  BY <1>1 DEF MarkOK, Serving, At, Accepted, OnDisk, queues, store, calling
<1> QED
  BY <1>2, <1>3, <1>4, <1>5, <1>6

\* The record that a call of the backend emits.
LEMMA BackendEventKeeps ==
  ASSUME DiagnosticsInv, BackendEvent
  PROVE  DiagnosticsInv'
<1> USE DEF DiagnosticsInv
<1>1. /\ Build(Backend, "info") /\ Backend \in Threads /\ "info" \in Levels
      /\ mark' = {} /\ bundle' = None
      /\ backend.pc \in {"event", "stop_event"}
      /\ backend' = [pc |-> IF backend.pc = "event" THEN "idle" ELSE "stop_swap", sensitive |-> FALSE]
      /\ UNCHANGED <<settings, drops, shutdown, queues, control, store, writer, calls, answer>>
  BY DEF BackendEvent, MoveTo, Threads, Levels
<1>2. /\ HandsOK' /\ RegularOK' /\ issued' \in Nat
      /\ phase' \in [Threads -> {"idle", "check", "send", "total"}]
      /\ hand' \in [Threads -> Records \cup {None}]
      /\ \A u \in Threads : phase'[u] # "idle" =>
           hand'[u].sensitive = sensitive \/ (phase[u] # "idle" /\ hand'[u] = hand[u])
  BY <1>1, BuildKeeps DEF drops
<1>3. backend'.pc \in {"idle", "stop_swap"} /\ backend' \in [pc : BackendPlaces, sensitive : BOOLEAN]
  BY <1>1 DEF BackendPlaces
<1>4. Typed'
  BY <1>1, <1>2, <1>3 DEF Typed, settings, drops, queues, store
<1>5. PrivacyOK'
  BY <1>1, <1>2 DEF PrivacyOK, settings, queues, store
<1>6. WriterOK' /\ ErrorsAreDurable'
  BY <1>1 DEF WriterOK, ErrorsAreDurable, At, store
<1>7. CommandsOK'
  BY <1>1, <1>3 DEF CommandsOK, IsLate, At, StopPlaces
<1>8. BundleOK' /\ MarkOK'
  BY <1>1, <1>3 DEF BundleOK, MarkOK
<1> QED
  BY <1>2, <1>4, <1>5, <1>6, <1>7, <1>8

\* A thread gives its record up, or goes on with it.
LEMMA CheckOrCountKeeps ==
  ASSUME DiagnosticsInv, NEW t \in Threads, Check(t) \/ CountTotal(t)
  PROVE  DiagnosticsInv'
<1> USE DEF DiagnosticsInv
<1>1. /\ UNCHANGED <<settings, dropped_regular, dropped_priority, queues, control, store, writer,
                     issued, calling>>
      /\ \/ phase' = [phase EXCEPT ![t] = "idle"] /\ hand' = [hand EXCEPT ![t] = None]
         \/ phase' = [phase EXCEPT ![t] = "send"] /\ hand' = hand /\ phase[t] = "check"
  BY DEF Check, CountTotal, Leave, drops
<1>2. /\ phase' \in [Threads -> {"idle", "check", "send", "total"}]
      /\ hand' \in [Threads -> Records \cup {None}]
      /\ \A u \in Threads : phase'[u] # "idle" => phase[u] # "idle" /\ hand'[u] = hand[u]
  BY <1>1 DEF Typed
<1>3. Typed'
  BY <1>1, <1>2 DEF Typed, settings, queues, store, calling
<1>4. HandsOK' /\ PrivacyOK'
  BY <1>1, <1>2 DEF HandsOK, PrivacyOK, Accepted, settings, queues, store, calling
<1>5. /\ RegularOK' /\ WriterOK' /\ CommandsOK' /\ BundleOK' /\ ErrorsAreDurable'
  BY <1>1 DEF RegularOK, WriterOK, CommandsOK, IsLate, BundleOK, ErrorsAreDurable, At, queues, store,
    calling, settings
<1>6. MarkOK'
  BY <1>1 DEF MarkOK, Serving, At, Accepted, OnDisk, queues, store, calling
<1> QED
  BY <1>3, <1>4, <1>5, <1>6

\* A record enters its queue, or is counted as lost.
LEMMA SendKeeps ==
  ASSUME DiagnosticsInv, NEW t \in Threads, Send(t)
  PROVE  DiagnosticsInv'
<1> USE DEF DiagnosticsInv
<1> DEFINE r == hand[t]
<1>1. /\ phase[t] = "send" /\ r \in Records /\ r.id \in 1..issued
      /\ UNCHANGED <<settings, shutdown, control, store, writer, issued, emitted, calling>>
  BY DEF Send, HandsOK
<1>2. /\ \/ /\ r.queue = "priority" /\ priority' = Append(priority, r) /\ regular' = regular
            /\ phase' = [phase EXCEPT ![t] = "idle"] /\ hand' = [hand EXCEPT ![t] = None]
         \/ /\ r.queue = "regular" /\ regular' = Append(regular, r) /\ priority' = priority
            /\ phase' = [phase EXCEPT ![t] = "idle"] /\ hand' = [hand EXCEPT ![t] = None]
         \/ phase' = [phase EXCEPT ![t] = "total"] /\ UNCHANGED <<hand, queues>>
      /\ dropped_regular' \in Nat /\ dropped_priority' \in Nat
  BY DEF Send, Leave, Typed, drops
<1>3. /\ phase' \in [Threads -> {"idle", "check", "send", "total"}]
      /\ hand' \in [Threads -> Records \cup {None}]
      /\ \A u \in Threads : phase'[u] # "idle" => phase[u] # "idle" /\ hand'[u] = hand[u]
  BY <1>1, <1>2 DEF Typed
<1>4. /\ regular' \in Seq(Records) /\ priority' \in Seq(Records)
      /\ Ids(regular) \subseteq Ids(regular)' /\ Ids(priority) \subseteq Ids(priority)'
      /\ Ids(regular)' \subseteq Ids(regular) \cup {r.id}
      /\ Ids(priority)' \subseteq Ids(priority) \cup {r.id}
      /\ Private(regular)' => Private(regular) \/ r.sensitive
      /\ Private(priority)' => Private(priority) \/ r.sensitive
  <2>1. regular \in Seq(Records) /\ priority \in Seq(Records)
    BY DEF Typed
  <2>2. /\ Append(regular, r) \in Seq(Records) /\ Append(priority, r) \in Seq(Records)
        /\ Ids(Append(regular, r)) = Ids(regular) \cup {r.id}
        /\ Ids(Append(priority, r)) = Ids(priority) \cup {r.id}
        /\ Private(Append(regular, r)) <=> Private(regular) \/ r.sensitive
        /\ Private(Append(priority, r)) <=> Private(priority) \/ r.sensitive
    BY <1>1, <2>1, AppendRecord, AppendAdds
  <2>3. /\ regular' = regular \/ regular' = Append(regular, r)
        /\ priority' = priority \/ priority' = Append(priority, r)
    BY <1>2 DEF queues
  <2> QED
    BY <2>1, <2>2, <2>3
<1>5. Typed'
  BY <1>1, <1>2, <1>3, <1>4 DEF Typed, settings, store, calling
<1>6. Accepted \subseteq Accepted' /\ Accepted' \subseteq Accepted \cup {r.id}
  BY <1>1, <1>4 DEF Accepted, store
<1>7. HandsOK'
  <2>1. CASE UNCHANGED <<hand, queues>>
    BY <1>1, <1>3, <2>1 DEF HandsOK, Accepted, queues, store, calling
  <2>2. CASE phase'[t] = "idle"
    BY <1>1, <1>3, <1>6, <2>2 DEF HandsOK, calling
  <2> QED
    BY <1>1, <1>2, <2>1, <2>2 DEF Typed
<1>8. PrivacyOK'
  BY <1>1, <1>3, <1>4 DEF PrivacyOK, settings, store, calling
<1>9. RegularOK'
  <2>1. CASE regular' = regular
    BY <2>1 DEF RegularOK
  <2>2. CASE r.queue = "regular" /\ regular' = Append(regular, r)
    <3>1. /\ Len(regular') = Len(regular) + 1 /\ regular'[Len(regular) + 1] = r
          /\ \A i \in 1..Len(regular) : regular'[i] = regular[i]
          /\ Len(regular) \in Nat
      BY <1>1, <2>2, AppendAdds DEF Typed
    <3> QED
      BY <2>2, <3>1 DEF RegularOK
  <2> QED
    BY <1>2, <2>1, <2>2 DEF queues
<1>10. /\ WriterOK' /\ CommandsOK' /\ BundleOK' /\ ErrorsAreDurable'
  BY <1>1 DEF WriterOK, CommandsOK, IsLate, BundleOK, ErrorsAreDurable, At, store,
    calling, settings
<1>11. MarkOK'
  BY <1>1, <1>4, <1>6 DEF MarkOK, Serving, At, OnDisk, store, calling
<1> QED
  BY <1>5, <1>7, <1>8, <1>9, <1>10, <1>11

-----------------------------------------------------------------------------
(* The writer.                                                             *)

\* The writer takes a record out of one of the queues and writes it.
Takes(r) ==
  /\ r \in Records /\ Adds(r)
  /\ \/ priority # <<>> /\ r = Head(priority) /\ priority' = Tail(priority) /\ regular' = regular
     \/ regular # <<>> /\ r = Head(regular) /\ regular' = Tail(regular) /\ priority' = priority
  /\ UNCHANGED <<settings, drops, shutdown, control, writer, emission, calling>>

\* What of that does not depend on where the writer is.
LEMMA TakesKeeps ==
  ASSUME DiagnosticsInv, NEW r, Takes(r)
  PROVE  /\ Typed' /\ HandsOK' /\ RegularOK' /\ PrivacyOK' /\ CommandsOK' /\ BundleOK'
         /\ sink' = "open" => sink = "open" /\ mark \subseteq Accepted'
<1> USE DEF DiagnosticsInv, Takes
<1>1. /\ regular \in Seq(Records) /\ priority \in Seq(Records)
      /\ regular' \in Seq(Records) /\ priority' \in Seq(Records)
      /\ Ids(regular)' \subseteq Ids(regular) /\ Ids(priority)' \subseteq Ids(priority)
      /\ Ids(regular) \subseteq Ids(regular)' \cup {r.id}
      /\ Ids(priority) \subseteq Ids(priority)' \cup {r.id}
      /\ Private(regular)' => Private(regular)
      /\ Private(priority)' => Private(priority)
      /\ r.id \in Ids(regular) \cup Ids(priority)
      /\ r.sensitive => Private(regular) \/ Private(priority)
  <2>1. regular \in Seq(Records) /\ priority \in Seq(Records)
    BY DEF Typed
  <2>2. CASE priority # <<>> /\ r = Head(priority) /\ priority' = Tail(priority) /\ regular' = regular
    BY <2>1, <2>2, TailRecord, TailRemoves
  <2>3. CASE regular # <<>> /\ r = Head(regular) /\ regular' = Tail(regular) /\ priority' = priority
    BY <2>1, <2>3, TailRecord, TailRemoves
  <2> QED
    BY <2>2, <2>3
<1>2. Typed'
  BY <1>1 DEF Typed, Adds, settings, drops, emission, calling
<1>3. Accepted' \subseteq Accepted /\ (sink' = "open" => Accepted \subseteq Accepted')
  BY <1>1 DEF Accepted, Adds
<1>4. HandsOK'
  BY <1>3 DEF HandsOK, emission, calling
<1>5. RegularOK'
  <2>1. CASE regular' = regular
    BY <2>1 DEF RegularOK
  <2>2. CASE regular # <<>> /\ regular' = Tail(regular)
    <3>1. /\ Len(regular') = Len(regular) - 1 /\ Len(regular) \in Nat \ {0}
          /\ \A x \in 1 .. Len(regular) - 1 : regular'[x] = regular[x + 1]
      BY <1>1, <2>2, TailRemoves
    <3>2. \A x \in 1 .. Len(regular) - 1 : x + 1 \in 1 .. Len(regular)
      BY <3>1
    <3> QED
      BY <3>1, <3>2 DEF RegularOK
  <2> QED
    BY <2>1, <2>2
<1>6. PrivacyOK'
  BY <1>1 DEF PrivacyOK, Adds, settings, emission, calling
<1>7. CommandsOK' /\ BundleOK'
  BY DEF CommandsOK, IsLate, BundleOK, At, calling, settings
<1>8. sink' = "open" => sink = "open" /\ mark \subseteq Accepted'
  BY <1>3 DEF Adds, MarkOK
<1> QED
  BY <1>2, <1>4, <1>5, <1>6, <1>7, <1>8

\* An error that is written through is on disk with all that was written before.
LEMMA TakePriorityKeeps ==
  ASSUME DiagnosticsInv, TakePriority
  PROVE  DiagnosticsInv'
<1> USE DEF DiagnosticsInv
<1> DEFINE r == Head(priority)
<1>1. At("select") /\ writer.command = None /\ writer' = writer /\ priority # <<>>
  BY DEF TakePriority, WriterOK
<1>2. r \in Records /\ WriteThrough(r)
  BY <1>1, TailRecord DEF TakePriority, Typed
<1>3. Adds(r) /\ (sink' = "open" => durable' = Len(file'))
  BY <1>2, WriteThroughAdds
<1>4. Takes(r)
  BY <1>1, <1>2, <1>3 DEF TakePriority, Takes
<1>5. /\ Typed' /\ HandsOK' /\ RegularOK' /\ PrivacyOK' /\ CommandsOK' /\ BundleOK'
      /\ sink' = "open" => sink = "open" /\ mark \subseteq Accepted'
  BY <1>4, TakesKeeps
<1>6. WriterOK' /\ MarkOK'
  BY <1>1, <1>3, <1>4, <1>5 DEF WriterOK, MarkOK, Serving, At, Takes, Adds, calling
<1>7. ErrorsAreDurable'
  <2>1. sink' = "open" => (durable' + 1)..Len(file') = {}
    <3>1. Len(file') \in Nat
      BY <1>5, LenProperties DEF Typed
    <3> QED
      BY <1>3, <3>1
  <2> QED
    BY <2>1 DEF ErrorsAreDurable
<1> QED
  BY <1>5, <1>6, <1>7

LEMMA TakeRegularKeeps ==
  ASSUME DiagnosticsInv, TakeRegular
  PROVE  DiagnosticsInv'
<1> USE DEF DiagnosticsInv
<1> DEFINE r == Head(regular)
<1>1. At("select") /\ writer.command = None /\ writer' = writer /\ regular # <<>>
  BY DEF TakeRegular, WriterOK
<1>2. r \in Records /\ Write(r)
  BY <1>1, TailRecord DEF TakeRegular, Typed
<1>3. Adds(r) /\ (sink' = "open" => file' = Append(file, r) /\ durable' = durable)
  BY <1>2, WriteAdds
<1>4. Takes(r)
  BY <1>1, <1>2, <1>3 DEF TakeRegular, Takes
<1>5. /\ Typed' /\ HandsOK' /\ RegularOK' /\ PrivacyOK' /\ CommandsOK' /\ BundleOK'
      /\ sink' = "open" => sink = "open" /\ mark \subseteq Accepted'
  BY <1>4, TakesKeeps
<1>6. WriterOK' /\ MarkOK'
  BY <1>1, <1>3, <1>4, <1>5 DEF WriterOK, MarkOK, Serving, At, Takes, Adds, calling
<1>7. ErrorsAreDurable'
  <2> SUFFICES ASSUME sink' = "open", NEW i \in (durable' + 1)..Len(file')
               PROVE  file'[i].queue # "priority"
    BY DEF ErrorsAreDurable
  <2>1. /\ Len(file') = Len(file) + 1 /\ file'[Len(file) + 1] = r
        /\ \A x \in 1..Len(file) : file'[x] = file[x]
        /\ Len(file) \in Nat /\ durable \in 0..Len(file) /\ durable' = durable
    <3>1. file \in Seq(Records) /\ durable \in 0..Len(file)
      BY DEF Typed
    <3>2. file' = Append(file, r) /\ durable' = durable
      BY <1>3
    <3> HIDE DEF r
    <3> QED
      BY <1>2, <3>1, <3>2, AppendAdds
  <2>2. r.queue = "regular"
    <3>1. r = regular[1] /\ 1 \in 1..Len(regular)
      BY <1>1, TailRemoves DEF Typed
    <3> QED
      BY <3>1 DEF RegularOK
  <2>3. CASE i = Len(file) + 1
    BY <2>1, <2>2, <2>3
  <2>4. CASE i # Len(file) + 1
    <3>1. i \in (durable + 1)..Len(file) /\ i \in 1..Len(file)
      BY <2>1, <2>4
    <3> QED
      BY <1>1, <1>5, <2>1, <3>1 DEF ErrorsAreDurable
  <2> QED
    BY <2>3, <2>4
<1> QED
  BY <1>5, <1>6, <1>7

\* A command empties the priority queue first; the records accepted before the
\* call are then in the regular queue or in the file, and at last in the file.
LEMMA DrainPriorityKeeps ==
  ASSUME DiagnosticsInv, DrainPriority
  PROVE  DiagnosticsInv'
<1> USE DEF DiagnosticsInv
<1>1. At("drain_priority") /\ writer.command \in Commands
  BY DEF DrainPriority, WriterOK, At
<1>2. CASE priority # <<>>
  <2> DEFINE r == Head(priority)
  <2>1. writer' = writer /\ r \in Records /\ Write(r)
    BY <1>2, TailRecord DEF DrainPriority, Typed
  <2>2. Adds(r)
    BY <2>1, WriteAdds
  <2>3. Takes(r)
    BY <1>2, <2>1, <2>2 DEF DrainPriority, Takes, drops, emission, calling
  <2>4. /\ Typed' /\ HandsOK' /\ RegularOK' /\ PrivacyOK' /\ CommandsOK' /\ BundleOK'
        /\ sink' = "open" => sink = "open" /\ mark \subseteq Accepted'
    BY <2>3, TakesKeeps
  <2>5. WriterOK' /\ ErrorsAreDurable'
    BY <1>1, <2>1 DEF WriterOK, ErrorsAreDurable, At
  <2>6. MarkOK'
    BY <1>1, <2>1, <2>2, <2>3, <2>4 DEF MarkOK, At, Takes, Adds, calling
  <2> QED
    BY <2>4, <2>5, <2>6
<1>3. CASE priority = <<>>
  <2>1. /\ writer' = [writer EXCEPT !.pc = "drain_regular"]
        /\ UNCHANGED <<settings, drops, shutdown, queues, control, store, emission, calling>>
    BY <1>3 DEF DrainPriority, Goto, queues
  <2>2. Typed'
    BY <2>1 DEF Typed, WriterPlaces, settings, drops, queues, store, emission, calling
  <2>3. HandsOK' /\ RegularOK' /\ PrivacyOK' /\ BundleOK'
    BY <2>1, RecordsFrame DEF emission, calling
  <2>4. writer'.pc = "drain_regular" /\ writer'.command = writer.command
    BY <2>1 DEF Typed
  <2>5. WriterOK' /\ ErrorsAreDurable' /\ CommandsOK'
    BY <1>1, <2>1, <2>4 DEF WriterOK, ErrorsAreDurable, CommandsOK, IsLate, At, calling
  <2>6. Ids(priority) = {}
    BY <1>3 DEF Ids
  <2>7. MarkOK'
    BY <1>1, <2>1, <2>4, <2>6 DEF MarkOK, At, Accepted, OnDisk, queues, store, calling
  <2> QED
    BY <2>2, <2>3, <2>5, <2>7
<1> QED
  BY <1>2, <1>3

LEMMA DrainRegularKeeps ==
  ASSUME DiagnosticsInv, DrainRegular
  PROVE  DiagnosticsInv'
<1> USE DEF DiagnosticsInv
<1>1. At("drain_regular") /\ writer.command \in Commands
  BY DEF DrainRegular, WriterOK, At
<1>2. CASE regular # <<>>
  <2> DEFINE r == Head(regular)
  <2>1. writer' = writer /\ r \in Records /\ Write(r)
    BY <1>2, TailRecord DEF DrainRegular, Typed
  <2>2. Adds(r)
    BY <2>1, WriteAdds
  <2>3. Takes(r)
    BY <1>2, <2>1, <2>2 DEF DrainRegular, Takes, drops, emission, calling
  <2>4. /\ Typed' /\ HandsOK' /\ RegularOK' /\ PrivacyOK' /\ CommandsOK' /\ BundleOK'
        /\ sink' = "open" => sink = "open" /\ mark \subseteq Accepted'
    BY <2>3, TakesKeeps
  <2>5. WriterOK' /\ ErrorsAreDurable'
    BY <1>1, <2>1 DEF WriterOK, ErrorsAreDurable, At
  <2>6. sink' = "open" /\ Serving => mark \subseteq Ids(regular)' \cup Ids(file)'
    <3>1. Ids(regular) = Ids(Tail(regular)) \cup {r.id} /\ regular' = Tail(regular)
      BY <1>2, TailRecord DEF Typed, DrainRegular
    <3> QED
      BY <1>1, <2>2, <3>1 DEF MarkOK, Adds
  <2>7. MarkOK'
    BY <1>1, <2>1, <2>2, <2>3, <2>4, <2>6 DEF MarkOK, At, Takes, Adds, Serving, calling
  <2> QED
    BY <2>4, <2>5, <2>7
<1>3. CASE regular = <<>>
  <2>1. /\ writer' = [writer EXCEPT !.pc = "swap_regular"]
        /\ UNCHANGED <<settings, drops, shutdown, queues, control, store, emission, calling>>
    BY <1>3 DEF DrainRegular, Goto, queues
  <2>2. Typed'
    BY <2>1 DEF Typed, WriterPlaces, settings, drops, queues, store, emission, calling
  <2>3. HandsOK' /\ RegularOK' /\ PrivacyOK' /\ BundleOK'
    BY <2>1, RecordsFrame DEF emission, calling
  <2>4. writer'.pc = "swap_regular" /\ writer'.command = writer.command
    BY <2>1 DEF Typed
  <2>5. WriterOK' /\ ErrorsAreDurable' /\ CommandsOK'
    BY <1>1, <2>1, <2>4 DEF WriterOK, ErrorsAreDurable, CommandsOK, IsLate, At, calling
  <2>6. Ids(regular) = {}
    BY <1>3 DEF Ids
  <2>7. MarkOK'
    BY <1>1, <2>1, <2>4, <2>6 DEF MarkOK, At, Serving, Accepted, OnDisk, queues, store, calling
  <2> QED
    BY <2>2, <2>3, <2>5, <2>7
<1> QED
  BY <1>2, <1>3

\* Steps that take a command, begin a tick or read a counter.
LEMMA WriterMovesKeep ==
  ASSUME DiagnosticsInv, TakeCommand \/ Tick \/ SwapRegular \/ SwapPriority
  PROVE  DiagnosticsInv'
<1> USE DEF DiagnosticsInv
<1>1. /\ UNCHANGED <<settings, shutdown, queues, store, emission, calling, dropped_total>>
      /\ writer \in [pc : WriterPlaces, command : Commands \cup {None}, swapped : Nat]
      /\ control \in Seq(Commands)
  BY DEF TakeCommand, Tick, SwapRegular, SwapPriority, drops, Typed
<1>2. CASE TakeCommand
  <2>1. /\ At("select") /\ control # <<>> /\ control' = Tail(control)
        /\ writer' = [writer EXCEPT !.pc = "drain_priority", !.command = Head(control)]
        /\ UNCHANGED drops
    BY <1>2 DEF TakeCommand
  <2>2. /\ control' \in Seq(Commands) /\ Head(control) \in Commands /\ Head(control) = control[1]
        /\ Len(control') = Len(control) - 1 /\ Len(control) \in Nat \ {0}
        /\ \A x \in 1..Len(control) - 1 : control'[x] = control[x + 1]
    BY <1>1, <2>1, TailRemoves
  <2>3. \A x \in 1..Len(control) - 1 : x + 1 \in 1..Len(control)
    BY <2>2
  <2>4. writer'.pc = "drain_priority" /\ writer'.command = control[1]
        /\ writer' \in [pc : WriterPlaces, command : Commands \cup {None}, swapped : Nat]
    BY <1>1, <2>1, <2>2 DEF WriterPlaces
  <2>5. Typed'
    BY <1>1, <2>1, <2>2, <2>4 DEF Typed, settings, drops, queues, store, emission, calling
  <2>6. HandsOK' /\ RegularOK' /\ PrivacyOK' /\ BundleOK'
    BY <1>1, RecordsFrame DEF emission, calling
  <2>7. WriterOK' /\ ErrorsAreDurable'
    BY <2>2, <2>4 DEF WriterOK, ErrorsAreDurable, At
  <2>8. CommandsOK'
    <3>1. 1 \in 1..Len(control)
      BY <2>2
    <3>2. \A command : IsLate(command)' <=> IsLate(command)
      BY <1>1 DEF IsLate, calling
    <3>3. IsLate(writer'.command) /\ \A i \in 1..Len(control') : IsLate(control'[i])
      BY <2>2, <2>3, <2>4, <3>1 DEF CommandsOK
    <3> QED
      BY <1>1, <2>1, <2>4, <3>2, <3>3 DEF CommandsOK, At, calling
  <2>9. MarkOK'
    BY <1>1, <2>4 DEF MarkOK, At, Serving, Accepted, OnDisk, queues, store, calling
  <2> QED
    BY <2>5, <2>6, <2>7, <2>8, <2>9
<1>3. CASE Tick \/ SwapRegular \/ SwapPriority
  <2>1. /\ control' = control
        /\ writer' \in [pc : WriterPlaces, command : Commands \cup {None}, swapped : Nat]
        /\ writer'.command = writer.command
        /\ \/ At("select") /\ writer'.pc = "swap_regular"
           \/ At("swap_regular") /\ writer'.pc = "swap_priority"
           \/ At("swap_priority") /\ writer'.pc = "report"
        /\ dropped_regular' \in Nat /\ dropped_priority' \in Nat
    <3>1. CASE Tick
      BY <1>1, <3>1 DEF Tick, Goto, Typed, drops, WriterPlaces
    <3>2. CASE SwapRegular
      BY <1>1, <3>2 DEF SwapRegular, Typed, drops, At, WriterPlaces
    <3>3. CASE SwapPriority
      <4>1. writer.swapped + dropped_priority \in Nat /\ dropped_regular \in Nat /\ 0 \in Nat
        BY <1>1 DEF Typed
      <4> QED
        BY <1>1, <3>3, <4>1 DEF SwapPriority, At, WriterPlaces
    <3> QED
      BY <1>3, <3>1, <3>2, <3>3
  <2>2. Typed'
    BY <1>1, <2>1 DEF Typed, settings, queues, store, emission, calling
  <2>3. HandsOK' /\ RegularOK' /\ PrivacyOK' /\ BundleOK'
    BY <1>1, RecordsFrame DEF emission, calling
  <2>4. WriterOK' /\ ErrorsAreDurable' /\ CommandsOK'
    BY <1>1, <2>1 DEF WriterOK, ErrorsAreDurable, CommandsOK, IsLate, At, calling
  <2>5. MarkOK'
    BY <1>1, <2>1 DEF MarkOK, WriterOK, At, Serving, Accepted, OnDisk, queues, store, calling
  <2> QED
    BY <2>2, <2>3, <2>4, <2>5
<1> QED
  BY <1>2, <1>3

\* Everything is on disk when a tick or a command ends.
LEMMA ReportAndFlushKeeps ==
  ASSUME DiagnosticsInv, ReportAndFlush
  PROVE  DiagnosticsInv'
<1> USE DEF DiagnosticsInv
<1> DEFINE r == Record(0, None, "priority", sensitive, writer.swapped)
<1>1. /\ At("report")
      /\ writer' = [writer EXCEPT !.pc = IF writer.command = None THEN "select" ELSE "reply",
                              !.swapped = 0]
      /\ UNCHANGED <<settings, drops, shutdown, queues, control, emission, calling>>
      /\ Flush \/ WriteThrough(r)
  BY DEF ReportAndFlush
<1>2. /\ writer' \in [pc : WriterPlaces, command : Commands \cup {None}, swapped : Nat]
      /\ writer'.command = writer.command
      /\ writer'.pc = IF writer.command = None THEN "select" ELSE "reply"
  BY <1>1 DEF Typed, WriterPlaces
<1>3. r \in Records /\ r.id = 0 /\ r.sensitive = sensitive
  BY DEF Record, Records, Typed
<1> HIDE DEF r
<1>4. /\ sink' \in {"open", "none"} /\ (sink' = "open" => sink = "open" /\ durable' = Len(file'))
      /\ file' \in Seq(Records) /\ durable' \in 0..Len(file')
      /\ Ids(file) \subseteq Ids(file)' /\ Ids(file)' \subseteq Ids(file) \cup {0}
      /\ Ids(OnDisk) \subseteq Ids(OnDisk)'
      /\ Private(file)' => Private(file) \/ sensitive
  <2>1. CASE Flush
    BY <2>1, FlushKeepsFile DEF Typed
  <2>2. CASE WriteThrough(r)
    BY <1>3, <2>2, WriteThroughAdds DEF Adds
  <2> QED
    BY <1>1, <2>1, <2>2
<1>5. Typed'
  BY <1>1, <1>2, <1>4 DEF Typed, settings, drops, queues, emission, calling
<1>6. Accepted \subseteq Accepted' /\ Accepted' \subseteq Accepted \cup {0}
  BY <1>1, <1>4 DEF Accepted, queues
<1>7. HandsOK'
  <2>1. issued \in Nat /\ 0 \in 0..issued /\ 0 \notin 1..issued
    BY DEF Typed
  <2> QED
    BY <1>1, <1>6, <2>1 DEF HandsOK, emission, calling
<1>8. RegularOK' /\ BundleOK' /\ PrivacyOK'
  BY <1>1, <1>4 DEF RegularOK, BundleOK, PrivacyOK, queues, settings, emission, calling
<1>9. CommandsOK' /\ WriterOK'
  BY <1>1, <1>2, <1>4 DEF CommandsOK, IsLate, WriterOK, At, Typed, calling
<1>10. MarkOK'
  BY <1>1, <1>2, <1>4, <1>6 DEF MarkOK, At, Serving, calling
<1>11. ErrorsAreDurable'
  <2>1. sink' = "open" => (durable' + 1)..Len(file') = {}
    <3>1. Len(file') \in Nat
      BY <1>4, LenProperties
    <3> QED
      BY <1>4, <3>1
  <2> QED
    BY <2>1 DEF ErrorsAreDurable
<1> QED
  BY <1>5, <1>7, <1>8, <1>9, <1>10, <1>11

\* A call that still waits for its reply finds all that it asked for on disk.
LEMMA ReplyKeeps ==
  ASSUME DiagnosticsInv, Reply
  PROVE  DiagnosticsInv'
<1> USE DEF DiagnosticsInv
<1>1. /\ At("reply") /\ writer.command \in Commands
      /\ writer' = [pc |-> IF writer.command.kind = "shutdown" THEN "ended" ELSE "select",
                    command |-> None, swapped |-> 0]
      /\ answer' = IF backend.pc = "flush_wait" /\ writer.command.call = calls THEN sink ELSE answer
      /\ UNCHANGED <<settings, drops, shutdown, queues, control, store, emission, backend,
                     calls, mark, bundle>>
  BY DEF Reply, WriterOK, At
<1>2. /\ writer' \in [pc : WriterPlaces, command : Commands \cup {None}, swapped : Nat]
      /\ writer'.command = None
      /\ writer'.pc = IF writer.command.kind = "shutdown" THEN "ended" ELSE "select"
  BY <1>1 DEF WriterPlaces
<1>3. Typed'
  BY <1>1, <1>2 DEF Typed, settings, drops, queues, store, emission
<1>4. HandsOK' /\ RegularOK' /\ PrivacyOK' /\ BundleOK'
  BY <1>1, RecordsFrame DEF emission
<1>5. writer.command # None
  BY <1>1 DEF WriterOK
<1>6. sink = "open" => durable = Len(file) /\ Ids(OnDisk) = Ids(file)
  BY <1>1, AllOnDisk DEF WriterOK
<1>7. sink = "open" /\ writer.command.call = calls => mark \subseteq Ids(OnDisk)
  BY <1>1, <1>5, <1>6 DEF MarkOK, Serving, At
<1>8. IsLate(writer.command)
  BY <1>5 DEF CommandsOK
<1>9. CommandsOK' /\ WriterOK'
  BY <1>1, <1>2, <1>8 DEF CommandsOK, IsLate, WriterOK, At
<1>10. MarkOK'
  BY <1>1, <1>2, <1>7, <1>8 DEF MarkOK, IsLate, At, Serving, Accepted, OnDisk, queues, store
<1>11. ErrorsAreDurable'
  <2>1. sink = "open" => (durable + 1)..Len(file) = {}
    BY <1>6, AcceptedTyped
  <2> QED
    BY <1>1, <2>1 DEF ErrorsAreDurable, store
<1> QED
  BY <1>3, <1>4, <1>9, <1>10, <1>11

-----------------------------------------------------------------------------
(* The backend thread.                                                     *)

\* A call begins: it is a new one, so that whatever the writer serves is not its
\* command.
LEMMA NewCallKeeps ==
  ASSUME DiagnosticsInv, calls' = calls + 1, backend.pc \notin StopPlaces \cup {"store_ever", "manifest"},
         UNCHANGED <<drops, queues, control, store, writer, emission, sensitive, sensitive_ever_enabled>>,
         backend' \in [pc : {"store_sensitive", "flush_send", "stop_send"}, sensitive : BOOLEAN],
         backend'.pc = "flush_send" => answer' = None,
         bundle' = None, mark' \in {mark, Accepted}
  PROVE  DiagnosticsInv'
<1> USE DEF DiagnosticsInv
<1>1. /\ backend' \in [pc : BackendPlaces, sensitive : BOOLEAN]
      /\ backend'.pc \in {"store_sensitive", "flush_send", "stop_send"}
      /\ calls \in Nat
  BY DEF BackendPlaces, Typed
<1>2. Typed'
  BY <1>1 DEF Typed, drops, queues, store, emission
<1>3. Accepted' = Accepted
  BY DEF Accepted, queues, store
<1>4. HandsOK' /\ RegularOK'
  BY <1>3 DEF HandsOK, RegularOK, emission, queues
<1>5. PrivacyOK'
  BY <1>1 DEF PrivacyOK, emission, queues, store
<1>6. BundleOK'
  BY <1>1 DEF BundleOK
<1>7. WriterOK' /\ ErrorsAreDurable'
  BY DEF WriterOK, ErrorsAreDurable, At, store
<1>8. CommandsOK'
  <2>1. ASSUME NEW command \in Commands, IsLate(command)
        PROVE  IsLate(command)' /\ command.call # calls'
    BY <1>1, <2>1 DEF IsLate, Commands
  <2>2. \A i \in 1..Len(control) : control[i] \in Commands
    BY ElementOfSeq DEF Typed
  <2>3. writer.command # None => writer.command \in Commands
    BY DEF Typed
  <2> QED
    BY <2>1, <2>2, <2>3 DEF CommandsOK, At
<1>9. ~Serving'
  <2>1. writer.command # None => writer.command \in Commands /\ IsLate(writer.command)
    BY DEF Typed, CommandsOK
  <2> QED
    BY <1>1, <2>1 DEF Serving, IsLate, Commands
<1>10. MarkOK'
  <2>1. sink = "open" => mark' \subseteq Accepted
    BY DEF MarkOK
  <2>2. ~At("ended")
    BY DEF CommandsOK
  <2>3. None # "open"
    BY NoneAssumption
  <2> QED
    BY <1>1, <1>3, <1>9, <2>1, <2>2, <2>3 DEF MarkOK, At, store
<1> QED
  BY <1>2, <1>4, <1>5, <1>6, <1>7, <1>8, <1>10

LEMMA CallsBeginKeep ==
  ASSUME DiagnosticsInv, (\E mode \in Modes : StoreLevel(mode)) \/ Export \/ StopSwap
  PROVE  DiagnosticsInv'
<1>1. bundle # None => backend.pc \in {"manifest", "event"}
  BY DEF DiagnosticsInv, BundleOK
<1>2. ASSUME NEW mode \in Modes, StoreLevel(mode) PROVE DiagnosticsInv'
  BY <1>1, <1>2, NewCallKeeps DEF StoreLevel, StopPlaces
<1>3. CASE Export
  BY <1>1, <1>3, NewCallKeeps DEF Export, MoveTo, StopPlaces, settings
<1>4. CASE StopSwap
  BY <1>1, <1>4, NewCallKeeps DEF StopSwap, MoveTo, StopPlaces, settings
<1> QED
  BY <1>2, <1>3, <1>4

\* `sensitive` is stored before the flag that stays set; no bundle is exported in
\* between.
LEMMA StoreKeeps ==
  ASSUME DiagnosticsInv, StoreSensitive \/ StoreEver
  PROVE  DiagnosticsInv'
<1> USE DEF DiagnosticsInv
<1>1. /\ UNCHANGED <<level, drops, shutdown, queues, control, store, writer, emission,
                     calls, answer, mark, bundle>>
      /\ \/ /\ backend.pc = "store_sensitive" /\ sensitive' = backend.sensitive
            /\ sensitive_ever_enabled' = sensitive_ever_enabled
            /\ backend'.pc = IF backend.sensitive THEN "store_ever" ELSE "event"
         \/ /\ backend.pc = "store_ever" /\ sensitive' = sensitive
            /\ sensitive_ever_enabled' = TRUE /\ backend'.pc = "event"
      /\ backend' \in [pc : {"store_ever", "event"}, sensitive : BOOLEAN]
  <2>1. CASE StoreSensitive
    <3>1. CASE backend.sensitive
      BY <2>1, <3>1 DEF StoreSensitive, MoveTo
    <3>2. CASE ~backend.sensitive
      BY <2>1, <3>2 DEF StoreSensitive, MoveTo
    <3> QED
      BY <3>1, <3>2
  <2>2. CASE StoreEver
    BY <2>2 DEF StoreEver, MoveTo
  <2> QED
    BY <2>1, <2>2
<1>2. /\ backend' \in [pc : BackendPlaces, sensitive : BOOLEAN]
      /\ backend.sensitive \in BOOLEAN
      /\ backend'.pc \in {"store_ever", "event"}
  BY <1>1 DEF BackendPlaces, Typed
<1>3. Typed'
  BY <1>1, <1>2 DEF Typed, drops, queues, store, emission
<1>4. HandsOK' /\ RegularOK'
  BY <1>1 DEF HandsOK, RegularOK, Accepted, emission, queues, store
<1>5. PrivacyOK'
  BY <1>1, <1>2 DEF PrivacyOK, emission, queues, store
<1>6. BundleOK'
  BY <1>1, <1>2 DEF BundleOK
<1>7. WriterOK' /\ ErrorsAreDurable' /\ CommandsOK'
  BY <1>1, <1>2 DEF WriterOK, ErrorsAreDurable, CommandsOK, IsLate, StopPlaces, At, store
<1>8. MarkOK'
  BY <1>1, <1>2 DEF MarkOK, At, Serving, Accepted, OnDisk, queues, store
<1> QED
  BY <1>3, <1>4, <1>5, <1>6, <1>7, <1>8

\* The backend thread goes from one place to another and changes nothing else.
LEMMA MoveKeeps ==
  ASSUME DiagnosticsInv,
         backend' \in [pc : {"idle", "flush_wait", "sizes", "stop_event"} \cup StopPlaces, sensitive : BOOLEAN],
         UNCHANGED <<settings, drops, queues, control, store, writer, emission, calls, answer, mark, bundle>>,
         backend.pc \in {"idle", "flush_send", "flush_wait", "stop_send"} \cup StopPlaces,
         backend.pc \in StopPlaces => backend'.pc \in StopPlaces,
         backend'.pc = "flush_wait" => backend.pc = "flush_send",
         backend'.pc = "sizes" => backend.pc = "flush_wait" /\ answer = "open",
         backend'.pc = "stopped" => At("ended")
  PROVE  DiagnosticsInv'
<1> USE DEF DiagnosticsInv
<1>1. /\ backend' \in [pc : BackendPlaces, sensitive : BOOLEAN]
      /\ backend'.pc \in {"idle", "flush_wait", "sizes", "stop_event"} \cup StopPlaces
  BY DEF BackendPlaces
<1>2. Typed'
  BY <1>1 DEF Typed, settings, drops, queues, store, emission
<1>3. HandsOK' /\ RegularOK'
  BY DEF HandsOK, RegularOK, Accepted, emission, queues, store
<1>4. PrivacyOK' /\ BundleOK'
  BY <1>1 DEF PrivacyOK, BundleOK, StopPlaces, settings, emission, queues, store
<1>5. WriterOK' /\ ErrorsAreDurable'
  BY DEF WriterOK, ErrorsAreDurable, At, store
<1>6. CommandsOK'
  BY <1>1 DEF CommandsOK, IsLate, At, StopPlaces
<1>7. MarkOK'
  BY <1>1 DEF MarkOK, At, Serving, Accepted, OnDisk, StopPlaces, queues, store
<1> QED
  BY <1>2, <1>3, <1>4, <1>5, <1>6, <1>7

\* A command of this call joins the channel; its sender waits for the reply.
LEMMA QueueKeeps ==
  ASSUME DiagnosticsInv, NEW kind \in {"flush", "shutdown"},
         control' = Append(control, [kind |-> kind, call |-> calls]),
         backend.pc = IF kind = "flush" THEN "flush_send" ELSE "stop_send",
         backend' = [pc |-> IF kind = "flush" THEN "flush_wait" ELSE "stop_wait", sensitive |-> FALSE],
         UNCHANGED <<settings, drops, queues, store, writer, emission, calls, answer, mark, bundle>>
  PROVE  DiagnosticsInv'
<1> USE DEF DiagnosticsInv
<1>0. PICK c : c = [kind |-> kind, call |-> calls]
  OBVIOUS
<1>1. /\ backend' \in [pc : BackendPlaces, sensitive : BOOLEAN]
      /\ backend'.pc \in {"flush_wait", "stop_wait"}
      /\ kind = "shutdown" => backend'.pc = "stop_wait"
      /\ backend'.pc = "flush_wait" => backend.pc = "flush_send"
      /\ backend.pc \in {"flush_send", "stop_send"}
  BY DEF BackendPlaces, StopPlaces
<1>2. control \in Seq(Commands) /\ c \in Commands /\ c.call = calls /\ c.kind = kind /\ calls \in Nat
  BY <1>0 DEF Typed, Commands
<1>3. control' = Append(control, c)
  BY <1>0
<1>4. /\ control' \in Seq(Commands) /\ Len(control') = Len(control) + 1 /\ Len(control) \in Nat
      /\ \A i \in 1..Len(control) : control'[i] = control[i]
      /\ control'[Len(control) + 1] = c
  BY <1>2, <1>3, AppendAdds
<1>5. Typed'
  BY <1>1, <1>4 DEF Typed, settings, drops, queues, store, emission
<1>6. HandsOK' /\ RegularOK'
  BY DEF HandsOK, RegularOK, Accepted, emission, queues, store
<1>7. PrivacyOK' /\ BundleOK'
  BY <1>1 DEF PrivacyOK, BundleOK, settings, emission, queues, store
<1>8. WriterOK' /\ ErrorsAreDurable'
  BY DEF WriterOK, ErrorsAreDurable, At, store
<1>9. CommandsOK'
  <2>1. IsLate(c)'
    BY <1>1, <1>2 DEF IsLate, StopPlaces
  <2>2. ASSUME NEW command, IsLate(command) PROVE IsLate(command)'
    BY <1>1, <2>2 DEF IsLate, StopPlaces
  <2>3. \A i \in 1..Len(control') : i \in 1..Len(control) \/ i = Len(control) + 1
    BY <1>4
  <2>4. (\A i \in 1..Len(control) : IsLate(control[i]))'
    BY <1>4, <2>1, <2>2, <2>3 DEF CommandsOK
  <2> QED
    BY <1>1, <2>2, <2>4 DEF CommandsOK, At, StopPlaces
<1>10. MarkOK'
  BY <1>1 DEF MarkOK, At, Serving, Accepted, OnDisk, queues, store
<1> QED
  BY <1>5, <1>6, <1>7, <1>8, <1>9, <1>10

LEMMA MovesKeep ==
  ASSUME DiagnosticsInv, SendFlush \/ SendStop \/ FlushReturns \/ Stop \/ StopReturns \/ Join
  PROVE  DiagnosticsInv'
<1>1. CASE SendFlush
  <2>1. CASE MoveTo("idle") /\ UNCHANGED control
    BY <1>1, <2>1, MoveKeeps DEF SendFlush, SendCommand, MoveTo, StopPlaces
  <2>2. CASE MoveTo("flush_wait") /\ control' = Append(control, [kind |-> "flush", call |-> calls])
    BY <1>1, <2>2, QueueKeeps DEF SendFlush, SendCommand, MoveTo
  <2> QED
    BY <1>1, <2>1, <2>2 DEF SendFlush, SendCommand
<1>2. CASE SendStop
  <2>1. CASE MoveTo("unasked") /\ UNCHANGED control
    BY <1>2, <2>1, MoveKeeps DEF SendStop, SendCommand, MoveTo, StopPlaces
  <2>2. CASE MoveTo("stop_wait") /\ control' = Append(control, [kind |-> "shutdown", call |-> calls])
    BY <1>2, <2>2, QueueKeeps DEF SendStop, SendCommand, MoveTo
  <2> QED
    BY <1>2, <2>1, <2>2 DEF SendStop, SendCommand
<1>3. CASE FlushReturns
  BY <1>3, MoveKeeps DEF FlushReturns, MoveTo, StopPlaces
<1>4. CASE Stop
  BY <1>4, MoveKeeps DEF Stop, MoveTo, StopPlaces
<1>5. CASE StopReturns
  BY <1>5, MoveKeeps DEF StopReturns, MoveTo, StopPlaces
<1>6. CASE Join
  BY <1>6, MoveKeeps DEF Join, MoveTo, StopPlaces, At
<1> QED
  BY <1>1, <1>2, <1>3, <1>4, <1>5, <1>6

\* The copy of the file holds all that is durable.
LEMMA SizesKeeps ==
  ASSUME DiagnosticsInv, Sizes
  PROVE  DiagnosticsInv'
<1> USE DEF DiagnosticsInv
<1>1. PICK size \in durable..Len(file) :
        bundle' = [records |-> SubSeq(file, 1, size), privacy |-> None]
  BY DEF Sizes
<1>2. /\ backend.pc = "sizes" /\ backend'.pc = "manifest"
      /\ backend' \in [pc : BackendPlaces, sensitive : BOOLEAN]
      /\ UNCHANGED <<settings, drops, shutdown, queues, control, store, writer, emission,
                     calls, answer, mark>>
  BY DEF Sizes, MoveTo, BackendPlaces
<1>3. Typed'
  BY <1>2 DEF Typed, settings, drops, queues, store, emission
<1>4. HandsOK' /\ RegularOK' /\ PrivacyOK'
  BY <1>2 DEF HandsOK, RegularOK, PrivacyOK, Accepted, settings, emission, queues, store
<1>5. WriterOK' /\ ErrorsAreDurable' /\ CommandsOK' /\ MarkOK'
  BY <1>2 DEF WriterOK, ErrorsAreDurable, CommandsOK, IsLate, StopPlaces, MarkOK, Serving, Accepted,
    OnDisk, At, queues, store
<1>6. /\ file \in Seq(Records) /\ durable \in 0..Len(file) /\ size \in 0..Len(file) /\ durable <= size
  BY <1>1, AcceptedTyped DEF Typed
<1>7. /\ bundle'.records = SubSeq(file, 1, size) /\ bundle'.privacy = None
      /\ bundle'.records \in Seq(Records)
      /\ Ids(OnDisk) \subseteq Ids(bundle'.records)
      /\ Private(bundle'.records) => Private(file)
  <2>1. bundle'.records = SubSeq(file, 1, size) /\ bundle'.privacy = None
    BY <1>1
  <2>2. SubSeq(file, 1, size) \in Seq(Records) /\ (Private(SubSeq(file, 1, size)) => Private(file))
    BY <1>6, PartRecords
  <2>3. Ids(OnDisk) \subseteq Ids(SubSeq(file, 1, size))
    <3>1. Ids(OnDisk) = {file[i].id : i \in 1..durable}
      BY <1>6, PartRecords DEF OnDisk
    <3>2. Ids(SubSeq(file, 1, size)) = {file[i].id : i \in 1..size}
      BY <1>6, PartRecords
    <3>3. \A i \in 1..durable : i \in 1..size
      BY <1>6
    <3> QED
      BY <3>1, <3>2, <3>3
  <2> QED
    BY <2>1, <2>2, <2>3
<1>8. BundleOK'
  <2>1. mark \subseteq Ids(bundle'.records)
    BY <1>2, <1>7 DEF MarkOK
  <2>2. sensitive_ever_enabled \/ ~Private(bundle'.records)
    BY <1>2, <1>7 DEF PrivacyOK
  <2>3. bundle'.privacy # "redacted"
    BY <1>7, NoneAssumption
  <2> QED
    BY <1>1, <1>2, <1>7, <2>1, <2>2, <2>3 DEF BundleOK, settings
<1> QED
  BY <1>3, <1>4, <1>5, <1>8

\* The manifest says whether sensitive fields were ever recorded.
LEMMA ManifestKeeps ==
  ASSUME DiagnosticsInv, Manifest
  PROVE  DiagnosticsInv'
<1> USE DEF DiagnosticsInv
<1>1. /\ backend.pc = "manifest" /\ backend'.pc \in {"event", "idle"}
      /\ backend' \in [pc : BackendPlaces, sensitive : BOOLEAN]
      /\ \/ /\ bundle' = [bundle EXCEPT !.privacy =
                            IF sensitive_ever_enabled THEN "sensitive" ELSE "redacted"]
            /\ backend'.pc = "event"
         \/ bundle' = None
      /\ UNCHANGED <<settings, drops, shutdown, queues, control, store, writer, emission,
                     calls, answer, mark>>
  <2>1. CASE MoveTo("event")
    BY <2>1 DEF Manifest, MoveTo, BackendPlaces
  <2>2. CASE MoveTo("idle")
    BY <2>2 DEF Manifest, MoveTo, BackendPlaces
  <2> QED
    BY <2>1, <2>2 DEF Manifest
<1>2. Typed'
  BY <1>1 DEF Typed, settings, drops, queues, store, emission
<1>3. HandsOK' /\ RegularOK' /\ PrivacyOK'
  BY <1>1 DEF HandsOK, RegularOK, PrivacyOK, Accepted, settings, emission, queues, store
<1>4. WriterOK' /\ ErrorsAreDurable' /\ CommandsOK' /\ MarkOK'
  BY <1>1 DEF WriterOK, ErrorsAreDurable, CommandsOK, IsLate, StopPlaces, MarkOK, Serving, Accepted,
    OnDisk, At, queues, store
<1>5. BundleOK'
  <2>1. CASE bundle' = None
    BY <1>1, <2>1 DEF BundleOK
  <2>2. CASE /\ bundle' = [bundle EXCEPT !.privacy =
                            IF sensitive_ever_enabled THEN "sensitive" ELSE "redacted"]
             /\ backend'.pc = "event"
    <3>1. PICK records \in Seq(Records) : bundle = [records |-> records, privacy |-> None]
      BY <1>1 DEF BundleOK
    <3>2. /\ bundle'.records = bundle.records
          /\ bundle'.privacy = IF sensitive_ever_enabled THEN "sensitive" ELSE "redacted"
      BY <2>2, <3>1
    <3>3. mark \subseteq Ids(bundle.records) /\ (sensitive_ever_enabled \/ ~Private(bundle.records))
      BY <1>1 DEF BundleOK
    <3> QED
      BY <1>1, <2>2, <3>2, <3>3 DEF BundleOK, settings
  <2> QED
    BY <1>1, <2>1, <2>2
<1> QED
  BY <1>2, <1>3, <1>4, <1>5

-----------------------------------------------------------------------------
(* The theorems.                                                           *)

LEMMA DiagnosticsStep ==
  ASSUME DiagnosticsInv, [Next]_vars
  PROVE  DiagnosticsInv'
<1>1. CASE \E t \in Emitters, lvl \in Levels : Emit(t, lvl)
  BY <1>1, EmitKeeps
<1>2. CASE \E t \in Threads : Check(t) \/ Send(t) \/ CountTotal(t)
  BY <1>2, CheckOrCountKeeps, SendKeeps
<1>3. CASE WriterStep \/ Tick
  BY <1>3, TakePriorityKeeps, TakeRegularKeeps, DrainPriorityKeeps, DrainRegularKeeps,
    WriterMovesKeep, ReportAndFlushKeeps, ReplyKeeps DEF WriterStep
<1>4. CASE \/ \E mode \in Modes : StoreLevel(mode)
           \/ Export \/ Stop \/ BackendStep
  BY <1>4, CallsBeginKeep, StoreKeeps, BackendEventKeeps, MovesKeep, SizesKeeps, ManifestKeeps
  DEF BackendStep
<1>5. CASE UNCHANGED vars
  <2>1. UNCHANGED <<settings, drops, queues, control, store, writer, emission, calling>>
    BY <1>5 DEF vars
  <2> QED
    BY <2>1 DEF DiagnosticsInv, Typed, HandsOK, RegularOK, WriterOK, CommandsOK, IsLate, MarkOK, At,
      Serving, PrivacyOK, BundleOK, ErrorsAreDurable, Accepted, OnDisk, settings, drops, queues, store,
      emission, calling
<1> QED
  BY <1>1, <1>2, <1>3, <1>4, <1>5 DEF Next

LEMMA DiagnosticsSafe == Spec => []DiagnosticsInv
<1>1. DiagnosticsInv /\ [Next]_vars => DiagnosticsInv'
  BY DiagnosticsStep
<1> QED
  BY DiagnosticsInit, <1>1, PTL DEF Spec

\* What the log accepted outlives its process: when shutdown returns and the file
\* did not fail, every record accepted before the shutdown flag was set is on disk,
\* and when the writer waits for work every warning and error it took is.
THEOREM AcceptedOutlivesTheProcess == Spec => []AcceptedIsDurable
<1>1. DiagnosticsInv => AcceptedIsDurable
  BY DEF DiagnosticsInv, AcceptedIsDurable, StoppedIsDurable, CommandsOK, MarkOK
<1> QED
  BY DiagnosticsSafe, <1>1, PTL

\* An exported bundle holds every record accepted before the export began, and one
\* whose manifest says "redacted" holds no record with sensitive fields.
THEOREM BundlesAreSound == Spec => []BundleSound
<1>1. DiagnosticsInv => BundleSound
  BY DEF DiagnosticsInv, BundleSound, BundleIsComplete, BundlePrivacy, BundleOK, Private
<1> QED
  BY DiagnosticsSafe, <1>1, PTL

-----------------------------------------------------------------------------
(* What is lost is counted.  The second invariant adds to the first that a *)
(* record of a thread reports no losses itself, and that the losses which  *)
(* the file reports are finitely many.                                     *)

Emitted(record) == record.thread # None /\ record.drops = 0

EmittedOK ==
  /\ \A i \in 1..Len(regular) : Emitted(regular[i])
  /\ \A i \in 1..Len(priority) : Emitted(priority[i])
  /\ \A t \in Threads : phase[t] # "idle" => Emitted(hand[t])

Bit(b) == IF b THEN 1 ELSE 0

\* The records in the hands of the threads, and those being counted as lost.
Held == Between({"check", "send"})
Losing == Between({"total"})

\* The records that wait, and the losses still to be reported.
Queued == Len(regular) + Len(priority)
Pending == writer.swapped + dropped_regular + dropped_priority

\* The two sums of NoSilentLoss.
RecordsAddUp ==
  sink = "open" /\ ~shutdown => issued = Held + Queued + Written + Losing + dropped_total

LossesAddUp ==
  sink = "open" => dropped_total + Losing = Cardinality(Reported(file)) + Pending

LossInv ==
  /\ EmittedOK
  /\ dropped_total \in Nat
  /\ IsFiniteSet(Reported(file))
  /\ RecordsAddUp
  /\ LossesAddUp
  /\ writer.pc \notin {"swap_priority", "report"} => writer.swapped = 0

\* A thread that goes to another phase is counted there.
LEMMA PhaseMoves ==
  ASSUME Typed, NEW t \in Threads, NEW p, phase' = [phase EXCEPT ![t] = p], NEW phases
  PROVE  /\ Between(phases) \in Nat /\ Between(phases)' \in Nat
         /\ Between(phases)' = Between(phases) + Bit(p \in phases) - Bit(phase[t] \in phases)
<1> DEFINE before == {u \in Threads : phase[u] \in phases}
           after == {u \in Threads : phase'[u] \in phases}
<1>1. IsFiniteSet(Threads)
  BY DiagnosticsAssumption, FS_AddElement DEF Threads
<1>2. /\ IsFiniteSet(before) /\ Cardinality(before) \in Nat
      /\ IsFiniteSet(after) /\ Cardinality(after) \in Nat
  <2>1. before \in SUBSET Threads /\ after \in SUBSET Threads
    OBVIOUS
  <2> QED
    BY <1>1, <2>1, FS_Subset, FS_CardinalityType
<1>3. t \in before <=> phase[t] \in phases
  OBVIOUS
<1>4. phase'[t] = p /\ \A u \in Threads : u # t => phase'[u] = phase[u]
  BY DEF Typed
<1>5. CASE p \in phases
  <2>1. after = before \cup {t}
    BY <1>4, <1>5
  <2>2. Cardinality(after) = IF t \in before THEN Cardinality(before) ELSE Cardinality(before) + 1
    BY <1>2, <2>1, FS_AddElement
  <2> QED
    BY <1>2, <1>3, <1>5, <2>2 DEF Between, Bit
<1>6. CASE p \notin phases
  <2>1. after = before \ {t}
    BY <1>4, <1>6
  <2> QED
    BY <1>2, <1>3, <1>6, <2>1, FS_RemoveElement DEF Between, Bit
<1> QED
  BY <1>5, <1>6

Holds(p) == Bit(p \in {"check", "send"})
Loses(p) == Bit(p \in {"total"})

LEMMA PhaseCounts ==
  ASSUME Typed, NEW t \in Threads, NEW p, phase' = [phase EXCEPT ![t] = p]
  PROVE  /\ Held \in Nat /\ Held' \in Nat /\ Losing \in Nat /\ Losing' \in Nat
         /\ Held' = Held + Holds(p) - Holds(phase[t])
         /\ Losing' = Losing + Loses(p) - Loses(phase[t])
<1>1. Held \in Nat /\ Held' \in Nat /\ Held' = Held + Holds(p) - Holds(phase[t])
  BY PhaseMoves DEF Held, Holds
<1>2. Losing \in Nat /\ Losing' \in Nat /\ Losing' = Losing + Loses(p) - Loses(phase[t])
  BY PhaseMoves DEF Losing, Loses
<1> QED
  BY <1>1, <1>2

LEMMA Phases ==
  /\ Holds("idle") = 0 /\ Holds("check") = 1 /\ Holds("send") = 1 /\ Holds("total") = 0
  /\ Loses("idle") = 0 /\ Loses("check") = 0 /\ Loses("send") = 0 /\ Loses("total") = 1
BY DEF Holds, Loses, Bit

LEMMA PhaseStays ==
  ASSUME Typed, UNCHANGED phase
  PROVE  Held \in Nat /\ Held' = Held /\ Losing \in Nat /\ Losing' = Losing
<1>1. IsFiniteSet(Threads)
  BY DiagnosticsAssumption, FS_AddElement DEF Threads
<1>2. ASSUME NEW phases PROVE Between(phases) \in Nat
  <2>1. {u \in Threads : phase[u] \in phases} \in SUBSET Threads
    OBVIOUS
  <2> QED
    BY <1>1, <2>1, FS_Subset, FS_CardinalityType DEF Between
<1>3. Held \in Nat /\ Losing \in Nat
  BY <1>2 DEF Held, Losing
<1> QED
  BY <1>3 DEF Held, Losing, Between

\* A record leaves the hands of its thread for a queue, or is to be counted as lost,
\* or has been counted.
LEMMA PhaseSums ==
  ASSUME Typed, NEW t \in Threads, NEW p, phase' = [phase EXCEPT ![t] = p]
  PROVE  /\ Held \in Int /\ Held' \in Int /\ Losing \in Int /\ Losing' \in Int
         /\ phase[t] = "send" /\ p = "idle" => Held = Held' + 1 /\ Losing' = Losing
         /\ phase[t] = "send" /\ p = "total" => Held = Held' + 1 /\ Losing' = Losing + 1
         /\ phase[t] = "total" /\ p = "idle" => Held' = Held /\ Losing = Losing' + 1
         /\ phase[t] = "idle" /\ p = "check" => Held' = Held + 1 /\ Losing' = Losing
         /\ phase[t] = "check" /\ p = "send" => Held' = Held /\ Losing' = Losing
         /\ phase[t] = "check" /\ p = "idle" => Losing' = Losing
<1>1. /\ Held \in Nat /\ Held' \in Nat /\ Losing \in Nat /\ Losing' \in Nat
      /\ Held' = Held + Holds(p) - Holds(phase[t])
      /\ Losing' = Losing + Loses(p) - Loses(phase[t])
  BY PhaseCounts
<1>2. CASE phase[t] = "send" /\ p = "idle"
  BY <1>1, <1>2, Phases
<1>3. CASE phase[t] = "send" /\ p = "total"
  BY <1>1, <1>3, Phases
<1>4. CASE phase[t] = "total" /\ p = "idle"
  BY <1>1, <1>4, Phases
<1>5. CASE phase[t] = "idle" /\ p = "check"
  BY <1>1, <1>5, Phases
<1>6. CASE phase[t] = "check"
  BY <1>1, <1>6, Phases
<1> QED
  BY <1>1, <1>2, <1>3, <1>4, <1>5, <1>6

\* Numbers of one record are as many as it has losses.
LEMMA Numbered ==
  ASSUME NEW k, NEW n \in Nat
  PROVE  IsFiniteSet({k} \X (1..n)) /\ Cardinality({k} \X (1..n)) = n
<1> DEFINE pair == [i \in 1..n |-> <<k, i>>]
<1>1. IsFiniteSet(1..n) /\ Cardinality(1..n) = n
  BY FS_Interval
<1>2. pair \in Bijection(1..n, {k} \X (1..n))
  <2>1. pair \in [1..n -> {k} \X (1..n)]
    OBVIOUS
  <2>2. \A x, y \in 1..n : pair[x] = pair[y] => x = y
    OBVIOUS
  <2>3. \A q \in {k} \X (1..n) : \E i \in 1..n : pair[i] = q
    OBVIOUS
  <2> QED
    BY <2>1, <2>2, <2>3 DEF Bijection, Injection, Surjection, IsInjective
<1>3. ExistsBijection(1..n, {k} \X (1..n))
  BY <1>2 DEF ExistsBijection
<1> QED
  BY <1>1, <1>3, FS_Bijection

\* A record that joins the file adds the losses it reports.
LEMMA ReportedAppend ==
  ASSUME NEW s \in Seq(Records), NEW r \in Records, IsFiniteSet(Reported(s))
  PROVE  /\ IsFiniteSet(Reported(Append(s, r)))
         /\ Cardinality(Reported(Append(s, r))) = Cardinality(Reported(s)) + r.drops
<1> DEFINE n == Len(s) + 1
           added == {n} \X (1..r.drops)
<1>1. /\ Len(Append(s, r)) = n /\ Len(s) \in Nat /\ r.drops \in Nat
      /\ \A i \in 1..Len(s) : Append(s, r)[i] = s[i]
      /\ Append(s, r)[n] = r
  BY AppendAdds DEF Records
<1>2. 1..n = 1..Len(s) \cup {n} /\ n \notin 1..Len(s)
  BY <1>1
<1>3. Reported(Append(s, r)) = Reported(s) \cup added
  BY <1>1, <1>2 DEF Reported
<1>4. Reported(s) \cap added = {}
  BY <1>2 DEF Reported
<1>5. IsFiniteSet(added) /\ Cardinality(added) = r.drops
  BY <1>1, Numbered
<1>6. Cardinality(Reported(s)) \in Nat /\ Cardinality({}) = 0
  BY FS_CardinalityType, FS_EmptySet
<1> HIDE DEF added
<1>7. /\ IsFiniteSet(Reported(s) \cup added)
      /\ Cardinality(Reported(s) \cup added)
           = Cardinality(Reported(s)) + Cardinality(added) - Cardinality(Reported(s) \cap added)
  BY <1>5, FS_Union
<1>8. Cardinality(Reported(s) \cap added) = 0
  BY <1>4, <1>6
<1>9. /\ IsFiniteSet(Reported(Append(s, r)))
      /\ Cardinality(Reported(Append(s, r)))
           = Cardinality(Reported(s)) + Cardinality(added) - Cardinality(Reported(s) \cap added)
  BY <1>3, <1>7
<1>10. r.drops \in Nat
  BY <1>1
<1> QED
  BY <1>5, <1>6, <1>8, <1>9, <1>10

LEMMA WrittenAppend ==
  ASSUME Typed, NEW r \in Records, file' = Append(file, r)
  PROVE  Written \in Nat /\ Written' = Written + Bit(r.thread # None)
<1> DEFINE n == Len(file) + 1
           before == {i \in 1..Len(file) : file[i].thread # None}
           after == {i \in 1..n : file'[i].thread # None}
<1>1. /\ Len(file') = n /\ Len(file) \in Nat
      /\ \A i \in 1..Len(file) : file'[i] = file[i]
      /\ file'[n] = r
  BY AppendAdds DEF Typed
<1>2. 1..n = 1..Len(file) \cup {n} /\ n \notin 1..Len(file)
  BY <1>1
<1>3. IsFiniteSet(before) /\ Cardinality(before) \in Nat
  <2>1. before \in SUBSET (1..Len(file)) /\ IsFiniteSet(1..Len(file))
    BY <1>1, FS_Interval
  <2> QED
    BY <2>1, FS_Subset, FS_CardinalityType
<1>4. Written = Cardinality(before) /\ Written' = Cardinality(after)
  BY <1>1 DEF Written
<1>5. /\ r.thread # None => after = before \cup {n}
      /\ r.thread = None => after = before
  BY <1>1, <1>2
<1>6. n \notin before
  BY <1>2
<1>7. Cardinality(before \cup {n}) = Cardinality(before) + 1
  BY <1>3, <1>6, FS_AddElement
<1> HIDE DEF before, after
<1>8. CASE r.thread # None
  BY <1>3, <1>4, <1>5, <1>7, <1>8 DEF Bit
<1>9. CASE r.thread = None
  BY <1>3, <1>4, <1>5, <1>9 DEF Bit
<1> QED
  BY <1>8, <1>9

LEMMA WrittenStays ==
  ASSUME Typed, UNCHANGED file
  PROVE  Written \in Nat /\ Written' = Written
<1>1. {i \in 1..Len(file) : file[i].thread # None} \in SUBSET (1..Len(file)) /\ IsFiniteSet(1..Len(file))
  <2>1. Len(file) \in Nat
    BY LenProperties DEF Typed
  <2> QED
    BY <2>1, FS_Interval
<1> QED
  BY <1>1, FS_Subset, FS_CardinalityType DEF Written

Numbers ==
  /\ Len(regular) \in Nat /\ Len(priority) \in Nat /\ issued \in Nat /\ Queued \in Nat
  /\ Cardinality(Reported(file)) \in Nat
  /\ dropped_regular \in Nat /\ dropped_priority \in Nat /\ dropped_total \in Nat
  /\ writer.swapped \in Nat /\ Pending \in Nat

LEMMA CountTypes ==
  ASSUME DiagnosticsInv, LossInv
  PROVE  Numbers /\ Typed
<1>1. Typed
  BY DEF DiagnosticsInv
<1>2. Len(regular) \in Nat /\ Len(priority) \in Nat
  BY <1>1, LenProperties DEF Typed
<1>3. Cardinality(Reported(file)) \in Nat
  BY FS_CardinalityType DEF LossInv
<1> QED
  BY <1>1, <1>2, <1>3 DEF Numbers, Queued, Pending, Typed, LossInv

\* A step that leaves the threads, the queues, the file and the counters alone.
LEMMA LossFrame ==
  ASSUME DiagnosticsInv, LossInv, shutdown => shutdown',
         UNCHANGED <<drops, queues, store, emission>>, writer'.swapped = writer.swapped,
         writer.pc \notin {"swap_priority", "report"} \/ writer'.pc = writer.pc
  PROVE  LossInv'
<1>1. EmittedOK' /\ dropped_total' \in Nat /\ IsFiniteSet(Reported(file))'
  BY DEF LossInv, EmittedOK, drops, queues, store, emission
<1>2. /\ Held' = Held /\ Losing' = Losing /\ Written' = Written /\ Queued' = Queued
      /\ Pending' = Pending
  BY DEF Held, Losing, Between, Written, Queued, Pending, emission, store, queues, drops
<1>3. RecordsAddUp' /\ LossesAddUp'
  BY <1>2 DEF LossInv, RecordsAddUp, LossesAddUp, drops, store, emission
<1> QED
  BY <1>1, <1>3 DEF LossInv

LEMMA LossBuild ==
  ASSUME DiagnosticsInv, LossInv, NEW t \in Threads, NEW lvl, Build(t, lvl),
         UNCHANGED <<drops, shutdown, queues, store, writer>>
  PROVE  LossInv'
<1>0. Numbers /\ Typed /\ RecordsAddUp /\ LossesAddUp
  BY CountTypes DEF LossInv
<1>1. /\ phase[t] = "idle" /\ phase' = [phase EXCEPT ![t] = "check"]
      /\ issued' = issued + 1
      /\ hand' = [hand EXCEPT ![t] = Record(issued', t, Queue(lvl), sensitive, 0)]
  BY DEF Build
<1>2. Emitted(Record(issued', t, Queue(lvl), sensitive, 0))
  BY NoneAssumption DEF Emitted, Record
<1>3. EmittedOK' /\ dropped_total' \in Nat /\ IsFiniteSet(Reported(file))'
  <2>1. hand \in [Threads -> Records \cup {None}] /\ phase \in [Threads -> {"idle", "check", "send", "total"}]
    BY <1>0 DEF Typed
  <2>2. \A u \in Threads : phase'[u] # "idle" => Emitted(hand'[u])
    BY <1>1, <1>2, <2>1 DEF LossInv, EmittedOK
  <2> QED
    BY <2>2 DEF LossInv, EmittedOK, drops, queues, store
<1>4. /\ Held \in Int /\ Held' = Held + 1
      /\ Losing \in Int /\ Losing' = Losing
  BY <1>0, <1>1, PhaseSums
<1>5. Written \in Nat /\ Written' = Written
  BY <1>0, WrittenStays DEF store
<1>6. /\ Queued' = Queued /\ Pending' = Pending /\ file' = file /\ sink' = sink /\ shutdown' = shutdown
      /\ dropped_total' = dropped_total /\ writer' = writer
  BY DEF Queued, Pending, drops, queues, store
<1>7. RecordsAddUp'
  BY <1>0, <1>1, <1>4, <1>5, <1>6 DEF RecordsAddUp, Numbers
<1>8. LossesAddUp'
  BY <1>0, <1>4, <1>6 DEF LossesAddUp
<1> QED
  BY <1>3, <1>6, <1>7, <1>8 DEF LossInv

\* A record is left alone once the log has been shut down.
LEMMA LossCheck ==
  ASSUME DiagnosticsInv, LossInv, NEW t \in Threads, Check(t)
  PROVE  LossInv'
<1>0. Numbers /\ Typed /\ RecordsAddUp /\ LossesAddUp
  BY CountTypes DEF LossInv
<1>1. /\ phase[t] = "check"
      /\ UNCHANGED <<drops, shutdown, queues, store, writer, issued>>
      /\ \/ shutdown /\ phase' = [phase EXCEPT ![t] = "idle"] /\ hand' = [hand EXCEPT ![t] = None]
         \/ phase' = [phase EXCEPT ![t] = "send"] /\ hand' = hand
  BY DEF Check, Leave
<1>2. hand \in [Threads -> Records \cup {None}] /\ phase \in [Threads -> {"idle", "check", "send", "total"}]
  BY <1>0 DEF Typed
<1>3. EmittedOK' /\ dropped_total' \in Nat /\ IsFiniteSet(Reported(file))'
  BY <1>1, <1>2 DEF LossInv, EmittedOK, drops, queues, store
<1>4. Losing' = Losing /\ (shutdown \/ Held' = Held)
  BY <1>0, <1>1, PhaseSums
<1>5. /\ Queued' = Queued /\ Pending' = Pending /\ file' = file /\ sink' = sink /\ shutdown' = shutdown
      /\ dropped_total' = dropped_total /\ writer' = writer /\ Written' = Written
  BY <1>1 DEF Queued, Pending, Written, drops, queues, store
<1>6. RecordsAddUp' /\ LossesAddUp'
  BY <1>0, <1>1, <1>4, <1>5 DEF RecordsAddUp, LossesAddUp
<1> QED
  BY <1>3, <1>5, <1>6 DEF LossInv

\* The records that a queue holds when it has taken one more.
LEMMA RecordTaken ==
  ASSUME NEW s \in Seq(Records), \A i \in 1..Len(s) : Emitted(s[i]), NEW r \in Records, Emitted(r)
  PROVE  /\ Len(Append(s, r)) = Len(s) + 1
         /\ \A i \in 1..Len(Append(s, r)) : Emitted(Append(s, r)[i])
<1>1. /\ Len(Append(s, r)) = Len(s) + 1 /\ Len(s) \in Nat
      /\ \A i \in 1..Len(s) : Append(s, r)[i] = s[i]
      /\ Append(s, r)[Len(s) + 1] = r
  BY AppendAdds
<1>2. \A i \in 1..Len(s) + 1 : i \in 1..Len(s) \/ i = Len(s) + 1
  BY <1>1
<1> QED
  BY <1>1, <1>2

\* try_send, or the count of a record that finds no room.
LEMMA LossSend ==
  ASSUME DiagnosticsInv, LossInv, NEW t \in Threads, Send(t)
  PROVE  LossInv'
<1>0. Numbers /\ Typed /\ RecordsAddUp /\ LossesAddUp
  BY CountTypes DEF LossInv
<1>1. /\ phase[t] = "send" /\ hand[t] \in Records /\ Emitted(hand[t])
      /\ file' = file /\ sink' = sink /\ shutdown' = shutdown /\ issued' = issued
      /\ writer' = writer
  BY DEF Send, DiagnosticsInv, HandsOK, LossInv, EmittedOK, store
<1>2. /\ hand \in [Threads -> Records \cup {None}]
      /\ phase \in [Threads -> {"idle", "check", "send", "total"}]
      /\ regular \in Seq(Records) /\ Len(regular) \in Nat
      /\ priority \in Seq(Records) /\ Len(priority) \in Nat
      /\ \A i \in 1..Len(regular) : Emitted(regular[i])
      /\ \A i \in 1..Len(priority) : Emitted(priority[i])
  BY <1>0 DEF Typed, Numbers, LossInv, EmittedOK
<1>3. Written \in Nat /\ Written' = Written /\ IsFiniteSet(Reported(file))'
  BY <1>0, <1>1, WrittenStays DEF LossInv
<1>4. CASE Leave(t) /\ UNCHANGED drops
           /\ \/ regular' = Append(regular, hand[t]) /\ priority' = priority
              \/ priority' = Append(priority, hand[t]) /\ regular' = regular
  <2>1. /\ phase' = [phase EXCEPT ![t] = "idle"] /\ hand' = [hand EXCEPT ![t] = None]
        /\ dropped_total' = dropped_total /\ Pending' = Pending
    BY <1>1, <1>4 DEF Leave, Pending, drops
  <2>2. /\ Queued' = Queued + 1 /\ Queued' \in Int
        /\ \A i \in 1..Len(regular') : Emitted(regular'[i])
        /\ \A i \in 1..Len(priority') : Emitted(priority'[i])
    <3>1. CASE regular' = Append(regular, hand[t]) /\ priority' = priority
      <4>1. /\ Len(regular') = Len(regular) + 1 /\ Len(priority') = Len(priority)
            /\ \A i \in 1..Len(regular') : Emitted(regular'[i])
        BY <1>1, <1>2, <3>1, RecordTaken
      <4> QED
        BY <1>2, <3>1, <4>1 DEF Queued
    <3>2. CASE priority' = Append(priority, hand[t]) /\ regular' = regular
      <4>1. /\ Len(priority') = Len(priority) + 1 /\ Len(regular') = Len(regular)
            /\ \A i \in 1..Len(priority') : Emitted(priority'[i])
        BY <1>1, <1>2, <3>2, RecordTaken
      <4> QED
        BY <1>2, <3>2, <4>1 DEF Queued
    <3> QED
      BY <1>4, <3>1, <3>2
  <2>3. EmittedOK' /\ dropped_total' \in Nat
    BY <1>2, <2>1, <2>2 DEF LossInv, EmittedOK
  <2>4. /\ Held = Held' + 1 /\ Losing' = Losing
        /\ Held \in Int /\ Held' \in Int /\ Losing \in Int
    BY <1>0, <1>1, <2>1, PhaseSums
  <2>5. Queued' = Queued + 1 /\ Queued' \in Int
    BY <2>2
  <2>6. RecordsAddUp'
    BY <1>0, <1>1, <1>3, <2>1, <2>4, <2>5 DEF RecordsAddUp, Numbers
  <2>7. LossesAddUp'
    BY <1>0, <1>1, <2>1, <2>4 DEF LossesAddUp
  <2> QED
    BY <1>1, <1>3, <2>3, <2>6, <2>7 DEF LossInv
<1>5. CASE /\ phase' = [phase EXCEPT ![t] = "total"] /\ UNCHANGED <<hand, queues, dropped_total>>
           /\ \/ dropped_regular' = dropped_regular + 1 /\ dropped_priority' = dropped_priority
              \/ dropped_priority' = dropped_priority + 1 /\ dropped_regular' = dropped_regular
  <2>1. EmittedOK' /\ dropped_total' \in Nat /\ dropped_total' = dropped_total /\ Queued' = Queued
    BY <1>1, <1>2, <1>5 DEF LossInv, EmittedOK, Queued, queues
  <2>2. /\ Held = Held' + 1 /\ Losing' = Losing + 1
        /\ Held \in Int /\ Held' \in Int /\ Losing \in Int /\ Losing' \in Int
    BY <1>0, <1>1, <1>5, PhaseSums
  <2>3. Pending' = Pending + 1
    <3>1. /\ writer.swapped \in Nat /\ dropped_regular \in Nat /\ dropped_priority \in Nat
          /\ writer'.swapped = writer.swapped
      BY <1>0, <1>1 DEF Numbers
    <3>2. CASE dropped_regular' = dropped_regular + 1 /\ dropped_priority' = dropped_priority
      BY <3>1, <3>2 DEF Pending
    <3>3. CASE dropped_priority' = dropped_priority + 1 /\ dropped_regular' = dropped_regular
      BY <3>1, <3>3 DEF Pending
    <3> QED
      BY <1>5, <3>2, <3>3
  <2>4. RecordsAddUp'
    <3>1. SUFFICES ASSUME sink' = "open", ~shutdown'
                   PROVE  issued' = Held' + Queued' + Written' + Losing' + dropped_total'
      BY DEF RecordsAddUp
    <3>2. /\ issued = Held + Queued + Written + Losing + dropped_total
          /\ issued' = issued /\ Queued' = Queued /\ dropped_total' = dropped_total
      BY <1>0, <1>1, <2>1, <3>1 DEF RecordsAddUp
    <3>3. Queued \in Int /\ Written \in Int /\ dropped_total \in Int
      BY <1>0, <1>3 DEF Numbers
    <3>4. Written' = Written
      BY <1>3
    <3> QED
      BY ONLY <2>2, <3>2, <3>3, <3>4
  <2>5. LossesAddUp'
    <3>1. SUFFICES ASSUME sink' = "open"
                   PROVE  dropped_total' + Losing' = Cardinality(Reported(file))' + Pending'
      BY DEF LossesAddUp
    <3>2. /\ dropped_total + Losing = Cardinality(Reported(file)) + Pending
          /\ Cardinality(Reported(file))' = Cardinality(Reported(file))
          /\ dropped_total' = dropped_total
      BY <1>0, <1>1, <2>1, <3>1 DEF LossesAddUp
    <3>3. Pending \in Int /\ Cardinality(Reported(file)) \in Int /\ dropped_total \in Int
      BY <1>0 DEF Numbers
    <3> QED
      BY ONLY <2>2, <2>3, <3>2, <3>3
  <2> QED
    BY <1>1, <1>3, <2>1, <2>4, <2>5 DEF LossInv
<1> QED
  BY <1>4, <1>5 DEF Send, queues

LEMMA LossCountTotal ==
  ASSUME DiagnosticsInv, LossInv, NEW t \in Threads, CountTotal(t)
  PROVE  LossInv'
<1>0. Numbers /\ Typed /\ RecordsAddUp /\ LossesAddUp
  BY CountTypes DEF LossInv
<1>1. /\ phase[t] = "total" /\ dropped_total' = dropped_total + 1
      /\ phase' = [phase EXCEPT ![t] = "idle"] /\ hand' = [hand EXCEPT ![t] = None]
      /\ UNCHANGED <<queues, store>>
      /\ shutdown' = shutdown /\ issued' = issued /\ writer' = writer /\ Pending' = Pending
  BY DEF CountTotal, Leave, Pending
<1>2. /\ hand \in [Threads -> Records \cup {None}]
      /\ phase \in [Threads -> {"idle", "check", "send", "total"}]
  BY <1>0 DEF Typed
<1>3. /\ Written \in Nat /\ Written' = Written /\ IsFiniteSet(Reported(file))'
      /\ file' = file /\ sink' = sink /\ Queued' = Queued
  BY <1>0, <1>1, WrittenStays DEF LossInv, store, Queued, queues
<1>4. EmittedOK' /\ dropped_total \in Nat /\ dropped_total' \in Nat
  BY <1>1, <1>2 DEF LossInv, EmittedOK, queues
<1>5. /\ Held' = Held /\ Losing = Losing' + 1
      /\ Held \in Int /\ Losing \in Int /\ Losing' \in Int
  BY <1>0, <1>1, PhaseSums
<1>6. RecordsAddUp'
  BY <1>0, <1>1, <1>3, <1>4, <1>5 DEF RecordsAddUp, Numbers
<1>7. LossesAddUp'
  <2>1. dropped_total' + Losing' = dropped_total + Losing
    BY <1>1, <1>4, <1>5
  <2> QED
    BY <1>0, <1>1, <1>3, <2>1 DEF LossesAddUp
<1> QED
  BY <1>1, <1>3, <1>4, <1>6, <1>7 DEF LossInv

\* A record reaches the file, or the sink is lost.
LEMMA LossFile ==
  ASSUME DiagnosticsInv, LossInv, NEW r \in Records, Write(r) \/ WriteThrough(r)
  PROVE  /\ IsFiniteSet(Reported(file))'
         /\ sink' = "open" =>
              /\ sink = "open"
              /\ Written \in Nat /\ Written' = Written + Bit(r.thread # None)
              /\ Cardinality(Reported(file))' = Cardinality(Reported(file)) + r.drops
<1>1. Typed /\ file \in Seq(Records) /\ IsFiniteSet(Reported(file))
  BY DEF DiagnosticsInv, Typed, LossInv
<1>2. CASE Disabled
  BY <1>1, <1>2 DEF Disabled
<1>3. CASE sink = "open" /\ file' = Append(file, r)
  <2>1. /\ IsFiniteSet(Reported(Append(file, r)))
        /\ Cardinality(Reported(Append(file, r))) = Cardinality(Reported(file)) + r.drops
    BY <1>1, ReportedAppend
  <2>2. Written \in Nat /\ Written' = Written + Bit(r.thread # None)
    BY <1>1, <1>3, WrittenAppend
  <2> QED
    BY <1>3, <2>1, <2>2
<1> QED
  BY <1>2, <1>3 DEF Write, WriteThrough

\* The writer takes a record from a queue to the file.
LEMMA LossTake ==
  ASSUME DiagnosticsInv, LossInv, UNCHANGED <<drops, shutdown, emission, writer>>,
         writer.pc \notin {"swap_priority", "report"},
         NEW r \in Records, Emitted(r), Write(r) \/ WriteThrough(r),
         \A i \in 1..Len(regular') : Emitted(regular'[i]),
         \A i \in 1..Len(priority') : Emitted(priority'[i]),
         Queued = Queued' + 1, Queued' \in Int
  PROVE  LossInv'
<1>0. Numbers /\ Typed /\ RecordsAddUp /\ LossesAddUp
  BY CountTypes DEF LossInv
<1>1. /\ IsFiniteSet(Reported(file))'
      /\ sink' = "open" =>
           /\ sink = "open"
           /\ Written \in Nat /\ Written' = Written + 1
           /\ Cardinality(Reported(file))' = Cardinality(Reported(file)) + 0
  BY LossFile DEF Emitted, Bit
<1>2. EmittedOK' /\ dropped_total' \in Nat
  BY DEF LossInv, EmittedOK, drops, emission
<1>3. Held \in Nat /\ Held' = Held /\ Losing \in Nat /\ Losing' = Losing
  BY <1>0, PhaseStays DEF emission
<1>4. /\ dropped_total' = dropped_total /\ shutdown' = shutdown /\ issued' = issued
      /\ writer' = writer /\ Pending' = Pending
  BY DEF Pending, drops, emission
<1>5. RecordsAddUp'
  <2>1. SUFFICES ASSUME sink' = "open", ~shutdown'
                 PROVE  issued' = Held' + Queued' + Written' + Losing' + dropped_total'
    BY DEF RecordsAddUp
  <2>2. /\ issued = Held + Queued + Written + Losing + dropped_total
        /\ Written \in Nat /\ Written' = Written + 1
    BY <1>0, <1>1, <1>4, <2>1 DEF RecordsAddUp
  <2>3. /\ Queued = Queued' + 1 /\ Queued' \in Int /\ dropped_total \in Int
        /\ Held \in Int /\ Losing \in Int
    BY <1>0, <1>3 DEF Numbers
  <2>4. /\ issued' = issued /\ Held' = Held /\ Losing' = Losing
        /\ dropped_total' = dropped_total
    BY <1>3, <1>4
  <2> QED
    BY ONLY <2>2, <2>3, <2>4
<1>6. LossesAddUp'
  <2>1. sink' = "open" => sink = "open" /\ Cardinality(Reported(file))' = Cardinality(Reported(file))
    BY <1>0, <1>1 DEF Numbers
  <2> QED
    BY <1>0, <1>3, <1>4, <2>1 DEF LossesAddUp
<1> QED
  BY <1>1, <1>2, <1>4, <1>5, <1>6 DEF LossInv

LEMMA HeadTaken ==
  ASSUME NEW s \in Seq(Records), s # <<>>, \A i \in 1..Len(s) : Emitted(s[i])
  PROVE  /\ Len(s) = Len(Tail(s)) + 1 /\ Len(Tail(s)) \in Nat
         /\ \A i \in 1..Len(Tail(s)) : Emitted(Tail(s)[i])
         /\ Head(s) \in Records /\ Emitted(Head(s))
<1>1. /\ Len(Tail(s)) = Len(s) - 1 /\ Len(s) \in Nat \ {0}
      /\ \A i \in 1..Len(s) - 1 : Tail(s)[i] = s[i + 1]
      /\ Head(s) = s[1] /\ s[1] \in Records
  BY TailRemoves
<1>2. 1 \in 1..Len(s) /\ \A i \in 1..Len(s) - 1 : i + 1 \in 1..Len(s)
  BY <1>1
<1> QED
  BY <1>1, <1>2

LEMMA LossTakes ==
  ASSUME DiagnosticsInv, LossInv, UNCHANGED <<drops, shutdown, emission, writer>>,
         writer.pc \notin {"swap_priority", "report"},
         \/ /\ regular # <<>> /\ regular' = Tail(regular) /\ priority' = priority
            /\ Write(Head(regular))
         \/ /\ priority # <<>> /\ priority' = Tail(priority) /\ regular' = regular
            /\ Write(Head(priority)) \/ WriteThrough(Head(priority))
  PROVE  LossInv'
<1>1. /\ regular \in Seq(Records) /\ Len(regular) \in Nat
      /\ priority \in Seq(Records) /\ Len(priority) \in Nat
      /\ \A i \in 1..Len(regular) : Emitted(regular[i])
      /\ \A i \in 1..Len(priority) : Emitted(priority[i])
  BY CountTypes DEF Typed, Numbers, LossInv, EmittedOK
<1>2. CASE /\ regular # <<>> /\ regular' = Tail(regular) /\ priority' = priority
           /\ Write(Head(regular))
  <2>1. /\ Len(regular) = Len(regular') + 1 /\ Len(regular') \in Nat
        /\ \A i \in 1..Len(regular') : Emitted(regular'[i])
        /\ Head(regular) \in Records /\ Emitted(Head(regular))
    BY <1>1, <1>2, HeadTaken
  <2>2. Queued = Queued' + 1 /\ Queued' \in Int
    <3>1. /\ Len(priority') = Len(priority) /\ Len(priority) \in Nat
          /\ Len(regular) = Len(regular') + 1 /\ Len(regular') \in Nat
      BY <1>1, <1>2, <2>1
    <3> QED
      BY <3>1 DEF Queued
  <2> QED
    BY <1>1, <1>2, <2>1, <2>2, LossTake
<1>3. CASE /\ priority # <<>> /\ priority' = Tail(priority) /\ regular' = regular
           /\ Write(Head(priority)) \/ WriteThrough(Head(priority))
  <2>1. /\ Len(priority) = Len(priority') + 1 /\ Len(priority') \in Nat
        /\ \A i \in 1..Len(priority') : Emitted(priority'[i])
        /\ Head(priority) \in Records /\ Emitted(Head(priority))
    BY <1>1, <1>3, HeadTaken
  <2>2. Queued = Queued' + 1 /\ Queued' \in Int
    <3>1. /\ Len(regular') = Len(regular) /\ Len(regular) \in Nat
          /\ Len(priority) = Len(priority') + 1 /\ Len(priority') \in Nat
      BY <1>1, <1>3, <2>1
    <3> QED
      BY <3>1 DEF Queued
  <2> QED
    BY <1>1, <1>3, <2>1, <2>2, LossTake
<1> QED
  BY <1>2, <1>3

\* The counters move to the writer one after the other.
LEMMA LossSwap ==
  ASSUME DiagnosticsInv, LossInv, SwapRegular \/ SwapPriority
  PROVE  LossInv'
<1>0. Numbers /\ Typed /\ RecordsAddUp /\ LossesAddUp
  BY CountTypes DEF LossInv
<1>1. writer \in [pc : WriterPlaces, command : Commands \cup {None}, swapped : Nat]
  BY <1>0 DEF Typed
<1>2. /\ Pending' = Pending /\ writer'.pc \in {"swap_priority", "report"}
      /\ UNCHANGED <<dropped_total, shutdown, queues, store, emission>>
  <2>1. CASE SwapRegular
    <3>1. /\ writer'.swapped = dropped_regular /\ dropped_regular' = 0
          /\ dropped_priority' = dropped_priority /\ writer.swapped = 0
          /\ writer'.pc = "swap_priority"
          /\ UNCHANGED <<dropped_total, shutdown, queues, store, emission>>
      BY <1>1, <2>1 DEF SwapRegular, LossInv, At
    <3> QED
      BY <1>0, <3>1 DEF Numbers, Pending
  <2>2. CASE SwapPriority
    <3>1. /\ writer'.swapped = writer.swapped + dropped_priority /\ dropped_priority' = 0
          /\ dropped_regular' = dropped_regular
          /\ writer'.pc = "report"
          /\ UNCHANGED <<dropped_total, shutdown, queues, store, emission>>
      BY <1>1, <2>2 DEF SwapPriority
    <3> QED
      BY <1>0, <3>1 DEF Numbers, Pending
  <2> QED
    BY <2>1, <2>2
<1>3. EmittedOK' /\ dropped_total' \in Nat /\ IsFiniteSet(Reported(file))'
  BY <1>2 DEF LossInv, EmittedOK, queues, store, emission
<1>4. Held' = Held /\ Losing' = Losing /\ Written' = Written /\ Queued' = Queued
  BY <1>2 DEF Held, Losing, Between, Written, Queued, emission, store, queues
<1>5. RecordsAddUp' /\ LossesAddUp'
  BY <1>0, <1>2, <1>4 DEF RecordsAddUp, LossesAddUp, store, emission
<1> QED
  BY <1>2, <1>3, <1>5 DEF LossInv

\* The report of what was swapped; its record reports as many losses.
LEMMA LossReport ==
  ASSUME DiagnosticsInv, LossInv, ReportAndFlush
  PROVE  LossInv'
<1> DEFINE r == Record(0, None, "priority", sensitive, writer.swapped)
<1>0. Numbers /\ Typed /\ RecordsAddUp /\ LossesAddUp
  BY CountTypes DEF LossInv
<1>1. /\ IF writer.swapped = 0 THEN Flush ELSE WriteThrough(r)
      /\ UNCHANGED <<drops, shutdown, queues, emission>>
      /\ writer' = [writer EXCEPT !.pc = IF writer.command = None THEN "select" ELSE "reply",
                                  !.swapped = 0]
      /\ writer \in [pc : WriterPlaces, command : Commands \cup {None}, swapped : Nat]
  BY <1>0 DEF ReportAndFlush, Typed
<1>2. writer'.swapped = 0
  BY <1>1
<1>3. r \in Records /\ r.drops = writer.swapped /\ r.thread = None
  BY <1>0 DEF Record, Records, Typed, Numbers
<1> HIDE DEF r
<1>4. /\ IsFiniteSet(Reported(file))'
      /\ sink' = "open" =>
           /\ sink = "open"
           /\ Written' = Written
           /\ Cardinality(Reported(file))' = Cardinality(Reported(file)) + writer.swapped
  <2>1. CASE writer.swapped = 0 /\ Flush
    <3>1. file' = file /\ (sink' = "open" => sink = "open")
      BY <2>1, FlushKeepsFile, <1>0 DEF Flush, Disabled
    <3>2. Written' = Written /\ Reported(file)' = Reported(file)
      BY <3>1 DEF Written
    <3> QED
      BY <1>0, <2>1, <3>1, <3>2 DEF LossInv, Numbers
  <2>2. CASE WriteThrough(r)
    <3>1. Bit(r.thread # None) = 0
      BY <1>3 DEF Bit
    <3> QED
      BY <1>3, <2>2, <3>1, LossFile
  <2> QED
    BY <1>1, <2>1, <2>2
<1>5. EmittedOK' /\ dropped_total' \in Nat
  BY <1>1 DEF LossInv, EmittedOK, drops, queues, emission
<1>6. /\ Held' = Held /\ Losing' = Losing /\ Queued' = Queued
      /\ dropped_total' = dropped_total /\ shutdown' = shutdown /\ issued' = issued
      /\ dropped_regular' = dropped_regular /\ dropped_priority' = dropped_priority
  BY <1>1 DEF Held, Losing, Between, Queued, drops, queues, emission
<1>7. RecordsAddUp'
  BY <1>0, <1>4, <1>6 DEF RecordsAddUp
<1>8. LossesAddUp'
  <2>1. Pending = writer.swapped + Pending'
    BY <1>0, <1>2, <1>6 DEF Pending, Numbers
  <2>2. Pending' \in Nat
    BY <1>0, <1>2, <1>6 DEF Pending, Numbers
  <2>3. sink' = "open" => Cardinality(Reported(file))' + Pending' = Cardinality(Reported(file)) + Pending
    BY <1>0, <1>4, <2>1, <2>2 DEF Numbers
  <2> QED
    BY <1>0, <1>4, <1>6, <2>3 DEF LossesAddUp
<1> QED
  BY <1>2, <1>4, <1>5, <1>7, <1>8 DEF LossInv

\* The other steps of the writer move it only.
LEMMA LossWriterMoves ==
  ASSUME DiagnosticsInv, LossInv, TakeCommand \/ Tick \/ Reply
  PROVE  LossInv'
<1>1. writer \in [pc : WriterPlaces, command : Commands \cup {None}, swapped : Nat]
  BY CountTypes DEF Typed
<1>2. CASE TakeCommand
  BY <1>1, <1>2, LossFrame DEF TakeCommand, At
<1>3. CASE Tick
  BY <1>1, <1>3, LossFrame DEF Tick, At, Goto
<1>4. CASE Reply
  <2>1. writer.swapped = 0
    BY <1>4 DEF Reply, At, LossInv
  <2> QED
    BY <1>1, <1>4, <2>1, LossFrame DEF Reply, At
<1> QED
  BY <1>2, <1>3, <1>4

\* The end of a queue that is drained.
LEMMA LossDrained ==
  ASSUME DiagnosticsInv, LossInv, DrainPriority \/ DrainRegular
  PROVE  LossInv'
<1>1. writer \in [pc : WriterPlaces, command : Commands \cup {None}, swapped : Nat]
  BY CountTypes DEF Typed
<1>2. CASE DrainPriority /\ priority # <<>>
  BY <1>2, LossTakes DEF DrainPriority, At
<1>3. CASE DrainPriority /\ priority = <<>>
  BY <1>1, <1>3, LossFrame DEF DrainPriority, At, Goto, queues
<1>4. CASE DrainRegular /\ regular # <<>>
  BY <1>4, LossTakes DEF DrainRegular, At
<1>5. CASE DrainRegular /\ regular = <<>>
  BY <1>1, <1>5, LossFrame DEF DrainRegular, At, Goto, queues
<1> QED
  BY <1>2, <1>3, <1>4, <1>5

LEMMA LossStep ==
  ASSUME DiagnosticsInv, LossInv, [Next]_vars
  PROVE  LossInv'
<1>1. CASE \E t \in Emitters, lvl \in Levels : Emit(t, lvl)
  <2>1. Emitters \subseteq Threads
    BY DEF Threads
  <2> QED
    BY <1>1, <2>1, LossBuild DEF Emit
<1>2. CASE \E t \in Threads : Check(t) \/ Send(t) \/ CountTotal(t)
  BY <1>2, LossCheck, LossSend, LossCountTotal
<1>3. CASE TakePriority \/ TakeRegular
  BY <1>3, LossTakes DEF TakePriority, TakeRegular, At
<1>4. CASE DrainPriority \/ DrainRegular \/ SwapRegular \/ SwapPriority \/ ReportAndFlush
  BY <1>4, LossDrained, LossSwap, LossReport
<1>5. CASE TakeCommand \/ Tick \/ Reply
  BY <1>5, LossWriterMoves
<1>6. CASE BackendEvent
  <2>1. Backend \in Threads
    BY DEF Threads
  <2> QED
    BY <1>6, <2>1, LossBuild DEF BackendEvent
<1>7. CASE \/ \E mode \in Modes : StoreLevel(mode)
           \/ Export \/ Stop \/ StoreSensitive \/ StoreEver \/ SendFlush \/ FlushReturns
           \/ Sizes \/ Manifest \/ StopSwap \/ SendStop \/ StopReturns \/ Join
  <2>1. UNCHANGED <<drops, queues, store, writer, emission>> /\ (shutdown => shutdown')
    BY <1>7 DEF StoreLevel, Export, Stop, StoreSensitive, StoreEver, SendFlush, SendCommand,
      FlushReturns, Sizes, Manifest, StopSwap, SendStop, StopReturns, Join
  <2> QED
    BY <2>1, LossFrame
<1>8. CASE UNCHANGED vars
  BY <1>8, LossFrame DEF vars
<1> QED
  BY <1>1, <1>2, <1>3, <1>4, <1>5, <1>6, <1>7, <1>8 DEF Next, WriterStep, BackendStep

LEMMA LossInit == Init => LossInv
<1> SUFFICES ASSUME Init PROVE LossInv
  OBVIOUS
<1>1. /\ regular = <<>> /\ priority = <<>> /\ file = <<>>
      /\ phase = [t \in Threads |-> "idle"] /\ issued = 0
      /\ dropped_regular = 0 /\ dropped_priority = 0 /\ dropped_total = 0
      /\ writer.swapped = 0
  BY DEF Init
<1>2. Len(regular) = 0 /\ Len(priority) = 0 /\ Len(file) = 0 /\ 1..0 = {}
  BY <1>1
<1>3. EmittedOK
  BY <1>1, <1>2 DEF EmittedOK
<1>4. Reported(file) = {} /\ Written = 0
  BY <1>2, FS_EmptySet DEF Reported, Written
<1>5. Held = 0 /\ Losing = 0
  <2>1. /\ {t \in Threads : phase[t] \in {"check", "send"}} = {}
        /\ {t \in Threads : phase[t] \in {"total"}} = {}
    BY <1>1
  <2> QED
    BY <2>1, FS_EmptySet DEF Held, Losing, Between
<1>6. Queued = 0 /\ Pending = 0
  BY <1>1, <1>2 DEF Queued, Pending
<1>7. IsFiniteSet(Reported(file)) /\ Cardinality(Reported(file)) = 0
  BY <1>4, FS_EmptySet
<1> QED
  BY <1>1, <1>3, <1>4, <1>5, <1>6, <1>7 DEF LossInv, RecordsAddUp, LossesAddUp

LEMMA LossesCounted ==
  ASSUME DiagnosticsInv, LossInv
  PROVE  NoSilentLoss
<1>1. Numbers /\ Typed /\ RecordsAddUp /\ LossesAddUp
  BY CountTypes DEF LossInv
<1>2. Held \in Nat /\ Losing \in Nat /\ Written \in Nat
  <2>1. IsFiniteSet(Threads)
    BY DiagnosticsAssumption, FS_AddElement DEF Threads
  <2>2. /\ {u \in Threads : phase[u] \in {"check", "send"}} \in SUBSET Threads
        /\ {u \in Threads : phase[u] \in {"total"}} \in SUBSET Threads
    OBVIOUS
  <2>3. /\ {i \in 1..Len(file) : file[i].thread # None} \in SUBSET (1..Len(file))
        /\ IsFiniteSet(1..Len(file))
    <3>1. Len(file) \in Nat
      BY <1>1, LenProperties DEF Typed
    <3> QED
      BY <3>1, FS_Interval
  <2>4. Held \in Nat /\ Losing \in Nat
    BY <2>1, <2>2, FS_Subset, FS_CardinalityType DEF Held, Losing, Between
  <2>5. Written \in Nat
    BY <2>3, FS_Subset, FS_CardinalityType DEF Written
  <2> QED
    BY <2>4, <2>5
<1>3. EveryRecordAccounted
  <2>1. Held + Queued + Written + Losing + dropped_total
          = Held + Len(regular) + Len(priority) + Written + Losing + dropped_total
    <3>1. Held + Queued = Held + Len(regular) + Len(priority)
      BY <1>1, <1>2 DEF Numbers, Queued
    <3> QED
      BY <3>1
  <2> QED
    BY <1>1, <2>1 DEF RecordsAddUp, EveryRecordAccounted, Held, Losing
<1>4. DropsAreReported
  <2>1. Cardinality(Reported(file)) + Pending
          = Cardinality(Reported(file)) + writer.swapped + dropped_regular + dropped_priority
    BY <1>1 DEF Numbers, Pending
  <2> QED
    BY <1>1, <2>1 DEF LossesAddUp, DropsAreReported, Losing
<1> QED
  BY <1>3, <1>4 DEF NoSilentLoss

\* What is lost is known, to the user interface and in the file: while the log
\* works, each record that was built is in the hand of its thread, in a queue, in the
\* file or in dropped_total, and the losses that the file reports agree with that
\* number, although the writer swaps the counters one by one while threads add to them.
THEOREM NothingIsLostSilently == Spec => []NoSilentLoss
<1>1. DiagnosticsInv /\ LossInv /\ [Next]_vars => LossInv'
  BY LossStep
<1>2. DiagnosticsInv /\ LossInv => NoSilentLoss
  BY LossesCounted
<1>3. DiagnosticsInv /\ [Next]_vars => DiagnosticsInv'
  BY DiagnosticsStep
<1> QED
  BY DiagnosticsInit, LossInit, <1>1, <1>2, <1>3, PTL DEF Spec

=============================================================================
